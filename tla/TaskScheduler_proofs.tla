------------------------ MODULE TaskScheduler_proofs ------------------------
(***************************************************************************)
(* The safety properties of the scheduler as theorems, for every set of    *)
(* graphs and nodes, every table of definitions that the policy accepts,   *)
(* and every number of crashes and failed writes.                          *)
(*                                                                         *)
(* The first half says what one step may do.  Control relates pc to the    *)
(* node it serves and GraphControl to the graph; both are inductive by     *)
(* themselves.  NodeMove, AttemptMove, GraphMove, FilesMove, OwnerMove and *)
(* RanMove say what a step does to each part of the state, whichever       *)
(* action took it: the second half proves the properties from these        *)
(* without looking at most actions again.                                  *)
(*                                                                         *)
(* Each property is strengthened to an invariant that is inductive beside  *)
(* Control and GraphControl: AttemptBudget is so already, DependenciesFirst*)
(* needs NeverInterrupted, ResultBeforeState needs Receipts, ApprovedByUser*)
(* needs Consent, TypeOK needs Provenance, OneLlmOneWriter and TurnIsOwned *)
(* need LeaseInv, and NoReplay needs ReplayInv and a host that lives.      *)
(*                                                                         *)
(* The last part is about AgentEvidence: the buffer of what the Agent      *)
(* printed, from which gates and readers take bytes by their offsets.      *)
(***************************************************************************)
EXTENDS TaskScheduler, AgentEvidence, WellFoundedInduction, FiniteSetTheorems,
        FunctionTheorems, SequenceTheorems, TLAPS

(* Between the lease and attempt.started the node stays leased.            *)
LeasedLabels == {"begin", "request", "started", "defer"}

(* The labels at which pc.n is the node that is served.                    *)
NodeLabels ==
  LeasedLabels \cup
  {"result", "ended", "followup", "waiting", "approve_result", "approve_node",
   "cancelling_node", "cancel_node"}

(* A step of what a dead host has left is not seen by the host.            *)
LeftStep == \E x \in left : LeftCalls(x) \/ LeftEnds(x)

seen == <<durable, volatile, pc, crashes, faults>>

Control ==
  /\ nst \in [Nodes -> NodeStates]
  /\ attempts \in [Nodes -> Nat]
  /\ pc \in [at : Labels, g : Graphs \cup {0}, n : Nodes \cup {0}, tick : BOOLEAN]
  /\ pc.at \in NodeLabels => pc.n \in Nodes
  /\ pc.at \in LeasedLabels => nst[pc.n] = "LEASED"
-----------------------------------------------------------------------------
LEMMA Unseen ==
  ASSUME LeftStep \/ UNCHANGED vars
  PROVE  UNCHANGED seen
<1>1. CASE LeftStep
  BY <1>1 DEF LeftStep, LeftCalls, LeftEnds, seen
<1>2. CASE UNCHANGED vars
  BY <1>2 DEF seen, vars, rest
<1>3. QED
  BY <1>1, <1>2

LEMMA NatWellFounded == IsWellFoundedOn({ss \in Nat \X Nat : ss[1] < ss[2]}, Nat)
  BY NatLessThanWellFounded DEF OpToRel

(* The first element of a set is one of its elements.                      *)
LEMMA FirstIn ==
  ASSUME NEW S \in SUBSET Nat, S # {}
  PROVE  First(S) \in S
<1> DEFINE R == {ss \in Nat \X Nat : ss[1] < ss[2]}
<1>1. PICK x \in S : \A y \in S : ~ (<<y, x>> \in R)
  BY NatWellFounded, WFMin, Zenon
<1>2. ASSUME NEW y \in S PROVE x <= y
  <2>1. <<y, x>> \in Nat \X Nat
    OBVIOUS
  <2>2. ~(<<y, x>>[1] < <<y, x>>[2])
    BY <1>1, <2>1
  <2>3. QED
    BY <2>2
<1>3. QED
  BY <1>2 DEF First

LEMMA UpTo ==
  ASSUME NEW k \in Nat
  PROVE  IsFiniteSet(1 .. k) /\ Cardinality(1 .. k) = k
<1>1. 1 \in Int /\ k \in Int
  OBVIOUS
<1>2. IsFiniteSet(1 .. k) /\ Cardinality(1 .. k) = IF 1 > k THEN 0 ELSE k - 1 + 1
  BY <1>1, FS_Interval
<1>3. (IF 1 > k THEN 0 ELSE k - 1 + 1) = k
  OBVIOUS
<1> QED
  BY <1>2, <1>3

(* The first node of a set is one of them.                                 *)
LEMMA FirstNode ==
  ASSUME NEW S \in SUBSET Nodes, S # {}
  PROVE  First(S) \in S
  BY FirstIn, NumbersAssumption

(* Where the tick goes on, and where a request that gave up ends.          *)
LEMMA VisitControl ==
  ASSUME NEW S \in SUBSET Graphs, Visit(S)
  PROVE  /\ pc' \in [at : {"idle", "cancel", "poll", "init"}, g : Graphs \cup {0},
                     n : {0}, tick : BOOLEAN]
<1>1. CASE S = {}
  BY <1>1 DEF Visit, Idle
<1>2. CASE S # {}
  <2>1. First(S) \in Graphs
    BY <1>2, FirstIn, NumbersAssumption
  <2>2. QED
    BY <1>2, <2>1, Zenon DEF Visit
<1>3. QED
  BY <1>1, <1>2

(* The same for a graph that is left.                                      *)
LEMMA LeaveControl ==
  ASSUME Leave
  PROVE  pc' \in [at : {"idle", "cancel", "poll", "init"}, g : Graphs \cup {0},
                  n : {0}, tick : BOOLEAN]
<1> DEFINE S == IF pc.tick THEN {h \in Graphs : h > pc.g /\ Active(h)} ELSE {}
<1>1. S \in SUBSET Graphs
  OBVIOUS
<1>2. Visit(S)
  BY DEF Leave
<1> HIDE DEF S
<1>3. QED
  BY <1>1, <1>2, VisitControl

(* What SetNode does, by the table of transitions.                         *)
LEMMA SetNodeMoves ==
  ASSUME Control, NEW n \in Nodes, NEW s \in NodeStates, SetNode(n, s)
  PROVE  /\ nst' \in [Nodes -> NodeStates]
         /\ nst'[n] = s
         /\ s = nst[n] \/ s \in NodeSuccessors(nst[n])
         /\ \A m \in Nodes : m # n => nst'[m] = nst[m]
  BY DEF Control, SetNode, NodeMayGo
-----------------------------------------------------------------------------
(* A verdict is recorded by the tick or by the approval that has reached   *)
(* the node, and is the one of its executor.                               *)
Verdict(n, s) ==
  /\ pc.n = n
  /\ \/ pc.at = "ended" /\ (s = "SUCCEEDED" <=> exec[n] = "ok")
     \/ pc.at = "approve_node" /\ s = "SUCCEEDED"

(* A node is given back by the dispatch that could not begin its attempt.  *)
Deferred(n) == pc.at = "defer" /\ pc.n = n /\ nst[n] = "LEASED"

(* A node whose effects must not be repeated is only tried again when the  *)
(* host has seen no tool call.                                             *)
Again(n) == OnceOnly(n) => ProvenNoEffect(n)

(* What one step may do to a node.                                         *)
NodeMove(n) ==
  \/ nst'[n] = nst[n]
  \/ /\ nst'[n] \in NodeSuccessors(nst[n]) \ {"INTERRUPTED"}
     /\ nst'[n] = "READY" => nst[n] = "PAUSED" \/ Unblocks(n) \/ Deferred(n)
     /\ nst'[n] = "WAITING_APPROVAL" => pc.at = "waiting" /\ pc.n = n
     /\ nst[n] = "FAILED" => attempts[n] < Def[n].max /\ Again(n)
     /\ nst'[n] \in {"SUCCEEDED", "FAILED"} => Verdict(n, nst'[n])
     /\ nst'[n] = "LEASED" => pc.at = "dispatch" /\ n \in NodesOf(pc.g)
     /\ nst'[n] = "RUNNING" => attempts'[n] = attempts[n] + 1

NodeMoves == nst' \in [Nodes -> NodeStates] /\ \A n \in Nodes : NodeMove(n)

(* A step that writes no node.                                             *)
LEMMA NoMove ==
  ASSUME Control, nst' = nst
  PROVE  NodeMoves
  BY DEF Control, NodeMoves, NodeMove

(* A step that writes one node, under the conditions of NodeMove.          *)
LEMMA MoveBy ==
  ASSUME Control, NEW m \in Nodes, NEW s \in NodeStates \ {"INTERRUPTED"},
         SetNode(m, s),
         s = "READY" => nst[m] = "PAUSED" \/ Unblocks(m) \/ Deferred(m),
         s = "WAITING_APPROVAL" => pc.at = "waiting" /\ pc.n = m,
         s = "PENDING" /\ nst[m] = "FAILED" => attempts[m] < Def[m].max /\ Again(m),
         s \in {"SUCCEEDED", "FAILED"} => Verdict(m, s),
         s = "LEASED" => pc.at = "dispatch" /\ m \in NodesOf(pc.g),
         s = "RUNNING" => attempts'[m] = attempts[m] + 1
  PROVE  NodeMoves
<1>1. /\ nst' \in [Nodes -> NodeStates]
      /\ nst'[m] = s
      /\ s = nst[m] \/ s \in NodeSuccessors(nst[m])
      /\ \A n \in Nodes : n # m => nst'[n] = nst[n]
  BY SetNodeMoves
<1>2. nst[m] = "FAILED" /\ s # nst[m] => s = "PENDING"
  BY <1>1 DEF NodeSuccessors
<1>3. NodeMove(m)
  BY <1>1, <1>2 DEF NodeMove
<1>4. \A n \in Nodes : NodeMove(n)
  BY <1>1, <1>3 DEF NodeMove
<1>5. QED
  BY <1>1, <1>4 DEF NodeMoves

(* The states that steps write are states, and not INTERRUPTED.            *)
LEMMA SomeStates ==
  /\ {"PENDING", "READY", "LEASED", "RUNNING", "WAITING_APPROVAL", "PAUSED",
      "CANCELLING", "SUCCEEDED", "FAILED", "CANCELLED", "BLOCKED", "SKIPPED"}
     \subseteq NodeStates \ {"INTERRUPTED"}
  BY DEF NodeStates

(* Every step moves nodes as NodeMove says.                                *)
LEMMA NextMoves ==
  ASSUME Control, Next
  PROVE  NodeMoves
<1> USE SomeStates
<1>1. CASE InitNode
  <2>1. First(Drafts(pc.g)) \in Drafts(pc.g)
    BY <1>1, FirstNode DEF InitNode, Drafts, NodesOf
  <2>2. First(Drafts(pc.g)) \in Nodes /\ nst[First(Drafts(pc.g))] = "DRAFT"
    BY <2>1 DEF Drafts, NodesOf
  <2>3. QED
    BY <1>1, <2>2, MoveBy DEF InitNode
<1>2. CASE EndAttempt
  BY <1>2, MoveBy DEF EndAttempt, Control, NodeLabels, At, Verdict
<1>3. CASE FollowUpNode
  <2>1. pc.n \in Nodes
    BY <1>3 DEF FollowUpNode, Control, NodeLabels, At
  <2>2. attempts[pc.n] < Def[pc.n].max /\ Again(pc.n)
    BY <1>3 DEF FollowUpNode, GoalGoesOn, MayRetry, Again, OnceOnly
  <2>3. QED
    BY <1>3, <2>1, <2>2, MoveBy DEF FollowUpNode
<1>4. CASE Recompute
  <2> DEFINE n == First(Changing(pc.g))
             s == IF Blocks(n) THEN "BLOCKED"
                  ELSE IF nst[n] = "BLOCKED" THEN "PENDING" ELSE "READY"
  <2>1. n \in Changing(pc.g)
    BY <1>4, FirstNode DEF Recompute, Changing, NodesOf
  <2>2. n \in Nodes /\ (Blocks(n) \/ Unblocks(n))
    BY <2>1 DEF Changing, NodesOf
  <2>3. SetNode(n, s)
    BY <1>4 DEF Recompute
  <2>4. s = "READY" => Unblocks(n)
    BY <2>2
  <2>5. s = "PENDING" => nst[n] # "FAILED"
    OBVIOUS
  <2>6. /\ s \in NodeStates \ {"INTERRUPTED"}
        /\ s \notin {"SUCCEEDED", "FAILED", "LEASED", "RUNNING", "WAITING_APPROVAL"}
    OBVIOUS
  <2> HIDE DEF n, s
  <2>7. QED
    BY <2>2, <2>3, <2>4, <2>5, <2>6, MoveBy
<1>5. CASE Lease
  <2>1. PICK n \in Candidates(pc.g) : SetNode(n, "LEASED")
    BY <1>5 DEF Lease
  <2>2. n \in Nodes /\ n \in NodesOf(pc.g)
    BY <2>1 DEF Candidates, NodesOf
  <2>3. QED
    BY <1>5, <2>1, <2>2, MoveBy DEF Lease, At
<1>6. CASE StartAttempt
  BY <1>6, MoveBy DEF StartAttempt, Control, NodeLabels, LeasedLabels, At
<1>7. CASE WaitForApproval
  BY <1>7, MoveBy DEF WaitForApproval, Control, NodeLabels, At
<1>8. CASE Defer
  <2>1. pc.n \in Nodes /\ nst[pc.n] = "LEASED"
    BY <1>8 DEF Defer, Control, NodeLabels, LeasedLabels, At
  <2>2. QED
    BY <1>8, <2>1, MoveBy DEF Defer, Deferred, At
<1>9. CASE PauseNode
  <2>1. First(ReadyIn(pc.g)) \in ReadyIn(pc.g)
    BY <1>9, FirstNode DEF PauseNode, ReadyIn, NodesOf
  <2>2. First(ReadyIn(pc.g)) \in Nodes
    BY <2>1 DEF ReadyIn, NodesOf
  <2>3. QED
    BY <1>9, <2>2, MoveBy DEF PauseNode
<1>10. CASE CancelMark
  <2>1. First(Living(pc.g)) \in Living(pc.g)
    BY <1>10, FirstNode DEF CancelMark, Living, NodesOf
  <2>2. First(Living(pc.g)) \in Nodes
    BY <2>1 DEF Living, NodesOf
  <2>3. QED
    BY <1>10, <2>2, MoveBy DEF CancelMark
<1>11. CASE CancelEnd
  <2>1. First(Living(pc.g)) \in Living(pc.g)
    BY <1>11, FirstNode DEF CancelEnd, Living, NodesOf
  <2>2. First(Living(pc.g)) \in Nodes
    BY <2>1 DEF Living, NodesOf
  <2>3. QED
    BY <1>11, <2>2, MoveBy DEF CancelEnd
<1>12. ASSUME NEW g \in Graphs, Resume(g)
       PROVE  NodeMoves
  <2> DEFINE F == {n \in Goals(g) : nst[n] = "FAILED"}
  <2>1. CASE F = {}
    BY <1>12, <2>1, NoMove DEF Resume
  <2>2. CASE F # {}
    <3>1. First(F) \in F
      BY <2>2, FirstNode DEF Goals, NodesOf
    <3>2. /\ First(F) \in Nodes /\ attempts[First(F)] < Def[First(F)].max
          /\ Again(First(F))
      BY <1>12, <3>1 DEF Resume, Goals, NodesOf, Again, OnceOnly
    <3>3. SetNode(First(F), "PENDING")
      BY <1>12, <2>2 DEF Resume
    <3> HIDE DEF F
    <3>4. QED
      BY <3>2, <3>3, MoveBy
  <2>3. QED
    BY <2>1, <2>2
<1>13. CASE ResumeGate
  <2>1. First(WaitingGates(pc.g)) \in WaitingGates(pc.g)
    BY <1>13, FirstNode DEF ResumeGate, WaitingGates, NodesOf
  <2>2. /\ First(WaitingGates(pc.g)) \in Nodes
        /\ nst[First(WaitingGates(pc.g))] = "BLOCKED"
    BY <2>1 DEF WaitingGates, NodesOf
  <2>3. QED
    BY <1>13, <2>2, MoveBy DEF ResumeGate
<1>14. CASE Thaw
  <2>1. First(PausedIn(pc.g)) \in PausedIn(pc.g)
    BY <1>14, FirstNode DEF Thaw, PausedIn, NodesOf
  <2>2. First(PausedIn(pc.g)) \in Nodes /\ nst[First(PausedIn(pc.g))] = "PAUSED"
    BY <2>1 DEF PausedIn, NodesOf
  <2>3. QED
    BY <1>14, <2>2, MoveBy DEF Thaw
<1>15. CASE NodeApproved
  BY <1>15, MoveBy DEF NodeApproved, Control, NodeLabels, At, Verdict
<1>16. CASE NodeCancelling
  BY <1>16, MoveBy DEF NodeCancelling, Control, NodeLabels, At
<1>17. CASE NodeCancelled
  BY <1>17, MoveBy DEF NodeCancelled, Control, NodeLabels, At
<1>18. ASSUME NEW n \in Nodes, Retry(n)
       PROVE  NodeMoves
  BY <1>18, MoveBy DEF Retry, Again, OnceOnly
<1>19. ASSUME NEW n \in Nodes, Skip(n)
       PROVE  NodeMoves
  BY <1>19, MoveBy DEF Skip
<1>20. CASE Environment \/ WriteFails \/ Crash \/ \E g \in Graphs : Load(g)
  <2>1. nst' = nst
    BY <1>20 DEF Environment, ToolCall, WatchdogTrips, ProcessExits, TurnError,
                 Waiting, AgentReady, AgentDies, UserTurn,
                 LeftCalls, LeftEnds, WriteFails, Crash, Load,
                 durable
  <2>2. QED
    BY <2>1, NoMove
<1>21. CASE Tick \/ InitDone \/ Poll \/ PollDone \/ WriteResult \/ FollowUpGraph
            \/ FollowUpNone \/ RecomputeDone \/ NothingToLease \/ WritePolicy
            \/ Launch \/ GraphWaits \/ Dispatched \/ Finalize \/ PauseGraph
            \/ NotSettled \/ CancelGraph
  <2>1. nst' = nst
    BY <1>21 DEF Tick, InitDone, Poll, PollDone, WriteResult, FollowUpGraph,
                 FollowUpNone, RecomputeDone, NothingToLease, WritePolicy, Launch,
                 GraphWaits, Dispatched, Finalize, PauseGraph, NotSettled,
                 CancelGraph, durable, onlyGraph
  <2>2. QED
    BY <2>1, NoMove
<1>22. CASE ResumeGraph \/ Thawed \/ GraphApproved \/ ApprovalResult \/ ApprovalResumes
  <2>1. nst' = nst
    BY <1>22 DEF ResumeGraph, Thawed, GraphApproved, ApprovalResult, ApprovalResumes,
                 durable, onlyGraph
  <2>2. QED
    BY <2>1, NoMove
<1>23. ASSUME NEW g \in Graphs, Start(g) \/ Pause(g) \/ Cancel(g) \/ ApproveGraph(g)
       PROVE  NodeMoves
  <2>1. nst' = nst
    BY <1>23 DEF Start, Pause, Cancel, ApproveGraph, onlyGraph
  <2>2. QED
    BY <2>1, NoMove
<1>24. ASSUME NEW n \in Nodes, ApproveNode(n) \/ CancelNode(n)
       PROVE  NodeMoves
  <2>1. nst' = nst
    BY <1>24 DEF ApproveNode, CancelNode, durable
  <2>2. QED
    BY <2>1, NoMove
<1>25. QED
  BY <1>1, <1>2, <1>3, <1>4, <1>5, <1>6, <1>7, <1>8, <1>9, <1>10, <1>11, <1>12,
     <1>13, <1>14, <1>15, <1>16, <1>17, <1>18, <1>19, <1>20, <1>21, <1>22, <1>23,
     <1>24 DEF Next, TickStep, RequestStep, Request
-----------------------------------------------------------------------------
(* Only attempt.started counts an attempt, of a node that was leased.      *)
AttemptMove(n) ==
  \/ attempts'[n] = attempts[n]
  \/ attempts'[n] = attempts[n] + 1 /\ nst[n] = "LEASED" /\ nst'[n] = "RUNNING"

(* Every step counts attempts as AttemptMove says.                         *)
LEMMA NextAttempts ==
  ASSUME Control, Next
  PROVE  attempts' \in [Nodes -> Nat] /\ \A n \in Nodes : AttemptMove(n)
<1>1. CASE StartAttempt
  <2>1. pc.n \in Nodes /\ nst[pc.n] = "LEASED"
    BY <1>1 DEF StartAttempt, Control, NodeLabels, LeasedLabels, At
  <2>2. nst'[pc.n] = "RUNNING"
    BY <1>1, <2>1, SetNodeMoves, SomeStates DEF StartAttempt
  <2>3. QED
    BY <1>1, <2>1, <2>2 DEF StartAttempt, AttemptMove, Control
<1>2. CASE ~StartAttempt
  <2>1. TickStep => attempts' = attempts
    BY <1>2
       DEF TickStep, durable, onlyNode, onlyGraph,
           Tick, InitNode, InitDone, Poll, PollDone, WriteResult, EndAttempt,
           FollowUpNode, FollowUpGraph, FollowUpNone, Recompute, RecomputeDone,
           Lease, NothingToLease, WritePolicy, Launch, WaitForApproval, GraphWaits,
           Dispatched, Defer, Finalize, PauseNode, PauseGraph, NotSettled,
           CancelMark, CancelEnd, CancelGraph
  <2>2. RequestStep => attempts' = attempts
    BY DEF RequestStep, durable, onlyNode, onlyGraph,
           ResumeGate, ResumeGraph, Thaw, Thawed, GraphApproved, ApprovalResult,
           NodeApproved, ApprovalResumes, NodeCancelling, NodeCancelled
  <2>3. Request => attempts' = attempts
    BY DEF Request, durable, onlyNode, onlyGraph,
           Start, Pause, Resume, Cancel, ApproveGraph, ApproveNode, Retry, Skip,
           CancelNode
  <2>4. Environment \/ WriteFails \/ Crash \/ (\E g \in Graphs : Load(g))
          => attempts' = attempts
    BY DEF Environment, ToolCall, WatchdogTrips, ProcessExits, TurnError,
           Waiting, AgentReady, AgentDies, UserTurn,
           LeftCalls, LeftEnds, WriteFails, Crash, Load, durable
  <2>5. attempts' = attempts
    BY <2>1, <2>2, <2>3, <2>4 DEF Next
  <2>6. QED
    BY <2>5 DEF Control, AttemptMove
<1>3. QED
  BY <1>1, <1>2
-----------------------------------------------------------------------------
LEMMA ControlInit == Init => Control
  BY DEF Init, Control, Idle, Labels, NodeLabels, LeasedLabels, NodeStates

Typed == [at : Labels, g : Graphs \cup {0}, n : Nodes \cup {0}, tick : BOOLEAN]

(* A step that does not end at a label of the node that is served.         *)
LEMMA ControlAway ==
  ASSUME Control, Next, pc' \in Typed, pc'.at \notin NodeLabels
  PROVE  Control'
  BY NextMoves, NextAttempts DEF Control, Typed, NodeMoves, NodeLabels

(* A step that keeps pc and is taken at another label.                     *)
LEMMA ControlKept ==
  ASSUME Control, Next, pc' = pc, pc.at \notin NodeLabels
  PROVE  Control'
  BY ControlAway DEF Control, Typed

(* A step to a label at which the node need not be leased.                 *)
LEMMA ControlNode ==
  ASSUME Control, Next, pc' \in Typed, pc'.n \in Nodes, pc'.at \notin LeasedLabels
  PROVE  Control'
  BY NextMoves, NextAttempts DEF Control, Typed, NodeMoves

(* A step that leaves the graph.                                           *)
LEMMA ControlLeft ==
  ASSUME Control, Next, Leave
  PROVE  Control'
<1>1. pc' \in [at : {"idle", "cancel", "poll", "init"}, g : Graphs \cup {0},
               n : {0}, tick : BOOLEAN]
  BY LeaveControl
<1>2. pc' \in Typed /\ pc'.at \notin NodeLabels
  BY <1>1 DEF Typed, Labels, Writes, NodeLabels, LeasedLabels
<1>3. QED
  BY <1>2, ControlAway

(* A step that enters the first graph of a tick.                           *)
LEMMA ControlVisit ==
  ASSUME Control, Next, NEW S \in SUBSET Graphs, Visit(S)
  PROVE  Control'
<1>1. pc' \in [at : {"idle", "cancel", "poll", "init"}, g : Graphs \cup {0},
               n : {0}, tick : BOOLEAN]
  BY VisitControl
<1>2. pc' \in Typed /\ pc'.at \notin NodeLabels
  BY <1>1 DEF Typed, Labels, Writes, NodeLabels, LeasedLabels
<1>3. QED
  BY <1>2, ControlAway

(* The three ways in which pc is assigned otherwise.                       *)
LEMMA ControlGo ==
  ASSUME Control, Next, NEW label \in Labels \ LeasedLabels, Go(label),
         label \in NodeLabels => pc.n \in Nodes
  PROVE  Control'
<1>1. pc' \in Typed /\ pc'.at = label /\ pc'.n = pc.n
  BY DEF Go, Control, Typed
<1>2. QED
  BY <1>1, ControlAway, ControlNode

(* See ControlGo.                                                          *)
LEMMA ControlGoTo ==
  ASSUME Control, Next, NEW label \in Labels \ LeasedLabels,
         NEW n \in Nodes \cup {0}, GoTo(label, n), label \in NodeLabels => n \in Nodes
  PROVE  Control'
<1>1. pc' \in Typed /\ pc'.at = label /\ pc'.n = n
  BY DEF GoTo, Control, Typed
<1>2. QED
  BY <1>1, ControlAway, ControlNode

(* See ControlGo.                                                          *)
LEMMA ControlServe ==
  ASSUME Control, Next, NEW label \in Labels \ LeasedLabels, NEW g \in Graphs,
         NEW n \in Nodes \cup {0}, Serve(label, g, n),
         label \in NodeLabels => n \in Nodes
  PROVE  Control'
<1>1. pc' \in Typed /\ pc'.at = label /\ pc'.n = n
  BY DEF Serve, Typed
<1>2. QED
  BY <1>1, ControlAway, ControlNode

(* A step that ends a request or a tick.                                   *)
LEMMA ControlReturn ==
  ASSUME Control, Next, Return
  PROVE  Control'
  BY ControlAway DEF Return, Idle, Typed, Labels, NodeLabels, LeasedLabels

(* A step that gives up the work on a graph.                               *)
LEMMA ControlAbort ==
  ASSUME Control, Next, Abort
  PROVE  Control'
  BY ControlLeft, ControlGo DEF Abort, Labels, Writes, NodeLabels, LeasedLabels

(* A node belongs to a graph.                                              *)
LEMMA GraphOf ==
  ASSUME NEW n \in Nodes
  PROVE  G(n) \in Graphs
  BY DefAssumption DEF G, Definitions

(* The labels of the actions, by the kind of control they need.            *)
LEMMA SomeLabels ==
  /\ {"idle", "init", "poll", "result", "ended", "followup", "ready", "dispatch",
      "waiting", "graph_waits", "dispatched", "finalize", "settle", "pause_graph",
      "cancel", "resume", "thaw", "approve_graph", "approve_result",
      "approve_node", "approve_resume", "cancelling_node", "cancel_node"}
       \subseteq Labels \ LeasedLabels
  /\ NodeLabels \cap
       {"idle", "init", "poll", "ready", "dispatch", "graph_waits", "dispatched",
        "finalize", "settle", "pause_graph", "cancel", "resume", "thaw",
        "approve_graph", "approve_resume"} = {}
  BY DEF Labels, Writes, NodeLabels, LeasedLabels

(* The steps of the tick keep Control.                                     *)
LEMMA ControlTick ==
  ASSUME Control, TickStep
  PROVE  Control'
<1> USE SomeLabels DEF At
<1>0. Next
  BY DEF Next
<1>1. CASE Tick
  <2> DEFINE S == {g \in Graphs : Active(g)}
  <2>1. Visit(S) /\ S \in SUBSET Graphs
    BY <1>1 DEF Tick
  <2> HIDE DEF S
  <2>2. QED
    BY <1>0, <2>1, ControlVisit
<1>2. CASE InitNode \/ Recompute \/ PauseNode \/ CancelMark \/ CancelEnd
  <2>1. pc' = pc /\ pc.at \in {"init", "ready", "settle", "cancel"}
    BY <1>2 DEF InitNode, Recompute, PauseNode, CancelMark, CancelEnd
  <2>2. QED
    BY <1>0, <2>1, ControlKept
<1>3. CASE InitDone
  <2>1. CASE pc.tick
    BY <1>0, <1>3, <2>1, ControlGoTo DEF InitDone
  <2>2. CASE ~pc.tick
    <3> DEFINE S == {g \in Graphs : Active(g)}
    <3>1. Visit(S) /\ S \in SUBSET Graphs
      BY <1>3, <2>2 DEF InitDone
    <3> HIDE DEF S
    <3>2. QED
      BY <1>0, <3>1, ControlVisit
  <2>3. QED
    BY <2>1, <2>2
<1>4. CASE Poll
  <2> DEFINE n == First(NextRunning(pc.g, pc.n))
  <2>1. n \in NextRunning(pc.g, pc.n)
    BY <1>4, FirstNode DEF Poll, NextRunning, NodesOf
  <2>2. n \in Nodes
    BY <2>1 DEF NextRunning, NodesOf
  <2>3. GoTo("poll", n) \/ GoTo("result", n)
    BY <1>4 DEF Poll
  <2> HIDE DEF n
  <2>4. QED
    BY <1>0, <2>2, <2>3, ControlGoTo
<1>5. CASE PollDone \/ RecomputeDone \/ NothingToLease \/ Dispatched
  <2>1. \/ Go("settle") \/ Go("ready") \/ Go("dispatch") \/ Go("finalize")
    BY <1>5 DEF PollDone, RecomputeDone, NothingToLease, Dispatched
  <2>2. QED
    BY <1>0, <2>1, ControlGo
<1>6. CASE WriteResult
  <2>1. pc.n \in Nodes
    BY <1>6 DEF WriteResult, Control, NodeLabels
  <2>2. Abort \/ Go("ended")
    BY <1>6 DEF WriteResult
  <2>3. QED
    BY <1>0, <2>1, <2>2, ControlAbort, ControlGo
<1>7. CASE EndAttempt
  <2>1. pc.n \in Nodes
    BY <1>7 DEF EndAttempt, Control, NodeLabels
  <2>2. Go("poll") \/ Go("followup")
    BY <1>7 DEF EndAttempt
  <2>3. QED
    BY <1>0, <2>1, <2>2, ControlGo
<1>8. CASE FollowUpNode \/ FollowUpGraph \/ FollowUpNone
  <2>1. Go("poll")
    BY <1>8 DEF FollowUpNode, FollowUpGraph, FollowUpNone
  <2>2. QED
    BY <1>0, <2>1, ControlGo
<1>9. CASE Lease
  <2>1. PICK n \in Candidates(pc.g) : SetNode(n, "LEASED") /\ GoTo("begin", n)
    BY <1>9 DEF Lease
  <2>2. n \in Nodes
    BY <2>1 DEF Candidates, NodesOf
  <2>3. nst'[n] = "LEASED"
    BY <2>1, <2>2, SetNodeMoves, SomeStates
  <2>4. pc' \in Typed /\ pc'.n = n
    BY <2>1, <2>2 DEF GoTo, Control, Typed, Labels, Writes
  <2>5. QED
    BY <1>0, <2>2, <2>3, <2>4, NextMoves, NextAttempts DEF Control, NodeMoves, Typed
<1>10. CASE WritePolicy \/ Launch
  <2>1. /\ pc.n \in Nodes /\ nst[pc.n] = "LEASED"
        /\ nst' = nst
    BY <1>10
       DEF WritePolicy, Launch, durable, Control, NodeLabels, LeasedLabels
  <2>2. Go("defer") \/ Go("request") \/ Go("started")
    BY <1>10 DEF WritePolicy, Launch
  <2>3. pc' \in Typed /\ pc'.n = pc.n
    BY <2>2 DEF Go, Control, Typed, Labels, Writes
  <2>4. QED
    BY <1>0, <2>1, <2>3, NextAttempts DEF Control, Typed
<1>11. CASE StartAttempt
  <2>1. pc.n \in Nodes
    BY <1>11 DEF StartAttempt, Control, NodeLabels, LeasedLabels
  <2>2. Go("waiting") \/ Go("dispatched")
    BY <1>11 DEF StartAttempt
  <2>3. QED
    BY <1>0, <2>1, <2>2, ControlGo
<1>12. CASE WaitForApproval \/ GraphWaits
  <2>1. Go("graph_waits") \/ Go("dispatched") \/ Leave
    BY <1>12 DEF WaitForApproval, GraphWaits
  <2>2. QED
    BY <1>0, <2>1, ControlGo, ControlLeft
<1>13. CASE Defer \/ Finalize \/ PauseGraph \/ NotSettled \/ CancelGraph
  <2>1. Leave
    BY <1>13 DEF Defer, Finalize, PauseGraph, NotSettled, CancelGraph
  <2>2. QED
    BY <1>0, <2>1, ControlLeft
<1>14. QED
  BY <1>1, <1>2, <1>3, <1>4, <1>5, <1>6, <1>7, <1>8, <1>9, <1>10, <1>11, <1>12,
     <1>13 DEF TickStep

(* The requests of the user and their steps keep Control.                  *)
LEMMA ControlRequest ==
  ASSUME Control, Request \/ RequestStep
  PROVE  Control'
<1> USE SomeLabels DEF At
<1>0. Next
  BY DEF Next
<1>1. ASSUME NEW g \in Graphs, Start(g) \/ Resume(g) \/ Cancel(g) \/ ApproveGraph(g)
      PROVE  Control'
  <2>1. \/ Serve("init", g, 0) \/ Serve("resume", g, 0) \/ Serve("cancel", g, 0)
        \/ Serve("approve_graph", g, 0)
    BY <1>1 DEF Start, Resume, Cancel, ApproveGraph
  <2>2. QED
    BY <1>0, <2>1, ControlServe
<1>2. ASSUME NEW g \in Graphs, Pause(g)
      PROVE  Control'
  BY <1>0, <1>2, ControlKept DEF Pause
<1>3. ASSUME NEW n \in Nodes, ApproveNode(n) \/ CancelNode(n)
      PROVE  Control'
  <2>1. \/ Serve("approve_result", G(n), n) \/ Serve("cancelling_node", G(n), n)
        \/ Serve("cancel_node", G(n), n)
    BY <1>3 DEF ApproveNode, CancelNode
  <2>2. QED
    BY <1>0, <2>1, ControlServe, GraphOf
<1>4. ASSUME NEW n \in Nodes, Retry(n) \/ Skip(n)
      PROVE  Control'
  BY <1>0, <1>4, ControlKept DEF Retry, Skip
<1>5. CASE ResumeGate \/ Thaw
  BY <1>0, <1>5, ControlKept DEF ResumeGate, Thaw
<1>6. CASE ResumeGraph
  BY <1>0, <1>6, ControlGo DEF ResumeGraph
<1>7. CASE ApprovalResult \/ NodeApproved \/ NodeCancelling
  <2>1. pc.n \in Nodes
    BY <1>7 DEF ApprovalResult, NodeApproved, NodeCancelling, Control, NodeLabels
  <2>2. Return \/ Go("approve_node") \/ Go("approve_resume") \/ Go("cancel_node")
    BY <1>7 DEF ApprovalResult, NodeApproved, NodeCancelling
  <2>3. QED
    BY <1>0, <2>1, <2>2, ControlGo, ControlReturn
<1>8. CASE Thawed \/ GraphApproved \/ ApprovalResumes \/ NodeCancelled
  BY <1>0, <1>8, ControlReturn DEF Thawed, GraphApproved, ApprovalResumes, NodeCancelled
<1>9. QED
  BY <1>1, <1>2, <1>3, <1>4, <1>5, <1>6, <1>7, <1>8 DEF Request, RequestStep

(* The environment, failures and crashes keep Control.                     *)
LEMMA ControlOther ==
  ASSUME Control,
         Environment \/ WriteFails \/ Crash \/ (\E g \in Graphs : Load(g))
  PROVE  Control'
<1> USE SomeLabels DEF At
<1>0. Next
  BY DEF Next
<1>1. CASE Environment \/ \E g \in Graphs : Load(g)
  <2>1. CASE LeftStep
    BY <2>1, Unseen DEF Control, seen, durable
  <2>2. CASE ~LeftStep
    <3>1. pc' = pc /\ pc.at = "idle"
      BY <1>1, <2>2 DEF Environment, ToolCall, WatchdogTrips, ProcessExits, TurnError,
                        Waiting, AgentReady, AgentDies, UserTurn, LeftStep, Load
    <3>2. QED
      BY <1>0, <3>1, ControlKept
  <2>3. QED
    BY <2>1, <2>2
<1>2. CASE Crash
  BY <1>0, <1>2, ControlReturn DEF Crash, Return
<1>3. CASE WriteFails
  <2>1. CASE pc.at \in {"begin", "request"}
    <3>1. Go("defer") /\ nst' = nst
      BY <1>3, <2>1 DEF WriteFails, durable
    <3>2. pc' \in Typed /\ pc'.n = pc.n
      BY <3>1 DEF Go, Control, Typed, Labels, Writes
    <3>3. QED
      BY <1>0, <2>1, <3>1, <3>2, NextAttempts
         DEF Control, Typed, NodeLabels, LeasedLabels
  <2>2. CASE pc.at \notin {"begin", "request"}
    <3>1. Go("pause_graph") \/ Abort \/ Leave
      BY <1>3, <2>2 DEF WriteFails
    <3>2. QED
      BY <1>0, <3>1, ControlGo, ControlAbort, ControlLeft
  <2>3. QED
    BY <2>1, <2>2
<1>4. QED
  BY <1>1, <1>2, <1>3

(* Every step keeps Control.                                               *)
LEMMA ControlNext ==
  ASSUME Control, Next
  PROVE  Control'
  BY ControlTick, ControlRequest, ControlOther DEF Next

(* Control is a predicate of the state.                                    *)
LEMMA ControlStutter ==
  ASSUME Control, UNCHANGED vars
  PROVE  Control'
  BY DEF Control, vars, durable

(* At every moment pc serves a node that exists, and between the lease and *)
(* attempt.started that node is still leased: nobody else touches it.      *)
THEOREM ControlAlways == Spec => []Control
<1>1. Init => Control
  BY ControlInit
<1>2. Control /\ [Next]_vars => Control'
  BY ControlNext, ControlStutter
<1>3. QED
  BY <1>1, <1>2, PTL DEF Spec
-----------------------------------------------------------------------------
(* What the assignments of pc say about its parts.                         *)
LEMMA GoAt ==
  ASSUME Control, NEW label, Go(label)
  PROVE  pc'.at = label /\ pc'.g = pc.g /\ pc'.n = pc.n
  BY DEF Go, Control

(* See GoAt.                                                               *)
LEMMA GoToAt ==
  ASSUME Control, NEW label, NEW n, GoTo(label, n)
  PROVE  pc'.at = label /\ pc'.g = pc.g /\ pc'.n = n
  BY DEF GoTo, Control

(* See GoAt.                                                               *)
LEMMA ServeAt ==
  ASSUME NEW label, NEW g, NEW n, Serve(label, g, n)
  PROVE  pc'.at = label /\ pc'.g = g /\ pc'.n = n
  BY DEF Serve

(* See GoAt.                                                               *)
LEMMA LeaveAt ==
  ASSUME Control, Leave \/ Abort
  PROVE  pc'.at \in {"idle", "cancel", "poll", "init", "settle"}
<1>1. CASE Leave
  BY <1>1, LeaveControl
<1>2. CASE Go("settle")
  BY <1>2, GoAt
<1>3. QED
  BY <1>1, <1>2 DEF Abort

(* Which action leads to the labels where an attempt begins and where a    *)
(* verdict is under way.                                                   *)
Arrivals ==
  /\ pc'.at = "begin" => Lease
  /\ pc'.at = "request" => WritePolicy
  /\ pc'.at = "defer" =>
       pc.at \in {"begin", "request"} /\ pc'.n = pc.n /\ exec' = exec
  /\ pc'.at = "waiting" => StartAttempt /\ Def[pc.n].kind = "approval"
  /\ pc'.at = "result" => Poll
  /\ pc'.at = "ended" => WriteResult
  /\ pc'.at = "followup" => EndAttempt
  /\ pc'.at = "approve_result" => \E n \in Nodes : ApproveNode(n)
  /\ pc'.at = "approve_node" => ApprovalResult
  /\ pc'.at = "approve_graph" => \E g \in Graphs : ApproveGraph(g)

(* Every step of the host arrives as Arrivals says.                        *)
LEMMA NextArrivals ==
  ASSUME Control, Next, ~LeftStep
  PROVE  Arrivals
<1> DEFINE V == {"begin", "request", "defer", "waiting", "result", "ended", "followup",
                 "approve_result", "approve_node", "approve_graph"}
<1> USE DEF At
<1>0. SUFFICES ASSUME pc'.at \in V
               PROVE  Arrivals
  BY DEF Arrivals
<1>1. CASE TickStep
  <2>1. ASSUME Tick PROVE FALSE
    <3> DEFINE S == {g \in Graphs : Active(g)}
    <3>1. Visit(S) /\ S \in SUBSET Graphs
      BY <2>1 DEF Tick
    <3> HIDE DEF S
    <3>2. QED
      BY <1>0, <3>1, VisitControl
  <2>2. ASSUME InitDone PROVE FALSE
    <3>1. CASE pc.tick
      BY <1>0, <2>2, <3>1, GoToAt DEF InitDone
    <3>2. CASE ~pc.tick
      <4> DEFINE S == {g \in Graphs : Active(g)}
      <4>1. Visit(S) /\ S \in SUBSET Graphs
        BY <2>2, <3>2 DEF InitDone
      <4> HIDE DEF S
      <4>2. QED
        BY <1>0, <4>1, VisitControl
    <3>3. QED
      BY <3>1, <3>2
  <2>3. InitNode \/ Recompute \/ PauseNode \/ CancelMark \/ CancelEnd => FALSE
    BY <1>0 DEF InitNode, Recompute, PauseNode, CancelMark, CancelEnd
  <2>4. PollDone \/ RecomputeDone \/ NothingToLease \/ Dispatched
        \/ FollowUpNode \/ FollowUpGraph \/ FollowUpNone => FALSE
    <3>1. ASSUME Go("settle") \/ Go("ready") \/ Go("dispatch") \/ Go("finalize")
                 \/ Go("poll")
          PROVE  FALSE
      BY <1>0, <3>1, GoAt
    <3>2. QED
      BY <3>1 DEF PollDone, RecomputeDone, NothingToLease, Dispatched,
                  FollowUpNode, FollowUpGraph, FollowUpNone
  <2>5. Lease => Arrivals
    BY GoToAt DEF Lease, Arrivals
  <2>6. Launch \/ WaitForApproval => FALSE
    <3>1. ASSUME Go("started") \/ Go("graph_waits")
          PROVE  FALSE
      BY <1>0, <3>1, GoAt
    <3>2. QED
      BY <3>1 DEF Launch, WaitForApproval
  <2>13. StartAttempt => Arrivals
    <3>1. ASSUME StartAttempt
          PROVE  /\ pc'.at \in {"waiting", "dispatched"}
                 /\ pc'.at = "waiting" => Def[pc.n].kind = "approval"
      BY <3>1, GoAt DEF StartAttempt
    <3>2. QED
      BY <3>1 DEF Arrivals
  <2>7. GraphWaits \/ Defer \/ Finalize \/ PauseGraph \/ NotSettled \/ CancelGraph
          => FALSE
    <3>1. ASSUME Go("dispatched") \/ Leave
          PROVE  FALSE
      BY <1>0, <3>1, GoAt, LeaveAt
    <3>2. QED
      BY <3>1 DEF GraphWaits, Defer, Finalize, PauseGraph, NotSettled, CancelGraph
  <2>8. Poll => Arrivals
    <3>1. ASSUME Poll
          PROVE  pc'.at \in {"poll", "result"}
      BY <3>1, GoToAt DEF Poll
    <3>2. QED
      BY <3>1 DEF Arrivals
  <2>9. WriteResult => Arrivals
    <3>1. ASSUME WriteResult
          PROVE  pc'.at \in {"idle", "cancel", "poll", "init", "settle", "ended"}
      BY <3>1, GoAt, LeaveAt DEF WriteResult
    <3>2. QED
      BY <3>1 DEF Arrivals
  <2>10. EndAttempt => Arrivals
    <3>1. ASSUME EndAttempt
          PROVE  pc'.at \in {"poll", "followup"}
      BY <3>1, GoAt DEF EndAttempt
    <3>2. QED
      BY <3>1 DEF Arrivals
  <2>11. WritePolicy => Arrivals
    <3>1. ASSUME WritePolicy
          PROVE  /\ pc'.at \in {"defer", "request"} /\ pc.at = "begin"
                 /\ pc'.n = pc.n /\ exec' = exec
      BY <3>1, GoAt DEF WritePolicy, volatile
    <3>2. QED
      BY <3>1 DEF Arrivals
  <2>12. QED
    BY <1>1, <2>1, <2>2, <2>3, <2>4, <2>5, <2>6, <2>7, <2>8, <2>9, <2>10, <2>11,
       <2>13 DEF TickStep
<1>2. CASE RequestStep
  <2>1. ResumeGate \/ Thaw \/ Thawed \/ GraphApproved \/ ApprovalResumes
        \/ NodeCancelled => FALSE
    BY <1>0 DEF ResumeGate, Thaw, Thawed, GraphApproved, ApprovalResumes,
                NodeCancelled, Return, Idle
  <2>2. ResumeGraph \/ NodeCancelling => FALSE
    BY <1>0, GoAt DEF ResumeGraph, NodeCancelling
  <2>3. NodeApproved => FALSE
    BY <1>0, GoAt DEF NodeApproved, Return, Idle
  <2>4. ApprovalResult => Arrivals
    <3>1. ASSUME ApprovalResult
          PROVE  pc'.at \in {"idle", "approve_node"}
      BY <3>1, GoAt DEF ApprovalResult, Return, Idle
    <3>2. QED
      BY <3>1 DEF Arrivals
  <2>5. QED
    BY <1>2, <2>1, <2>2, <2>3, <2>4 DEF RequestStep
<1>3. CASE Request
  <2>1. ASSUME NEW g \in Graphs,
               Start(g) \/ Pause(g) \/ Resume(g) \/ Cancel(g)
        PROVE  FALSE
    BY <1>0, <2>1, ServeAt DEF Start, Pause, Resume, Cancel
  <2>2. ASSUME NEW n \in Nodes, Retry(n) \/ Skip(n) \/ CancelNode(n)
        PROVE  FALSE
    BY <1>0, <2>2, ServeAt DEF Retry, Skip, CancelNode
  <2>3. ASSUME NEW g \in Graphs, ApproveGraph(g)
        PROVE  Arrivals
    BY <2>3, ServeAt DEF ApproveGraph, Arrivals
  <2>4. ASSUME NEW n \in Nodes, ApproveNode(n)
        PROVE  Arrivals
    BY <2>4, ServeAt DEF ApproveNode, Arrivals
  <2>5. QED
    BY <1>3, <2>1, <2>2, <2>3, <2>4 DEF Request
<1>4. CASE Environment \/ \E g \in Graphs : Load(g)
  <2>1. pc' = pc /\ pc.at = "idle"
    BY <1>4 DEF Environment, ToolCall, WatchdogTrips, ProcessExits, TurnError,
                Waiting, AgentReady, AgentDies, UserTurn, LeftStep, Load
  <2>2. QED
    BY <1>0, <2>1
<1>5. CASE Crash
  BY <1>0, <1>5 DEF Crash, Idle
<1>6. CASE WriteFails
  <2>1. CASE pc.at \in {"begin", "request"}
    <3>1. Go("defer") /\ exec' = exec
      BY <1>6, <2>1 DEF WriteFails, volatile
    <3>2. QED
      BY <2>1, <3>1, GoAt DEF Arrivals
  <2>2. CASE pc.at \notin {"begin", "request"}
    <3>1. pc'.at \in {"pause_graph", "idle", "cancel", "poll", "init", "settle"}
      BY <1>6, <2>2, GoAt, LeaveAt DEF WriteFails
    <3>2. QED
      BY <1>0, <3>1
  <2>3. QED
    BY <2>1, <2>2
<1>7. QED
  BY <1>1, <1>2, <1>3, <1>4, <1>5, <1>6 DEF Next
-----------------------------------------------------------------------------
(* Files are never removed; a result is written only if there is none.     *)
Result(kind) == <<pc.n, attempts[pc.n], kind>>

FilesMove ==
  \/ files' = files
  \/ pc.at = "begin" /\ files' = files \cup {<<pc.n, Attempt(pc.n), "policy">>}
  \/ /\ pc.at \in {"result", "approve_result"} /\ ~HasResult(pc.n)
     /\ \E kind \in {"ok", "bad"} : files' = files \cup {Result(kind)}
  \/ /\ pc.at = "idle"
     /\ \E n \in Nodes : /\ nst[n] = "WAITING_APPROVAL"
                       /\ files' = files \cup {<<n, attempts[n], "approval">>}

(* Every step writes files as FilesMove says.                              *)
LEMMA NextFiles ==
  ASSUME Control, Next
  PROVE  FilesMove
<1> USE DEF FilesMove, At
<1>1. CASE TickStep
  <2>1. WritePolicy => FilesMove
    BY DEF WritePolicy
  <2>2. WriteResult => FilesMove
    <3>1. SUFFICES ASSUME WriteResult, ~HasResult(pc.n)
                   PROVE  FilesMove
      BY DEF WriteResult
    <3>2. \E kind \in {"ok", "bad"} : files' = files \cup {Result(kind)}
      <4>1. CASE exec[pc.n] = "ok"
        BY <3>1, <4>1 DEF WriteResult, Result
      <4>2. CASE exec[pc.n] # "ok"
        BY <3>1, <4>2 DEF WriteResult, Result
      <4>3. QED
        BY <4>1, <4>2
    <3>3. QED
      BY <3>1, <3>2 DEF WriteResult
  <2>3. \/ WritePolicy \/ WriteResult
        \/ files' = files
    BY <1>1
       DEF TickStep, durable, onlyNode, onlyGraph,
           Tick, InitNode, InitDone, Poll, PollDone, EndAttempt,
           FollowUpNode, FollowUpGraph, FollowUpNone, Recompute, RecomputeDone,
           Lease, NothingToLease, Launch, StartAttempt, WaitForApproval, GraphWaits,
           Dispatched, Defer, Finalize, PauseNode, PauseGraph, NotSettled,
           CancelMark, CancelEnd, CancelGraph
  <2>4. QED
    BY <2>1, <2>2, <2>3
<1>2. CASE RequestStep
  <2>1. ApprovalResult => FilesMove
    BY DEF ApprovalResult, Result
  <2>2. QED
    BY <1>2, <2>1
       DEF RequestStep, durable, onlyNode, onlyGraph,
           ResumeGate, ResumeGraph, Thaw, Thawed, GraphApproved,
           NodeApproved, ApprovalResumes, NodeCancelling, NodeCancelled
<1>3. CASE Request
  BY <1>3
     DEF Request, durable, onlyNode, onlyGraph,
         Start, Pause, Resume, Cancel, ApproveGraph, ApproveNode, Retry, Skip,
         CancelNode
<1>4. CASE Environment \/ WriteFails \/ Crash \/ (\E g \in Graphs : Load(g))
  <2>1. files' = files
    BY <1>4
     DEF Environment, ToolCall, WatchdogTrips, ProcessExits, TurnError,
         Waiting, AgentReady, AgentDies, UserTurn,
         LeftCalls, LeftEnds, WriteFails, Crash, Load, durable
  <2>2. QED
    BY <2>1
<1>5. QED
  BY <1>1, <1>2, <1>3, <1>4 DEF Next

-----------------------------------------------------------------------------
(* The states a graph can be in while the scheduler serves it at a label.  *)
Expected(label) ==
  CASE label \in {"init", "thaw"} -> {"RUNNING"}
    [] label \in {"poll", "result", "ended", "followup"} ->
         {"RUNNING", "PAUSING", "NEEDS_INPUT"}
    [] label \in {"ready", "dispatch", "begin", "request", "started", "defer",
                 "waiting", "graph_waits"} ->
         {"RUNNING", "NEEDS_INPUT"}
    [] label \in {"dispatched", "finalize"} ->
         {"RUNNING", "NEEDS_INPUT", "WAITING_APPROVAL"}
    [] label \in {"settle", "pause_graph"} -> {"PAUSING"}
    [] label = "cancel" -> {"DRAFT", "VALIDATED", "READY", "CANCELLING"}
    [] label = "resume" -> {"PAUSED", "NEEDS_INPUT"}
    [] label = "approve_graph" -> {"VALIDATED"}
    [] label = "approve_resume" -> {"WAITING_APPROVAL"}
    [] OTHER -> GraphStates

GraphControl ==
  /\ gst \in [Graphs -> GraphStates]
  /\ pc.at # "idle" => pc.g \in Graphs /\ gst[pc.g] \in Expected(pc.at)
  /\ pc.at = "approve_graph" => pc.g \in approvals

(* The table of Expected, row by row.                                      *)
LEMMA ExpectedStates ==
  /\ \A l \in {"init", "thaw"} : Expected(l) = {"RUNNING"}
  /\ \A l \in {"poll", "result", "ended", "followup"} :
       Expected(l) = {"RUNNING", "PAUSING", "NEEDS_INPUT"}
  /\ \A l \in {"ready", "dispatch", "begin", "request", "started", "defer",
               "waiting", "graph_waits"} :
       Expected(l) = {"RUNNING", "NEEDS_INPUT"}
  /\ \A l \in {"dispatched", "finalize"} :
       Expected(l) = {"RUNNING", "NEEDS_INPUT", "WAITING_APPROVAL"}
  /\ \A l \in {"settle", "pause_graph"} : Expected(l) = {"PAUSING"}
  /\ Expected("cancel") = {"DRAFT", "VALIDATED", "READY", "CANCELLING"}
  /\ Expected("resume") = {"PAUSED", "NEEDS_INPUT"}
  /\ Expected("approve_graph") = {"VALIDATED"}
  /\ Expected("approve_resume") = {"WAITING_APPROVAL"}
  /\ \A l \in {"idle", "approve_result", "approve_node", "cancelling_node",
               "cancel_node"} : Expected(l) = GraphStates
  BY DEF Expected

(* The states that steps write are states.                                 *)
LEMMA SomeGraphStates ==
  {"VALIDATED", "READY", "RUNNING", "PAUSING", "PAUSED", "WAITING_APPROVAL",
   "NEEDS_INPUT", "SUCCEEDED", "FAILED", "CANCELLING", "CANCELLED"}
    \subseteq GraphStates
  BY DEF GraphStates

(* What SetGraph does, by the table of transitions.                        *)
LEMMA SetGraphMoves ==
  ASSUME GraphControl, NEW g \in Graphs, NEW s \in GraphStates, SetGraph(g, s)
  PROVE  /\ gst' \in [Graphs -> GraphStates]
         /\ gst'[g] = s
         /\ s = gst[g] \/ s \in GraphSuccessors(gst[g])
         /\ \A h \in Graphs : h # g => gst'[h] = gst[h]
  BY DEF GraphControl, SetGraph, GraphMayGo

(* A graph that the tick enters is in the state its label expects.         *)
LEMMA VisitGraph ==
  ASSUME GraphControl, NEW S \in SUBSET Graphs, Visit(S),
         gst' \in [Graphs -> GraphStates],
         \A h \in S : Active(h) /\ gst'[h] = gst[h]
  PROVE  GraphControl'
<1>1. CASE S = {}
  BY <1>1 DEF Visit, Idle, GraphControl
<1>2. CASE S # {}
  <2> DEFINE h == First(S)
  <2>1. h \in S /\ h \in Graphs
    BY <1>2, FirstIn, NumbersAssumption
  <2>2. gst[h] \in {"CANCELLING", "PAUSING", "RUNNING"} /\ gst'[h] = gst[h]
    BY <2>1 DEF Active
  <2>3. /\ gst[h] = "CANCELLING" => pc'.at = "cancel"
        /\ gst[h] = "PAUSING" => pc'.at = "poll"
        /\ gst[h] = "RUNNING" => pc'.at = "init"
        /\ pc'.g = h
    <3> HIDE DEF h
    <3>1. pc' = [at |-> CASE gst[h] = "CANCELLING" -> "cancel"
                          [] gst[h] = "PAUSING" -> "poll"
                          [] OTHER -> "init",
                 g |-> h, n |-> 0, tick |-> TRUE]
      BY <1>2 DEF Visit, h
    <3>2. QED
      BY <3>1
  <2> HIDE DEF h
  <2>4. gst'[pc'.g] \in Expected(pc'.at) /\ pc'.at # "approve_graph"
    BY <2>2, <2>3, ExpectedStates
  <2>5. QED
    BY <2>1, <2>3, <2>4 DEF GraphControl
<1>3. QED
  BY <1>1, <1>2

(* Leaving a graph: the next one is still as the tick found it.            *)
LEMMA LeaveGraph ==
  ASSUME GraphControl, Leave, gst' \in [Graphs -> GraphStates],
         \A h \in Graphs : h > pc.g => gst'[h] = gst[h]
  PROVE  GraphControl'
<1> DEFINE S == IF pc.tick THEN {h \in Graphs : h > pc.g /\ Active(h)} ELSE {}
<1>1. S \in SUBSET Graphs /\ \A h \in S : Active(h) /\ gst'[h] = gst[h]
  OBVIOUS
<1>2. Visit(S)
  BY DEF Leave
<1> HIDE DEF S
<1>3. QED
  BY <1>1, <1>2, VisitGraph

(* Leaving a graph after its state was written.                            *)
LEMMA LeaveWritten ==
  ASSUME GraphControl, Leave, pc.g \in Graphs, NEW s \in GraphStates, SetGraph(pc.g, s)
  PROVE  GraphControl'
<1>1. \A h \in Graphs : h > pc.g => h # pc.g
  BY NumbersAssumption
<1>2. QED
  BY <1>1, SetGraphMoves, LeaveGraph

(* Going on with the same graph, unchanged.                                *)
LEMMA GraphGoes ==
  ASSUME GraphControl, pc.at # "idle", pc'.g = pc.g, gst' = gst,
         gst[pc.g] \in Expected(pc'.at), pc'.at # "approve_graph"
  PROVE  GraphControl'
  BY DEF GraphControl

(* See GraphGoes.                                                          *)
LEMMA GraphGo ==
  ASSUME Control, GraphControl, pc.at # "idle", NEW label, Go(label), gst' = gst,
         gst[pc.g] \in Expected(label), label # "approve_graph"
  PROVE  GraphControl'
  BY GraphGoes, GoAt

(* A step that touches neither pc nor graphs.                              *)
LEMMA GraphKept ==
  ASSUME GraphControl, pc' = pc, gst' = gst, approvals' = approvals
  PROVE  GraphControl'
  BY DEF GraphControl

(* A step that ends a request or a tick.                                   *)
LEMMA GraphReturns ==
  ASSUME GraphControl, Return, gst' \in [Graphs -> GraphStates]
  PROVE  GraphControl'
  BY DEF GraphControl, Return, Idle

(* A step that gives up: a pausing graph still settles.                    *)
LEMMA GraphAborts ==
  ASSUME Control, GraphControl, Abort, pc.at # "idle", gst' = gst
  PROVE  GraphControl'
<1>1. CASE gst[pc.g] = "PAUSING" /\ Go("settle")
  BY <1>1, GraphGo, ExpectedStates
<1>2. CASE Leave
  BY <1>2, LeaveGraph DEF GraphControl
<1>3. QED
  BY <1>1, <1>2 DEF Abort

(* The steps of the tick keep GraphControl.                                *)
LEMMA GraphControlTick ==
  ASSUME Control, GraphControl, TickStep
  PROVE  GraphControl'
<1> USE ExpectedStates, SomeGraphStates DEF At
<1>1. CASE Tick
  <2> DEFINE S == {g \in Graphs : Active(g)}
  <2>1. Visit(S) /\ S \in SUBSET Graphs /\ \A h \in S : Active(h)
    BY <1>1 DEF Tick
  <2>2. gst' = gst /\ gst' \in [Graphs -> GraphStates]
    BY <1>1 DEF Tick, durable, GraphControl
  <2> HIDE DEF S
  <2>3. QED
    BY <2>1, <2>2, VisitGraph
<1>2. CASE InitNode \/ Recompute \/ PauseNode \/ CancelMark \/ CancelEnd
  <2>1. pc' = pc /\ gst' = gst /\ approvals' = approvals
    BY <1>2 DEF InitNode, Recompute, PauseNode, CancelMark, CancelEnd, onlyNode
  <2>2. QED
    BY <2>1, GraphKept
<1>3. CASE InitDone
  <2>1. gst' = gst /\ pc.at = "init" /\ gst[pc.g] = "RUNNING"
    BY <1>3 DEF InitDone, durable, GraphControl
  <2>2. CASE pc.tick
    BY <1>3, <2>1, <2>2, GoToAt, GraphGoes DEF InitDone
  <2>3. CASE ~pc.tick
    <3> DEFINE S == {g \in Graphs : Active(g)}
    <3>1. Visit(S) /\ S \in SUBSET Graphs /\ \A h \in S : Active(h)
      BY <1>3, <2>3 DEF InitDone
    <3>2. gst' \in [Graphs -> GraphStates]
      BY <2>1 DEF GraphControl
    <3> HIDE DEF S
    <3>3. QED
      BY <2>1, <3>1, <3>2, VisitGraph
  <2>4. QED
    BY <2>2, <2>3
<1>4. CASE Poll
  <2>1. gst' = gst /\ pc.at = "poll"
    BY <1>4 DEF Poll, durable
  <2>2. pc'.at \in {"poll", "result"} /\ pc'.g = pc.g
    BY <1>4, GoToAt DEF Poll
  <2>3. QED
    BY <2>1, <2>2, GraphGoes DEF GraphControl
<1>5. CASE PollDone \/ RecomputeDone \/ NothingToLease \/ Dispatched
  <2>1. gst' = gst
    BY <1>5 DEF PollDone, RecomputeDone, NothingToLease, Dispatched, durable
  <2>2. \/ gst[pc.g] = "PAUSING" /\ Go("settle")
        \/ gst[pc.g] \in {"RUNNING", "NEEDS_INPUT"} /\ (Go("ready") \/ Go("dispatch"))
        \/ /\ gst[pc.g] \in {"RUNNING", "NEEDS_INPUT", "WAITING_APPROVAL"}
           /\ Go("finalize")
    BY <1>5 DEF PollDone, RecomputeDone, NothingToLease, Dispatched, GraphControl
  <2>3. pc.at # "idle"
    BY <1>5 DEF PollDone, RecomputeDone, NothingToLease, Dispatched
  <2>4. QED
    BY <2>1, <2>2, <2>3, GraphGo
<1>6. CASE WriteResult
  <2>1. gst' = gst /\ pc.at = "result" /\ (Abort \/ Go("ended"))
    BY <1>6 DEF WriteResult
  <2>2. gst[pc.g] \in Expected("ended")
    BY <2>1 DEF GraphControl
  <2>3. QED
    BY <2>1, <2>2, GraphAborts, GraphGo
<1>7. CASE EndAttempt \/ FollowUpNode \/ FollowUpNone
  <2>1. gst' = gst /\ pc.at \in {"ended", "followup"} /\ (Go("poll") \/ Go("followup"))
    BY <1>7 DEF EndAttempt, FollowUpNode, FollowUpNone, onlyNode, durable
  <2>2. gst[pc.g] \in Expected("poll") /\ gst[pc.g] \in Expected("followup")
    BY <2>1 DEF GraphControl
  <2>3. QED
    BY <2>1, <2>2, GraphGo
<1>8. CASE FollowUpGraph
  <2>1. pc.g \in Graphs /\ SetGraph(pc.g, "NEEDS_INPUT") /\ pc'.at = "poll"
        /\ pc'.g = pc.g
    BY <1>8, GoAt DEF FollowUpGraph, GraphControl
  <2>2. QED
    BY <2>1, SetGraphMoves DEF GraphControl
<1>9. CASE Lease \/ WritePolicy \/ Launch
  <2>1. gst' = gst /\ pc.at \in {"dispatch", "begin", "request"}
    BY <1>9 DEF Lease, WritePolicy, Launch, onlyNode, durable
  <2>2. pc'.at \in {"begin", "defer", "request", "started"} /\ pc'.g = pc.g
    BY <1>9, GoAt, GoToAt DEF Lease, WritePolicy, Launch
  <2>3. QED
    BY <2>1, <2>2, GraphGoes DEF GraphControl
<1>10. CASE StartAttempt \/ WaitForApproval
  <2>1. gst' = gst /\ pc.at \in {"started", "waiting"}
    BY <1>10 DEF StartAttempt, WaitForApproval, onlyNode
  <2>2. pc'.at \in {"waiting", "dispatched", "graph_waits"} /\ pc'.g = pc.g
    BY <1>10, GoAt DEF StartAttempt, WaitForApproval
  <2>3. QED
    BY <2>1, <2>2, GraphGoes DEF GraphControl
<1>11. CASE GraphWaits
  <2>1. pc.g \in Graphs
    BY <1>11 DEF GraphWaits, GraphControl
  <2>2. CASE SetGraph(pc.g, "WAITING_APPROVAL") /\ Go("dispatched")
    <3>1. pc'.at = "dispatched" /\ pc'.g = pc.g
      BY <2>2, GoAt
    <3>2. QED
      BY <2>1, <2>2, <3>1, SetGraphMoves DEF GraphControl
  <2>3. CASE Leave /\ gst' = gst
    BY <2>3, LeaveGraph DEF GraphControl
  <2>4. QED
    BY <1>11, <2>2, <2>3 DEF GraphWaits
<1>12. CASE Defer \/ NotSettled
  <2>1. Leave /\ gst' = gst
    BY <1>12 DEF Defer, NotSettled, onlyNode, durable
  <2>2. QED
    BY <2>1, LeaveGraph DEF GraphControl
<1>13. CASE Finalize \/ PauseGraph \/ CancelGraph
  <2>1. pc.g \in Graphs /\ Leave
    BY <1>13 DEF Finalize, PauseGraph, CancelGraph, GraphControl
  <2>2. \/ gst' = gst
        \/ \E s \in {"FAILED", "SUCCEEDED", "PAUSED", "CANCELLED"} : SetGraph(pc.g, s)
    BY <1>13 DEF Finalize, PauseGraph, CancelGraph
  <2>3. QED
    BY <2>1, <2>2, LeaveGraph, LeaveWritten DEF GraphControl
<1>14. QED
  BY <1>1, <1>2, <1>3, <1>4, <1>5, <1>6, <1>7, <1>8, <1>9, <1>10, <1>11, <1>12,
     <1>13 DEF TickStep

(* The requests of the user and their steps keep GraphControl.             *)
LEMMA GraphControlRequest ==
  ASSUME Control, GraphControl, Request \/ RequestStep
  PROVE  GraphControl'
<1> USE ExpectedStates, SomeGraphStates DEF At
<1>1. ASSUME NEW g \in Graphs, Start(g)
      PROVE  GraphControl'
  <2>1. SetGraph(g, "RUNNING") /\ pc'.at = "init" /\ pc'.g = g
    BY <1>1, ServeAt DEF Start
  <2>2. QED
    BY <2>1, SetGraphMoves DEF GraphControl
<1>2. ASSUME NEW g \in Graphs, Pause(g)
      PROVE  GraphControl'
  <2>1. SetGraph(g, "PAUSING") /\ pc'.at = "idle"
    BY <1>2 DEF Pause
  <2>2. QED
    BY <2>1, SetGraphMoves DEF GraphControl
<1>3. ASSUME NEW g \in Graphs, Resume(g)
      PROVE  GraphControl'
  <2>1. gst[g] \in {"PAUSED", "NEEDS_INPUT"} /\ gst' = gst /\ pc'.at = "resume"
        /\ pc'.g = g
    BY <1>3, ServeAt DEF Resume, onlyNode
  <2>2. QED
    BY <2>1 DEF GraphControl
<1>4. ASSUME NEW g \in Graphs, Cancel(g)
      PROVE  GraphControl'
  <2>1. pc'.at = "cancel" /\ pc'.g = g
    BY <1>4, ServeAt DEF Cancel
  <2>2. CASE gst[g] \in {"DRAFT", "VALIDATED", "READY"}
    BY <1>4, <2>1, <2>2 DEF Cancel, GraphControl
  <2>3. CASE gst[g] \notin {"DRAFT", "VALIDATED", "READY"}
    <3>1. SetGraph(g, "CANCELLING")
      BY <1>4, <2>3 DEF Cancel
    <3>2. QED
      BY <2>1, <3>1, SetGraphMoves DEF GraphControl
  <2>4. QED
    BY <2>2, <2>3
<1>5. ASSUME NEW g \in Graphs, ApproveGraph(g)
      PROVE  GraphControl'
  <2>1. gst[g] = "VALIDATED" /\ gst' = gst /\ g \in approvals'
        /\ pc'.at = "approve_graph" /\ pc'.g = g
    BY <1>5, ServeAt DEF ApproveGraph
  <2>2. QED
    BY <2>1 DEF GraphControl
<1>6. ASSUME NEW n \in Nodes, ApproveNode(n) \/ CancelNode(n)
      PROVE  GraphControl'
  <2>1. gst' = gst /\ pc'.g = G(n)
        /\ pc'.at \in {"approve_result", "cancelling_node", "cancel_node"}
    BY <1>6, ServeAt DEF ApproveNode, CancelNode, durable
  <2>2. G(n) \in Graphs /\ gst[G(n)] \in GraphStates
    BY GraphOf DEF GraphControl
  <2>3. QED
    BY <2>1, <2>2 DEF GraphControl
<1>7. ASSUME NEW n \in Nodes, Retry(n) \/ Skip(n)
      PROVE  GraphControl'
  BY <1>7, GraphKept DEF Retry, Skip, onlyNode
<1>8. CASE ResumeGate \/ Thaw
  BY <1>8, GraphKept DEF ResumeGate, Thaw, onlyNode
<1>9. CASE ResumeGraph
  <2>1. pc.g \in Graphs /\ SetGraph(pc.g, "RUNNING") /\ pc'.at = "thaw"
        /\ pc'.g = pc.g
    BY <1>9, GoAt DEF ResumeGraph, GraphControl
  <2>2. QED
    BY <2>1, SetGraphMoves DEF GraphControl
<1>10. CASE ApprovalResult \/ NodeCancelling
  <2>1. /\ gst' = gst
        /\ Return \/ Go("approve_node") \/ Go("cancel_node")
        /\ pc.at # "idle"
    BY <1>10 DEF ApprovalResult, NodeCancelling, onlyNode
  <2>2. gst[pc.g] \in GraphStates /\ gst' \in [Graphs -> GraphStates]
    BY <2>1 DEF GraphControl
  <2>3. QED
    BY <2>1, <2>2, GraphReturns, GraphGo
<1>11. CASE NodeApproved
  <2>1. /\ gst' = gst /\ pc.at # "idle"
        /\ Return \/ (gst[pc.g] = "WAITING_APPROVAL" /\ Go("approve_resume"))
    BY <1>11 DEF NodeApproved, onlyNode
  <2>2. QED
    BY <2>1, GraphReturns, GraphGo DEF GraphControl
<1>12. CASE Thawed \/ NodeCancelled
  <2>1. Return /\ gst' = gst
    BY <1>12 DEF Thawed, NodeCancelled, onlyNode, durable
  <2>2. QED
    BY <2>1, GraphReturns DEF GraphControl
<1>13. CASE GraphApproved \/ ApprovalResumes
  <2>1. /\ Return /\ pc.g \in Graphs
        /\ SetGraph(pc.g, "READY") \/ SetGraph(pc.g, "RUNNING")
    BY <1>13 DEF GraphApproved, ApprovalResumes, GraphControl
  <2>2. QED
    BY <2>1, GraphReturns, SetGraphMoves
<1>14. QED
  BY <1>1, <1>2, <1>3, <1>4, <1>5, <1>6, <1>7, <1>8, <1>9, <1>10, <1>11, <1>12,
     <1>13 DEF Request, RequestStep

(* Every step keeps GraphControl.                                          *)
LEMMA GraphControlNext ==
  ASSUME Control, GraphControl, Next
  PROVE  GraphControl'
<1> USE ExpectedStates DEF At
<1>1. CASE Environment \/ \E g \in Graphs : Load(g)
  <2>1. pc' = pc /\ gst' = gst /\ approvals' = approvals
    BY <1>1 DEF Environment, ToolCall, WatchdogTrips, ProcessExits, TurnError,
                Waiting, AgentReady, AgentDies, UserTurn,
                LeftCalls, LeftEnds, Load, durable
  <2>2. QED
    BY <2>1, GraphKept
<1>2. CASE Crash
  BY <1>2, GraphReturns DEF Crash, Return, durable, GraphControl
<1>3. CASE WriteFails
  <2>1. gst' = gst /\ pc.at # "idle"
    BY <1>3 DEF WriteFails, durable, Writes
  <2>2. \/ pc.at \in {"begin", "request"} /\ Go("defer")
        \/ pc.at = "settle" /\ Go("pause_graph")
        \/ Abort
        \/ Leave
    BY <1>3 DEF WriteFails
  <2>3. /\ pc.at \in {"begin", "request"} => gst[pc.g] \in Expected("defer")
        /\ pc.at = "settle" => gst[pc.g] \in Expected("pause_graph")
    BY <2>1 DEF GraphControl
  <2>4. gst' \in [Graphs -> GraphStates]
    BY <2>1 DEF GraphControl
  <2>5. QED
    BY <2>1, <2>2, <2>3, <2>4, GraphGo, GraphAborts, LeaveGraph
<1>4. QED
  BY <1>1, <1>2, <1>3, GraphControlTick, GraphControlRequest DEF Next

(* The graph that is served is in a state its label expects.               *)
LEMMA GraphControlAlways == Spec => []GraphControl
<1>1. Init => GraphControl
  BY DEF Init, GraphControl, Idle, GraphStates
<1>2. Control /\ GraphControl /\ [Next]_vars => GraphControl'
  <2>1. ASSUME GraphControl, UNCHANGED vars
        PROVE  GraphControl'
    BY <2>1, GraphKept DEF vars, durable
  <2>2. QED
    BY <2>1, GraphControlNext
<1>3. QED
  BY <1>1, <1>2, ControlAlways, PTL DEF Spec

-----------------------------------------------------------------------------
(* What one step may do to the state of a graph and to its approval.       *)
GraphMove(g) ==
  \/ gst'[g] = gst[g]
  \/ gst'[g] \in GraphSuccessors(gst[g]) /\ gst[g] # "VALIDATED"
  \/ gst'[g] = "CANCELLED"
  \/ /\ pc.at = "approve_graph" /\ pc.g = g
     /\ approved' = [approved EXCEPT ![g] = TRUE]

(* A step that writes one graph, under the conditions of GraphMove.        *)
LEMMA GraphMoveBy ==
  ASSUME GraphControl, NEW h \in Graphs, NEW s \in GraphStates, SetGraph(h, s),
         \/ gst[h] # "VALIDATED"
         \/ s = "CANCELLED"
         \/ /\ pc.at = "approve_graph" /\ pc.g = h
            /\ approved' = [approved EXCEPT ![h] = TRUE]
  PROVE  \A g \in Graphs : GraphMove(g)
  BY SetGraphMoves DEF GraphMove

(* Every step moves graphs as GraphMove says.                              *)
LEMMA NextGraphMoves ==
  ASSUME Control, GraphControl, Next
  PROVE  \A g \in Graphs : GraphMove(g)
<1> USE ExpectedStates, SomeGraphStates DEF At
<1>1. CASE TickStep
  <2>1. CASE FollowUpGraph
    BY <2>1, GraphMoveBy DEF FollowUpGraph, GraphControl
  <2>2. CASE GraphWaits
    BY <2>2, GraphMoveBy DEF GraphWaits, GraphControl, GraphMove
  <2>3. CASE Finalize
    <3>1. CASE gst' = gst
      BY <3>1 DEF GraphMove
    <3>2. CASE \E s \in {"FAILED", "SUCCEEDED"} : SetGraph(pc.g, s)
      BY <2>3, <3>2, GraphMoveBy DEF Finalize, GraphControl
    <3>3. QED
      BY <2>3, <3>1, <3>2 DEF Finalize
  <2>4. CASE PauseGraph
    BY <2>4, GraphMoveBy DEF PauseGraph, GraphControl
  <2>5. CASE CancelGraph
    BY <2>5, GraphMoveBy DEF CancelGraph, GraphControl
  <2>6. \/ FollowUpGraph \/ GraphWaits \/ Finalize \/ PauseGraph \/ CancelGraph
        \/ gst' = gst
    BY <1>1
       DEF TickStep, durable, onlyNode,
           Tick, InitNode, InitDone, Poll, PollDone, WriteResult, EndAttempt,
           FollowUpNode, FollowUpNone, Recompute, RecomputeDone, Lease,
           NothingToLease, WritePolicy, Launch, StartAttempt, WaitForApproval,
           Dispatched, Defer, PauseNode, NotSettled, CancelMark, CancelEnd
  <2>7. QED
    BY <2>1, <2>2, <2>3, <2>4, <2>5, <2>6 DEF GraphMove
<1>2. CASE RequestStep
  <2>1. CASE ResumeGraph
    BY <2>1, GraphMoveBy DEF ResumeGraph, GraphControl
  <2>2. CASE GraphApproved
    BY <2>2, GraphMoveBy DEF GraphApproved, GraphControl
  <2>3. CASE ApprovalResumes
    BY <2>3, GraphMoveBy DEF ApprovalResumes, GraphControl
  <2>4. \/ ResumeGraph \/ GraphApproved \/ ApprovalResumes
        \/ gst' = gst
    BY <1>2
       DEF RequestStep, durable, onlyNode,
           ResumeGate, Thaw, Thawed, ApprovalResult, NodeApproved, NodeCancelling,
           NodeCancelled
  <2>5. QED
    BY <2>1, <2>2, <2>3, <2>4 DEF GraphMove
<1>3. CASE Request
  <2>1. ASSUME NEW g \in Graphs, Start(g)
        PROVE  \A h \in Graphs : GraphMove(h)
    BY <2>1, GraphMoveBy DEF Start
  <2>2. ASSUME NEW g \in Graphs, Pause(g)
        PROVE  \A h \in Graphs : GraphMove(h)
    BY <2>2, GraphMoveBy DEF Pause
  <2>3. ASSUME NEW g \in Graphs, Cancel(g)
        PROVE  \A h \in Graphs : GraphMove(h)
    <3>1. CASE gst' = gst
      BY <3>1 DEF GraphMove
    <3>2. CASE gst[g] # "VALIDATED" /\ SetGraph(g, "CANCELLING")
      BY <3>2, GraphMoveBy
    <3>3. QED
      BY <2>3, <3>1, <3>2 DEF Cancel
  <2>4. ASSUME NEW g \in Graphs, Resume(g) \/ ApproveGraph(g)
        PROVE  \A h \in Graphs : GraphMove(h)
    BY <2>4 DEF Resume, ApproveGraph, onlyNode, GraphMove
  <2>5. ASSUME NEW n \in Nodes, ApproveNode(n) \/ Retry(n) \/ Skip(n) \/ CancelNode(n)
        PROVE  \A h \in Graphs : GraphMove(h)
    BY <2>5 DEF ApproveNode, Retry, Skip, CancelNode, onlyNode, durable, GraphMove
  <2>6. QED
    BY <1>3, <2>1, <2>2, <2>3, <2>4, <2>5 DEF Request
<1>4. CASE Environment \/ WriteFails \/ Crash \/ (\E g \in Graphs : Load(g))
  <2>1. gst' = gst
    BY <1>4
     DEF Environment, ToolCall, WatchdogTrips, ProcessExits, TurnError,
         Waiting, AgentReady, AgentDies, UserTurn,
         LeftCalls, LeftEnds, WriteFails, Crash, Load, durable
  <2>2. QED
    BY <2>1 DEF GraphMove
<1>5. QED
  BY <1>1, <1>2, <1>3, <1>4 DEF Next

(* Approvals and their receipts are never withdrawn.                       *)
LEMMA NextApproved ==
  ASSUME Next
  PROVE  /\ approvals \subseteq approvals' /\ approvals' \subseteq approvals \cup Graphs
         /\ \/ approved' = approved
            \/ approved' = [approved EXCEPT ![pc.g] = TRUE]
<1>1. CASE TickStep
  BY <1>1
     DEF TickStep, durable, onlyNode, onlyGraph,
         Tick, InitNode, InitDone, Poll, PollDone, WriteResult, EndAttempt,
         FollowUpNode, FollowUpGraph, FollowUpNone, Recompute, RecomputeDone,
         Lease, NothingToLease, WritePolicy, Launch, StartAttempt,
         WaitForApproval, GraphWaits, Dispatched, Defer, Finalize, PauseNode,
         PauseGraph, NotSettled, CancelMark, CancelEnd, CancelGraph
<1>2. CASE RequestStep
  BY <1>2
     DEF RequestStep, durable, onlyNode, onlyGraph,
         ResumeGate, ResumeGraph, Thaw, Thawed, GraphApproved, ApprovalResult,
         NodeApproved, ApprovalResumes, NodeCancelling, NodeCancelled
<1>3. CASE Request
  BY <1>3
     DEF Request, durable, onlyNode, onlyGraph,
         Start, Pause, Resume, Cancel, ApproveGraph, ApproveNode, Retry, Skip,
         CancelNode
<1>4. CASE Environment \/ WriteFails \/ Crash \/ (\E g \in Graphs : Load(g))
  BY <1>4
     DEF Environment, ToolCall, WatchdogTrips, ProcessExits, TurnError,
         Waiting, AgentReady, AgentDies, UserTurn,
         LeftCalls, LeftEnds, WriteFails, Crash, Load, durable
<1>5. QED
  BY <1>1, <1>2, <1>3, <1>4 DEF Next

-----------------------------------------------------------------------------
(* The lease of the Agent goes to the node that is launched; an effect is  *)
(* that of the launched attempt, of the owner's last one, or of one that a *)
(* dead host left.                                                         *)
OwnerMove == owner' \in {owner, 0} \/ (pc.at = "request" /\ owner' = pc.n)

Ran(n, a) == ran' = [ran EXCEPT ![n] = @ \cup {a}]

RanMove ==
  \/ ran' = ran
  \/ Launch /\ ~IsAgent(pc.n) /\ Ran(pc.n, Attempt(pc.n))
  \/ \E n \in Nodes : ToolCall(n) /\ Ran(n, LastAttempt(n))
  \/ \E x \in left : LeftCalls(x) /\ Ran(x[2], x[3])

(* A node of the Agent is submitted, or refused.                           *)
LEMMA AgentLaunch ==
  ASSUME Launch, pc.n \in Nodes, IsAgent(pc.n)
  PROVE  Submit(pc.n) \/ Refuse(pc.n)
<1>1. Def[pc.n].kind = "agent"
  BY DEF IsAgent
<1>2. Def[pc.n].action \notin {"process", "approval"}
  BY <1>1, DefAssumption
<1>3. QED
  BY <1>1, <1>2 DEF Launch, IsAgent

(* Every step is one of OwnerMove and of RanMove.                          *)
LEMMA NextOwnerRan ==
  ASSUME Control, Next
  PROVE  OwnerMove /\ RanMove
<1>1. CASE TickStep
  <2>1. CASE Launch
    <3>1. pc.at = "request" /\ pc.n \in Nodes
      BY <2>1 DEF Launch, At, Control, NodeLabels, LeasedLabels
    <3>2. CASE IsAgent(pc.n)
      <4>1. Submit(pc.n) \/ Refuse(pc.n)
        BY <2>1, <3>1, <3>2, AgentLaunch
      <4>2. QED
        BY <3>1, <4>1 DEF Submit, Refuse, OwnerMove, RanMove
    <3>3. CASE ~IsAgent(pc.n)
      <4>1. \/ Refuse(pc.n)
            \/ \E state \in {"process", "waiting", "ok"} : RunHere(pc.n, state)
        BY <2>1, <3>3 DEF Launch
      <4>2. QED
        BY <2>1, <3>1, <3>3, <4>1 DEF Refuse, RunHere, OwnerMove, RanMove, Ran
    <3>4. QED
      BY <3>2, <3>3
  <2>2. CASE Poll
    <3>1. owner' \in {owner, 0}
      BY <2>2 DEF Poll, Release
    <3>2. ran' = ran
      BY <2>2 DEF Poll, rest
    <3>3. QED
      BY <3>1, <3>2 DEF OwnerMove, RanMove
  <2>3. \/ Launch \/ Poll
        \/ UNCHANGED <<owner, ran>>
    BY <1>1
       DEF TickStep, onlyNode, onlyGraph, volatile, rest, ExecutorCancel,
           Tick, InitNode, InitDone, PollDone, WriteResult, EndAttempt,
           FollowUpNode, FollowUpGraph, FollowUpNone, Recompute, RecomputeDone,
           Lease, NothingToLease, WritePolicy, StartAttempt, WaitForApproval,
           GraphWaits, Dispatched, Defer, Finalize, PauseNode, PauseGraph,
           NotSettled, CancelMark, CancelEnd, CancelGraph
  <2>4. QED
    BY <2>1, <2>2, <2>3 DEF OwnerMove, RanMove
<1>2. CASE RequestStep \/ Request
  <2>1. UNCHANGED <<owner, ran>>
    BY <1>2
       DEF RequestStep, Request, onlyNode, onlyGraph, volatile, rest, ExecutorCancel,
           ResumeGate, ResumeGraph, Thaw, Thawed, GraphApproved, ApprovalResult,
           NodeApproved, ApprovalResumes, NodeCancelling, NodeCancelled,
           Start, Pause, Resume, Cancel, ApproveGraph, ApproveNode, Retry, Skip,
           CancelNode
  <2>2. QED
    BY <2>1 DEF OwnerMove, RanMove
<1>3. CASE Environment
  <2>1. ASSUME NEW n \in Nodes, ToolCall(n)
        PROVE  OwnerMove /\ RanMove
    BY <2>1 DEF ToolCall, Turning, OwnerMove, RanMove, Ran
  <2>2. ASSUME NEW x \in left, LeftCalls(x)
        PROVE  OwnerMove /\ RanMove
    BY <2>2 DEF LeftCalls, volatile, OwnerMove, RanMove, Ran
  <2>3. \/ \E n \in Nodes : ToolCall(n)
        \/ \E x \in left : LeftCalls(x)
        \/ ran' = ran /\ owner' \in {owner, 0}
    BY <1>3 DEF Environment, WatchdogTrips, ProcessExits, TurnError, Waiting,
                AgentReady, AgentDies, UserTurn, LeftEnds, volatile, rest
  <2>4. QED
    BY <2>1, <2>2, <2>3 DEF OwnerMove, RanMove
<1>4. CASE WriteFails \/ Crash \/ \E g \in Graphs : Load(g)
  <2>1. ran' = ran /\ owner' \in {owner, 0}
    BY <1>4 DEF WriteFails, Crash, Load, volatile, rest
  <2>2. QED
    BY <2>1 DEF OwnerMove, RanMove
<1>5. QED
  BY <1>1, <1>2, <1>3, <1>4 DEF Next
-----------------------------------------------------------------------------
(* The properties.                                                         *)

(* maxAttempts is a positive number.                                       *)
LEMMA MaxType ==
  ASSUME NEW n \in Nodes
  PROVE  Def[n].max \in Nat /\ Def[n].max > 0
  BY DefAssumption DEF Definitions

(* Every step keeps AttemptBudget.                                         *)
LEMMA BudgetNext ==
  ASSUME Control, AttemptBudget, Next
  PROVE  AttemptBudget'
<1> SUFFICES ASSUME NEW n \in Nodes
             PROVE  /\ attempts'[n] <= Def[n].max
                    /\ MayBeLeased(n)' => attempts'[n] < Def[n].max
  BY DEF AttemptBudget
<1>1. NodeMove(n) /\ AttemptMove(n)
  BY NextMoves, NextAttempts DEF NodeMoves
<1>2. attempts[n] \in Nat /\ Def[n].max \in Nat
  BY MaxType DEF Control
<1>3. CASE attempts'[n] = attempts[n] + 1
  <2>1. nst[n] = "LEASED" /\ nst'[n] = "RUNNING"
    BY <1>1, <1>2, <1>3 DEF AttemptMove
  <2>2. attempts[n] < Def[n].max
    BY <2>1 DEF AttemptBudget, MayBeLeased
  <2>3. QED
    BY <1>2, <1>3, <2>1, <2>2 DEF MayBeLeased
<1>4. CASE attempts'[n] = attempts[n]
  <2>1. MayBeLeased(n)' => MayBeLeased(n) \/ (nst[n] = "FAILED" /\ nst'[n] # nst[n])
    BY <1>1 DEF NodeMove, NodeSuccessors, MayBeLeased, Unblocks, Deferred
  <2>2. nst[n] = "FAILED" /\ nst'[n] # nst[n] => attempts[n] < Def[n].max
    BY <1>1 DEF NodeMove
  <2>3. QED
    BY <1>4, <2>1, <2>2 DEF AttemptBudget
<1>5. QED
  BY <1>1, <1>3, <1>4 DEF AttemptMove

(* No mixture of automatic retries, goal turns, explicit retries, resumes, *)
(* failed writes and crashes starts an attempt beyond maxAttempts.         *)
THEOREM AttemptBudgetAlways == Spec => []AttemptBudget
<1>1. Init => AttemptBudget
  BY MaxType DEF Init, AttemptBudget
<1>2. Control /\ AttemptBudget /\ [Next]_vars => AttemptBudget'
  <2>1. ASSUME Control, AttemptBudget, UNCHANGED vars
        PROVE  AttemptBudget'
    BY <2>1 DEF AttemptBudget, MayBeLeased, vars, durable
  <2>2. QED
    BY <2>1, BudgetNext
<1>3. QED
  BY <1>1, <1>2, ControlAlways, PTL DEF Spec
-----------------------------------------------------------------------------
(* Nobody records a node as INTERRUPTED, which could go on to READY.       *)
NeverInterrupted == \A n \in Nodes : nst[n] # "INTERRUPTED"

(* A dependency is a node.                                                 *)
LEMMA DepNode ==
  ASSUME NEW n \in Nodes, NEW dep \in Def[n].deps
  PROVE  dep.node \in Nodes
  BY DefAssumption DEF Definitions

(* Every step keeps NeverInterrupted and DependenciesFirst.                *)
LEMMA DependenciesNext ==
  ASSUME Control, NeverInterrupted, DependenciesFirst, Next
  PROVE  NeverInterrupted' /\ DependenciesFirst'
<1>1. \A n \in Nodes : NodeMove(n)
  BY NextMoves DEF NodeMoves
<1>2. NeverInterrupted'
  BY <1>1 DEF NeverInterrupted, NodeMove
<1>3. ASSUME NEW d \in Nodes, nst[d] \in {"SUCCEEDED", "SKIPPED"}
      PROVE  nst'[d] = nst[d]
  BY <1>1, <1>3 DEF NodeMove, NodeSuccessors
<1>4. ASSUME NEW n \in Nodes, Admitted(n)', NEW dep \in Def[n].deps,
             dep.on = "succeeded"
      PROVE  nst'[dep.node] \in {"SUCCEEDED", "SKIPPED"}
  <2>1. Admitted(n) \/ Unblocks(n)
    BY <1>1, <1>4 DEF NodeMove, NodeSuccessors, Admitted, NeverInterrupted, Deferred
  <2>2. nst[dep.node] \in {"SUCCEEDED", "SKIPPED"}
    BY <1>4, <2>1 DEF DependenciesFirst, Unblocks, Satisfied
  <2>3. QED
    BY <1>3, <2>2, DepNode
<1>5. DependenciesFirst'
  BY <1>4 DEF DependenciesFirst
<1>6. QED
  BY <1>2, <1>5

(* A node is never past PENDING before all nodes it needs have succeeded   *)
(* or were skipped.                                                        *)
THEOREM DependenciesAlways == Spec => []DependenciesFirst
<1>1. Init => NeverInterrupted /\ DependenciesFirst
  BY DEF Init, NeverInterrupted, DependenciesFirst, Admitted
<1>2. Control /\ NeverInterrupted /\ DependenciesFirst /\ [Next]_vars
        => NeverInterrupted' /\ DependenciesFirst'
  <2>1. ASSUME NeverInterrupted, DependenciesFirst, UNCHANGED vars
        PROVE  NeverInterrupted' /\ DependenciesFirst'
    BY <2>1 DEF NeverInterrupted, DependenciesFirst, Admitted, vars, durable
  <2>2. QED
    BY <2>1, DependenciesNext
<1>3. QED
  BY <1>1, <1>2, ControlAlways, PTL DEF Spec
-----------------------------------------------------------------------------
(* What a restart or a failed write leaves behind is consistent: no attempt*)
(* has two verdicts, and the verdict a step is about to record is on disk. *)
Receipts ==
  /\ ResultBeforeState
  /\ \A n \in Nodes, a \in Nat :
       ~(<<n, a, "ok">> \in files /\ <<n, a, "bad">> \in files)
  /\ pc.at = "ended" => Result(IF exec[pc.n] = "ok" THEN "ok" ELSE "bad") \in files
  /\ pc.at = "approve_node" => Result("ok") \in files

(* Every step keeps Receipts.                                              *)
LEMMA ReceiptsNext ==
  ASSUME Control, Receipts, Next, ~LeftStep
  PROVE  Receipts'
<1>1. NodeMoves /\ (\A n \in Nodes : AttemptMove(n)) /\ attempts' \in [Nodes -> Nat]
  BY NextMoves, NextAttempts
<1>2. files \subseteq files'
  BY NextFiles DEF FilesMove
<1>3. ASSUME NEW n \in Nodes, NEW a \in Nat
      PROVE  ~(<<n, a, "ok">> \in files' /\ <<n, a, "bad">> \in files')
  <2>1. ~(<<n, a, "ok">> \in files /\ <<n, a, "bad">> \in files)
    BY DEF Receipts
  <2>2. CASE ~\E kind \in {"ok", "bad"} :
               files' = files \cup {Result(kind)} /\ ~HasResult(pc.n)
    BY <2>1, <2>2, NextFiles DEF FilesMove
  <2>3. ASSUME NEW kind \in {"ok", "bad"},
               files' = files \cup {Result(kind)}, ~HasResult(pc.n)
        PROVE  ~(<<n, a, "ok">> \in files' /\ <<n, a, "bad">> \in files')
    <3>1. CASE n = pc.n /\ a = attempts[pc.n]
      BY <2>3, <3>1 DEF HasResult, Result
    <3>2. CASE ~(n = pc.n /\ a = attempts[pc.n])
      BY <2>1, <2>3, <3>2 DEF Result
    <3>3. QED
      BY <3>1, <3>2
  <2>4. QED
    BY <2>2, <2>3
<1>4. ASSUME NEW n \in Nodes, nst'[n] = "SUCCEEDED"
      PROVE  <<n, attempts'[n], "ok">> \in files'
  <2>1. attempts'[n] = attempts[n]
    BY <1>1, <1>4 DEF AttemptMove
  <2>2. CASE nst[n] = "SUCCEEDED"
    BY <1>2, <2>1, <2>2 DEF Receipts, ResultBeforeState
  <2>3. CASE nst[n] # "SUCCEEDED"
    <3>1. Verdict(n, "SUCCEEDED")
      BY <1>1, <1>4, <2>3 DEF NodeMoves, NodeMove
    <3>2. QED
      BY <1>2, <2>1, <3>1 DEF Verdict, Receipts, Result
  <2>4. QED
    BY <2>2, <2>3
<1>5. ASSUME NEW n \in Nodes, nst'[n] = "FAILED"
      PROVE  <<n, attempts'[n], "bad">> \in files'
  <2>1. attempts'[n] = attempts[n]
    BY <1>1, <1>5 DEF AttemptMove
  <2>2. CASE nst[n] = "FAILED"
    BY <1>2, <2>1, <2>2 DEF Receipts, ResultBeforeState
  <2>3. CASE nst[n] # "FAILED"
    <3>1. Verdict(n, "FAILED")
      BY <1>1, <1>5, <2>3 DEF NodeMoves, NodeMove
    <3>2. QED
      BY <1>2, <2>1, <3>1 DEF Verdict, Receipts, Result
  <2>4. QED
    BY <2>2, <2>3
<1>6. ASSUME pc'.at = "ended"
      PROVE  Result(IF exec[pc.n] = "ok" THEN "ok" ELSE "bad")' \in files'
  <2>1. WriteResult
    BY <1>6, NextArrivals DEF Arrivals
  <2>2. ~HasResult(pc.n) /\ Go("ended")
    BY <1>6, <2>1, LeaveAt DEF WriteResult
  <2>3. pc'.n = pc.n /\ exec' = exec /\ attempts' = attempts
    BY <2>1, <2>2, GoAt DEF WriteResult, volatile
  <2>4. QED
    BY <2>1, <2>2, <2>3 DEF WriteResult, Result
<1>7. ASSUME pc'.at = "approve_node"
      PROVE  Result("ok")' \in files'
  <2>1. ApprovalResult
    BY <1>7, NextArrivals DEF Arrivals
  <2>2. ~HasResult(pc.n) /\ Go("approve_node")
    BY <1>7, <2>1 DEF ApprovalResult, Return, Idle
  <2>3. pc'.n = pc.n /\ attempts' = attempts
    BY <2>1, <2>2, GoAt DEF ApprovalResult
  <2>4. QED
    BY <2>1, <2>2, <2>3 DEF ApprovalResult, Result
<1>8. ResultBeforeState'
  BY <1>1, <1>3, <1>4, <1>5 DEF ResultBeforeState
<1>9. QED
  BY <1>3, <1>6, <1>7, <1>8 DEF Receipts

(* The verdict of an attempt is on disk before the state that follows from *)
(* it and never contradicts it, whatever fails or crashes in between.      *)
THEOREM ResultBeforeStateAlways == Spec => []ResultBeforeState
<1>1. Init => Receipts
  BY DEF Init, Receipts, ResultBeforeState, Idle
<1>2. Control /\ Receipts /\ [Next]_vars => Receipts'
  <2>1. ASSUME Receipts, LeftStep \/ UNCHANGED vars
        PROVE  Receipts'
    BY <2>1, Unseen DEF Receipts, ResultBeforeState, Result, seen, durable, volatile
  <2>2. QED
    BY <2>1, ReceiptsNext
<1>3. Receipts => ResultBeforeState
  BY DEF Receipts
<1>4. QED
  BY <1>1, <1>2, <1>3, ControlAlways, PTL DEF Spec
-----------------------------------------------------------------------------
(* The tick leases nodes of running graphs only: a pause, a cancel, an     *)
(* approval or a failure that comes while it works on a graph is seen      *)
(* before the next lease.                                                  *)
THEOREM HeldGraphLeasesNothingAlways == Spec => HeldGraphLeasesNothing
<1> DEFINE Held == \A n \in Nodes :
                     Leases(n) => gst[G(n)] \in {"RUNNING", "NEEDS_INPUT"}
<1>1. ASSUME Control, GraphControl, Next
      PROVE  Held
  <2> SUFFICES ASSUME NEW n \in Nodes, Leases(n)
               PROVE  gst[G(n)] \in {"RUNNING", "NEEDS_INPUT"}
    OBVIOUS
  <2>1. pc.at = "dispatch" /\ n \in NodesOf(pc.g)
    BY <1>1, NextMoves DEF NodeMoves, NodeMove, Leases
  <2>2. gst[pc.g] \in {"RUNNING", "NEEDS_INPUT"}
    BY <1>1, <2>1, ExpectedStates DEF GraphControl
  <2>3. QED
    BY <2>1, <2>2 DEF NodesOf, G
<1>2. Control /\ GraphControl /\ [Next]_vars => [Held]_vars
  BY <1>1
<1>3. QED
  BY <1>2, ControlAlways, GraphControlAlways, PTL DEF Spec, HeldGraphLeasesNothing
-----------------------------------------------------------------------------
(* The executor never ends an approval; the user's word is on disk before  *)
(* the result and the state that follow from it.                           *)
Consent ==
  /\ approved \in [Graphs -> BOOLEAN] /\ approvals \subseteq Graphs
  /\ ApprovedByUser
  /\ pc.at \in {"result", "ended", "followup"} => Def[pc.n].kind # "approval"
  /\ pc.at \in {"approve_result", "approve_node"} => Result("approval") \in files

(* Every step keeps Consent.                                               *)
LEMMA ConsentNext ==
  ASSUME Control, GraphControl, Consent, Next, ~LeftStep
  PROVE  Consent'
<1>1. /\ NodeMoves /\ (\A n \in Nodes : AttemptMove(n))
      /\ \A g \in Graphs : GraphMove(g)
      /\ Arrivals
      /\ files \subseteq files'
  BY NextMoves, NextAttempts, NextGraphMoves, NextArrivals, NextFiles DEF FilesMove
<1>2. /\ approved' \in [Graphs -> BOOLEAN]
      /\ approvals \subseteq approvals' /\ approvals' \subseteq Graphs
      /\ \A g \in Graphs : approved[g] => approved'[g]
  BY NextApproved DEF Consent
<1>3. ASSUME NEW g \in ApprovalRequired, gst'[g] \notin {"VALIDATED", "CANCELLED"}
      PROVE  approved'[g] /\ g \in approvals'
  <2>0. g \in Graphs
    BY ApprovalAssumption
  <2>1. CASE gst[g] \in {"VALIDATED", "CANCELLED"}
    <3>1. GraphSuccessors("CANCELLED") = {}
      BY DEF GraphSuccessors
    <3>2. /\ pc.at = "approve_graph" /\ pc.g = g
          /\ approved' = [approved EXCEPT ![g] = TRUE]
      BY <1>1, <1>3, <2>0, <2>1, <3>1 DEF GraphMove
    <3>3. QED
      BY <1>2, <1>3, <2>0, <3>2 DEF GraphControl, Consent
  <2>2. CASE gst[g] \notin {"VALIDATED", "CANCELLED"}
    BY <1>2, <1>3, <2>0, <2>2 DEF Consent, ApprovedByUser
  <2>3. QED
    BY <2>1, <2>2
<1>4. ASSUME NEW n \in Nodes, Def[n].kind = "approval", nst'[n] = "SUCCEEDED"
      PROVE  <<n, attempts'[n], "approval">> \in files'
  <2>1. attempts'[n] = attempts[n]
    BY <1>1, <1>4 DEF AttemptMove
  <2>2. CASE nst[n] = "SUCCEEDED"
    BY <1>1, <1>4, <2>1, <2>2 DEF Consent, ApprovedByUser
  <2>3. CASE nst[n] # "SUCCEEDED"
    <3>1. Verdict(n, "SUCCEEDED")
      BY <1>1, <1>4, <2>3 DEF NodeMoves, NodeMove
    <3>2. QED
      BY <1>1, <1>4, <2>1, <3>1 DEF Verdict, Consent, Result
  <2>4. QED
    BY <2>2, <2>3
<1>5. ASSUME pc'.at = "result"
      PROVE  Def[pc'.n].kind # "approval"
  <2> DEFINE n == First(NextRunning(pc.g, pc.n))
  <2>1. Poll
    BY <1>1, <1>5 DEF Arrivals
  <2>2. PICK state, stopped, outcome :
               outcome \in Outcomes(n, state, stopped) /\ GoTo("result", n)
    <3>1. ~GoTo("poll", n)
      BY <1>5, GoToAt
    <3>2. QED
      BY <2>1, <3>1 DEF Poll
  <2>3. Def[n].kind # "approval"
    BY <2>2 DEF Outcomes
  <2>4. pc'.n = n
    BY <2>2, GoToAt
  <2>5. QED
    BY <2>3, <2>4
<1>6. ASSUME pc'.at \in {"ended", "followup"}
      PROVE  Def[pc'.n].kind # "approval"
  <2>1. pc.at \in {"result", "ended"} /\ pc'.n = pc.n
    <3>1. CASE WriteResult
      BY <1>6, <3>1, LeaveAt, GoAt DEF WriteResult, At
    <3>2. CASE EndAttempt
      BY <3>2, GoAt DEF EndAttempt, At
    <3>3. QED
      BY <1>1, <1>6, <3>1, <3>2 DEF Arrivals
  <2>2. QED
    BY <2>1 DEF Consent
<1>7. ASSUME pc'.at = "approve_result"
      PROVE  Result("approval")' \in files'
  <2>1. PICK n \in Nodes : ApproveNode(n)
    BY <1>1, <1>7 DEF Arrivals
  <2>2. pc'.n = n /\ attempts' = attempts /\ <<n, attempts[n], "approval">> \in files'
    BY <2>1, ServeAt DEF ApproveNode
  <2>3. QED
    BY <2>2 DEF Result
<1>8. ASSUME pc'.at = "approve_node"
      PROVE  Result("approval")' \in files'
  <2>1. ApprovalResult
    BY <1>1, <1>8 DEF Arrivals
  <2>2. pc'.n = pc.n /\ attempts' = attempts /\ pc.at = "approve_result"
    BY <1>8, <2>1, GoAt DEF ApprovalResult, Return, Idle, At
  <2>3. QED
    BY <1>1, <2>2 DEF Consent, Result
<1>9. ApprovedByUser'
  BY <1>3, <1>4 DEF ApprovedByUser
<1>10. QED
  BY <1>2, <1>5, <1>6, <1>7, <1>8, <1>9 DEF Consent

(* Consent holds of every behaviour.                                       *)
LEMMA ConsentAlways == Spec => []Consent
<1>1. Init => Consent
  BY ApprovalAssumption DEF Init, Consent, ApprovedByUser, Idle
<1>2. Control /\ GraphControl /\ Consent /\ [Next]_vars => Consent'
  <2>1. ASSUME Consent, LeftStep \/ UNCHANGED vars
        PROVE  Consent'
    BY <2>1, Unseen DEF Consent, ApprovedByUser, Result, seen, durable
  <2>2. QED
    BY <2>1, ConsentNext
<1>3. QED
  BY <1>1, <1>2, ControlAlways, GraphControlAlways, PTL DEF Spec

(* A graph that needs an approval does not go beyond VALIDATED, and no     *)
(* approval node succeeds, without a receipt of the user's word.           *)
THEOREM ApprovedByUserAlways == Spec => []ApprovedByUser
<1>1. Consent => ApprovedByUser
  BY DEF Consent
<1>2. QED
  BY <1>1, ConsentAlways, PTL
-----------------------------------------------------------------------------
(* The type invariant: first what a crash takes away, then the files.      *)
ExecStates == {"none", "turn", "process", "exit0", "exit1", "waiting",
               "ok", "bad", "more", "input"}

AgentStates == [up : BOOLEAN, working : BOOLEAN, interrupt : BOOLEAN,
                turn : {"none", "open", "completed", "failed"}]

VolatileTypes ==
  /\ loaded \subseteq Graphs
  /\ exec \in [Nodes -> ExecStates]
  /\ cancelReq \in [Nodes -> BOOLEAN]
  /\ tripped \in [Nodes -> BOOLEAN]
  /\ calls \in [Nodes -> BOOLEAN]
  /\ owner \in Nodes \cup {0}
  /\ agent \in AgentStates
  /\ crashes \in 0 .. MaxCrashes
  /\ faults \in 0 .. MaxFaults

(* An executor that was killed has a state.                                *)
LEMMA KilledType ==
  ASSUME VolatileTypes, NEW n \in Nodes
  PROVE  Killed(n) \in ExecStates
  BY DEF Killed, VolatileTypes, ExecStates

(* An Agent that was interrupted has a state.                              *)
LEMMA InterruptedType ==
  ASSUME VolatileTypes, NEW n \in Nodes
  PROVE  Interrupted(n) \in AgentStates
<1>1. agent \in AgentStates
  BY DEF VolatileTypes
<1>2. (agent.interrupt \/ (owner = n /\ agent.up /\ agent.working)) \in BOOLEAN
  OBVIOUS
<1>3. \A b \in BOOLEAN : [agent EXCEPT !.interrupt = b] \in AgentStates
  BY <1>1 DEF AgentStates
<1>4. QED
  BY <1>2, <1>3 DEF Interrupted

(* A poll reports one of four outcomes.                                    *)
LEMMA OutcomesType ==
  ASSUME NEW n \in Nodes, NEW state \in ExecStates, NEW stopped \in BOOLEAN
  PROVE  Outcomes(n, state, stopped) \subseteq {"ok", "bad", "more", "input"}
<1>1. Verdicts(n, stopped) \subseteq {"ok", "bad", "more", "input"}
  BY DEF Verdicts
<1>2. (CASE state = "exit0" -> IF stopped THEN {"bad"} ELSE {"ok"}
         [] state = "exit1" -> {"bad"}
         [] state \in {"ok", "bad", "more", "input"} -> {state}
         [] OTHER -> {}) \subseteq {"ok", "bad", "more", "input"}
  BY DEF ExecStates
<1>3. QED
  BY <1>1, <1>2 DEF Outcomes

(* An executor is stopped: the same types.                                 *)
LEMMA CancelTypes ==
  ASSUME VolatileTypes, NEW n \in Nodes, ExecutorCancel(n),
         UNCHANGED <<crashes, faults>>
  PROVE  VolatileTypes'
<1>1. exec' \in [Nodes -> ExecStates] /\ cancelReq' \in [Nodes -> BOOLEAN]
  BY KilledType DEF ExecutorCancel, VolatileTypes
<1>2. agent' \in AgentStates
  BY InterruptedType DEF ExecutorCancel
<1>3. QED
  BY <1>1, <1>2 DEF ExecutorCancel, VolatileTypes

(* Poll keeps the types.                                                   *)
LEMMA PollTypes ==
  ASSUME VolatileTypes, Poll
  PROVE  VolatileTypes'
<1> DEFINE n == First(NextRunning(pc.g, pc.n))
           running == gst[pc.g] # "PAUSING"
           orphan == running /\ exec[n] = "none" /\ owner # n /\ Def[n].kind # "approval"
           state(late) == IF orphan THEN "bad" ELSE IF late THEN Killed(n) ELSE exec[n]
           stopped(late) == cancelReq[n] \/ late
<1>1. n \in Nodes
  <2>1. n \in NextRunning(pc.g, pc.n)
    BY FirstNode DEF Poll, NextRunning, NodesOf
  <2>2. QED
    BY <2>1 DEF NextRunning, NodesOf
<1>2. PICK late \in {FALSE, running /\ Def[n].timeout} :
        /\ cancelReq' = [cancelReq EXCEPT ![n] = stopped(late)]
        /\ \/ /\ exec' = [exec EXCEPT ![n] = state(late)]
              /\ agent' = IF late THEN Interrupted(n) ELSE agent
              /\ owner' = owner
           \/ \E outcome \in Outcomes(n, state(late), stopped(late)) :
                /\ exec' = [exec EXCEPT ![n] = outcome]
                /\ IF owner = n THEN Release ELSE UNCHANGED <<owner, agent>>
  BY DEF Poll
<1>3. late \in BOOLEAN
  OBVIOUS
<1>4. stopped(late) \in BOOLEAN
  BY <1>1, <1>3 DEF VolatileTypes
<1>5. state(late) \in ExecStates
  BY <1>1, KilledType DEF VolatileTypes, ExecStates
<1>6. Outcomes(n, state(late), stopped(late)) \subseteq ExecStates
  <2> HIDE DEF n, state, stopped
  <2>1. Outcomes(n, state(late), stopped(late)) \subseteq {"ok", "bad", "more", "input"}
    BY <1>1, <1>4, <1>5, OutcomesType
  <2>2. QED
    BY <2>1 DEF ExecStates
<1>7. Interrupted(n) \in AgentStates /\ agent \in AgentStates
  BY <1>1, InterruptedType DEF VolatileTypes
<1>8. UNCHANGED <<loaded, tripped, calls, crashes, faults>>
  BY DEF Poll, rest
<1> HIDE DEF n, state, stopped, orphan, running
<1>9. cancelReq' \in [Nodes -> BOOLEAN]
  BY <1>2, <1>4 DEF VolatileTypes
<1>10. exec' \in [Nodes -> ExecStates]
  BY <1>2, <1>5, <1>6 DEF VolatileTypes
<1>11. owner' \in Nodes \cup {0}
  BY <1>2 DEF Release, VolatileTypes
<1>12. agent' \in AgentStates
  BY <1>2, <1>7 DEF Release, AgentStates
<1>13. QED
  BY <1>8, <1>9, <1>10, <1>11, <1>12 DEF VolatileTypes

(* Launch keeps the types.                                                 *)
LEMMA LaunchTypes ==
  ASSUME Control, VolatileTypes, Launch
  PROVE  VolatileTypes'
<1>1. pc.n \in Nodes
  BY DEF Launch, Control, NodeLabels, LeasedLabels, At
<1>2. /\ cancelReq' = [cancelReq EXCEPT ![pc.n] = FALSE]
      /\ tripped' = [tripped EXCEPT ![pc.n] = FALSE]
      /\ calls' = [calls EXCEPT ![pc.n] = FALSE]
      /\ UNCHANGED <<loaded, crashes, faults>>
  BY DEF Launch
<1>3. \/ Submit(pc.n)
      \/ Refuse(pc.n)
      \/ \E state \in {"process", "waiting", "ok"} : RunHere(pc.n, state)
  BY DEF Launch
<1>4. exec' \in [Nodes -> ExecStates]
  BY <1>3 DEF Submit, Refuse, RunHere, VolatileTypes, ExecStates
<1>5. owner' \in Nodes \cup {0}
  BY <1>1, <1>3 DEF Submit, Refuse, RunHere, VolatileTypes
<1>6. agent' \in AgentStates
  BY <1>3 DEF Submit, Refuse, RunHere, VolatileTypes, AgentStates
<1>7. QED
  BY <1>1, <1>2, <1>4, <1>5, <1>6 DEF VolatileTypes

(* The Agent and the test processes keep the types.                        *)
LEMMA EnvironmentTypes ==
  ASSUME VolatileTypes, Environment
  PROVE  VolatileTypes'
<1>1. ASSUME NEW n \in Nodes, ToolCall(n)
      PROVE  VolatileTypes'
  BY <1>1 DEF ToolCall, VolatileTypes
<1>2. ASSUME NEW n \in Nodes, WatchdogTrips(n)
      PROVE  VolatileTypes'
  BY <1>2, InterruptedType DEF WatchdogTrips, VolatileTypes, rest
<1>3. ASSUME NEW n \in Nodes, ProcessExits(n)
      PROVE  VolatileTypes'
  BY <1>3 DEF ProcessExits, VolatileTypes, flags, rest, ExecStates
<1>4. CASE TurnError \/ UserTurn
  <2>1. agent' \in AgentStates
    BY <1>4 DEF TurnError, UserTurn, VolatileTypes, AgentStates
  <2>2. QED
    BY <1>4, <2>1 DEF TurnError, UserTurn, VolatileTypes, flags, rest
<1>5. CASE Waiting \/ AgentReady
  <2>1. agent' \in AgentStates
    <3>1. agent \in AgentStates
      BY DEF VolatileTypes
    <3>2. CASE Waiting
      BY <3>1, <3>2 DEF Waiting, AgentStates
    <3>3. CASE AgentReady
      BY <3>1, <3>3 DEF AgentReady, AgentStates
    <3>4. QED
      BY <1>5, <3>2, <3>3
  <2>2. owner' \in Nodes \cup {0}
    BY <1>5 DEF Waiting, AgentReady, VolatileTypes
  <2>3. QED
    BY <1>5, <2>1, <2>2 DEF Waiting, AgentReady, VolatileTypes, flags, rest
<1>6. CASE AgentDies
  <2>1. agent' \in AgentStates
    BY <1>6 DEF AgentDies, VolatileTypes, AgentStates
  <2>2. QED
    BY <1>6, <2>1 DEF AgentDies, VolatileTypes, flags, rest
<1>7. ASSUME NEW x \in left, LeftCalls(x) \/ LeftEnds(x)
      PROVE  VolatileTypes'
  BY <1>7 DEF LeftCalls, LeftEnds, VolatileTypes, volatile, flags
<1>8. QED
  BY <1>1, <1>2, <1>3, <1>4, <1>5, <1>6, <1>7 DEF Environment

(* Every step keeps the types of the volatile state.                       *)
LEMMA VolatileNext ==
  ASSUME Control, VolatileTypes, Next
  PROVE  VolatileTypes'
<1>0. ASSUME UNCHANGED <<volatile, rest>>
      PROVE  VolatileTypes'
  BY <1>0 DEF VolatileTypes, volatile, flags, rest
<1>1. CASE TickStep
  <2>1. CASE CancelEnd
    <3>1. First(Living(pc.g)) \in Living(pc.g)
      BY <2>1, FirstNode DEF CancelEnd, Living, NodesOf
    <3>2. First(Living(pc.g)) \in Nodes
      BY <3>1 DEF Living, NodesOf
    <3>3. /\ UNCHANGED rest
          /\ ExecutorCancel(First(Living(pc.g))) \/ UNCHANGED volatile
      BY <2>1 DEF CancelEnd
    <3>4. QED
      BY <1>0, <3>2, <3>3, CancelTypes DEF rest
  <2>2. CASE Launch
    BY <2>2, LaunchTypes
  <2>3. CASE Poll
    BY <2>3, PollTypes
  <2>4. \/ CancelEnd \/ Launch \/ Poll
        \/ UNCHANGED <<volatile, rest>>
    BY <1>1
       DEF TickStep, onlyNode, onlyGraph,
           Tick, InitNode, InitDone, PollDone, WriteResult, EndAttempt,
           FollowUpNode, FollowUpGraph, FollowUpNone, Recompute, RecomputeDone,
           Lease, NothingToLease, WritePolicy, StartAttempt, WaitForApproval,
           GraphWaits, Dispatched, Defer, Finalize, PauseNode, PauseGraph,
           NotSettled, CancelMark, CancelGraph
  <2>5. QED
    BY <1>0, <2>1, <2>2, <2>3, <2>4
<1>2. CASE RequestStep
  <2>1. UNCHANGED <<volatile, rest>>
    BY <1>2
       DEF RequestStep, onlyNode, onlyGraph,
           ResumeGate, ResumeGraph, Thaw, Thawed, GraphApproved, ApprovalResult,
           NodeApproved, ApprovalResumes, NodeCancelling, NodeCancelled
  <2>2. QED
    BY <1>0, <2>1
<1>3. CASE Request
  <2>1. ASSUME NEW g \in Graphs,
               Start(g) \/ Pause(g) \/ Resume(g) \/ Cancel(g) \/ ApproveGraph(g)
        PROVE  VolatileTypes'
    BY <1>0, <2>1 DEF Start, Pause, Resume, Cancel, ApproveGraph, onlyNode, onlyGraph
  <2>2. ASSUME NEW n \in Nodes, ApproveNode(n) \/ Retry(n) \/ Skip(n)
        PROVE  VolatileTypes'
    BY <1>0, <2>2 DEF ApproveNode, Retry, Skip, onlyNode
  <2>3. ASSUME NEW n \in Nodes, CancelNode(n)
        PROVE  VolatileTypes'
    BY <1>0, <2>3, CancelTypes DEF CancelNode, rest
  <2>4. QED
    BY <1>3, <2>1, <2>2, <2>3 DEF Request
<1>4. CASE Environment
  BY <1>4, EnvironmentTypes
<1>5. CASE WriteFails
  <2>1. faults' \in 0 .. MaxFaults
    BY <1>5, BoundsAssumption DEF WriteFails, VolatileTypes
  <2>2. QED
    BY <1>5, <2>1 DEF WriteFails, VolatileTypes, volatile, flags
<1>6. CASE Crash
  <2>1. crashes' \in 0 .. MaxCrashes
    BY <1>6, BoundsAssumption DEF Crash, VolatileTypes
  <2>2. QED
    BY <1>6, <2>1 DEF Crash, VolatileTypes, ExecStates, AgentStates, AgentDown
<1>7. ASSUME NEW g \in Graphs, Load(g)
      PROVE  VolatileTypes'
  BY <1>7 DEF Load, VolatileTypes, flags, rest
<1>8. QED
  BY <1>1, <1>2, <1>3, <1>4, <1>5, <1>6, <1>7 DEF Next

(* An executor is live from the launch of the attempt until a poll or a    *)
(* cancel has ended it.                                                    *)
LiveStates == {"turn", "process", "exit0", "exit1"}
Live(n) == exec[n] \in LiveStates

(* What one step may do to the executor of a node.                         *)
ExecMove(n) ==
  \/ exec'[n] = exec[n]
  \/ exec'[n] \notin LiveStates
  \/ exec[n] = "process" /\ exec'[n] # "turn"
  \/ /\ pc.at = "request" /\ pc.n = n /\ Def[n].kind # "approval"
     /\ exec'[n] = "turn" => owner' = n

(* A turn loses its owner when it has been polled, or abandoned.           *)
OwnerEnds ==
  \/ owner' = owner
  \/ owner' = 0 /\ exec'[owner] # "turn"
  \/ owner' = 0 /\ NodeTerminal(nst[owner])
  \/ pc.at = "request" /\ IsAgent(pc.n)

(* Who owns the lease of the Agent keeps its turn, or gets it.             *)
OwnerTurns ==
  owner' # 0 => \/ exec'[owner'] = "turn"
                \/ owner' = owner /\ exec[owner] # "turn"
                \/ owner' = owner /\ pc.at = "request" /\ pc.n = owner

(* A cancelled executor is not started again.                              *)
LEMMA CancelMoves ==
  ASSUME VolatileTypes, NEW n \in Nodes, ExecutorCancel(n)
  PROVE  (\A m \in Nodes : ExecMove(m)) /\ OwnerTurns /\ owner' = owner
  BY DEF ExecutorCancel, Killed, ExecMove, LiveStates, VolatileTypes, OwnerTurns

(* A poll ends an executor or leaves it as it is.                          *)
LEMMA PollMoves ==
  ASSUME Control, VolatileTypes, Poll
  PROVE  /\ (\A m \in Nodes : ExecMove(m)) /\ OwnerEnds /\ OwnerTurns
         /\ pc'.at = "result" => exec'[pc'.n] \notin LiveStates
<1> DEFINE n == First(NextRunning(pc.g, pc.n))
           running == gst[pc.g] # "PAUSING"
           orphan == running /\ exec[n] = "none" /\ owner # n /\ Def[n].kind # "approval"
           state(late) == IF orphan THEN "bad" ELSE IF late THEN Killed(n) ELSE exec[n]
           stopped(late) == cancelReq[n] \/ late
<1>1. n \in Nodes
  <2>1. n \in NextRunning(pc.g, pc.n)
    BY FirstNode DEF Poll, NextRunning, NodesOf
  <2>2. QED
    BY <2>1 DEF NextRunning, NodesOf
<1>2. PICK late \in {FALSE, running /\ Def[n].timeout} :
        \/ /\ exec' = [exec EXCEPT ![n] = state(late)]
           /\ owner' = owner
           /\ GoTo("poll", n)
        \/ \E outcome \in Outcomes(n, state(late), stopped(late)) :
             /\ exec' = [exec EXCEPT ![n] = outcome]
             /\ IF owner = n THEN Release ELSE UNCHANGED <<owner, agent>>
             /\ GoTo("result", n)
  BY DEF Poll
<1>3. late \in BOOLEAN
  OBVIOUS
<1>4. stopped(late) \in BOOLEAN
  BY <1>1, <1>3 DEF VolatileTypes
<1>5. /\ state(late) \in ExecStates /\ state(late) \in {"bad", exec[n]}
      /\ exec[n] = "turn" => state(late) = "turn"
  BY <1>1, KilledType DEF VolatileTypes, ExecStates, Killed
<1>6. Outcomes(n, state(late), stopped(late)) \subseteq {"ok", "bad", "more", "input"}
  <2> HIDE DEF n, state, stopped
  <2>1. QED
    BY <1>1, <1>4, <1>5, OutcomesType
<1> HIDE DEF n, state, stopped, orphan, running
<1>7. CASE /\ exec' = [exec EXCEPT ![n] = state(late)]
           /\ owner' = owner
           /\ GoTo("poll", n)
  <2>1. OwnerTurns
    BY <1>1, <1>5, <1>7 DEF OwnerTurns, VolatileTypes
  <2>2. QED
    BY <1>1, <1>5, <1>7, <2>1, GoToAt DEF ExecMove, OwnerEnds, LiveStates, VolatileTypes
<1>8. ASSUME NEW outcome \in Outcomes(n, state(late), stopped(late)),
             exec' = [exec EXCEPT ![n] = outcome],
             IF owner = n THEN Release ELSE UNCHANGED <<owner, agent>>,
             GoTo("result", n)
      PROVE  /\ (\A m \in Nodes : ExecMove(m)) /\ OwnerEnds /\ OwnerTurns
             /\ exec'[pc'.n] \notin LiveStates
  <2>1. outcome \in {"ok", "bad", "more", "input"}
    BY <1>6
  <2>2. \A m \in Nodes : ExecMove(m)
    BY <1>1, <1>8, <2>1 DEF ExecMove, LiveStates, VolatileTypes
  <2>3. exec'[n] # "turn"
    BY <1>1, <1>8, <2>1 DEF VolatileTypes
  <2>4. OwnerEnds
    BY <1>8, <2>3 DEF OwnerEnds, Release
  <2>5. OwnerTurns
    BY <1>1, <1>8 DEF OwnerTurns, Release, VolatileTypes
  <2>6. exec'[pc'.n] \notin LiveStates
    BY <1>1, <1>8, <2>1, GoToAt DEF LiveStates, VolatileTypes
  <2>7. QED
    BY <2>2, <2>4, <2>5, <2>6
<1>9. QED
  BY <1>2, <1>7, <1>8

(* A launch starts the executor of the node that is served, and takes the  *)
(* lease of the Agent for it if there will be a turn.                      *)
LEMMA LaunchMoves ==
  ASSUME Control, VolatileTypes, Launch
  PROVE  (\A m \in Nodes : ExecMove(m)) /\ OwnerEnds /\ OwnerTurns
<1>1. pc.n \in Nodes /\ pc.at = "request"
  BY DEF Launch, Control, NodeLabels, LeasedLabels, At
<1>2. CASE IsAgent(pc.n)
  <2>1. Submit(pc.n) \/ Refuse(pc.n)
    BY <1>1, <1>2, AgentLaunch
  <2>2. Def[pc.n].kind # "approval"
    BY <1>2 DEF IsAgent
  <2>3. QED
    BY <1>1, <1>2, <2>1, <2>2
       DEF Submit, Refuse, ExecMove, OwnerEnds, OwnerTurns, LiveStates, VolatileTypes
<1>3. CASE ~IsAgent(pc.n)
  <2>1. \/ Def[pc.n].action = "process" /\ RunHere(pc.n, "process")
        \/ \E state \in {"waiting", "ok"} : RunHere(pc.n, state)
        \/ Refuse(pc.n)
    BY <1>3 DEF Launch
  <2>2. Def[pc.n].action = "process" => Def[pc.n].kind # "approval"
    BY <1>1, DefAssumption
  <2>3. owner' = owner
    BY <2>1 DEF RunHere, Refuse
  <2>4. QED
    BY <1>1, <2>1, <2>2, <2>3
       DEF RunHere, Refuse, ExecMove, OwnerEnds, OwnerTurns, LiveStates, VolatileTypes
<1>4. QED
  BY <1>2, <1>3

(* The same of every step; the registry only grows, but for a crash, which *)
(* ends every executor.                                                    *)
LEMMA NextExecs ==
  ASSUME Control, VolatileTypes, Next
  PROVE  /\ \A m \in Nodes : ExecMove(m)
         /\ OwnerEnds /\ OwnerTurns
         /\ loaded \subseteq loaded' \/ Crash
<1>0. ASSUME UNCHANGED <<exec, owner>>
      PROVE  (\A m \in Nodes : ExecMove(m)) /\ OwnerEnds /\ OwnerTurns
  BY <1>0 DEF ExecMove, OwnerEnds, OwnerTurns
<1>1. CASE TickStep
  <2>1. CASE CancelEnd
    <3>1. First(Living(pc.g)) \in Living(pc.g)
      BY <2>1, FirstNode DEF CancelEnd, Living, NodesOf
    <3>2. First(Living(pc.g)) \in Nodes
      BY <3>1 DEF Living, NodesOf
    <3>3. ExecutorCancel(First(Living(pc.g))) \/ UNCHANGED volatile
      BY <2>1 DEF CancelEnd
    <3>4. CASE UNCHANGED volatile
      BY <1>0, <3>4 DEF volatile
    <3>5. CASE ExecutorCancel(First(Living(pc.g)))
      BY <3>2, <3>5, CancelMoves DEF OwnerEnds, ExecutorCancel
    <3>6. QED
      BY <3>3, <3>4, <3>5
  <2>2. CASE Launch
    BY <2>2, LaunchMoves DEF Launch
  <2>3. CASE Poll
    BY <2>3, PollMoves DEF Poll
  <2>4. \/ CancelEnd \/ Launch \/ Poll
        \/ UNCHANGED <<exec, owner, loaded>>
    BY <1>1
       DEF TickStep, onlyNode, onlyGraph, volatile,
           Tick, InitNode, InitDone, PollDone, WriteResult, EndAttempt,
           FollowUpNode, FollowUpGraph, FollowUpNone, Recompute, RecomputeDone,
           Lease, NothingToLease, WritePolicy, StartAttempt, WaitForApproval,
           GraphWaits, Dispatched, Defer, Finalize, PauseNode, PauseGraph,
           NotSettled, CancelMark, CancelGraph
  <2>5. QED
    BY <1>0, <2>1, <2>2, <2>3, <2>4
<1>2. CASE RequestStep
  <2>1. UNCHANGED <<exec, owner, loaded>>
    BY <1>2
       DEF RequestStep, onlyNode, onlyGraph, volatile,
           ResumeGate, ResumeGraph, Thaw, Thawed, GraphApproved, ApprovalResult,
           NodeApproved, ApprovalResumes, NodeCancelling, NodeCancelled
  <2>2. QED
    BY <1>0, <2>1
<1>3. CASE Request
  <2>1. ASSUME NEW n \in Nodes, CancelNode(n)
        PROVE  (\A m \in Nodes : ExecMove(m)) /\ OwnerEnds /\ OwnerTurns /\ loaded' = loaded
    <3>1. CASE UNCHANGED volatile
      BY <1>0, <3>1 DEF volatile
    <3>2. CASE ExecutorCancel(n)
      BY <3>2, CancelMoves DEF OwnerEnds, ExecutorCancel
    <3>3. QED
      BY <2>1, <3>1, <3>2 DEF CancelNode
  <2>2. \/ \E n \in Nodes : CancelNode(n)
        \/ UNCHANGED <<exec, owner, loaded>>
    BY <1>3
       DEF Request, onlyNode, onlyGraph, volatile,
           Start, Pause, Resume, Cancel, ApproveGraph, ApproveNode, Retry, Skip
  <2>3. QED
    BY <1>0, <2>1, <2>2
<1>4. CASE Environment
  <2>1. CASE Waiting \/ AgentReady
    BY <2>1 DEF Waiting, AgentReady, Abandoned, OwnerEnds, OwnerTurns, ExecMove
  <2>2. ASSUME NEW n \in Nodes, ProcessExits(n)
        PROVE  (\A m \in Nodes : ExecMove(m)) /\ OwnerEnds /\ OwnerTurns /\ loaded' = loaded
    BY <2>2 DEF ProcessExits, ExecMove, OwnerEnds, OwnerTurns, VolatileTypes
  <2>3. \/ Waiting \/ AgentReady
        \/ \E n \in Nodes : ProcessExits(n)
        \/ UNCHANGED <<exec, owner, loaded>>
    BY <1>4 DEF Environment, ToolCall, WatchdogTrips, TurnError, AgentDies, UserTurn,
                LeftCalls, LeftEnds, volatile
  <2>4. loaded' = loaded
    BY <2>2, <2>3 DEF Waiting, AgentReady
  <2>5. QED
    BY <1>0, <2>1, <2>2, <2>3, <2>4
<1>5. CASE WriteFails \/ \E g \in Graphs : Load(g)
  <2>1. UNCHANGED <<exec, owner>> /\ loaded \subseteq loaded'
    BY <1>5 DEF WriteFails, Load, volatile
  <2>2. QED
    BY <1>0, <2>1
<1>6. CASE Crash
  BY <1>6 DEF Crash, ExecMove, OwnerEnds, OwnerTurns, LiveStates, VolatileTypes
<1>7. QED
  BY <1>1, <1>2, <1>3, <1>4, <1>5, <1>6 DEF Next

Kinds == {"policy", "approval", "ok", "bad"}

(* Every file is that of an attempt within the budget; what is about to be *)
(* written, and the turn of the owner, belongs to such an attempt.         *)
Provenance ==
  /\ \A f \in files : \E n \in Nodes : \E a \in 1 .. Def[n].max, kind \in Kinds :
       f = <<n, a, kind>>
  /\ \A n \in Nodes :
       nst[n] \in {"RUNNING", "WAITING_APPROVAL", "INTERRUPTED"} => attempts[n] > 0
  /\ pc.at \in {"result", "approve_result"} => attempts[pc.n] > 0
  /\ pc.at = "request" => <<pc.n, Attempt(pc.n), "policy">> \in files
  /\ owner # 0 => \E a \in Nat : <<owner, a, "policy">> \in files
  /\ ran \in [Nodes -> SUBSET Nat]
  /\ \A n \in Nodes : ran[n] \subseteq 1 .. Def[n].max

(* What a dead host left is of an attempt within the budget; a turn of it  *)
(* is the one its Agent had when the host died.                            *)
Leftovers ==
  /\ \A n \in Nodes : exec[n] = "process" => \E a \in Nat : <<n, a, "policy">> \in files
  /\ \A x \in left : \E what \in {"process", "turn"} :
       \E n \in Nodes : \E a \in 1 .. Def[n].max : x = <<what, n, a>>
  /\ IsFiniteSet(LeftTurns) /\ Cardinality(LeftTurns) <= crashes

(* The policy receipts of a node number at most its attempts.              *)
LEMMA LastAttemptBound ==
  ASSUME Provenance, NEW n \in Nodes, NEW a \in Nat, <<n, a, "policy">> \in files
  PROVE  LastAttempt(n) \in 1 .. Def[n].max
<1> DEFINE F == {f \in files : f[1] = n /\ f[3] = "policy"}
           T == 1 .. Def[n].max
           number == [f \in F |-> f[2]]
<1>1. Def[n].max \in Nat
  BY MaxType
<1>2. ASSUME NEW f \in F
      PROVE  f[2] \in T /\ f = <<n, f[2], "policy">>
  <2>1. f \in files /\ f[1] = n /\ f[3] = "policy"
    OBVIOUS
  <2>2. PICK m \in Nodes : \E b \in 1 .. Def[m].max, kind \in Kinds : f = <<m, b, kind>>
    BY <2>1 DEF Provenance
  <2>3. QED
    BY <2>1, <2>2
<1>3. number \in Injection(F, T)
  <2>1. number \in [F -> T]
    BY <1>2
  <2>2. ASSUME NEW f \in F, NEW h \in F, number[f] = number[h]
        PROVE  f = h
    <3>1. f[2] = h[2]
      BY <2>2
    <3>2. QED
      BY <1>2, <3>1
  <2>3. QED
    BY <2>1, <2>2, Fun_IsInj
<1>4. IsFiniteSet(T) /\ Cardinality(T) = Def[n].max
  <2>1. \A m \in Nat : IsFiniteSet(1 .. m) /\ Cardinality(1 .. m) = m
    BY UpTo
  <2>2. QED
    BY <1>1, <2>1
<1> HIDE DEF number, T
<1>5. IsFiniteSet(F) /\ Cardinality(F) <= Def[n].max
  <2> HIDE DEF F
  <2>1. QED
    BY <1>3, <1>4, FS_Injection
<1>6. F # {}
  <2>1. <<n, a, "policy">> \in F
    OBVIOUS
  <2>2. QED
    BY <2>1
<1>7. Cardinality(F) \in Nat /\ Cardinality(F) # 0
  <2> HIDE DEF F
  <2>1. QED
    BY <1>5, <1>6, FS_EmptySet, FS_CardinalityType
<1>8. QED
  BY <1>1, <1>5, <1>7 DEF LastAttempt

(* Only a crash leaves anything behind.                                    *)
LEMMA NextLeft ==
  ASSUME Next
  PROVE  (left' \subseteq left /\ crashes' = crashes) \/ Crash
<1>1. CASE TickStep
  <2>1. UNCHANGED <<left, crashes>>
    BY <1>1
       DEF TickStep, onlyNode, onlyGraph, rest, ExecutorCancel,
           Tick, InitNode, InitDone, Poll, PollDone, WriteResult, EndAttempt,
           FollowUpNode, FollowUpGraph, FollowUpNone, Recompute, RecomputeDone,
           Lease, NothingToLease, WritePolicy, Launch, StartAttempt, WaitForApproval,
           GraphWaits, Dispatched, Defer, Finalize, PauseNode, PauseGraph,
           NotSettled, CancelMark, CancelEnd, CancelGraph
  <2>2. QED
    BY <2>1
<1>2. CASE RequestStep \/ Request
  <2>1. UNCHANGED <<left, crashes>>
    BY <1>2
       DEF RequestStep, Request, onlyNode, onlyGraph, rest, ExecutorCancel,
           ResumeGate, ResumeGraph, Thaw, Thawed, GraphApproved, ApprovalResult,
           NodeApproved, ApprovalResumes, NodeCancelling, NodeCancelled,
           Start, Pause, Resume, Cancel, ApproveGraph, ApproveNode, Retry, Skip,
           CancelNode
  <2>2. QED
    BY <2>1
<1>3. CASE Environment
  BY <1>3 DEF Environment, ToolCall, WatchdogTrips, ProcessExits, TurnError, Waiting,
              AgentReady, AgentDies, UserTurn, LeftCalls, LeftEnds, rest
<1>4. CASE WriteFails \/ \E g \in Graphs : Load(g)
  BY <1>4 DEF WriteFails, Load, rest
<1>5. QED
  BY <1>1, <1>2, <1>3, <1>4 DEF Next

(* Every step keeps Leftovers.                                             *)
LEMMA LeftoversNext ==
  ASSUME Control, VolatileTypes, Provenance, Leftovers, Next
  PROVE  Leftovers'
<1>1. /\ \A n \in Nodes : ExecMove(n)
      /\ files \subseteq files' /\ crashes \in Nat
      /\ (left' \subseteq left /\ crashes' = crashes) \/ Crash
  BY NextExecs, NextFiles, NextLeft, BoundsAssumption DEF FilesMove, VolatileTypes
<1>2. ASSUME NEW n \in Nodes, exec'[n] = "process"
      PROVE  \E a \in Nat : <<n, a, "policy">> \in files'
  <2>1. CASE exec[n] = "process"
    BY <1>1, <2>1 DEF Leftovers
  <2>2. CASE pc.at = "request" /\ pc.n = n
    <3>1. Attempt(n) \in Nat
      BY DEF Attempt, Control
    <3>2. QED
      BY <1>1, <2>2, <3>1 DEF Provenance
  <2>3. QED
    BY <1>1, <1>2, <2>1, <2>2 DEF ExecMove, LiveStates
<1>3. CASE left' \subseteq left /\ crashes' = crashes
  <2>1. LeftTurns' \subseteq LeftTurns
    BY <1>3 DEF LeftTurns
  <2>2. /\ IsFiniteSet(LeftTurns') /\ Cardinality(LeftTurns') <= Cardinality(LeftTurns)
        /\ Cardinality(LeftTurns') \in Nat /\ Cardinality(LeftTurns) \in Nat
    BY <2>1, FS_Subset, FS_CardinalityType DEF Leftovers
  <2>3. Cardinality(LeftTurns') <= crashes'
    BY <1>1, <1>3, <2>2 DEF Leftovers
  <2>4. QED
    BY <1>2, <1>3, <2>2, <2>3 DEF Leftovers
<1>4. CASE Crash
  <2> DEFINE last == <<"turn", owner, LastAttempt(owner)>>
             grown == LeftTurns \cup {last}
  <2>1. /\ left' = left \cup Survivors /\ crashes' = crashes + 1
    BY <1>4 DEF Crash
  <2>2. ASSUME NEW x \in Survivors
        PROVE  \E what \in {"process", "turn"} :
                 \E n \in Nodes : \E a \in 1 .. Def[n].max : x = <<what, n, a>>
    <3>1. PICK what \in {"process", "turn"}, n \in Nodes :
            /\ x = <<what, n, LastAttempt(n)>>
            /\ exec[n] = "process" \/ owner = n
      BY DEF Survivors, Turning
    <3>2. n # 0
      BY NumbersAssumption
    <3>3. PICK a \in Nat : <<n, a, "policy">> \in files
      BY <3>1, <3>2 DEF Provenance, Leftovers
    <3>4. LastAttempt(n) \in 1 .. Def[n].max
      BY <3>3, LastAttemptBound
    <3>5. QED
      BY <3>1, <3>4
  <2>3. ASSUME NEW x \in left'
        PROVE  \E what \in {"process", "turn"} :
                 \E n \in Nodes : \E a \in 1 .. Def[n].max : x = <<what, n, a>>
    BY <2>1, <2>2, <2>3 DEF Leftovers
  <2>4. LeftTurns' \subseteq grown
    BY <2>1 DEF LeftTurns, Survivors, Turning
  <2>5. /\ IsFiniteSet(grown) /\ Cardinality(grown) \in Nat
        /\ Cardinality(grown) <= Cardinality(LeftTurns) + 1
    <3>1. IsFiniteSet(LeftTurns) /\ Cardinality(LeftTurns) \in Nat
      BY FS_CardinalityType DEF Leftovers
    <3> HIDE DEF last
    <3>2. /\ IsFiniteSet(grown)
          /\ Cardinality(grown)
               = IF last \in LeftTurns THEN Cardinality(LeftTurns) ELSE Cardinality(LeftTurns) + 1
      BY <3>1, FS_AddElement
    <3>3. QED
      BY <3>1, <3>2
  <2> HIDE DEF grown
  <2>6. /\ IsFiniteSet(LeftTurns') /\ Cardinality(LeftTurns') <= Cardinality(grown)
        /\ Cardinality(LeftTurns') \in Nat
    BY <2>4, <2>5, FS_Subset, FS_CardinalityType
  <2>7. Cardinality(LeftTurns) \in Nat /\ Cardinality(LeftTurns) <= crashes
    BY FS_CardinalityType DEF Leftovers
  <2>8. Cardinality(LeftTurns') <= crashes'
    BY <1>1, <2>1, <2>5, <2>6, <2>7
  <2>9. QED
    BY <1>2, <2>3, <2>6, <2>8 DEF Leftovers
<1>5. QED
  BY <1>1, <1>3, <1>4

(* Every step keeps Provenance.                                            *)
LEMMA ProvenanceNext ==
  ASSUME Control, AttemptBudget, VolatileTypes, Provenance, Leftovers, Next
  PROVE  Provenance'
<1>1. /\ NodeMoves /\ (\A n \in Nodes : AttemptMove(n))
      /\ attempts \in [Nodes -> Nat] /\ attempts' \in [Nodes -> Nat]
      /\ Arrivals \/ UNCHANGED seen
      /\ FilesMove /\ OwnerMove /\ RanMove
      /\ files \subseteq files'
  BY NextMoves, NextAttempts, NextArrivals, Unseen, NextFiles, NextOwnerRan
     DEF FilesMove, Control
<1>2. ASSUME NEW n \in Nodes
      PROVE  attempts'[n] >= attempts[n]
  BY <1>1 DEF AttemptMove
<1>3. ASSUME NEW n \in Nodes,
             nst'[n] \in {"RUNNING", "WAITING_APPROVAL", "INTERRUPTED"}
      PROVE  attempts'[n] > 0
  <2>1. CASE nst[n] \in {"RUNNING", "WAITING_APPROVAL", "INTERRUPTED"}
    BY <1>1, <1>2, <2>1 DEF Provenance
  <2>2. CASE nst[n] \notin {"RUNNING", "WAITING_APPROVAL", "INTERRUPTED"}
    <3>1. NodeMove(n)
      BY <1>1 DEF NodeMoves
    <3>2. nst'[n] = "RUNNING" /\ nst[n] # "RUNNING"
      BY <1>3, <2>2, <3>1 DEF NodeMove, NodeSuccessors
    <3>3. attempts'[n] = attempts[n] + 1
      BY <3>1, <3>2 DEF NodeMove
    <3>4. QED
      BY <1>1, <3>3
  <2>3. QED
    BY <2>1, <2>2
(* The number of an attempt that gets a file is within the budget.         *)
<1>4. ASSUME pc.at \in {"begin", "request"}
      PROVE  pc.n \in Nodes /\ Attempt(pc.n) \in 1 .. Def[pc.n].max
  <2>1. pc.n \in Nodes /\ nst[pc.n] = "LEASED"
    BY <1>4 DEF Control, NodeLabels, LeasedLabels
  <2>2. attempts[pc.n] < Def[pc.n].max
    BY <2>1 DEF AttemptBudget, MayBeLeased
  <2>3. QED
    BY <1>1, <2>1, <2>2, MaxType DEF Attempt
<1>5. ASSUME NEW n \in Nodes, attempts[n] > 0
      PROVE  attempts[n] \in 1 .. Def[n].max
  BY <1>1, <1>5, MaxType DEF AttemptBudget
<1>6. ASSUME NEW f \in files'
      PROVE  \E n \in Nodes : \E a \in 1 .. Def[n].max, kind \in Kinds :
               f = <<n, a, kind>>
  <2>1. CASE f \in files
    BY <2>1 DEF Provenance
  <2>2. CASE pc.at = "begin" /\ f = <<pc.n, Attempt(pc.n), "policy">>
    BY <1>4, <2>2 DEF Kinds
  <2>3. ASSUME pc.at \in {"result", "approve_result"}, NEW kind \in {"ok", "bad"},
               f = Result(kind)
        PROVE  \E n \in Nodes : \E a \in 1 .. Def[n].max, k \in Kinds : f = <<n, a, k>>
    <3>1. pc.n \in Nodes /\ attempts[pc.n] > 0
      BY <2>3 DEF Provenance, Control, NodeLabels
    <3>2. attempts[pc.n] \in 1 .. Def[pc.n].max
      BY <1>5, <3>1
    <3>3. QED
      BY <2>3, <3>1, <3>2 DEF Result, Kinds
  <2>4. ASSUME NEW n \in Nodes, nst[n] = "WAITING_APPROVAL",
               f = <<n, attempts[n], "approval">>
        PROVE  \E m \in Nodes : \E a \in 1 .. Def[m].max, k \in Kinds : f = <<m, a, k>>
    <3>1. attempts[n] \in 1 .. Def[n].max
      BY <1>5, <2>4 DEF Provenance
    <3>2. QED
      BY <2>4, <3>1 DEF Kinds
  <2>5. QED
    BY <1>1, <1>6, <2>1, <2>2, <2>3, <2>4 DEF FilesMove
<1>7. ASSUME pc'.at \in {"result", "approve_result"}
      PROVE  attempts'[pc'.n] > 0
  <2>0. CASE UNCHANGED seen
    BY <1>7, <2>0 DEF Provenance, seen, durable
  <2>1. CASE pc'.at = "result" /\ Arrivals
    <3> DEFINE n == First(NextRunning(pc.g, pc.n))
    <3>1. Poll
      BY <2>1 DEF Arrivals
    <3>2. n \in NextRunning(pc.g, pc.n)
      BY <3>1, FirstNode DEF Poll, NextRunning, NodesOf
    <3>3. n \in Nodes /\ nst[n] = "RUNNING"
      BY <3>2 DEF NextRunning, NodesOf
    <3>4. pc'.n = n
      BY <3>1, GoToAt DEF Poll
    <3> HIDE DEF n
    <3>5. QED
      BY <1>1, <1>2, <3>3, <3>4 DEF Provenance
  <2>2. CASE pc'.at = "approve_result" /\ Arrivals
    <3>1. PICK n \in Nodes : ApproveNode(n)
      BY <2>2 DEF Arrivals
    <3>2. pc'.n = n /\ nst[n] = "WAITING_APPROVAL"
      BY <3>1, ServeAt DEF ApproveNode
    <3>3. QED
      BY <1>1, <1>2, <3>2 DEF Provenance
  <2>3. QED
    BY <1>1, <1>7, <2>0, <2>1, <2>2
<1>8. ASSUME pc'.at = "request"
      PROVE  <<pc.n, Attempt(pc.n), "policy">>' \in files'
  <2>0. CASE UNCHANGED seen
    BY <1>8, <2>0 DEF Provenance, Attempt, seen, durable
  <2> SUFFICES ASSUME Arrivals
               PROVE  <<pc.n, Attempt(pc.n), "policy">>' \in files'
    BY <1>1, <2>0
  <2>1. WritePolicy
    BY <1>8 DEF Arrivals
  <2>2. Go("request") /\ pc'.n = pc.n /\ attempts' = attempts
    BY <1>8, <2>1, GoAt DEF WritePolicy
  <2>3. <<pc.n, Attempt(pc.n), "policy">> \in files'
    BY <1>8, <2>1, GoAt DEF WritePolicy
  <2>4. QED
    BY <2>2, <2>3 DEF Attempt
<1>9. ASSUME owner' # 0
      PROVE  \E a \in Nat : <<owner', a, "policy">> \in files'
  <2>1. CASE owner' = owner
    BY <1>1, <1>9, <2>1 DEF Provenance
  <2>2. CASE pc.at = "request" /\ owner' = pc.n
    <3>1. <<pc.n, Attempt(pc.n), "policy">> \in files'
      BY <1>1, <2>2 DEF Provenance
    <3>2. Attempt(pc.n) \in Nat
      BY <1>4, <2>2, MaxType
    <3>3. QED
      BY <2>2, <3>1, <3>2
  <2>3. QED
    BY <1>1, <1>9, <2>1, <2>2 DEF OwnerMove
<1>10. /\ ran' \in [Nodes -> SUBSET Nat]
       /\ \A n \in Nodes : ran'[n] \subseteq 1 .. Def[n].max
  <2>1. ASSUME NEW n \in Nodes, NEW a \in 1 .. Def[n].max, Ran(n, a)
        PROVE  /\ ran' \in [Nodes -> SUBSET Nat]
               /\ \A m \in Nodes : ran'[m] \subseteq 1 .. Def[m].max
    <3>1. a \in Nat
      BY MaxType
    <3>2. ran' = [ran EXCEPT ![n] = @ \cup {a}]
      BY <2>1 DEF Ran
    <3>3. QED
      BY <2>1, <3>1, <3>2 DEF Provenance
  <2>2. ASSUME NEW n \in Nodes, owner = n
        PROVE  LastAttempt(n) \in 1 .. Def[n].max
    <3>1. n # 0
      BY NumbersAssumption
    <3>2. PICK a \in Nat : <<n, a, "policy">> \in files
      BY <2>2, <3>1 DEF Provenance
    <3>3. QED
      BY <3>2, LastAttemptBound
  <2>3. CASE ran' = ran
    BY <2>3 DEF Provenance
  <2>4. CASE pc.at = "request" /\ Ran(pc.n, Attempt(pc.n))
    BY <1>4, <2>1, <2>4
  <2>5. ASSUME NEW x \in left, Ran(x[2], x[3])
        PROVE  /\ ran' \in [Nodes -> SUBSET Nat]
               /\ \A m \in Nodes : ran'[m] \subseteq 1 .. Def[m].max
    <3>1. PICK what \in {"process", "turn"}, n \in Nodes :
            \E a \in 1 .. Def[n].max : x = <<what, n, a>>
      BY DEF Leftovers
    <3>2. x[2] = n /\ x[3] \in 1 .. Def[n].max
      BY <3>1
    <3>3. QED
      BY <2>1, <2>5, <3>2
  <2>6. QED
    BY <1>1, <2>1, <2>2, <2>3, <2>4, <2>5 DEF RanMove, Launch, ToolCall, Turning, At
<1>11. QED
  BY <1>3, <1>6, <1>7, <1>8, <1>9, <1>10 DEF Provenance

(* The types of the volatile state, where the files come from, and what a  *)
(* dead host leaves.                                                       *)
LEMMA ProvenanceAlways == Spec => []VolatileTypes /\ []Provenance /\ []Leftovers
<1>1. Init => VolatileTypes /\ Provenance /\ Leftovers
  <2> SUFFICES ASSUME Init
               PROVE  VolatileTypes /\ Provenance /\ Leftovers
    OBVIOUS
  <2>1. agent \in AgentStates
    BY DEF Init, AgentStates, AgentDown
  <2>2. exec \in [Nodes -> ExecStates]
    BY DEF Init, ExecStates
  <2>3. crashes \in 0 .. MaxCrashes /\ faults \in 0 .. MaxFaults
    BY BoundsAssumption DEF Init
  <2>4. VolatileTypes
    BY <2>1, <2>2, <2>3 DEF Init, VolatileTypes
  <2>5. ran \in [Nodes -> SUBSET Nat] /\ \A n \in Nodes : ran[n] = {}
    BY DEF Init
  <2>6. Provenance
    BY <2>5 DEF Init, Provenance, Idle
  <2>7. LeftTurns = {} /\ IsFiniteSet({}) /\ Cardinality({}) = 0
    BY FS_EmptySet DEF Init, LeftTurns
  <2>8. Leftovers
    BY <2>7 DEF Init, Leftovers
  <2>9. QED
    BY <2>4, <2>6, <2>8
<1>2. Control /\ VolatileTypes /\ [Next]_vars => VolatileTypes'
  <2>1. ASSUME VolatileTypes, UNCHANGED vars
        PROVE  VolatileTypes'
    BY <2>1 DEF VolatileTypes, vars, volatile, flags, rest
  <2>2. QED
    BY <2>1, VolatileNext
<1>3. Control /\ AttemptBudget /\ VolatileTypes /\ Provenance /\ Leftovers /\ [Next]_vars
        => Provenance' /\ Leftovers'
  <2>1. ASSUME Provenance, UNCHANGED vars
        PROVE  Provenance'
    BY <2>1 DEF Provenance, Attempt, vars, durable, volatile, rest
  <2>2. ASSUME Leftovers, UNCHANGED vars
        PROVE  Leftovers'
    BY <2>2 DEF Leftovers, LeftTurns, vars, durable, volatile, rest
  <2>3. QED
    BY <2>1, <2>2, ProvenanceNext, LeftoversNext
<1>4. QED
  BY <1>1, <1>2, <1>3, ControlAlways, AttemptBudgetAlways, PTL DEF Spec

(* Every variable keeps its type; an attempt that left a file or had an    *)
(* effect is within the budget of its node.                                *)
THEOREM TypeOKAlways == Spec => []TypeOK
<1>1. /\ Control /\ GraphControl /\ Consent /\ VolatileTypes /\ Provenance /\ Leftovers
      => TypeOK
  <2> SUFFICES ASSUME Control, GraphControl, Consent, VolatileTypes, Provenance, Leftovers
               PROVE  TypeOK
    OBVIOUS
  <2>1. \A f \in files : /\ f[1] \in Nodes /\ f[2] \in 1 .. Def[f[1]].max
                         /\ f[3] \in {"policy", "approval", "ok", "bad"}
    BY DEF Provenance, Kinds
  <2>2. approvals \subseteq Graphs
    BY DEF Consent
  <2>3. ASSUME NEW x \in left
        PROVE  /\ x[1] \in {"turn", "process"} /\ x[2] \in Nodes
               /\ x[3] \in 1 .. Def[x[2]].max
    <3>1. PICK what \in {"process", "turn"}, n \in Nodes :
            \E a \in 1 .. Def[n].max : x = <<what, n, a>>
      BY DEF Leftovers
    <3>2. QED
      BY <3>1
  <2>4. QED
    BY <2>1, <2>2, <2>3
       DEF TypeOK, Control, GraphControl, Consent, VolatileTypes, Provenance,
           ExecStates, AgentStates
<1>2. QED
  BY <1>1, ControlAlways, GraphControlAlways, ConsentAlways, ProvenanceAlways, PTL
-----------------------------------------------------------------------------
(* The leases of the model and of the workspace.                           *)

(* What is served is in the registry.                                      *)
Served == pc.at # "idle" => pc.g \in loaded

(* The tick goes on with a graph of the registry.                          *)
LEMMA VisitServed ==
  ASSUME NEW S \in SUBSET Graphs, \A g \in S : g \in loaded, Visit(S)
  PROVE  pc'.at # "idle" => pc'.g \in loaded
<1>1. CASE S = {}
  BY <1>1 DEF Visit, Idle
<1>2. CASE S # {}
  <2>1. First(S) \in S
    BY <1>2, FirstIn, NumbersAssumption
  <2>2. QED
    BY <1>2, <2>1, Zenon DEF Visit
<1>3. QED
  BY <1>1, <1>2

(* The same where a graph is left or given up.                             *)
LEMMA LeaveServed ==
  ASSUME Control, Served, pc.at # "idle", Leave \/ Abort
  PROVE  pc'.at # "idle" => pc'.g \in loaded
<1>1. CASE Leave
  <2> DEFINE S == IF pc.tick THEN {h \in Graphs : h > pc.g /\ Active(h)} ELSE {}
  <2>1. S \in SUBSET Graphs /\ \A g \in S : g \in loaded
    BY DEF Active
  <2>2. Visit(S)
    BY <1>1 DEF Leave
  <2> HIDE DEF S
  <2>3. QED
    BY <2>1, <2>2, VisitServed
<1>2. CASE Go("settle")
  BY <1>2, GoAt DEF Served
<1>3. QED
  BY <1>1, <1>2 DEF Abort

(* Every step keeps Served.                                                *)
LEMMA ServedNext ==
  ASSUME Control, VolatileTypes, Served, Next
  PROVE  Served'
<1> USE DEF At
<1>1. loaded \subseteq loaded' \/ Crash
  BY NextExecs
<1>2. CASE Crash
  BY <1>2 DEF Crash, Served, Idle
<1>3. SUFFICES ASSUME loaded \subseteq loaded', ~Crash
               PROVE  pc'.at # "idle" => pc'.g \in loaded
  BY <1>1, <1>2 DEF Served
<1>4. CASE Tick \/ InitDone
  <2> DEFINE S == {g \in Graphs : Active(g)}
  <2>1. S \in SUBSET Graphs /\ \A g \in S : g \in loaded
    BY DEF Active
  <2>2. Visit(S) \/ (pc.at # "idle" /\ GoTo("poll", 0))
    BY <1>4 DEF Tick, InitDone
  <2>3. GoTo("poll", 0) => pc'.g = pc.g
    BY GoToAt
  <2> HIDE DEF S
  <2>4. QED
    BY <2>1, <2>2, <2>3, VisitServed DEF Served
<1>5. CASE TickStep /\ ~Tick /\ ~InitDone
  <2>1. \/ pc.at # "idle" /\ \/ pc' = pc \/ Leave \/ Abort
                             \/ \E label : Go(label)
                             \/ \E label, n : GoTo(label, n)
    BY <1>5
       DEF TickStep,
           InitNode, Poll, PollDone, WriteResult, EndAttempt,
           FollowUpNode, FollowUpGraph, FollowUpNone, Recompute, RecomputeDone,
           Lease, NothingToLease, WritePolicy, Launch, StartAttempt, WaitForApproval,
           GraphWaits, Dispatched, Defer, Finalize, PauseNode, PauseGraph,
           NotSettled, CancelMark, CancelEnd, CancelGraph
  <2>2. QED
    BY <2>1, LeaveServed, GoAt, GoToAt DEF Served
<1>6. CASE RequestStep
  <2>1. pc.at # "idle" /\ (pc' = pc \/ Return \/ \E label : Go(label))
    BY <1>6
       DEF RequestStep,
           ResumeGate, ResumeGraph, Thaw, Thawed, GraphApproved, ApprovalResult,
           NodeApproved, ApprovalResumes, NodeCancelling, NodeCancelled
  <2>2. QED
    BY <2>1, GoAt DEF Served, Return, Idle
<1>7. CASE Request
  <2>1. \/ pc' = pc
        \/ \E label, n : \E g \in loaded : Serve(label, g, n)
    BY <1>7 DEF Request, Start, Pause, Resume, Cancel, ApproveGraph, ApproveNode,
                Retry, Skip, CancelNode
  <2>2. QED
    BY <2>1, ServeAt DEF Served
<1>8. CASE Environment \/ \E g \in Graphs : Load(g)
  <2>1. pc' = pc
    BY <1>8 DEF Environment, ToolCall, WatchdogTrips, ProcessExits, TurnError,
                Waiting, AgentReady, AgentDies, UserTurn, LeftCalls, LeftEnds, Load
  <2>2. QED
    BY <2>1 DEF Served
<1>9. CASE WriteFails
  <2>1. pc.at # "idle" /\ (Leave \/ Abort \/ \E label : Go(label))
    BY <1>9 DEF WriteFails, Writes
  <2>2. QED
    BY <2>1, LeaveServed, GoAt DEF Served
<1>10. QED
  BY <1>3, <1>4, <1>5, <1>6, <1>7, <1>8, <1>9 DEF Next

(* A node that holds a lease: its executor is live, or about to start.     *)
Running(n) == Busy(n) /\ Live(n)
Claims(n) == Running(n) \/ (pc.at \in {"begin", "request"} /\ pc.n = n)

Exclude(m, n) == ~(IsAgent(m) /\ IsAgent(n)) /\ ~(Def[m].writes /\ Def[n].writes)

(* Where the node that is served has no executor.                          *)
DeadLabels ==
  {"begin", "request", "defer", "waiting", "result", "ended", "approve_result",
   "approve_node"}

(* A live executor is that of a node that still holds its lease, or was    *)
(* cancelled without it; a turn is the owner's, and the owner has a turn.  *)
LiveNode(n) ==
  /\ G(n) \in loaded /\ Def[n].kind # "approval"
  /\ nst[n] \in {"LEASED", "RUNNING", "CANCELLING", "CANCELLED"}
  /\ exec[n] = "turn" /\ nst[n] # "CANCELLED" => owner = n

LeaseInv ==
  /\ Served
  /\ pc.at \in {"begin", "request"} =>
       G(pc.n) \in loaded /\ (IsAgent(pc.n) => owner = 0)
  /\ pc.at \in DeadLabels => ~Live(pc.n)
  /\ \A n \in Nodes : Live(n) => LiveNode(n)
  /\ owner # 0 => exec[owner] = "turn"
  /\ \A m, n \in Nodes : m # n /\ Claims(m) /\ Claims(n) => Exclude(m, n)

(* A node that is leased is not yet live, and what holds a lease excludes  *)
(* it: dtg_scheduler_next_ready looked at every node of the registry.      *)
LEMMA LeaseExcludes ==
  ASSUME Control, LeaseInv, Lease
  PROVE  /\ pc'.n \in Nodes /\ pc'.at = "begin" /\ nst[pc'.n] = "READY"
         /\ G(pc'.n) \in loaded /\ (IsAgent(pc'.n) => owner = 0)
         /\ \A m \in Nodes : Claims(m) => Exclude(m, pc'.n) /\ Exclude(pc'.n, m)
<1>1. PICK n \in Candidates(pc.g) : GoTo("begin", n)
  BY DEF Lease
<1>2. n \in Nodes /\ G(n) = pc.g /\ Dispatchable(n)
  BY <1>1 DEF Candidates, NodesOf, G
<1>3. pc'.n = n /\ pc'.at = "begin"
  BY <1>1, GoToAt
<1>4. pc.at = "dispatch"
  BY DEF Lease, At
<1>5. G(n) \in loaded
  BY <1>2, <1>4 DEF LeaseInv, Served
<1>6. ASSUME NEW m \in Nodes, Claims(m)
      PROVE  Exclude(m, n) /\ Exclude(n, m)
  <2>1. Running(m)
    BY <1>4, <1>6 DEF Claims
  <2>2. Busy(m) /\ G(m) \in loaded
    BY <2>1 DEF Running, LeaseInv, LiveNode
  <2>3. m \in Known
    BY <2>2 DEF Known
  <2>4. (IsAgent(n) => ~IsAgent(m)) /\ (Def[n].writes => ~Def[m].writes)
    BY <1>2, <2>2, <2>3 DEF Dispatchable, LlmBusy, WriterBusy
  <2>5. QED
    BY <2>4 DEF Exclude
<1>7. QED
  BY <1>2, <1>3, <1>5, <1>6 DEF Dispatchable

(* Every step but a crash keeps LeaseInv.                                  *)
LEMMA LeaseNext ==
  ASSUME Control, VolatileTypes, LeaseInv, Next, ~LeftStep
  PROVE  LeaseInv'
<1>1. /\ \A n \in Nodes : NodeMove(n) /\ ExecMove(n)
      /\ OwnerEnds /\ OwnerTurns /\ OwnerMove /\ Arrivals /\ Served'
      /\ loaded \subseteq loaded' \/ Crash
  BY NextMoves, NextExecs, NextOwnerRan, NextArrivals, ServedNext DEF NodeMoves, LeaseInv
<1>2. CASE Crash
  <2>1. \A n \in Nodes : ~Live(n)'
    BY <1>2 DEF Crash, Live, LiveStates
  <2>2. pc'.at = "idle"
    BY <1>2 DEF Crash, Idle
  <2>3. \A n \in Nodes : ~Claims(n)'
    BY <2>1, <2>2 DEF Claims, Running, Live, LiveStates
  <2>4. QED
    BY <1>1, <1>2, <2>1, <2>2, <2>3 DEF LeaseInv, DeadLabels, Crash
<1>3. SUFFICES ASSUME loaded \subseteq loaded', ~Crash
               PROVE  LeaseInv'
  BY <1>1, <1>2
<1>4. ASSUME NEW n \in Nodes, Live(n)'
      PROVE  \/ Live(n)
             \/ pc.at = "request" /\ pc.n = n /\ Def[n].kind # "approval"
  BY <1>1, <1>4 DEF ExecMove, Live, LiveStates
<1>5. ASSUME NEW n \in Nodes, Live(n)'
      PROVE  G(n) \in loaded' /\ Def[n].kind # "approval"
  BY <1>3, <1>4, <1>5 DEF LeaseInv, LiveNode
<1>6. ASSUME NEW n \in Nodes, Live(n)'
      PROVE  /\ nst[n] \in {"LEASED", "RUNNING", "CANCELLING", "CANCELLED"}
             /\ nst'[n] \in {"LEASED", "RUNNING", "CANCELLING", "CANCELLED"}
  <2>1. nst[n] \in {"LEASED", "RUNNING", "CANCELLING", "CANCELLED"}
    BY <1>4, <1>6 DEF LeaseInv, LiveNode, Control, LeasedLabels
  <2>2. ~Deferred(n) /\ ~(pc.at = "waiting" /\ pc.n = n) /\ ~Verdict(n, nst'[n])
    BY <1>4, <1>6 DEF LeaseInv, DeadLabels, Deferred, Verdict
  <2>3. NodeMove(n) /\ ~Unblocks(n)
    BY <1>1, <2>1 DEF Unblocks
  <2>4. QED
    BY <2>1, <2>2, <2>3 DEF NodeMove, NodeSuccessors
<1>7. ASSUME NEW n \in Nodes, Live(n)', exec'[n] = "turn", nst'[n] # "CANCELLED"
      PROVE  owner' = n
  <2>0. n # 0
    BY NumbersAssumption
  <2>1. CASE pc.at = "request" /\ pc.n = n
    <3>1. ~Live(n)
      BY <2>1 DEF LeaseInv, DeadLabels
    <3>2. QED
      BY <1>1, <1>7, <3>1 DEF ExecMove, Live, LiveStates
  <2>2. CASE ~(pc.at = "request" /\ pc.n = n)
    <3>1. exec[n] = "turn" /\ Live(n)
      BY <1>1, <1>7, <2>2 DEF ExecMove, Live, LiveStates
    <3>2. nst[n] # "CANCELLED" /\ ~NodeTerminal(nst[n])
      BY <1>1, <1>6, <1>7 DEF NodeMove, NodeSuccessors, NodeTerminal
    <3>3. owner = n
      BY <3>1, <3>2 DEF LeaseInv, LiveNode
    <3>4. ~(pc.at = "request" /\ IsAgent(pc.n))
      BY <2>0, <3>3 DEF LeaseInv
    <3>5. QED
      BY <1>1, <1>7, <3>2, <3>3, <3>4 DEF OwnerEnds
  <2>3. QED
    BY <2>1, <2>2
<1>8. \A n \in Nodes : Live(n)' => LiveNode(n)'
  BY <1>5, <1>6, <1>7 DEF LiveNode
<1>9. ASSUME pc'.at \in {"begin", "request"}
      PROVE  /\ G(pc'.n) \in loaded' /\ (IsAgent(pc'.n) => owner' = 0)
             /\ pc'.n \in Nodes /\ ~Live(pc'.n)
             /\ pc'.at = "request" => pc.at = "begin" /\ pc'.n = pc.n
  <2>1. CASE pc'.at = "begin"
    <3>1. Lease
      BY <1>1, <2>1 DEF Arrivals
    <3>2. owner' = owner
      BY <3>1 DEF Lease, onlyNode, volatile
    <3>3. QED
      BY <1>3, <2>1, <3>1, <3>2, LeaseExcludes DEF LeaseInv, LiveNode
  <2>2. CASE pc'.at = "request"
    <3>1. WritePolicy
      BY <1>1, <2>2 DEF Arrivals
    <3>2. pc.at = "begin" /\ owner' = owner /\ pc'.n = pc.n /\ pc.n \in Nodes
      BY <3>1, GoAt DEF WritePolicy, At, volatile, Control, NodeLabels, LeasedLabels
    <3>3. QED
      BY <1>3, <3>2 DEF LeaseInv, DeadLabels
  <2>3. QED
    BY <1>9, <2>1, <2>2
<1>10. ASSUME pc'.at \in DeadLabels
       PROVE  exec'[pc'.n] \notin LiveStates
  <2>1. ASSUME pc'.n = pc.n, exec' = exec, ~Live(pc.n)
        PROVE  exec'[pc'.n] \notin LiveStates
    BY <2>1 DEF Live
  <2>2. CASE pc'.at = "begin"
    <3>1. Lease
      BY <1>1, <2>2 DEF Arrivals
    <3>2. ~Live(pc'.n) /\ exec' = exec
      BY <3>1, LeaseExcludes DEF LeaseInv, LiveNode, Lease, onlyNode, volatile
    <3>3. QED
      BY <3>2 DEF Live
  <2>3. CASE pc'.at = "request"
    <3>1. WritePolicy
      BY <1>1, <2>3 DEF Arrivals
    <3>2. pc.at = "begin" /\ exec' = exec /\ pc'.n = pc.n
      BY <3>1, GoAt DEF WritePolicy, At, volatile
    <3>3. QED
      BY <2>1, <3>2 DEF LeaseInv, DeadLabels
  <2>4. CASE pc'.at = "defer"
    BY <1>1, <2>1, <2>4 DEF Arrivals, LeaseInv, DeadLabels
  <2>5. CASE pc'.at = "waiting"
    <3>1. StartAttempt /\ Def[pc.n].kind = "approval"
      BY <1>1, <2>5 DEF Arrivals
    <3>2. pc'.n = pc.n /\ pc.n \in Nodes
      BY <3>1, GoAt DEF StartAttempt, At, Control, NodeLabels, LeasedLabels
    <3>3. QED
      BY <1>5, <3>1, <3>2 DEF Live
  <2>6. CASE pc'.at = "result"
    BY <1>1, <2>6, PollMoves DEF Arrivals, Live
  <2>7. CASE pc'.at = "ended"
    <3>1. WriteResult
      BY <1>1, <2>7 DEF Arrivals
    <3>2. pc.at = "result" /\ exec' = exec /\ pc'.n = pc.n
      BY <2>7, <3>1, GoAt, LeaveAt DEF WriteResult, At, volatile
    <3>3. QED
      BY <2>1, <3>2 DEF LeaseInv, DeadLabels
  <2>8. CASE pc'.at = "approve_result"
    <3>1. PICK n \in Nodes : ApproveNode(n)
      BY <1>1, <2>8 DEF Arrivals
    <3>2. pc'.n = n /\ nst[n] = "WAITING_APPROVAL"
      BY <3>1, ServeAt DEF ApproveNode
    <3>3. QED
      BY <1>6, <3>2 DEF Live
  <2>9. CASE pc'.at = "approve_node"
    <3>1. ApprovalResult
      BY <1>1, <2>9 DEF Arrivals
    <3>2. pc.at = "approve_result" /\ exec' = exec /\ pc'.n = pc.n
      BY <2>9, <3>1, GoAt DEF ApprovalResult, At, volatile, Return, Idle
    <3>3. QED
      BY <2>1, <3>2 DEF LeaseInv, DeadLabels
  <2>10. QED
    BY <1>10, <2>2, <2>3, <2>4, <2>5, <2>6, <2>7, <2>8, <2>9 DEF DeadLabels
<1>11. ASSUME NEW n \in Nodes, Claims(n)'
       PROVE  Claims(n) \/ (Lease /\ pc'.n = n)
  <2>1. CASE Running(n)'
    <3>1. Live(n)' /\ nst'[n] # "CANCELLED"
      BY <2>1 DEF Running, Live, LiveStates, Busy
    <3>2. nst[n] \in {"LEASED", "RUNNING", "CANCELLING"}
      BY <1>1, <1>6, <3>1 DEF NodeMove, NodeSuccessors
    <3>3. QED
      BY <1>4, <3>1, <3>2 DEF Claims, Running, Live, LiveStates, Busy
  <2>2. CASE pc'.at = "begin" /\ pc'.n = n
    BY <1>1, <2>2 DEF Arrivals
  <2>3. CASE pc'.at = "request" /\ pc'.n = n
    BY <1>9, <2>3 DEF Claims
  <2>4. QED
    BY <1>11, <2>1, <2>2, <2>3 DEF Claims
<1>12. ASSUME NEW m \in Nodes, NEW n \in Nodes, m # n, Claims(m)', Claims(n)'
       PROVE  Exclude(m, n)
  <2>1. CASE Lease /\ pc'.n \in {m, n}
    BY <1>11, <1>12, <2>1, LeaseExcludes
  <2>2. CASE ~(Lease /\ pc'.n \in {m, n})
    BY <1>11, <1>12, <2>2 DEF LeaseInv
  <2>3. QED
    BY <2>1, <2>2
<1>13. QED
  <2>1. pc'.at \in DeadLabels => ~Live(pc.n)'
    BY <1>10 DEF Live
  <2>2. \A m, n \in Nodes : m # n /\ Claims(m)' /\ Claims(n)' => Exclude(m, n)
    BY <1>12
  <2>3. \A m, n \in Nodes : m # n /\ Claims(m)' /\ Claims(n)' => Exclude(m, n)'
    BY <2>2 DEF Exclude
  <2>4. pc'.at \in {"begin", "request"} =>
          G(pc'.n) \in loaded' /\ (IsAgent(pc'.n) => owner' = 0)
    BY <1>9
  <2>5. owner' # 0 => exec'[owner'] = "turn"
    BY <1>1 DEF OwnerTurns, LeaseInv, DeadLabels, Live, LiveStates
  <2>6. QED
    BY <1>1, <1>8, <2>1, <2>3, <2>4, <2>5 DEF LeaseInv

(* LeaseInv holds at every moment.                                         *)
LEMMA LeaseInvAlways == Spec => []LeaseInv
<1>1. Init => LeaseInv
  BY DEF Init, LeaseInv, Served, Idle, DeadLabels, Live, LiveStates, Claims, Running
<1>2. Control /\ TypeOK /\ LeaseInv /\ [Next]_vars => LeaseInv'
  <2>1. ASSUME LeaseInv, LeftStep \/ UNCHANGED vars
        PROVE  LeaseInv'
    BY <2>1, Unseen DEF LeaseInv, Served, Live, LiveNode, Claims, Running, Busy,
                        seen, durable, volatile
  <2>2. TypeOK => VolatileTypes
    BY DEF TypeOK, VolatileTypes, ExecStates, AgentStates
  <2>3. QED
    BY <2>1, <2>2, LeaseNext
<1>3. QED
  BY <1>1, <1>2, ControlAlways, TypeOKAlways, PTL DEF Spec

(* One model turn at a time, and one writer of the workspace beside those  *)
(* that were cancelled, over all graphs of the registry, whatever is       *)
(* retried, loaded again or fails between the lease and the end of an      *)
(* attempt; each death of the host leaves one turn at most beside it.      *)
THEOREM OneLlmOneWriterAlways == Spec => []OneLlmOneWriter
<1>1. Control /\ LeaseInv /\ Leftovers => OneLlmOneWriter
  <2> SUFFICES ASSUME Control, LeaseInv, Leftovers
               PROVE  OneLlmOneWriter
    OBVIOUS
  <2>1. ASSUME NEW n \in Nodes, Turns(n)
        PROVE  owner = n
    <3>1. Busy(n) => Live(n) /\ nst[n] # "CANCELLED"
      BY <2>1 DEF Turns, Live, LiveStates, Busy
    <3>2. QED
      BY <2>1, <3>1 DEF LeaseInv, LiveNode, Turns
  <2>2. ASSUME NEW n \in Nodes, Writing(n), nst[n] # "CANCELLED"
        PROVE  Claims(n) /\ Def[n].writes
    <3>1. Live(n)
      BY <2>2 DEF Writing, Turns, Live, LiveStates
    <3>2. Busy(n)
      BY <2>2, <3>1 DEF LeaseInv, LiveNode, Busy
    <3>3. QED
      BY <2>2, <3>1, <3>2 DEF Writing, Claims, Running
  <2>3. ASSUME NEW m \in Nodes, NEW n \in Nodes, m # n
        PROVE  /\ ~(Turns(m) /\ Turns(n))
               /\ Writing(m) /\ Writing(n) => nst[m] = "CANCELLED" \/ nst[n] = "CANCELLED"
    BY <2>1, <2>2, <2>3 DEF LeaseInv, Exclude
  <2>4. QED
    BY <2>3 DEF Leftovers, OneLlmOneWriter
<1>2. QED
  BY <1>1, ControlAlways, LeaseInvAlways, ProvenanceAlways, PTL

(* The turn of a node that runs is the owner's, so what the next WAITING   *)
(* says is said of that node, also when nodes were cancelled, abandoned or *)
(* timed out in between.                                                   *)
THEOREM TurnIsOwnedAlways == Spec => []TurnIsOwned
<1>1. LeaseInv => TurnIsOwned
  BY DEF LeaseInv, LiveNode, Live, LiveStates, TurnIsOwned
<1>2. QED
  BY <1>1, LeaseInvAlways, PTL
-----------------------------------------------------------------------------
(* No effect is repeated as long as the host lives.  The states from which *)
(* a node may be leased and launched:                                      *)
LaunchableStates == {"DRAFT", "PENDING", "BLOCKED", "READY", "PAUSED"}

Launchable(n) ==
  \/ nst[n] \in LaunchableStates
  \/ pc.at \in {"begin", "request", "defer"} /\ pc.n = n

(* A node that may be launched has had no effect; the host has counted the *)
(* tool calls of a prompt that had one; and the effects of a turn are those*)
(* of the last attempt that has a policy receipt.                          *)
OnceNode(n) ==
  /\ Launchable(n) => ran[n] = {}
  /\ Def[n].action = "prompt" /\ ran[n] # {} => calls[n]
  /\ owner = n => ran[n] \subseteq {LastAttempt(n)}
  /\ \E a \in Nat : ran[n] \subseteq {a}

ReplayInv == \A n \in Nodes : OnceOnly(n) => OnceNode(n)

(* Tool calls are forgotten by a launch or a crash only.                   *)
LEMMA NextCalls ==
  ASSUME VolatileTypes, Next
  PROVE  \/ Crash
         \/ \A n \in Nodes :
              calls[n] /\ ~calls'[n] => pc.at = "request" /\ pc.n = n
<1>1. CASE TickStep
  <2>1. CASE Launch
    BY <2>1 DEF Launch, At, VolatileTypes
  <2>2. \/ Launch
        \/ calls' = calls
    BY <1>1
       DEF TickStep, onlyNode, onlyGraph, volatile, flags, ExecutorCancel,
           Tick, InitNode, InitDone, Poll, PollDone, WriteResult, EndAttempt,
           FollowUpNode, FollowUpGraph, FollowUpNone, Recompute, RecomputeDone,
           Lease, NothingToLease, WritePolicy, StartAttempt, WaitForApproval,
           GraphWaits, Dispatched, Defer, Finalize, PauseNode, PauseGraph,
           NotSettled, CancelMark, CancelEnd, CancelGraph
  <2>3. QED
    BY <2>1, <2>2
<1>2. CASE RequestStep \/ Request
  <2>1. calls' = calls
    BY <1>2
       DEF RequestStep, Request, onlyNode, onlyGraph, volatile, flags, ExecutorCancel,
           ResumeGate, ResumeGraph, Thaw, Thawed, GraphApproved, ApprovalResult,
           NodeApproved, ApprovalResumes, NodeCancelling, NodeCancelled,
           Start, Pause, Resume, Cancel, ApproveGraph, ApproveNode, Retry, Skip,
           CancelNode
  <2>2. QED
    BY <2>1
<1>3. CASE Environment
  <2>1. ASSUME NEW m \in Nodes, ToolCall(m)
        PROVE  \A n \in Nodes : calls[n] => calls'[n]
    BY <2>1 DEF ToolCall, VolatileTypes
  <2>2. \/ \E m \in Nodes : ToolCall(m)
        \/ calls' = calls
    BY <1>3 DEF Environment, WatchdogTrips, ProcessExits, TurnError, Waiting,
                AgentReady, AgentDies, UserTurn, LeftCalls, LeftEnds, volatile, flags
  <2>3. QED
    BY <2>1, <2>2
<1>4. CASE WriteFails \/ \E g \in Graphs : Load(g)
  <2>1. calls' = calls
    BY <1>4 DEF WriteFails, Load, volatile, flags
  <2>2. QED
    BY <2>1
<1>5. QED
  BY <1>1, <1>2, <1>3, <1>4 DEF Next

(* A policy receipt is written for the node that begins an attempt.        *)
LEMMA NextLastAttempt ==
  ASSUME Control, Next, NEW n \in Nodes, ~(pc.at = "begin" /\ pc.n = n)
  PROVE  LastAttempt(n)' = LastAttempt(n)
<1>1. {f \in files' : f[1] = n /\ f[3] = "policy"} = {f \in files : f[1] = n /\ f[3] = "policy"}
  BY NextFiles DEF FilesMove, Result
<1>2. QED
  BY <1>1 DEF LastAttempt

(* Every step but a crash keeps ReplayInv.                                 *)
LEMMA ReplayNext ==
  ASSUME Control, TypeOK, LeaseInv, Provenance, ReplayInv, Next, ~Crash, ~LeftStep
  PROVE  ReplayInv'
<1> SUFFICES ASSUME NEW n \in Nodes, OnceOnly(n)
             PROVE  OnceNode(n)'
  BY DEF ReplayInv, OnceOnly
<1>0. OnceNode(n) /\ n # 0
  BY NumbersAssumption DEF ReplayInv
<1>1. VolatileTypes
  BY DEF TypeOK, VolatileTypes, ExecStates, AgentStates
<1>2. /\ NodeMove(n) /\ Arrivals /\ OwnerMove /\ RanMove
      /\ calls[n] /\ ~calls'[n] => pc.at = "request" /\ pc.n = n
  BY <1>1, NextMoves, NextArrivals, NextOwnerRan, NextCalls DEF NodeMoves
<1>3. /\ pc.at = "request" => pc.n \in Nodes
      /\ pc.at \in {"begin", "request"} /\ IsAgent(pc.n) => owner = 0
      /\ ran \in [Nodes -> SUBSET Nat]
  BY DEF Control, NodeLabels, LeasedLabels, LeaseInv, Provenance
<1>4. \/ ran' = ran
      \/ Launch /\ ~IsAgent(pc.n) /\ Ran(pc.n, Attempt(pc.n))
      \/ \E m \in Nodes : ToolCall(m) /\ Ran(m, LastAttempt(m))
  BY <1>2 DEF RanMove, LeftStep
<1>5. ASSUME Launchable(n)'
      PROVE  ran[n] = {}
  <2>1. CASE nst'[n] \in LaunchableStates
    <3>1. \/ nst[n] \in LaunchableStates \/ Deferred(n)
          \/ nst[n] = "FAILED" /\ ProvenNoEffect(n)
      BY <1>2, <2>1 DEF NodeMove, NodeSuccessors, Unblocks, LaunchableStates, Again
    <3>2. QED
      BY <1>0, <3>1 DEF OnceNode, Launchable, Deferred, ProvenNoEffect
  <2>2. CASE pc'.at = "begin" /\ pc'.n = n
    <3>1. Lease
      BY <1>2, <2>2 DEF Arrivals
    <3>2. nst[n] = "READY"
      BY <2>2, <3>1, LeaseExcludes
    <3>3. QED
      BY <1>0, <3>2 DEF OnceNode, Launchable, LaunchableStates
  <2>3. CASE pc'.at = "request" /\ pc'.n = n
    <3>1. WritePolicy
      BY <1>2, <2>3 DEF Arrivals
    <3>2. pc.at = "begin" /\ pc.n = n
      BY <2>3, <3>1, GoAt DEF WritePolicy, At
    <3>3. QED
      BY <1>0, <3>2 DEF OnceNode, Launchable
  <2>4. CASE pc'.at = "defer" /\ pc'.n = n
    BY <1>0, <1>2, <2>4 DEF OnceNode, Launchable, Arrivals
  <2>5. QED
    BY <1>5, <2>1, <2>2, <2>3, <2>4 DEF Launchable
<1>6. ASSUME NEW a, Launch, ~IsAgent(pc.n), Ran(pc.n, a), pc.n = n
      PROVE  ran[n] = {} /\ ~Launchable(n)' /\ Def[n].action # "prompt" /\ owner' # n
  <2>1. pc.at = "request" /\ pc'.at = "started" /\ nst' = nst /\ nst[n] = "LEASED"
    BY <1>6, GoAt DEF Launch, At, durable, Control, LeasedLabels
  <2>2. owner' = owner
    BY <1>6 DEF Launch, RunHere, Refuse
  <2>3. owner # n
    BY <1>0, <1>6, <2>1 DEF LeaseInv, DeadLabels, Live, LiveStates
  <2>4. Def[n].action # "prompt"
    BY <1>6, DefAssumption DEF IsAgent
  <2>5. QED
    BY <1>0, <1>6, <2>1, <2>2, <2>3, <2>4 DEF OnceNode, Launchable, LaunchableStates
<1>7. ASSUME NEW a, ToolCall(n)
      PROVE  /\ ran[n] \subseteq {LastAttempt(n)} /\ ~Launchable(n)' /\ calls'[n]
             /\ LastAttempt(n)' = LastAttempt(n)
  <2>1. owner = n /\ nst' = nst /\ pc' = pc /\ pc.at = "idle" /\ calls'[n]
    BY <1>1, <1>7 DEF ToolCall, Turning, At, durable, VolatileTypes
  <2>2. Live(n) /\ LiveNode(n)
    BY <1>0, <2>1 DEF LeaseInv, Live, LiveStates
  <2>3. QED
    BY <1>0, <2>1, <2>2, NextLastAttempt
       DEF OnceNode, Launchable, LaunchableStates, LiveNode
<1>8. CASE ran'[n] # ran[n]
  <2>1. CASE /\ Launch /\ ~IsAgent(pc.n) /\ Ran(pc.n, Attempt(pc.n)) /\ pc.n = n
    <3>1. ran[n] = {} /\ ~Launchable(n)' /\ Def[n].action # "prompt" /\ owner' # n
      BY <1>6, <2>1
    <3>2. ran'[n] = {Attempt(n)}
      BY <1>3, <2>1, <3>1 DEF Ran
    <3>3. Attempt(n) \in Nat
      BY DEF Attempt, Control
    <3>4. QED
      BY <3>1, <3>2, <3>3 DEF OnceNode
  <2>2. CASE ToolCall(n) /\ Ran(n, LastAttempt(n))
    <3>1. ran'[n] = ran[n] \cup {LastAttempt(n)}
      BY <1>3, <2>2 DEF Ran
    <3>2. LastAttempt(n) \in Nat
      <4>1. owner = n
        BY <2>2 DEF ToolCall, Turning
      <4>2. PICK a \in Nat : <<n, a, "policy">> \in files
        BY <1>0, <4>1 DEF Provenance
      <4>3. QED
        BY <4>2, LastAttemptBound, MaxType
    <3>3. QED
      BY <1>7, <2>2, <3>1, <3>2 DEF OnceNode
  <2>3. QED
    BY <1>3, <1>4, <1>8, <2>1, <2>2 DEF Ran
<1>9. CASE ran'[n] = ran[n]
  <2>1. Launchable(n)' => ran'[n] = {}
    BY <1>5, <1>9
  <2>2. ran'[n] # {} => ~(pc.at \in {"begin", "request"} /\ pc.n = n)
    BY <1>0, <1>9 DEF OnceNode, Launchable
  <2>3. Def[n].action = "prompt" /\ ran'[n] # {} => calls'[n]
    BY <1>0, <1>2, <1>9, <2>2 DEF OnceNode
  <2>4. owner' = n /\ ran'[n] # {} => ran'[n] \subseteq {LastAttempt(n)'}
    <3>1. owner' = n /\ ran'[n] # {} => owner = n
      BY <1>0, <1>2, <2>2 DEF OwnerMove
    <3>2. QED
      BY <1>0, <1>9, <2>2, <3>1, NextLastAttempt DEF OnceNode
  <2>5. QED
    BY <1>0, <1>9, <2>1, <2>3, <2>4 DEF OnceNode
<1>10. QED
  BY <1>8, <1>9

(* An action that is not idempotent has effects in one attempt at most, by *)
(* any mixture of retries, cancels, failed writes and deaths of the Agent. *)
(* The host itself must live: the proof that a turn called no tool is in   *)
(* its memory only.                                                        *)
THEOREM NoReplayWhileHostLives ==
  ASSUME MaxCrashes = 0
  PROVE  Spec => []NoReplay
<1>1. Init => ReplayInv
  BY DEF Init, ReplayInv, OnceNode
<1>2. /\ Control /\ TypeOK /\ LeaseInv /\ Provenance /\ Leftovers /\ ReplayInv /\ [Next]_vars
      => ReplayInv'
  <2>1. ASSUME ReplayInv, UNCHANGED seen, ran' = ran
        PROVE  ReplayInv'
    BY <2>1 DEF ReplayInv, OnceNode, Launchable, LastAttempt,
                seen, durable, volatile, flags
  <2>2. TypeOK => crashes = 0 /\ ~Crash
    BY DEF TypeOK, Crash
  <2>3. Leftovers /\ crashes = 0 => LeftTurns = {}
    BY FS_EmptySet, FS_CardinalityType DEF Leftovers
  <2>4. LeftStep /\ LeftTurns = {} => ran' = ran
    BY DEF LeftStep, LeftCalls, LeftEnds, LeftTurns
  <2>5. UNCHANGED vars => ran' = ran
    BY DEF vars, rest
  <2>6. QED
    BY <2>1, <2>2, <2>3, <2>4, <2>5, Unseen, ReplayNext
<1>3. ReplayInv => NoReplay
  <2> SUFFICES ASSUME ReplayInv, NEW n \in Nodes, OnceOnly(n)
               PROVE  Cardinality(ran[n]) <= 1
    BY DEF NoReplay
  <2>1. PICK a \in Nat : ran[n] \subseteq {a}
    BY DEF ReplayInv, OnceNode
  <2>2. ran[n] = {} \/ ran[n] = {a}
    BY <2>1
  <2>3. QED
    <3>1. Cardinality({}) = 0
      BY FS_EmptySet
    <3>2. Cardinality({a}) = 1
      BY FS_Singleton
    <3>3. QED
      BY <2>2, <3>1, <3>2
<1>4. QED
  BY <1>1, <1>2, <1>3, ControlAlways, TypeOKAlways, LeaseInvAlways, ProvenanceAlways,
     PTL DEF Spec
-----------------------------------------------------------------------------
(* The buffer of what the Agent printed, for every capacity.               *)

(* buf holds the end of what was said, each byte at its offset.            *)
Holds(buf, said) ==
  /\ buf = [base |-> buf.base, held |-> buf.held, cap |-> buf.cap]
  /\ buf.base \in 0 .. Len(said)
  /\ buf.cap \in 0 .. BufferCap
  /\ buf.held = SubSeq(said, buf.base + 1, Len(said))
  /\ Len(said) - buf.base <= buf.cap

LEMMA SuffixOf ==
  ASSUME NEW S, NEW s \in Seq(S), NEW b \in 0 .. Len(s)
  PROVE  /\ SubSeq(s, b + 1, Len(s)) \in Seq(S)
         /\ Len(SubSeq(s, b + 1, Len(s))) = Len(s) - b
         /\ \A i \in 1 .. Len(s) - b : SubSeq(s, b + 1, Len(s))[i] = s[b + i]
<1>1. Len(s) \in Nat
  OBVIOUS
<1>2. \A i \in b + 1 .. Len(s) : s[i] \in S
  OBVIOUS
<1>3. b + 1 \in Int /\ Len(s) \in Int
  BY <1>1
<1>4. /\ SubSeq(s, b + 1, Len(s)) \in Seq(S)
      /\ Len(SubSeq(s, b + 1, Len(s))) = IF b + 1 <= Len(s) THEN Len(s) - (b + 1) + 1 ELSE 0
      /\ \A i \in 1 .. Len(s) - (b + 1) + 1 :
           SubSeq(s, b + 1, Len(s))[i] = s[(b + 1) + i - 1]
  BY <1>2, <1>3, SubSeqProperties
<1>5. Len(SubSeq(s, b + 1, Len(s))) = Len(s) - b
  BY <1>1, <1>4
<1>6. ASSUME NEW i \in 1 .. Len(s) - b PROVE SubSeq(s, b + 1, Len(s))[i] = s[b + i]
  <2>1. i \in 1 .. Len(s) - (b + 1) + 1 /\ (b + 1) + i - 1 = b + i
    BY <1>1
  <2> QED
    BY <2>1, <1>4
<1> QED
  BY <1>4, <1>5, <1>6

(* A range of a suffix is a range of the whole.                            *)
LEMMA RangeOfSuffix ==
  ASSUME NEW S, NEW s \in Seq(S), NEW b \in 0 .. Len(s),
         NEW from \in b .. Len(s), NEW to \in 0 .. Len(s)
  PROVE  SubSeq(SubSeq(s, b + 1, Len(s)), from - b + 1, to - b) = SubSeq(s, from + 1, to)
<1> DEFINE held == SubSeq(s, b + 1, Len(s))
<1>1. /\ held \in Seq(S) /\ Len(held) = Len(s) - b
      /\ \A i \in 1 .. Len(s) - b : held[i] = s[b + i]
  BY SuffixOf
<1> HIDE DEF held
<1>2. Len(s) \in Nat
  OBVIOUS
<1>3. CASE to <= from
  <2>1. to - b < from - b + 1 /\ to < from + 1
    BY <1>2, <1>3
  <2>2. SubSeq(held, from - b + 1, to - b) = <<>> /\ SubSeq(s, from + 1, to) = <<>>
    BY <1>2, <2>1, SubSeqEmpty
  <2> QED
    BY <2>2 DEF held
<1>4. CASE from < to
  <2> DEFINE one == SubSeq(held, from - b + 1, to - b)
             two == SubSeq(s, from + 1, to)
  <2>1. \A i \in from - b + 1 .. to - b : held[i] \in S
    BY <1>1, <1>2, <1>4
  <2>2. \A i \in from + 1 .. to : s[i] \in S
    BY <1>2, <1>4
  <2>3. from - b + 1 \in Int /\ to - b \in Int /\ from + 1 \in Int /\ to \in Int
    BY <1>2
  <2>4. /\ one \in Seq(S)
        /\ Len(one) = IF from - b + 1 <= to - b THEN (to - b) - (from - b + 1) + 1 ELSE 0
        /\ \A i \in 1 .. (to - b) - (from - b + 1) + 1 : one[i] = held[(from - b + 1) + i - 1]
    <3> DEFINE lo == from - b + 1
               hi == to - b
    <3>1. lo \in Int /\ hi \in Int /\ \A i \in lo .. hi : held[i] \in S
      BY <2>1, <2>3
    <3> HIDE DEF lo, hi
    <3>2. /\ SubSeq(held, lo, hi) \in Seq(S)
          /\ Len(SubSeq(held, lo, hi)) = IF lo <= hi THEN hi - lo + 1 ELSE 0
          /\ \A i \in 1 .. hi - lo + 1 : SubSeq(held, lo, hi)[i] = held[lo + i - 1]
      BY <3>1, SubSeqProperties
    <3>3. QED
      BY <3>2 DEF lo, hi
  <2>5. /\ two \in Seq(S)
        /\ Len(two) = IF from + 1 <= to THEN to - (from + 1) + 1 ELSE 0
        /\ \A i \in 1 .. to - (from + 1) + 1 : two[i] = s[(from + 1) + i - 1]
    BY <2>2, <2>3, SubSeqProperties
  <2> HIDE DEF one, two
  <2>6. Len(one) = to - from /\ Len(two) = to - from
    BY <1>2, <1>4, <2>4, <2>5
  <2>7. ASSUME NEW i \in 1 .. to - from PROVE one[i] = two[i]
    <3>1. one[i] = held[(from - b) + i]
      <4>1. i \in 1 .. (to - b) - (from - b + 1) + 1
            /\ (from - b + 1) + i - 1 = (from - b) + i
        BY <1>2
      <4> QED
        BY <4>1, <2>4
    <3>2. two[i] = s[from + i]
      <4>1. i \in 1 .. to - (from + 1) + 1 /\ (from + 1) + i - 1 = from + i
        BY <1>2
      <4> QED
        BY <4>1, <2>5
    <3>3. (from - b) + i \in 1 .. Len(s) - b /\ b + ((from - b) + i) = from + i
      BY <1>2
    <3> QED
      BY <3>1, <3>2, <3>3, <1>1
  <2>8. one = two
    BY <2>4, <2>5, <2>6, <2>7, SeqEqual
  <2> QED
    BY <2>8 DEF one, two, held
<1> QED
  BY <1>2, <1>3, <1>4

(* A suffix grows with the text that is appended.                          *)
LEMMA SuffixGrows ==
  ASSUME NEW S, NEW s \in Seq(S), NEW t \in Seq(S), NEW b \in 0 .. Len(s)
  PROVE  SubSeq(s, b + 1, Len(s)) \o t = SubSeq(s \o t, b + 1, Len(s \o t))
<1> DEFINE whole == s \o t
           one == SubSeq(s, b + 1, Len(s))
           two == SubSeq(whole, b + 1, Len(whole))
<1>1. /\ whole \in Seq(S) /\ Len(whole) = Len(s) + Len(t)
      /\ \A i \in 1 .. Len(s) + Len(t) :
           whole[i] = IF i <= Len(s) THEN s[i] ELSE t[i - Len(s)]
  OBVIOUS
<1>2. Len(s) \in Nat /\ Len(t) \in Nat
  OBVIOUS
<1>3. /\ one \in Seq(S) /\ Len(one) = Len(s) - b
      /\ \A i \in 1 .. Len(s) - b : one[i] = s[b + i]
  BY SuffixOf
<1> HIDE DEF whole
<1>4. b \in 0 .. Len(whole)
  BY <1>1, <1>2
<1>5. /\ two \in Seq(S) /\ Len(two) = Len(whole) - b
      /\ \A i \in 1 .. Len(whole) - b : two[i] = whole[b + i]
  BY <1>1, <1>4, SuffixOf
<1> HIDE DEF one, two
<1>6. /\ one \o t \in Seq(S) /\ Len(one \o t) = Len(one) + Len(t)
      /\ \A i \in 1 .. Len(one) + Len(t) :
           (one \o t)[i] = IF i <= Len(one) THEN one[i] ELSE t[i - Len(one)]
  BY <1>3, ConcatProperties
<1>7. Len(one \o t) = Len(two)
  BY <1>1, <1>2, <1>3, <1>5, <1>6
<1>8. ASSUME NEW i \in 1 .. Len(two) PROVE (one \o t)[i] = two[i]
  <2>1. i \in 1 .. Len(one) + Len(t) /\ i \in 1 .. Len(whole) - b
        /\ b + i \in 1 .. Len(s) + Len(t)
    BY <1>1, <1>2, <1>3, <1>5
  <2>2. two[i] = whole[b + i]
    BY <2>1, <1>5
  <2>3. CASE i <= Len(one)
    <3>1. i \in 1 .. Len(s) - b /\ b + i <= Len(s)
      BY <2>1, <2>3, <1>2, <1>3
    <3>2. (one \o t)[i] = s[b + i]
      BY <2>1, <2>3, <3>1, <1>3, <1>6
    <3> QED
      BY <2>1, <2>2, <3>1, <3>2, <1>1
  <2>4. CASE ~(i <= Len(one))
    <3>1. ~(b + i <= Len(s)) /\ i - Len(one) = b + i - Len(s)
      BY <2>1, <2>4, <1>2, <1>3
    <3>2. (one \o t)[i] = t[i - Len(one)]
      BY <2>1, <2>4, <1>6
    <3> QED
      BY <2>1, <2>2, <3>1, <3>2, <1>1
  <2> QED
    BY <2>3, <2>4
<1>9. one \o t = two
  BY <1>5, <1>6, <1>7, <1>8, SeqEqual
<1> QED
  BY <1>9 DEF one, two, whole

LEMMA PowerOfTwo ==
  ASSUME NEW k \in Nat
  PROVE  2 ^ k \in Nat /\ 2 ^ k >= k /\ 2 ^ k >= 1
<1> DEFINE S == 1 .. k
<1>1. IsFiniteSet(S) /\ Cardinality(S) = k
  BY UpTo
<1> HIDE DEF S
<1>2. IsFiniteSet(SUBSET S) /\ Cardinality(SUBSET S) = 2 ^ k
  BY <1>1, FS_SUBSET
<1>3. 2 ^ k \in Nat
  BY <1>2, FS_CardinalityType
<1> DEFINE f == [i \in S |-> {i}]
<1>4. f \in Injection(S, SUBSET S)
  <2>1. \A a, b \in S : f[a] = f[b] => a = b
    OBVIOUS
  <2>2. f \in [S -> SUBSET S]
    OBVIOUS
  <2> HIDE DEF f
  <2> QED
    BY <2>1, <2>2, Fun_IsInj
<1>5. k <= 2 ^ k
  BY <1>1, <1>2, <1>4, FS_Injection
<1>6. 1 <= 2 ^ k
  <2>1. {{}} \in SUBSET (SUBSET S)
    OBVIOUS
  <2>2. Cardinality({{}}) = 1
    BY FS_Singleton
  <2> QED
    BY <1>2, <2>1, <2>2, FS_Subset
<1> QED
  BY <1>3, <1>5, <1>6

(* The allocation fits what is needed unless the capacity forbids it, and  *)
(* is never given back.                                                    *)
LEMMA GrownBounds ==
  ASSUME NEW cap \in 0 .. BufferCap, NEW need \in Nat
  PROVE  /\ Grown(cap, need) \in cap .. BufferCap
         /\ need <= BufferCap => need <= Grown(cap, need)
         /\ need > BufferCap => Grown(cap, need) = BufferCap
<1> DEFINE first == IF cap = 0 THEN BufferFirst ELSE cap
           enough == {k \in 0 .. BufferCap : first * 2 ^ k >= need \/ first * 2 ^ k >= BufferCap}
           j == First(enough)
           size == first * 2 ^ j
<1>1. first \in Nat /\ first >= 1 /\ first >= cap
  BY BufferAssumption
<1>2. BufferCap \in Nat
  BY BufferAssumption
<1> HIDE DEF first
<1>3. \A a, b \in Nat : a >= 1 => a * b \in Nat /\ a * b >= b
  OBVIOUS
<1>4. \A a, b \in Nat : b >= 1 => a * b \in Nat /\ a * b >= a
  OBVIOUS
<1>5. BufferCap \in enough
  <2>1. 2 ^ BufferCap \in Nat /\ 2 ^ BufferCap >= BufferCap
    BY <1>2, PowerOfTwo
  <2>2. first * 2 ^ BufferCap \in Nat /\ first * 2 ^ BufferCap >= 2 ^ BufferCap
    BY <2>1, <1>1, <1>3
  <2>3. first * 2 ^ BufferCap >= BufferCap
    BY <2>1, <2>2, <1>2
  <2> QED
    BY <2>3, <1>2
<1>6. enough \in SUBSET Nat
  BY <1>2
<1>7. j \in enough
  BY <1>5, <1>6, FirstIn
<1> HIDE DEF j
<1>8. j \in Nat /\ (size >= need \/ size >= BufferCap)
  BY <1>7, <1>2
<1>9. size \in Nat /\ size >= first
  BY <1>1, <1>4, <1>8, PowerOfTwo
<1>10. Grown(cap, need) = IF size > BufferCap THEN BufferCap ELSE size
  BY DEF Grown, First, first, j
<1> HIDE DEF size
<1> QED
  BY <1>1, <1>2, <1>8, <1>9, <1>10

(* One call of agent_buf_append.  A text that fits the buffer is taken as  *)
(* a whole and said after the rest; one that does not is left out as a     *)
(* whole, and its bytes take no offsets.  What the buffer holds afterwards *)
(* is the end of what was said, every byte at the offset it was said at.   *)
LEMMA AppendHolds ==
  ASSUME NEW S, NEW said \in Seq(S), NEW buf, Holds(buf, said),
         NEW text \in Seq(S), NEW allocates \in BOOLEAN
  PROVE  LET new == Appended(buf, text, allocates)
         IN /\ Holds(new, IF Len(text) <= new.cap THEN said \o text ELSE said)
            /\ new.base >= buf.base /\ new.cap >= buf.cap
            /\ allocates /\ Len(text) <= BufferCap => Len(text) <= new.cap
<1> DEFINE need == Len(buf.held) + Len(text)
           cap == IF need > buf.cap /\ allocates THEN Grown(buf.cap, need) ELSE buf.cap
           keep == IF cap > Len(text) THEN cap - Len(text) ELSE 0
           drop == IF need > cap /\ Len(buf.held) > keep THEN Len(buf.held) - keep ELSE 0
           tail == SubSeq(buf.held, drop + 1, Len(buf.held))
           held == IF Len(tail) + Len(text) <= cap THEN tail \o text ELSE tail
           new == Appended(buf, text, allocates)
           spoken == IF Len(text) <= cap THEN said \o text ELSE said
<1>1. new = [base |-> buf.base + drop, held |-> held, cap |-> cap]
  BY DEF Appended
<1>2. /\ buf.base \in 0 .. Len(said) /\ buf.cap \in 0 .. BufferCap
      /\ buf.held = SubSeq(said, buf.base + 1, Len(said))
      /\ Len(said) - buf.base <= buf.cap
  BY DEF Holds
<1>3. Len(said) \in Nat /\ Len(text) \in Nat /\ BufferCap \in Nat
  BY BufferAssumption
<1>4. buf.held \in Seq(S) /\ Len(buf.held) = Len(said) - buf.base
  BY <1>2, SuffixOf
<1>5. need \in Nat
  BY <1>2, <1>3, <1>4
<1> HIDE DEF need
<1>6. /\ cap \in buf.cap .. BufferCap
      /\ allocates /\ Len(text) <= BufferCap => Len(text) <= cap
  <2>1. need >= Len(text)
    BY <1>2, <1>3, <1>4 DEF need
  <2>2. CASE need > buf.cap /\ allocates
    <3>1. cap = Grown(buf.cap, need)
      BY <2>2
    <3>2. /\ Grown(buf.cap, need) \in buf.cap .. BufferCap
          /\ need <= BufferCap => need <= Grown(buf.cap, need)
          /\ need > BufferCap => Grown(buf.cap, need) = BufferCap
      BY <1>2, <1>5, GrownBounds
    <3> QED
      BY <3>1, <3>2, <2>1, <1>2, <1>3, <1>5
  <2>3. CASE ~(need > buf.cap /\ allocates)
    BY <2>1, <2>3, <1>2, <1>3, <1>5
  <2> QED
    BY <2>2, <2>3
<1> HIDE DEF cap
<1> DEFINE n == Len(buf.held)
<1>a. /\ n \in Nat /\ n <= buf.cap
      /\ cap \in Nat /\ buf.cap <= cap /\ need = n + Len(text)
  <2>1. n \in Nat /\ n <= buf.cap
    BY <1>2, <1>3, <1>4
  <2>2. cap \in Nat /\ buf.cap <= cap
    BY <1>2, <1>3, <1>6
  <2> QED
    BY <2>1, <2>2 DEF need
<1>b. drop = IF need > cap /\ n > keep THEN n - keep ELSE 0
  OBVIOUS
<1> HIDE DEF n, drop
<1>c. /\ drop \in 0 .. n
      /\ Len(text) <= cap => n - drop + Len(text) <= cap
      /\ ~(Len(text) <= cap) => drop = n
  <2>1. CASE Len(text) < cap
    <3>1. keep = cap - Len(text)
      BY <2>1
    <3> HIDE DEF keep
    <3> QED
      BY <2>1, <3>1, <1>3, <1>a, <1>b
  <2>2. CASE ~(Len(text) < cap)
    <3>1. keep = 0
      BY <2>2, <1>3, <1>a
    <3> HIDE DEF keep
    <3> QED
      BY <2>2, <3>1, <1>3, <1>a, <1>b
  <2> QED
    BY <2>1, <2>2
<1>7. drop \in 0 .. Len(buf.held)
  BY <1>c DEF n
<1>8. /\ Len(text) <= cap => Len(buf.held) - drop + Len(text) <= cap
      /\ ~(Len(text) <= cap) => drop = Len(buf.held)
  BY <1>c DEF n
<1>9. buf.base + drop \in buf.base .. Len(said)
  <2>1. drop \in 0 .. Len(said) - buf.base
    BY <1>4, <1>7
  <2>2. buf.base \in Nat
    BY <1>2
  <2> QED
    BY <1>3, <2>1, <2>2
<1>10. tail = SubSeq(said, (buf.base + drop) + 1, Len(said))
  <2>1. (buf.base + drop) - buf.base + 1 = drop + 1
        /\ Len(said) - buf.base = Len(buf.held)
    BY <1>2, <1>3, <1>4, <1>7
  <2>2. Len(said) \in 0 .. Len(said)
    BY <1>3
  <2>3. SubSeq(SubSeq(said, buf.base + 1, Len(said)), (buf.base + drop) - buf.base + 1,
               Len(said) - buf.base)
        = SubSeq(said, (buf.base + drop) + 1, Len(said))
    BY <1>2, <1>9, <2>2, RangeOfSuffix
  <2> QED
    BY <1>2, <2>1, <2>3
<1> HIDE DEF tail
<1>11. tail \in Seq(S) /\ Len(tail) = Len(buf.held) - drop
  <2>1. buf.base + drop \in 0 .. Len(said)
    BY <1>2, <1>9
  <2>2. tail \in Seq(S) /\ Len(tail) = Len(said) - (buf.base + drop)
    BY <1>10, <2>1, SuffixOf
  <2> QED
    BY <2>2, <1>2, <1>3, <1>4, <1>7
<1>12. /\ held = SubSeq(spoken, (buf.base + drop) + 1, Len(spoken))
       /\ Len(spoken) \in Nat /\ buf.base + drop \in 0 .. Len(spoken)
       /\ Len(spoken) - (buf.base + drop) <= cap
  <2>1. buf.base + drop \in 0 .. Len(said)
    BY <1>2, <1>9
  <2>2. CASE Len(text) <= cap
    <3>1. held = tail \o text
      BY <1>8, <1>11, <2>2
    <3>2. spoken = said \o text /\ Len(said \o text) = Len(said) + Len(text)
      BY <2>2
    <3>3. tail \o text = SubSeq(said \o text, (buf.base + drop) + 1, Len(said \o text))
      BY <1>10, <2>1, SuffixGrows
    <3>4. Len(said) + Len(text) - (buf.base + drop) <= cap
      BY <1>2, <1>3, <1>4, <1>7, <1>8, <2>2
    <3> HIDE DEF spoken, held
    <3> QED
      BY <3>1, <3>2, <3>3, <3>4, <2>1, <1>3
  <2>3. CASE ~(Len(text) <= cap)
    <3>1. spoken = said
      BY <2>3
    <3>2. Len(tail) = 0 /\ drop = Len(buf.held)
      BY <1>4, <1>8, <1>11, <2>3
    <3>3. ~(Len(tail) + Len(text) <= cap)
      BY <3>2, <2>3, <1>3
    <3>4. held = tail
      BY <3>3
    <3> HIDE DEF spoken, held
    <3>5. Len(said) - (buf.base + drop) <= cap
      <4>1. Len(said) - (buf.base + (Len(said) - buf.base)) = 0
        BY <1>2, <1>3
      <4>2. drop = Len(said) - buf.base
        BY <3>2, <1>4
      <4>3. 0 <= cap
        BY <1>a
      <4> HIDE DEF drop, cap
      <4> QED
        BY <4>1, <4>2, <4>3
    <3> QED
      BY <3>1, <3>4, <3>5, <1>3, <1>10, <2>1
  <2> QED
    BY <2>2, <2>3
<1> HIDE DEF held, spoken
<1>13. cap \in 0 .. BufferCap
  BY <1>2, <1>3, <1>6
<1> HIDE DEF new
<1>14. new.base = buf.base + drop /\ new.held = held /\ new.cap = cap
       /\ new = [base |-> new.base, held |-> new.held, cap |-> new.cap]
  BY <1>1
<1>15. Holds(new, spoken)
  BY <1>12, <1>13, <1>14 DEF Holds
<1>16. new.base >= buf.base /\ new.cap >= buf.cap
  BY <1>2, <1>3, <1>6, <1>7, <1>14
<1> QED
  BY <1>6, <1>14, <1>15, <1>16 DEF new, spoken

(* From one reset of the buffer to the next the bytes of the Agent keep    *)
(* their offsets: an empty buffer, of any allocation, holds what was said, *)
(* nothing, and every append, whether its own allocation succeeds or not,  *)
(* keeps the buffer at the end of what was said, within its capacity       *)
(* (agent_buf_append, g_abase and g_alen).                                 *)
THEOREM OffsetsNameBytes ==
  ASSUME NEW S
  PROVE  /\ \A cap \in 0 .. BufferCap : Holds([EmptyBuffer EXCEPT !.cap = cap], <<>>)
         /\ \A said \in Seq(S), buf, text \in Seq(S), allocates \in BOOLEAN :
              Holds(buf, said) =>
                LET new == Appended(buf, text, allocates)
                IN /\ Holds(new, said) \/ Holds(new, said \o text)
                   /\ allocates /\ Len(text) <= BufferCap => Holds(new, said \o text)
                   /\ buf.base <= new.base
<1>1. ASSUME NEW cap \in 0 .. BufferCap
      PROVE  Holds([EmptyBuffer EXCEPT !.cap = cap], <<>>)
  <2>1. [EmptyBuffer EXCEPT !.cap = cap] = [base |-> 0, held |-> <<>>, cap |-> cap]
    BY DEF EmptyBuffer
  <2>2. SubSeq(<<>>, 0 + 1, 0) = <<>>
    BY SubSeqEmpty
  <2> DEFINE buf == [EmptyBuffer EXCEPT !.cap = cap]
  <2>3. /\ buf = [base |-> buf.base, held |-> buf.held, cap |-> buf.cap]
        /\ buf.base = 0 /\ buf.held = <<>> /\ buf.cap = cap
    BY <2>1
  <2> HIDE DEF buf
  <2>4. Len(<<>>) = 0 /\ cap \in Nat
    BY BufferAssumption
  <2>5. buf.base \in 0 .. Len(<<>>) /\ Len(<<>>) - buf.base <= buf.cap
    BY <2>3, <2>4
  <2>6. buf.held = SubSeq(<<>>, buf.base + 1, Len(<<>>))
    BY <2>2, <2>3, <2>4
  <2>7. Holds(buf, <<>>)
    BY <2>3, <2>5, <2>6 DEF Holds
  <2> QED
    BY <2>7 DEF buf
<1>2. ASSUME NEW said \in Seq(S), NEW buf, NEW text \in Seq(S), NEW allocates \in BOOLEAN,
             Holds(buf, said)
      PROVE  LET new == Appended(buf, text, allocates)
             IN /\ Holds(new, said) \/ Holds(new, said \o text)
                /\ allocates /\ Len(text) <= BufferCap => Holds(new, said \o text)
                /\ buf.base <= new.base
  <2> DEFINE new == Appended(buf, text, allocates)
  <2>1. /\ Holds(new, IF Len(text) <= new.cap THEN said \o text ELSE said)
        /\ new.base >= buf.base
        /\ allocates /\ Len(text) <= BufferCap => Len(text) <= new.cap
    BY <1>2, AppendHolds
  <2> HIDE DEF new
  <2>2. buf.base \in Int /\ new.base \in Int
    BY <1>2, <2>1 DEF Holds
  <2> QED
    BY <2>1, <2>2 DEF new
<1> QED
  BY <1>1, <1>2

(* Until the buffer is reset, a gate that reads the transcript of its node *)
(* again and a reader that asks from an offset are given what was said     *)
(* there and nothing else, as long as the first byte they ask for is held: *)
(* the gate judges what the end of the turn was judged by, and the reader  *)
(* misses and repeats nothing (dtg_native_verify_agent_receipt,            *)
(* api_agent_poll).                                                        *)
THEOREM OffsetsAreStable ==
  ASSUME NEW S, NEW said \in Seq(S), NEW buf, Holds(buf, said)
  PROVE  /\ End(buf) = Len(said)
         /\ \A from, to \in buf.base .. Len(said) :
              Slice(buf, from, to) = SubSeq(said, from + 1, to)
         /\ \A since \in Nat :
              Sent(buf, since) =
                SubSeq(said, (IF since < buf.base THEN buf.base ELSE since) + 1, Len(said))
<1>1. /\ buf.base \in 0 .. Len(said)
      /\ buf.held = SubSeq(said, buf.base + 1, Len(said))
  BY DEF Holds
<1>2. Len(said) \in Nat
  OBVIOUS
<1>3. buf.held \in Seq(S) /\ Len(buf.held) = Len(said) - buf.base
  BY <1>1, SuffixOf
<1>4. End(buf) = Len(said)
  <2>1. End(buf) = buf.base + Len(buf.held)
    BY DEF End
  <2>2. buf.base + (Len(said) - buf.base) = Len(said)
    BY <1>1, <1>2
  <2> QED
    BY <1>3, <2>1, <2>2
<1>5. ASSUME NEW from \in buf.base .. Len(said), NEW to \in buf.base .. Len(said)
      PROVE  Slice(buf, from, to) = SubSeq(said, from + 1, to)
  <2>1. ~(from < buf.base) /\ ~(to > End(buf))
    BY <1>1, <1>2, <1>4
  <2>2. Slice(buf, from, to) = SubSeq(buf.held, from - buf.base + 1, to - buf.base)
    BY <2>1 DEF Slice
  <2>3. to \in 0 .. Len(said)
    BY <1>1, <1>2
  <2>4. SubSeq(SubSeq(said, buf.base + 1, Len(said)), from - buf.base + 1, to - buf.base)
          = SubSeq(said, from + 1, to)
    BY <2>3, <1>1, RangeOfSuffix
  <2> QED
    BY <2>2, <2>4, <1>1
<1>6. ASSUME NEW since \in Nat
      PROVE  Sent(buf, since) =
               SubSeq(said, (IF since < buf.base THEN buf.base ELSE since) + 1, Len(said))
  <2> DEFINE at == Realigned(buf, since)
             asked == IF since < buf.base THEN buf.base ELSE since
  <2>1. at \in buf.base .. Len(said) /\ (at = asked \/ (at = Len(said) /\ asked > Len(said)))
    BY <1>1, <1>2, <1>4 DEF Realigned
  <2>2. Sent(buf, since) = SubSeq(buf.held, at - buf.base + 1, Len(said) - buf.base)
    BY <1>3 DEF Sent
  <2> HIDE DEF at
  <2>3. Len(said) \in 0 .. Len(said)
    BY <1>2
  <2>4. Sent(buf, since) = SubSeq(said, at + 1, Len(said))
    <3>1. SubSeq(SubSeq(said, buf.base + 1, Len(said)), at - buf.base + 1, Len(said) - buf.base)
            = SubSeq(said, at + 1, Len(said))
      BY <2>1, <2>3, <1>1, RangeOfSuffix
    <3> QED
      BY <2>2, <3>1, <1>1
  <2>5. CASE at = asked
    BY <2>4, <2>5
  <2>6. CASE at = Len(said) /\ asked > Len(said)
    <3>1. asked + 1 \in Int /\ Len(said) < at + 1 /\ Len(said) < asked + 1
      BY <1>1, <1>2, <2>6
    <3> HIDE DEF asked
    <3>2. SubSeq(said, at + 1, Len(said)) = <<>> /\ SubSeq(said, asked + 1, Len(said)) = <<>>
      BY <3>1, <2>1, <1>1, <1>2, SubSeqEmpty
    <3> QED
      BY <2>4, <3>2 DEF asked
  <2> QED
    BY <2>1, <2>5, <2>6
<1> QED
  BY <1>4, <1>5, <1>6
=============================================================================
