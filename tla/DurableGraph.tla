---------------------------- MODULE DurableGraph ----------------------------
(***************************************************************************)
(* What the event store promises its callers: one committed graph state    *)
(* that changes only by legal transitions and survives every crash, and a  *)
(* host that shows either that state or nothing.                           *)
(***************************************************************************)
EXTENDS TaskGraphStates, Naturals

CONSTANTS
  Nodes,     (* the nodes of the graph                                     *)
  Offline    (* what a host that has not loaded the graph shows            *)

VARIABLES
  committed, (* the state every cold load must rebuild                     *)
  shown      (* the state the host exposes, or Offline                     *)

Contents == [g : GraphStates, approved : BOOLEAN,
             n : [Nodes -> NodeStates], attempts : [Nodes -> Nat]]

(* One accepted record: the graph moves, or one node does.                 *)
Legal(s, t) ==
  \/ /\ GraphMayGo(s.g, t.g)
     /\ t.n = s.n
     /\ t.attempts = s.attempts
  \/ \E n \in Nodes :
       /\ NodeMayGo(s.n[n], t.n[n])
       /\ t.g = s.g
       /\ t.approved = s.approved
       /\ t.n = [s.n EXCEPT ![n] = t.n[n]]
       /\ t.attempts = [s.attempts EXCEPT ![n] = t.attempts[n]]

Init == committed \in Contents /\ shown = committed

(* No reader is served between the durable record and the new state.       *)
Commit == Legal(committed, committed') /\ shown' = Offline

Expose == shown' = committed /\ UNCHANGED committed

GoOffline == shown' = Offline /\ UNCHANGED committed

Next == Commit \/ Expose \/ GoOffline

Spec == Init /\ [][Next]_<<committed, shown>>
=============================================================================
