----------------------------- MODULE TaskStore ------------------------------
(***************************************************************************)
(* The event-sourced store of one task graph (dstudio_task_store.c).       *)
(*                                                                         *)
(* events.jsonl is an append-only file of numbered records, state.json a   *)
(* cache replaced atomically after every append, and a cold load rebuilds  *)
(* the graph by replaying the records one line at a time.  A process may   *)
(* die between any two of these steps.  Three faults of the environment    *)
(* are switched on by Faults:                                              *)
(*   "torn"     a write leaves an unterminated fragment at the end of the  *)
(*              journal (the process dies in it, or the disk is full);     *)
(*   "unacked"  the whole record is written but the append reports failure *)
(*              (fsync or close fails, the AFTER_EVENT_APPEND failpoint).  *)
(* A second DStudio process is a second member of Procs.                   *)
(***************************************************************************)
EXTENDS TaskGraphStates, Naturals, Sequences

CONSTANTS
  Nodes,      (* node ids of the immutable definition graph.json           *)
  Procs,      (* DStudio processes that use the workspace                  *)
  Faults,     (* subset of {"torn", "unacked"}                             *)
  NoNode,     (* the node of a graph-level record                          *)
  Garbage,    (* a line that is not one JSON record                        *)
  NoProc,     (* the holder of a free lock                                 *)
  Offline,    (* what DurableGraph shows of a process without the graph    *)
  MaxEvents,  (* bound on the number of journal lines                      *)
  MaxAttempts (* bound on attempts_started in the records written          *)

ASSUME NoNodeAssumption  == NoNode \notin Nodes
ASSUME NoProcAssumption  == NoProc \notin Procs
ASSUME BoundsAssumption  == MaxEvents \in Nat /\ MaxAttempts \in Nat

VARIABLES
  events,    (* the complete lines of events.jsonl                         *)
  partial,   (* does events.jsonl end in an unterminated fragment?         *)
  snapshot,  (* state.json: lastAppliedEventSeq and the graph contents     *)
  lock,      (* holder of the flock on the lock file                       *)
  mem,       (* mem[p]: rt->graph in process p                             *)
  last,      (* last[p]: rt->graph.last_event_seq                          *)
  pc,        (* pc[p]: where p is in dtg_store_load or dtg_store_*_event   *)
  record,    (* record[p]: the record p is about to append                 *)
  buffer,    (* buffer[p]: the journal p has read and replays              *)
  pos,       (* pos[p]: lines of the buffer replayed so far                *)
  rejected,  (* rejected[p]: p's last cold load refused the journal        *)
  history    (* ghost: history[i] is the graph after i accepted records    *)

vars == <<events, partial, snapshot, lock, mem, last, pc, record, buffer,
          pos, rejected, history>>

volatile == <<mem, last, record, buffer, pos>>

loading == <<buffer, pos, rejected>>
-----------------------------------------------------------------------------
Contents == [g : GraphStates, approved : BOOLEAN,
             n : [Nodes -> NodeStates], attempts : [Nodes -> Nat]]

(* The part of rt->graph that dtg_replay_events resets before it replays.  *)
Draft == [g |-> "DRAFT", approved |-> FALSE,
          n |-> [x \in Nodes |-> "DRAFT"], attempts |-> [x \in Nodes |-> 0]]

Records == [seq : Nat, g : GraphStates, approved : BOOLEAN,
            node : Nodes \cup {NoNode}, state : NodeStates, attempts : Nat]

ASSUME GarbageAssumption == Garbage \notin Records

(* A graph record; its node fields are absent in the file.                 *)
GraphRecord(p, g, approved) ==
  [seq |-> last[p] + 1, g |-> g, approved |-> approved,
   node |-> NoNode, state |-> "DRAFT", attempts |-> 0]

(* A node record repeats the graph state and approval of the moment.       *)
NodeRecord(p, x, state, attempts) ==
  [seq |-> last[p] + 1, g |-> mem[p].g, approved |-> mem[p].approved,
   node |-> x, state |-> state, attempts |-> attempts]

(* The checks of a record: its number, and both transitions.               *)
MayApply(s, seq, e) ==
  /\ e # Garbage
  /\ e.seq = seq + 1
  /\ GraphMayGo(s.g, e.g)
  /\ e.node # NoNode => NodeMayGo(s.n[e.node], e.state)

Apply(s, e) ==
  [g |-> e.g, approved |-> e.approved,
   n |-> IF e.node = NoNode THEN s.n ELSE [s.n EXCEPT ![e.node] = e.state],
   attempts |-> IF e.node = NoNode THEN s.attempts
                ELSE [s.attempts EXCEPT ![e.node] = e.attempts]]

(* graph.created, the record dtg_store_create writes first.                *)
Created == [seq |-> 1, g |-> "DRAFT", approved |-> FALSE,
            node |-> NoNode, state |-> "DRAFT", attempts |-> 0]

(* The graph after the first i accepted records, and after all of them.    *)
After(i) == IF i = 0 THEN Draft ELSE history[i]

Current == history[Len(history)]
-----------------------------------------------------------------------------
(* One process has created the graph; the others have not loaded it.       *)
Init ==
  /\ events = <<Created>>
  /\ partial = FALSE
  /\ snapshot = [seq |-> 1, contents |-> Draft]
  /\ lock = NoProc
  /\ mem = [p \in Procs |-> Draft]
  /\ \E creator \in Procs :
       /\ pc = [p \in Procs |-> IF p = creator THEN "idle" ELSE "down"]
       /\ last = [p \in Procs |-> IF p = creator THEN 1 ELSE 0]
  /\ record = [p \in Procs |-> Created]
  /\ buffer = [p \in Procs |-> << >>]
  /\ pos = [p \in Procs |-> 0]
  /\ rejected = [p \in Procs |-> FALSE]
  /\ history = <<Draft>>

(* dtg_registry_forget, and what death leaves: nothing of p's memory.      *)
Forget(p) ==
  /\ pc' = [pc EXCEPT ![p] = "down"]
  /\ mem' = [mem EXCEPT ![p] = Draft]
  /\ last' = [last EXCEPT ![p] = 0]
  /\ record' = [record EXCEPT ![p] = Created]
  /\ buffer' = [buffer EXCEPT ![p] = << >>]
  /\ pos' = [pos EXCEPT ![p] = 0]

(* The call that held the lock returns; its record is dropped.             *)
Return(p) ==
  /\ lock' = NoProc
  /\ record' = [record EXCEPT ![p] = Created]
  /\ pc' = [pc EXCEPT ![p] = "idle"]

(* Faulty variant: the advisory lock is not taken.                         *)
RequestUnlocked(p, e) ==
  /\ pc[p] = "idle"
  /\ Len(events) < MaxEvents
  /\ MayApply(mem[p], last[p], e)
  /\ record' = [record EXCEPT ![p] = e]
  /\ pc' = [pc EXCEPT ![p] = "append"]
  /\ UNCHANGED <<events, partial, snapshot, lock, mem, last, buffer, pos,
                 rejected, history>>

(* Faulty variant: the transition is not checked before it is written.     *)
RequestUnchecked(p, e) ==
  /\ pc[p] = "idle"
  /\ Len(events) < MaxEvents
  /\ lock = NoProc
  /\ lock' = p
  /\ record' = [record EXCEPT ![p] = e]
  /\ pc' = [pc EXCEPT ![p] = "append"]
  /\ UNCHANGED <<events, partial, snapshot, mem, last, buffer, pos, rejected,
                 history>>

(* dtg_store_graph_event and dtg_store_node_event: check the transition    *)
(* against memory, then take the lock without waiting.  A refusal changes  *)
(* nothing.                                                                *)
Request(p, e) ==
  /\ pc[p] = "idle"
  /\ Len(events) < MaxEvents
  /\ MayApply(mem[p], last[p], e)
  /\ lock = NoProc
  /\ lock' = p
  /\ record' = [record EXCEPT ![p] = e]
  /\ pc' = [pc EXCEPT ![p] = "append"]
  /\ UNCHANGED <<events, partial, snapshot, mem, last, buffer, pos, rejected,
                 history>>

StoreGraphEvent(p) ==
  \E g \in GraphStates, approved \in {mem[p].approved, TRUE} :
    Request(p, GraphRecord(p, g, approved))

StoreNodeEvent(p) ==
  \E x \in Nodes, state \in NodeStates, started \in {0, 1} :
    /\ mem[p].attempts[x] + started <= MaxAttempts
    /\ Request(p, NodeRecord(p, x, state, mem[p].attempts[x] + started))

(* The line the file holds once the bytes of e and its newline are written: *)
(* O_APPEND glues them to whatever fragment the file ends in.              *)
Line(e) == IF partial THEN Garbage ELSE e

(* The record is written and fsynced.                                      *)
AppendEvent(p) ==
  /\ pc[p] = "append"
  /\ events' = Append(events, Line(record[p]))
  /\ partial' = FALSE
  /\ history' = Append(history, Apply(mem[p], record[p]))
  /\ pc' = [pc EXCEPT ![p] = "commit"]
  /\ UNCHANGED <<snapshot, lock, volatile, rejected>>

(* The write stops short: the caller sees a failure, the fragment stays.   *)
AppendTorn(p) ==
  /\ "torn" \in Faults
  /\ pc[p] = "append"
  /\ partial' = TRUE
  /\ Return(p)
  /\ UNCHANGED <<events, snapshot, mem, last, loading, history>>

(* Faulty variant: memory moves before the record is durable.              *)
AppendFailsLate(p) ==
  /\ pc[p] = "append"
  /\ mem' = [mem EXCEPT ![p] = Apply(@, record[p])]
  /\ Return(p)
  /\ UNCHANGED <<events, partial, snapshot, last, loading, history>>

(* The open fails, or nothing could be written.                            *)
AppendFails(p) ==
  /\ pc[p] = "append"
  /\ Return(p)
  /\ UNCHANGED <<events, partial, snapshot, mem, last, loading, history>>

(* The record is in the file, but the append returns 0.                    *)
AppendUnacked(p) ==
  /\ "unacked" \in Faults
  /\ pc[p] = "append"
  /\ events' = Append(events, Line(record[p]))
  /\ partial' = FALSE
  /\ Return(p)
  /\ UNCHANGED <<snapshot, mem, last, loading, history>>

(* After a durable append: memory moves, state.json is replaced (or that   *)
(* fails, which the caller sees as a failure of the whole call), unlock.   *)
Commit(p) ==
  /\ pc[p] = "commit"
  /\ mem' = [mem EXCEPT ![p] = Apply(@, record[p])]
  /\ last' = [last EXCEPT ![p] = record[p].seq]
  /\ snapshot' \in {snapshot, [seq |-> record[p].seq, contents |-> mem'[p]]}
  /\ Return(p)
  /\ UNCHANGED <<events, partial, loading, history>>
-----------------------------------------------------------------------------
(* A cold load reads the journal; dtg_replay_events starts from Draft.     *)
BeginLoad(p) ==
  /\ pc[p] = "down"
  /\ buffer' = [buffer EXCEPT ![p] = events]
  /\ rejected' = [rejected EXCEPT ![p] = FALSE]
  /\ pc' = [pc EXCEPT ![p] = "replay"]
  /\ UNCHANGED <<events, partial, snapshot, lock, mem, last, record, pos,
                 history>>

(* Faulty variant: a line that does not apply is skipped.                  *)
ReplayLineLenient(p) ==
  /\ pc[p] = "replay"
  /\ pos[p] < Len(buffer[p])
  /\ LET e == buffer[p][pos[p] + 1]
     IN  IF MayApply(mem[p], last[p], e)
         THEN /\ mem' = [mem EXCEPT ![p] = Apply(@, e)]
              /\ last' = [last EXCEPT ![p] = e.seq]
         ELSE UNCHANGED <<mem, last>>
  /\ pos' = [pos EXCEPT ![p] = @ + 1]
  /\ UNCHANGED <<events, partial, snapshot, lock, pc, record, buffer, rejected,
                 history>>

(* dtg_event_apply_line on the next complete line.                         *)
ReplayLine(p) ==
  /\ pc[p] = "replay"
  /\ pos[p] < Len(buffer[p])
  /\ LET e == buffer[p][pos[p] + 1]
     IN  /\ MayApply(mem[p], last[p], e)
         /\ mem' = [mem EXCEPT ![p] = Apply(@, e)]
         /\ last' = [last EXCEPT ![p] = e.seq]
  /\ pos' = [pos EXCEPT ![p] = @ + 1]
  /\ UNCHANGED <<events, partial, snapshot, lock, pc, record, buffer, rejected,
                 history>>

(* A line that does not apply: the whole load is refused.                  *)
RejectLine(p) ==
  /\ pc[p] = "replay"
  /\ pos[p] < Len(buffer[p])
  /\ ~MayApply(mem[p], last[p], buffer[p][pos[p] + 1])
  /\ rejected' = [rejected EXCEPT ![p] = TRUE]
  /\ Forget(p)
  /\ UNCHANGED <<events, partial, snapshot, lock, history>>

(* Faulty variant: the graph is served before the last line is replayed.   *)
EndLoadEarly(p) ==
  /\ pc[p] = "replay"
  /\ lock = NoProc
  /\ snapshot' = [seq |-> last[p], contents |-> mem[p]]
  /\ pc' = [pc EXCEPT ![p] = "idle"]
  /\ buffer' = [buffer EXCEPT ![p] = << >>]
  /\ pos' = [pos EXCEPT ![p] = 0]
  /\ UNCHANGED <<events, partial, lock, mem, last, record, rejected, history>>

(* Replay is over (an unterminated tail is ignored); the cache is brought  *)
(* up to date under the lock before the graph is served.                   *)
EndLoad(p) ==
  /\ pc[p] = "replay"
  /\ pos[p] = Len(buffer[p])
  /\ lock = NoProc
  /\ snapshot' = [seq |-> last[p], contents |-> mem[p]]
  /\ pc' = [pc EXCEPT ![p] = "idle"]
  /\ buffer' = [buffer EXCEPT ![p] = << >>]
  /\ pos' = [pos EXCEPT ![p] = 0]
  /\ UNCHANGED <<events, partial, lock, mem, last, record, rejected, history>>

(* The lock is taken, or state.json cannot be written: the load fails.     *)
AbortLoad(p) ==
  /\ pc[p] = "replay"
  /\ pos[p] = Len(buffer[p])
  /\ Forget(p)
  /\ UNCHANGED <<events, partial, snapshot, lock, rejected, history>>

(* The process dies: memory is gone and the kernel drops its lock.  Death  *)
(* in the middle of a write can leave a fragment behind.                   *)
Crash(p) ==
  /\ pc[p] # "down"
  /\ Forget(p)
  /\ lock' = IF lock = p THEN NoProc ELSE lock
  /\ partial' \in IF pc[p] = "append" /\ "torn" \in Faults
                  THEN {partial, TRUE} ELSE {partial}
  /\ UNCHANGED <<events, snapshot, rejected, history>>

Next ==
  \E p \in Procs :
    \/ StoreGraphEvent(p) \/ StoreNodeEvent(p)
    \/ AppendEvent(p) \/ AppendTorn(p) \/ AppendFails(p) \/ AppendUnacked(p)
    \/ Commit(p)
    \/ BeginLoad(p) \/ ReplayLine(p) \/ RejectLine(p)
    \/ EndLoad(p) \/ AbortLoad(p)
    \/ Crash(p)

Spec == Init /\ [][Next]_vars
-----------------------------------------------------------------------------
(* Every variable holds a value of the kind its C counterpart holds.       *)
TypeOK ==
  /\ events \in Seq(Records \cup {Garbage})
  /\ partial \in BOOLEAN
  /\ snapshot \in [seq : Nat, contents : Contents]
  /\ lock \in Procs \cup {NoProc}
  /\ mem \in [Procs -> Contents]
  /\ last \in [Procs -> Nat]
  /\ pc \in [Procs -> {"down", "replay", "idle", "append", "commit"}]
  /\ record \in [Procs -> Records]
  /\ buffer \in [Procs -> Seq(Records \cup {Garbage})]
  /\ pos \in [Procs -> Nat]
  /\ rejected \in [Procs -> BOOLEAN]
  /\ history \in Seq(Contents)

(* The journal is authoritative at every moment, in the middle of a crash  *)
(* or of a failed snapshot too: its lines are numbered without a gap, each *)
(* one is legal after those before it, and replaying the first i of them   *)
(* gives the graph that was committed by the i-th accepted record          *)
(* (dtg_append_event_locked against dtg_event_apply_line).                 *)
ReplayRebuilds ==
  /\ Len(events) = Len(history)
  /\ \A i \in 1 .. Len(events) :
       /\ MayApply(After(i - 1), i - 1, events[i])
       /\ history[i] = Apply(After(i - 1), events[i])

(* No cold load ever refuses the journal: whatever the process was doing   *)
(* when it died, dtg_replay_events accepts what is on disk.                *)
NeverRejected == \A p \in Procs : ~rejected[p]

(* A process that serves the graph serves the last committed state: an     *)
(* accepted transition is lost by no crash, and none is shown that the     *)
(* journal does not hold.                                                  *)
ServesCommitted ==
  \A p \in Procs : pc[p] = "idle" => mem[p] = Current /\ last[p] = Len(events)

(* state.json is never ahead of the journal and never a mixture: it is     *)
(* exactly the graph at the record it names as lastAppliedEventSeq.        *)
SnapshotIsAPast ==
  /\ snapshot.seq \in 1 .. Len(history)
  /\ snapshot.contents = history[snapshot.seq]

(* A graph is served after a cold load only once state.json has caught up  *)
(* with the journal (dtg_store_load refreshes it before it returns).       *)
LoadRefreshesSnapshot ==
  [][\A p \in Procs : pc[p] = "replay" /\ pc'[p] = "idle" =>
        snapshot' = [seq |-> Len(events), contents |-> Current]]_vars

(* A damaged journal is refused as a whole, never half-served: a cold load *)
(* that succeeds has applied every line of the file, numbered from 1       *)
(* without gap or repetition, whatever faults or other processes wrote     *)
(* before it (the checks of dtg_event_apply_line, the break that makes     *)
(* dtg_replay_events report the failure).                                  *)
LoadsAllOrNothing ==
  [][\A p \in Procs : pc[p] = "replay" /\ pc'[p] = "idle" =>
        /\ last'[p] = Len(buffer[p])
        /\ \A i \in 1 .. Len(buffer[p]) :
             buffer[p][i] # Garbage /\ buffer[p][i].seq = i]_vars

(* The flock keeps two processes from writing at once: between an append   *)
(* and the state.json that goes with it no other append slips in.          *)
OneWriterAtATime ==
  \A p, q \in Procs :
    pc[p] \in {"append", "commit"} /\ pc[q] \in {"append", "commit"} => p = q

(* With one process, the store keeps the promise of DurableGraph: one      *)
(* committed state that survives crashes, shown as it is or not at all.    *)
Host == CHOOSE p \in Procs : TRUE

Durable == INSTANCE DurableGraph WITH
  committed <- Current,
  shown <- IF pc[Host] = "idle" THEN mem[Host] ELSE Offline

ImplementsDurableGraph == Durable!Spec
=============================================================================
