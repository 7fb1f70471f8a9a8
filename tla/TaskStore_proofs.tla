-------------------------- MODULE TaskStore_proofs --------------------------
(***************************************************************************)
(* Theorems about the event store for every set of nodes, every bound on   *)
(* the journal and, where it is said, every set of processes and faults.   *)
(*                                                                         *)
(* Three inductive invariants carry the proofs.  Guarded and Lawful hold   *)
(* whatever fails and however many processes share the workspace.          *)
(* Recoverable needs the assumptions of SoleReliableHost: one process, no  *)
(* torn and no unacknowledged append.                                      *)
(*                                                                         *)
(* Then what may enter the journal: what holds of every graph that the     *)
(* policy accepts, of any size.  The last part is about the files that the *)
(* nodes write, and their undo.                                            *)
(***************************************************************************)
EXTENDS TaskStore, GraphPolicy, NodeFiles, TLAPS

SoleReliableHost == Faults = {} /\ \A p, q \in Procs : p = q

(* The process that writes holds the lock, and a cold load has numbered    *)
(* the lines it replayed.                                                  *)
Guarded ==
  /\ TypeOK
  /\ \A p \in Procs :
       /\ pc[p] \in {"append", "commit"} => lock = p
       /\ pc[p] = "down" => last[p] = 0 /\ pos[p] = 0
       /\ pc[p] = "replay" =>
            /\ last[p] = pos[p]
            /\ pos[p] <= Len(buffer[p])
            /\ \A i \in 1 .. pos[p] :
                 buffer[p][i] # Garbage /\ buffer[p][i].seq = i

(* What memory holds at each point of the code, against the journal.       *)
Recoverable ==
  /\ ~partial
  /\ Len(events) > 0
  /\ ReplayRebuilds
  /\ NeverRejected
  /\ SnapshotIsAPast
  /\ \A p \in Procs :
       /\ pc[p] = "down" => mem[p] = Draft
       /\ pc[p] = "replay" => buffer[p] = events /\ mem[p] = After(pos[p])
       /\ pc[p] \in {"idle", "append"} => mem[p] = Current /\ last[p] = Len(events)
       /\ pc[p] = "append" => MayApply(mem[p], last[p], record[p])
       /\ pc[p] = "commit" =>
            /\ last[p] + 1 = Len(events)
            /\ mem[p] = After(last[p])
            /\ record[p] = events[Len(events)]
-----------------------------------------------------------------------------
LEMMA DraftType == Draft \in Contents
  BY DEF Draft, Contents, GraphStates, NodeStates

LEMMA CreatedType == Created \in Records
  BY DEF Created, Records, GraphStates, NodeStates

(* Applying a record keeps the contents well typed.                        *)
LEMMA ApplyType ==
  ASSUME NEW s \in Contents, NEW e \in Records
  PROVE  Apply(s, e) \in Contents
<1>1. CASE e.node = NoNode
  BY <1>1 DEF Apply, Contents, Records
<1>2. CASE e.node # NoNode
  <2>1. e.node \in Nodes /\ e.state \in NodeStates /\ e.attempts \in Nat
    BY <1>2 DEF Records
  <2>2. [s.n EXCEPT ![e.node] = e.state] \in [Nodes -> NodeStates]
    BY <2>1 DEF Contents
  <2>3. [s.attempts EXCEPT ![e.node] = e.attempts] \in [Nodes -> Nat]
    BY <2>1 DEF Contents
  <2>4. e.g \in GraphStates /\ e.approved \in BOOLEAN
    BY DEF Records
  <2> QED
    BY <1>2, <2>2, <2>3, <2>4 DEF Apply, Contents
<1> QED
  BY <1>1, <1>2

LEMMA RecordTypes ==
  ASSUME TypeOK, NEW p \in Procs
  PROVE  /\ \A g \in GraphStates, approved \in {mem[p].approved, TRUE} :
              GraphRecord(p, g, approved) \in Records
         /\ \A x \in Nodes, state \in NodeStates, started \in {0, 1} :
              NodeRecord(p, x, state, mem[p].attempts[x] + started) \in Records
<1>1. mem[p] \in Contents /\ last[p] \in Nat
  BY DEF TypeOK
<1>2. "DRAFT" \in NodeStates
  BY DEF NodeStates
<1> QED
  BY <1>1, <1>2 DEF GraphRecord, NodeRecord, Records, Contents

(* An action of the store, said once for every case split below.           *)
Requests(p) ==
  \E e \in Records :
    /\ e.seq = last[p] + 1
    /\ Request(p, e)

LEMMA RequestsARecord ==
  ASSUME TypeOK, NEW p \in Procs, StoreGraphEvent(p) \/ StoreNodeEvent(p)
  PROVE  Requests(p)
<1>1. CASE StoreGraphEvent(p)
  <2>1. PICK g \in GraphStates, approved \in {mem[p].approved, TRUE} :
          Request(p, GraphRecord(p, g, approved))
    BY <1>1 DEF StoreGraphEvent
  <2>2. GraphRecord(p, g, approved).seq = last[p] + 1
    BY DEF GraphRecord
  <2> QED
    BY <2>1, <2>2, RecordTypes DEF Requests
<1>2. CASE StoreNodeEvent(p)
  <2>1. PICK x \in Nodes, state \in NodeStates, started \in {0, 1} :
          Request(p, NodeRecord(p, x, state, mem[p].attempts[x] + started))
    BY <1>2 DEF StoreNodeEvent
  <2>2. NodeRecord(p, x, state, mem[p].attempts[x] + started).seq = last[p] + 1
    BY DEF NodeRecord
  <2> QED
    BY <2>1, <2>2, RecordTypes DEF Requests
<1> QED
  BY <1>1, <1>2

LEMMA TypeInit == Init => TypeOK
<1> SUFFICES ASSUME Init PROVE TypeOK
  OBVIOUS
<1> USE DraftType, CreatedType DEF Init
<1>1. events \in Seq(Records \cup {Garbage}) /\ history \in Seq(Contents)
  OBVIOUS
<1>2. snapshot \in [seq : Nat, contents : Contents]
  OBVIOUS
<1>3. pc \in [Procs -> {"down", "replay", "idle", "append", "commit"}]
  OBVIOUS
<1>4. last \in [Procs -> Nat]
  OBVIOUS
<1>5. partial \in BOOLEAN /\ rejected \in [Procs -> BOOLEAN]
  OBVIOUS
<1>6. lock \in Procs \cup {NoProc} /\ mem \in [Procs -> Contents]
  OBVIOUS
<1>7. record \in [Procs -> Records] /\ pos \in [Procs -> Nat]
  OBVIOUS
<1>8. buffer \in [Procs -> Seq(Records \cup {Garbage})]
  OBVIOUS
<1> HIDE DEF Init
<1> QED
  BY <1>1, <1>2, <1>3, <1>4, <1>5, <1>6, <1>7, <1>8 DEF TypeOK

LEMMA TypeStep == TypeOK /\ [Next]_vars => TypeOK'
<1> SUFFICES ASSUME TypeOK, [Next]_vars PROVE TypeOK'
  OBVIOUS
<1> USE DraftType, CreatedType
<1>1. CASE UNCHANGED vars
  BY <1>1 DEF vars, TypeOK
<1>2. ASSUME NEW p \in Procs, Requests(p) PROVE TypeOK'
  BY <1>2 DEF Requests, Request, TypeOK
<1>3. ASSUME NEW p \in Procs, AppendEvent(p) PROVE TypeOK'
  <2>1. Line(record[p]) \in Records \cup {Garbage}
    BY DEF Line, TypeOK
  <2>2. Apply(mem[p], record[p]) \in Contents
    BY ApplyType DEF TypeOK
  <2>3. events' \in Seq(Records \cup {Garbage})
    BY <1>3, <2>1 DEF AppendEvent, TypeOK
  <2>4. history' \in Seq(Contents)
    BY <1>3, <2>2 DEF AppendEvent, TypeOK
  <2> QED
    BY <1>3, <2>3, <2>4 DEF AppendEvent, volatile, TypeOK
<1>4. ASSUME NEW p \in Procs, AppendTorn(p) PROVE TypeOK'
  BY <1>4 DEF AppendTorn, Return, loading, TypeOK
<1>5. ASSUME NEW p \in Procs, AppendFails(p) PROVE TypeOK'
  BY <1>5 DEF AppendFails, Return, loading, TypeOK
<1>6. ASSUME NEW p \in Procs, AppendUnacked(p) PROVE TypeOK'
  <2>1. Line(record[p]) \in Records \cup {Garbage}
    BY DEF Line, TypeOK
  <2>2. events' \in Seq(Records \cup {Garbage})
    BY <1>6, <2>1 DEF AppendUnacked, TypeOK
  <2> QED
    BY <1>6, <2>2 DEF AppendUnacked, Return, loading, TypeOK
<1>7. ASSUME NEW p \in Procs, Commit(p) PROVE TypeOK'
  <2>1. Apply(mem[p], record[p]) \in Contents /\ record[p].seq \in Nat
    BY ApplyType DEF Records, TypeOK
  <2>2. mem' \in [Procs -> Contents] /\ last' \in [Procs -> Nat]
    BY <1>7, <2>1 DEF Commit, TypeOK
  <2>3. snapshot' \in [seq : Nat, contents : Contents]
    BY <1>7, <2>1, <2>2 DEF Commit, TypeOK
  <2> QED
    BY <1>7, <2>2, <2>3 DEF Commit, Return, loading, TypeOK
<1>8. ASSUME NEW p \in Procs, BeginLoad(p) PROVE TypeOK'
  BY <1>8 DEF BeginLoad, TypeOK
<1>9. ASSUME NEW p \in Procs, ReplayLine(p) PROVE TypeOK'
  <2> DEFINE e == buffer[p][pos[p] + 1]
  <2>1. e \in Records \cup {Garbage} /\ e # Garbage
    BY <1>9 DEF ReplayLine, MayApply, TypeOK
  <2>2. Apply(mem[p], e) \in Contents /\ e.seq \in Nat
    BY <2>1, ApplyType DEF Records, TypeOK
  <2>3. mem' = [mem EXCEPT ![p] = Apply(mem[p], e)] /\ last' = [last EXCEPT ![p] = e.seq]
    BY <1>9 DEF ReplayLine
  <2> HIDE DEF e
  <2>4. mem' \in [Procs -> Contents]
    BY <2>2, <2>3 DEF TypeOK
  <2>5. last' \in [Procs -> Nat]
    BY <2>2, <2>3 DEF TypeOK
  <2>6. pos' \in [Procs -> Nat]
    BY <1>9 DEF ReplayLine, TypeOK
  <2>7. UNCHANGED <<events, partial, snapshot, lock, pc, record, buffer, rejected, history>>
    BY <1>9 DEF ReplayLine
  <2> QED
    BY <2>4, <2>5, <2>6, <2>7 DEF TypeOK
<1>10. ASSUME NEW p \in Procs, RejectLine(p) PROVE TypeOK'
  BY <1>10 DEF RejectLine, Forget, TypeOK
<1>11. ASSUME NEW p \in Procs, EndLoad(p) PROVE TypeOK'
  BY <1>11 DEF EndLoad, TypeOK
<1>12. ASSUME NEW p \in Procs, AbortLoad(p) PROVE TypeOK'
  BY <1>12 DEF AbortLoad, Forget, TypeOK
<1>13. ASSUME NEW p \in Procs, Crash(p) PROVE TypeOK'
  <2>1. partial' \in BOOLEAN
    BY <1>13 DEF Crash, TypeOK
  <2>2. lock' \in Procs \cup {NoProc}
    BY <1>13 DEF Crash, TypeOK
  <2> QED
    BY <1>13, <2>1, <2>2 DEF Crash, Forget, TypeOK
<1> QED
  BY <1>1, <1>2, <1>3, <1>4, <1>5, <1>6, <1>7, <1>8, <1>9, <1>10, <1>11, <1>12,
     <1>13, RequestsARecord DEF Next

(* Whatever fails and however many processes share the workspace, every    *)
(* variable of the store keeps its type (all of dstudio_task_store.c).     *)
THEOREM TypeCorrect == Spec => []TypeOK
  BY TypeInit, TypeStep, PTL DEF Spec
-----------------------------------------------------------------------------
LEMMA GuardedInit == Init => Guarded
<1> SUFFICES ASSUME Init PROVE Guarded
  OBVIOUS
<1>1. TypeOK
  BY TypeInit
<1>2. \A p \in Procs : pc[p] \in {"idle", "down"} /\ pos[p] = 0
                       /\ (pc[p] = "down" => last[p] = 0)
  BY DEF Init
<1> QED
  BY <1>1, <1>2 DEF Guarded

LEMMA GuardedStep == Guarded /\ [Next]_vars => Guarded'
<1> SUFFICES ASSUME Guarded, [Next]_vars PROVE Guarded'
  OBVIOUS
<1>0. TypeOK /\ TypeOK'
  BY TypeStep DEF Guarded
<1> DEFINE
     G(p) ==
       /\ pc[p] \in {"append", "commit"} => lock = p
       /\ pc[p] = "down" => last[p] = 0 /\ pos[p] = 0
       /\ pc[p] = "replay" =>
            /\ last[p] = pos[p]
            /\ pos[p] <= Len(buffer[p])
            /\ \A i \in 1 .. pos[p] :
                 buffer[p][i] # Garbage /\ buffer[p][i].seq = i
     Untouched(p) ==
       pc'[p] = pc[p] /\ last'[p] = last[p] /\ pos'[p] = pos[p]
       /\ buffer'[p] = buffer[p]
<1>a. \A q \in Procs : G(q)
  BY DEF Guarded
<1>b. (\A q \in Procs : G(q)') => Guarded'
  BY <1>0 DEF Guarded
<1>c. ASSUME NEW q \in Procs, Untouched(q), lock = q => lock' = q
      PROVE  G(q)'
  BY <1>a, <1>c
<1>1. CASE UNCHANGED vars
  BY <1>1, <1>a, <1>b DEF vars
<1>2. ASSUME NEW p \in Procs, Requests(p) PROVE Guarded'
  <2>1. lock = NoProc /\ lock' = p /\ pc'[p] = "append"
    BY <1>2, <1>0 DEF Requests, Request, TypeOK
  <2>2. \A q \in Procs \ {p} : Untouched(q) /\ lock # q
    BY <1>2, <1>0, <2>1, NoProcAssumption DEF Requests, Request, TypeOK
  <2>3. ASSUME NEW q \in Procs PROVE G(q)'
    BY <2>1, <2>2, <1>c
  <2> QED
    BY <2>3, <1>b
<1>3. ASSUME NEW p \in Procs, AppendEvent(p) PROVE Guarded'
  <2>1. pc[p] = "append" /\ pc'[p] = "commit" /\ lock' = lock
    BY <1>3, <1>0 DEF AppendEvent, volatile, TypeOK
  <2>2. \A q \in Procs \ {p} : Untouched(q)
    BY <1>3, <1>0 DEF AppendEvent, volatile, TypeOK
  <2>3. ASSUME NEW q \in Procs PROVE G(q)'
    BY <2>1, <2>2, <1>a, <1>c
  <2> QED
    BY <2>3, <1>b
(* The end of a locked section: every action that calls Return.            *)
<1>4. ASSUME NEW p \in Procs, pc[p] \in {"append", "commit"}, Return(p),
             UNCHANGED loading, \A q \in Procs \ {p} : last'[q] = last[q]
      PROVE  Guarded'
  <2>1. pc'[p] = "idle" /\ lock = p
    BY <1>4, <1>0, <1>a DEF Return, TypeOK
  <2>2. \A q \in Procs \ {p} : Untouched(q) /\ lock # q
    BY <1>4, <1>0, <2>1 DEF Return, loading, TypeOK
  <2>3. ASSUME NEW q \in Procs PROVE G(q)'
    BY <2>1, <2>2, <1>c
  <2> QED
    BY <2>3, <1>b
<1>5. ASSUME NEW p \in Procs,
             AppendTorn(p) \/ AppendFails(p) \/ AppendUnacked(p) \/ Commit(p)
      PROVE  Guarded'
  BY <1>5, <1>4, <1>0 DEF AppendTorn, AppendFails, AppendUnacked, Commit, TypeOK
<1>6. ASSUME NEW p \in Procs, BeginLoad(p) PROVE Guarded'
  <2>1. pc'[p] = "replay" /\ last'[p] = 0 /\ pos'[p] = 0 /\ lock' = lock
    BY <1>6, <1>0, <1>a DEF BeginLoad, TypeOK
  <2>2. Len(buffer'[p]) \in Nat
    BY <1>0 DEF TypeOK
  <2>3. \A q \in Procs \ {p} : Untouched(q)
    BY <1>6, <1>0 DEF BeginLoad, TypeOK
  <2>4. ASSUME NEW q \in Procs PROVE G(q)'
    BY <2>1, <2>2, <2>3, <1>c
  <2> QED
    BY <2>4, <1>b
<1>7. ASSUME NEW p \in Procs, ReplayLine(p) PROVE Guarded'
  <2> DEFINE e == buffer[p][pos[p] + 1]
  <2>1. /\ pc[p] = "replay" /\ pc'[p] = "replay" /\ lock' = lock
        /\ pos[p] < Len(buffer[p]) /\ pos'[p] = pos[p] + 1
        /\ last'[p] = e.seq /\ buffer'[p] = buffer[p]
        /\ e # Garbage /\ e.seq = last[p] + 1
    BY <1>7, <1>0 DEF ReplayLine, MayApply, TypeOK
  <2>2. /\ pos[p] \in Nat /\ Len(buffer[p]) \in Nat /\ last[p] = pos[p]
        /\ \A i \in 1 .. pos[p] :
             buffer[p][i] # Garbage /\ buffer[p][i].seq = i
    <3>1. pos[p] \in Nat /\ Len(buffer[p]) \in Nat
      BY <1>0 DEF TypeOK
    <3>2. G(p)
      BY <1>a
    <3> QED
      BY <3>1, <3>2, <2>1
  <2>3. ASSUME NEW i \in 1 .. (pos[p] + 1)
        PROVE  buffer[p][i] # Garbage /\ buffer[p][i].seq = i
    BY <2>1, <2>2
  <2>4. \A q \in Procs \ {p} : Untouched(q)
    BY <1>7, <1>0 DEF ReplayLine, TypeOK
  <2>5. G(p)'
    BY <2>1, <2>2, <2>3
  <2>6. ASSUME NEW q \in Procs PROVE G(q)'
    BY <2>1, <2>4, <2>5, <1>c
  <2> QED
    BY <2>6, <1>b
<1>8. ASSUME NEW p \in Procs, RejectLine(p) \/ AbortLoad(p) PROVE Guarded'
  <2>1. pc'[p] = "down" /\ last'[p] = 0 /\ pos'[p] = 0 /\ lock' = lock
    BY <1>8, <1>0 DEF RejectLine, AbortLoad, Forget, TypeOK
  <2>2. \A q \in Procs \ {p} : Untouched(q)
    BY <1>8, <1>0 DEF RejectLine, AbortLoad, Forget, TypeOK
  <2>3. ASSUME NEW q \in Procs PROVE G(q)'
    BY <2>1, <2>2, <1>c
  <2> QED
    BY <2>3, <1>b
<1>9. ASSUME NEW p \in Procs, EndLoad(p) PROVE Guarded'
  <2>1. pc'[p] = "idle" /\ lock' = lock
    BY <1>9, <1>0 DEF EndLoad, TypeOK
  <2>2. \A q \in Procs \ {p} : Untouched(q)
    BY <1>9, <1>0 DEF EndLoad, TypeOK
  <2>3. ASSUME NEW q \in Procs PROVE G(q)'
    BY <2>1, <2>2, <1>c
  <2> QED
    BY <2>3, <1>b
<1>10. ASSUME NEW p \in Procs, Crash(p) PROVE Guarded'
  <2>1. pc'[p] = "down" /\ last'[p] = 0 /\ pos'[p] = 0
    BY <1>10, <1>0 DEF Crash, Forget, TypeOK
  <2>2. \A q \in Procs \ {p} : Untouched(q) /\ (lock = q => lock' = q)
    BY <1>10, <1>0 DEF Crash, Forget, TypeOK
  <2>3. ASSUME NEW q \in Procs PROVE G(q)'
    BY <2>1, <2>2, <1>c
  <2> QED
    BY <2>3, <1>b
<1> QED
  BY <1>0, <1>1, <1>2, <1>3, <1>5, <1>6, <1>7, <1>8, <1>9, <1>10,
     RequestsARecord DEF Next

LEMMA GuardedInvariant == Spec => []Guarded
  BY GuardedInit, GuardedStep, PTL DEF Spec

(* Between an append and the state.json that goes with it no other process *)
(* writes, for any number of processes and under every fault               *)
(* (dtg_lock_graph around dtg_append_event_locked).                        *)
THEOREM MutualExclusion == Spec => []OneWriterAtATime
<1>1. Guarded => OneWriterAtATime
  BY DEF Guarded, OneWriterAtATime
<1> QED
  BY <1>1, GuardedInvariant, PTL

LEMMA OnlyEndLoadServes ==
  ASSUME TypeOK, [Next]_vars, NEW p \in Procs, pc[p] = "replay", pc'[p] = "idle"
  PROVE  EndLoad(p)
<1>1. ASSUME NEW q \in Procs, Requests(q) PROVE FALSE
  BY <1>1 DEF Requests, Request, TypeOK
<1>2. PICK q \in Procs :
        \/ AppendEvent(q) \/ AppendTorn(q) \/ AppendFails(q)
        \/ AppendUnacked(q) \/ Commit(q) \/ BeginLoad(q) \/ ReplayLine(q)
        \/ RejectLine(q) \/ EndLoad(q) \/ AbortLoad(q) \/ Crash(q)
  BY <1>1, RequestsARecord DEF Next, vars
<1>3. CASE q = p
  BY <1>2, <1>3
     DEF AppendEvent, AppendTorn, AppendFails, AppendUnacked, Commit,
         BeginLoad, ReplayLine, RejectLine, AbortLoad, Crash, Return,
         Forget, TypeOK
<1>4. CASE q # p
  BY <1>2, <1>4
     DEF AppendEvent, AppendTorn, AppendFails, AppendUnacked, Commit,
         BeginLoad, ReplayLine, RejectLine, EndLoad, AbortLoad, Crash,
         Return, Forget, TypeOK
<1> QED
  BY <1>3, <1>4

(* A cold load that succeeds has applied every line of the file, however   *)
(* the file was damaged (dtg_replay_events, dtg_event_apply_line).         *)
THEOREM WholeJournal == Spec => LoadsAllOrNothing
<1>1. ASSUME Guarded, Guarded', [Next]_vars, NEW p \in Procs,
             pc[p] = "replay", pc'[p] = "idle"
      PROVE  /\ last'[p] = Len(buffer[p])
             /\ \A i \in 1 .. Len(buffer[p]) :
                  buffer[p][i] # Garbage /\ buffer[p][i].seq = i
  <2>1. TypeOK
    BY <1>1 DEF Guarded
  <2>2. EndLoad(p)
    BY <1>1, <2>1, OnlyEndLoadServes
  <2>3. pos[p] = Len(buffer[p]) /\ last'[p] = last[p]
    BY <2>2 DEF EndLoad
  <2>4. last[p] = pos[p]
        /\ \A i \in 1 .. pos[p] : buffer[p][i] # Garbage /\ buffer[p][i].seq = i
    BY <1>1 DEF Guarded
  <2> QED
    BY <2>3, <2>4
<1>2. Guarded /\ Guarded' /\ [Next]_vars =>
        [\A p \in Procs : pc[p] = "replay" /\ pc'[p] = "idle" =>
            /\ last'[p] = Len(buffer[p])
            /\ \A i \in 1 .. Len(buffer[p]) :
                 buffer[p][i] # Garbage /\ buffer[p][i].seq = i]_vars
  BY <1>1
<1> QED
  BY <1>2, GuardedInvariant, PTL DEF Spec, LoadsAllOrNothing
-----------------------------------------------------------------------------
(* What survives every fault and any number of processes: memory and       *)
(* state.json hold no graph that legal records could not have built.       *)

(* The first k lines, applied one after the other, turn Draft into s.      *)
Replayed(lines, k, s) ==
  \E h \in [0 .. k -> Contents] :
    /\ h[0] = Draft
    /\ h[k] = s
    /\ \A i \in 1 .. k :
         /\ MayApply(h[i - 1], i - 1, lines[i])
         /\ h[i] = Apply(h[i - 1], lines[i])

(* There are k records that turn Draft into s.                             *)
Legal(s, k) ==
  \E lines \in Seq(Records) : Len(lines) = k /\ Replayed(lines, k, s)

Lawful ==
  /\ Legal(snapshot.contents, snapshot.seq)
  /\ \A p \in Procs :
       /\ Legal(mem[p], last[p])
       /\ pc[p] = "down" => mem[p] = Draft
       /\ pc[p] \in {"append", "commit"} => MayApply(mem[p], last[p], record[p])
       /\ pc[p] = "replay" => Replayed(buffer[p], pos[p], mem[p])

LEMMA ReplayedNone ==
  ASSUME NEW lines
  PROVE  Replayed(lines, 0, Draft)
<1> DEFINE h == [i \in 0 .. 0 |-> Draft]
<1>1. h \in [0 .. 0 -> Contents] /\ h[0] = Draft
  BY DraftType
<1>2. \A i \in 1 .. 0 : FALSE
  OBVIOUS
<1> HIDE DEF h
<1> QED
  BY <1>1, <1>2 DEF Replayed

(* Only the lines that were replayed count.                                *)
LEMMA ReplayedSame ==
  ASSUME NEW lines, NEW others, NEW k \in Nat, NEW s,
         Replayed(lines, k, s), \A i \in 1 .. k : others[i] = lines[i]
  PROVE  Replayed(others, k, s)
<1>1. PICK h \in [0 .. k -> Contents] :
        /\ h[0] = Draft
        /\ h[k] = s
        /\ \A i \in 1 .. k :
             /\ MayApply(h[i - 1], i - 1, lines[i])
             /\ h[i] = Apply(h[i - 1], lines[i])
  BY DEF Replayed
<1>2. \A i \in 1 .. k :
        /\ MayApply(h[i - 1], i - 1, others[i])
        /\ h[i] = Apply(h[i - 1], others[i])
  BY <1>1
<1> QED
  BY <1>1, <1>2 DEF Replayed

LEMMA ReplayedMore ==
  ASSUME NEW lines, NEW k \in Nat, NEW s, Replayed(lines, k, s),
         lines[k + 1] \in Records, MayApply(s, k, lines[k + 1])
  PROVE  Replayed(lines, k + 1, Apply(s, lines[k + 1]))
<1>1. PICK h \in [0 .. k -> Contents] :
        /\ h[0] = Draft
        /\ h[k] = s
        /\ \A i \in 1 .. k :
             /\ MayApply(h[i - 1], i - 1, lines[i])
             /\ h[i] = Apply(h[i - 1], lines[i])
  BY DEF Replayed
<1> DEFINE new == Apply(s, lines[k + 1])
           g == [i \in 0 .. k + 1 |-> IF i = k + 1 THEN new ELSE h[i]]
<1>2. s \in Contents
  BY <1>1
<1>3. new \in Contents
  BY <1>2, ApplyType
<1> HIDE DEF new
<1>4. \A i \in 0 .. k : g[i] = h[i]
  OBVIOUS
<1>5. g[k + 1] = new
  OBVIOUS
<1>6. g \in [0 .. k + 1 -> Contents]
  BY <1>3
<1> HIDE DEF g
<1>7. g[0] = Draft /\ g[k] = s
  BY <1>1, <1>4
<1>8. ASSUME NEW i \in 1 .. k + 1
      PROVE  MayApply(g[i - 1], i - 1, lines[i]) /\ g[i] = Apply(g[i - 1], lines[i])
  <2>1. CASE i = k + 1
    <3>1. i - 1 = k
      BY <2>1
    <3> QED
      BY <2>1, <3>1, <1>5, <1>7 DEF new
  <2>2. CASE i # k + 1
    <3>1. i \in 1 .. k /\ i - 1 \in 0 .. k /\ i \in 0 .. k
      BY <2>2
    <3>2. g[i] = h[i] /\ g[i - 1] = h[i - 1]
      BY <3>1, <1>4
    <3> QED
      BY <3>1, <3>2, <1>1
  <2> QED
    BY <2>1, <2>2
<1>9. \E f \in [0 .. k + 1 -> Contents] :
        /\ f[0] = Draft
        /\ f[k + 1] = new
        /\ \A i \in 1 .. k + 1 :
             /\ MayApply(f[i - 1], i - 1, lines[i])
             /\ f[i] = Apply(f[i - 1], lines[i])
  BY <1>5, <1>6, <1>7, <1>8
<1> QED
  BY <1>9 DEF Replayed, new

LEMMA LegalNone == Legal(Draft, 0)
<1>1. <<>> \in Seq(Records) /\ Len(<<>>) = 0
  OBVIOUS
<1> QED
  BY <1>1, ReplayedNone DEF Legal

LEMMA LegalMore ==
  ASSUME NEW k \in Nat, NEW s, Legal(s, k), NEW e \in Records, MayApply(s, k, e)
  PROVE  Legal(Apply(s, e), k + 1)
<1>1. PICK lines \in Seq(Records) : Len(lines) = k /\ Replayed(lines, k, s)
  BY DEF Legal
<1> DEFINE more == Append(lines, e)
<1>2. more \in Seq(Records) /\ Len(more) = k + 1 /\ more[k + 1] = e
      /\ \A i \in 1 .. k : more[i] = lines[i]
  BY <1>1
<1> HIDE DEF more
<1>3. Replayed(more, k, s)
  BY <1>1, <1>2, ReplayedSame
<1>4. Replayed(more, k + 1, Apply(s, e))
  BY <1>2, <1>3, ReplayedMore
<1> QED
  BY <1>2, <1>4 DEF Legal

LEMMA LawfulInit == Init => Lawful
<1> SUFFICES ASSUME Init PROVE Lawful
  OBVIOUS
<1>1. MayApply(Draft, 0, Created) /\ Apply(Draft, Created) = Draft
  <2>1. Created # Garbage
    BY CreatedType, GarbageAssumption
  <2>2. Created.seq = 0 + 1 /\ Created.g = Draft.g /\ Created.node = NoNode
        /\ Created.approved = Draft.approved
    BY DEF Created, Draft
  <2> QED
    BY <2>1, <2>2 DEF MayApply, Apply, GraphMayGo, Draft
<1>2. Legal(Draft, 0 + 1)
  <2>1. 0 \in Nat
    OBVIOUS
  <2> QED
    BY <1>1, <2>1, LegalNone, LegalMore, CreatedType
<1>3. Legal(Draft, 1)
  BY <1>2
<1>4. snapshot.contents = Draft /\ snapshot.seq = 1
  BY DEF Init
<1>5. ASSUME NEW p \in Procs
      PROVE  mem[p] = Draft /\ last[p] \in {0, 1} /\ pc[p] \in {"idle", "down"}
  BY DEF Init
<1> QED
  BY <1>3, <1>4, <1>5, LegalNone DEF Lawful

LEMMA LawfulStep ==
  ASSUME Guarded, Lawful, [Next]_vars
  PROVE  Lawful'
<1> DEFINE
     L(p) ==
       /\ Legal(mem[p], last[p])
       /\ pc[p] = "down" => mem[p] = Draft
       /\ pc[p] \in {"append", "commit"} => MayApply(mem[p], last[p], record[p])
       /\ pc[p] = "replay" => Replayed(buffer[p], pos[p], mem[p])
     Kept(p) ==
       pc'[p] = pc[p] /\ mem'[p] = mem[p] /\ last'[p] = last[p] /\ pos'[p] = pos[p]
       /\ buffer'[p] = buffer[p] /\ record'[p] = record[p]
     Snap == Legal(snapshot.contents, snapshot.seq)
<1>0. TypeOK
  BY DEF Guarded
<1>a. Snap /\ \A q \in Procs : L(q)
  BY DEF Lawful
<1>b. Snap' /\ (\A q \in Procs : L(q)') => Lawful'
  BY DEF Lawful
<1>c. ASSUME NEW q \in Procs, Kept(q) PROVE L(q)'
  BY <1>a, <1>c
<1>d. ASSUME snapshot' = snapshot PROVE Snap'
  BY <1>a, <1>d
<1>1. CASE UNCHANGED vars
  <2>1. snapshot' = snapshot /\ \A q \in Procs : Kept(q)
    BY <1>1 DEF vars
  <2> QED
    BY <2>1, <1>b, <1>c, <1>d
<1>2. ASSUME NEW p \in Procs, Requests(p) PROVE Lawful'
  <2>1. PICK e \in Records : Request(p, e)
    BY <1>2 DEF Requests
  <2>2. /\ pc'[p] = "append" /\ record'[p] = e /\ MayApply(mem[p], last[p], e)
        /\ mem'[p] = mem[p] /\ last'[p] = last[p] /\ snapshot' = snapshot
    BY <2>1, <1>0 DEF Request, TypeOK
  <2>3. \A q \in Procs \ {p} : Kept(q)
    BY <2>1, <1>0 DEF Request, TypeOK
  <2>4. L(p)'
    BY <2>2, <1>a
  <2> QED
    BY <2>2, <2>3, <2>4, <1>b, <1>c, <1>d
<1>3. ASSUME NEW p \in Procs, AppendEvent(p) PROVE Lawful'
  <2>1. /\ pc[p] = "append" /\ pc'[p] = "commit" /\ record'[p] = record[p]
        /\ mem'[p] = mem[p] /\ last'[p] = last[p] /\ snapshot' = snapshot
    BY <1>3, <1>0 DEF AppendEvent, volatile, TypeOK
  <2>2. \A q \in Procs \ {p} : Kept(q)
    BY <1>3, <1>0 DEF AppendEvent, volatile, TypeOK
  <2>3. L(p)'
    BY <2>1, <1>a
  <2> QED
    BY <2>1, <2>2, <2>3, <1>b, <1>c, <1>d
<1>4. ASSUME NEW p \in Procs, AppendTorn(p) \/ AppendFails(p) \/ AppendUnacked(p)
      PROVE  Lawful'
  <2>1. /\ pc'[p] = "idle" /\ mem'[p] = mem[p] /\ last'[p] = last[p]
        /\ snapshot' = snapshot
    BY <1>4, <1>0 DEF AppendTorn, AppendFails, AppendUnacked, Return, loading, TypeOK
  <2>2. \A q \in Procs \ {p} : Kept(q)
    BY <1>4, <1>0 DEF AppendTorn, AppendFails, AppendUnacked, Return, loading, TypeOK
  <2>3. L(p)'
    BY <2>1, <1>a
  <2> QED
    BY <2>1, <2>2, <2>3, <1>b, <1>c, <1>d
<1>5. ASSUME NEW p \in Procs, Commit(p) PROVE Lawful'
  <2>1. /\ pc[p] = "commit" /\ pc'[p] = "idle"
        /\ mem'[p] = Apply(mem[p], record[p]) /\ last'[p] = record[p].seq
    BY <1>5, <1>0 DEF Commit, Return, TypeOK
  <2>2. \/ snapshot' = snapshot
        \/ snapshot'.contents = mem'[p] /\ snapshot'.seq = record[p].seq
    <3>1. snapshot' \in {snapshot, [seq |-> record[p].seq, contents |-> mem'[p]]}
      BY <1>5 DEF Commit
    <3> QED
      BY <3>1
  <2>3. \A q \in Procs \ {p} : Kept(q)
    BY <1>5, <1>0 DEF Commit, Return, loading, TypeOK
  <2>4. MayApply(mem[p], last[p], record[p]) /\ Legal(mem[p], last[p])
    BY <2>1, <1>a
  <2>5. record[p].seq = last[p] + 1
    BY <2>4 DEF MayApply
  <2>6. last[p] \in Nat /\ record[p] \in Records
    BY <1>0 DEF TypeOK
  <2>7. Legal(mem'[p], record[p].seq)
    BY <2>1, <2>4, <2>5, <2>6, LegalMore
  <2>8. L(p)'
    BY <2>1, <2>7
  <2>9. Snap'
    BY <2>2, <2>7, <1>a
  <2> QED
    BY <2>3, <2>8, <2>9, <1>b, <1>c
<1>6. ASSUME NEW p \in Procs, BeginLoad(p) PROVE Lawful'
  <2>1. /\ pc[p] = "down" /\ pc'[p] = "replay" /\ mem'[p] = mem[p]
        /\ last'[p] = last[p] /\ pos'[p] = pos[p] /\ snapshot' = snapshot
    BY <1>6, <1>0 DEF BeginLoad, TypeOK
  <2>2. \A q \in Procs \ {p} : Kept(q)
    BY <1>6, <1>0 DEF BeginLoad, TypeOK
  <2>3. mem[p] = Draft /\ pos[p] = 0
    BY <2>1, <1>a DEF Guarded
  <2>4. Replayed(buffer'[p], 0, Draft)
    BY ReplayedNone
  <2>5. L(p)'
    BY <2>1, <2>3, <2>4, <1>a
  <2> QED
    BY <2>1, <2>2, <2>5, <1>b, <1>c, <1>d
<1>7. ASSUME NEW p \in Procs, ReplayLine(p) PROVE Lawful'
  <2> DEFINE e == buffer[p][pos[p] + 1]
  <2>1. /\ pc[p] = "replay" /\ pc'[p] = "replay" /\ snapshot' = snapshot
        /\ pos[p] < Len(buffer[p]) /\ pos'[p] = pos[p] + 1
        /\ MayApply(mem[p], last[p], e) /\ mem'[p] = Apply(mem[p], e)
        /\ last'[p] = e.seq /\ buffer'[p] = buffer[p]
    BY <1>7, <1>0 DEF ReplayLine, TypeOK
  <2>2. \A q \in Procs \ {p} : Kept(q)
    BY <1>7, <1>0 DEF ReplayLine, TypeOK
  <2>3. e # Garbage /\ e.seq = last[p] + 1
    BY <2>1 DEF MayApply
  <2>4. pos[p] \in Nat /\ last[p] = pos[p] /\ buffer[p] \in Seq(Records \cup {Garbage})
    <3>1. pos[p] \in Nat /\ buffer[p] \in Seq(Records \cup {Garbage})
      BY <1>0 DEF TypeOK
    <3>2. last[p] = pos[p]
      BY <2>1 DEF Guarded
    <3> QED
      BY <3>1, <3>2
  <2>5. e \in Records
    BY <2>1, <2>3, <2>4
  <2>6. Legal(mem[p], last[p]) /\ Replayed(buffer[p], pos[p], mem[p])
    BY <2>1, <1>a
  <2>7. Replayed(buffer[p], pos[p] + 1, Apply(mem[p], e))
    BY <2>1, <2>4, <2>5, <2>6, ReplayedMore
  <2> HIDE DEF e
  <2>8. Legal(Apply(mem[p], e), last[p] + 1)
    BY <2>1, <2>4, <2>5, <2>6, LegalMore
  <2>9. L(p)'
    BY <2>1, <2>3, <2>7, <2>8
  <2> QED
    BY <2>1, <2>2, <2>9, <1>b, <1>c, <1>d
<1>8. ASSUME NEW p \in Procs, RejectLine(p) \/ AbortLoad(p) \/ Crash(p) PROVE Lawful'
  <2>1. pc'[p] = "down" /\ mem'[p] = Draft /\ last'[p] = 0 /\ snapshot' = snapshot
    BY <1>8, <1>0 DEF RejectLine, AbortLoad, Crash, Forget, TypeOK
  <2>2. \A q \in Procs \ {p} : Kept(q)
    BY <1>8, <1>0 DEF RejectLine, AbortLoad, Crash, Forget, TypeOK
  <2>3. L(p)'
    BY <2>1, LegalNone
  <2> QED
    BY <2>1, <2>2, <2>3, <1>b, <1>c, <1>d
<1>9. ASSUME NEW p \in Procs, EndLoad(p) PROVE Lawful'
  <2>1. /\ pc'[p] = "idle" /\ mem'[p] = mem[p] /\ last'[p] = last[p]
        /\ snapshot'.contents = mem[p] /\ snapshot'.seq = last[p]
    BY <1>9, <1>0 DEF EndLoad, TypeOK
  <2>2. \A q \in Procs \ {p} : Kept(q)
    BY <1>9, <1>0 DEF EndLoad, TypeOK
  <2>3. L(p)' /\ Snap'
    BY <2>1, <1>a
  <2> QED
    BY <2>2, <2>3, <1>b, <1>c
<1> QED
  BY <1>0, <1>1, <1>2, <1>3, <1>4, <1>5, <1>6, <1>7, <1>8, <1>9,
     RequestsARecord DEF Next

LEMMA LawfulInvariant == Spec => []Lawful
  BY LawfulInit, LawfulStep, GuardedInvariant, PTL DEF Spec

(* Torn and unacknowledged appends, deaths and other processes that write  *)
(* to the same journal may cost a process its graph, but never corrupt it: *)
(* what a process holds, and what state.json shows, is always a graph that *)
(* as many legal records as it counts lead to (dtg_validate_* before       *)
(* dtg_append_event_locked, dtg_event_apply_line).                         *)
ServesLegal ==
  /\ Legal(snapshot.contents, snapshot.seq)
  /\ \A p \in Procs : Legal(mem[p], last[p])

(* ServesLegal holds under every fault and for any number of processes.    *)
THEOREM ServesLegalAlways == Spec => []ServesLegal
<1>1. Lawful => ServesLegal
  BY DEF Lawful, ServesLegal
<1> QED
  BY <1>1, LawfulInvariant, PTL

(* A cold load that succeeds serves what the file says and nothing else:   *)
(* the graph that its lines, all legal and applied in their order, make of *)
(* an empty one; the cache and the other processes have no part in it      *)
(* (dtg_replay_events).                                                    *)
LoadsTheReplay ==
  [][\A p \in Procs : pc[p] = "replay" /\ pc'[p] = "idle" =>
        Replayed(buffer[p], Len(buffer[p]), mem'[p])]_vars

(* LoadsTheReplay holds under every fault and for any number of processes. *)
THEOREM AlwaysLoadsTheReplay == Spec => LoadsTheReplay
<1>1. ASSUME Guarded, Lawful, [Next]_vars, NEW p \in Procs,
             pc[p] = "replay", pc'[p] = "idle"
      PROVE  Replayed(buffer[p], Len(buffer[p]), mem'[p])
  <2>1. EndLoad(p)
    BY <1>1, OnlyEndLoadServes DEF Guarded
  <2>2. pos[p] = Len(buffer[p]) /\ mem'[p] = mem[p]
    BY <2>1 DEF EndLoad
  <2>3. Replayed(buffer[p], pos[p], mem[p])
    BY <1>1 DEF Lawful
  <2> QED
    BY <2>2, <2>3
<1>2. Guarded /\ Lawful /\ [Next]_vars =>
        [\A p \in Procs : pc[p] = "replay" /\ pc'[p] = "idle" =>
            Replayed(buffer[p], Len(buffer[p]), mem'[p])]_vars
  BY <1>1
<1> QED
  BY <1>2, GuardedInvariant, LawfulInvariant, PTL DEF Spec, LoadsTheReplay
-----------------------------------------------------------------------------
LEMMA RecoverableInit == Init => Recoverable
<1> SUFFICES ASSUME Init PROVE Recoverable
  OBVIOUS
<1>1. /\ events = <<Created>> /\ Len(events) = 1 /\ events[1] = Created
      /\ history = <<Draft>> /\ Len(history) = 1 /\ history[1] = Draft
  BY DEF Init
<1>2. MayApply(Draft, 0, Created) /\ Apply(Draft, Created) = Draft
  <2>1. Created # Garbage
    BY CreatedType, GarbageAssumption
  <2>2. Created.seq = 0 + 1 /\ Created.g = Draft.g /\ Created.node = NoNode
        /\ Created.approved = Draft.approved
    BY DEF Created, Draft
  <2> QED
    BY <2>1, <2>2 DEF MayApply, Apply, GraphMayGo, Draft
<1>3. ReplayRebuilds
  <2>1. \A i \in 1 .. Len(events) : i = 1 /\ After(i - 1) = Draft
    BY <1>1 DEF After
  <2> QED
    BY <1>1, <1>2, <2>1 DEF ReplayRebuilds
<1>4. SnapshotIsAPast
  BY <1>1 DEF SnapshotIsAPast, Init
<1>5. ASSUME NEW p \in Procs
      PROVE  /\ pc[p] \in {"idle", "down"} /\ mem[p] = Draft
             /\ pc[p] = "idle" => last[p] = 1
  BY DEF Init
<1>6. Current = Draft
  BY <1>1 DEF Current
<1> QED
  BY <1>1, <1>3, <1>4, <1>5, <1>6 DEF Recoverable, NeverRejected, Init

(* One line longer, the journal still rebuilds the graph.                  *)
LEMMA JournalGrows ==
  ASSUME TypeOK, ReplayRebuilds, NEW e \in Records,
         MayApply(Current, Len(events), e), Len(events) > 0,
         events' = Append(events, e),
         history' = Append(history, Apply(Current, e))
  PROVE  /\ ReplayRebuilds'
         /\ Len(events') = Len(events) + 1
         /\ events'[Len(events')] = e
         /\ \A i \in 0 .. Len(events) : After(i)' = After(i)
         /\ Current' = Apply(Current, e)
<1>1. Len(events) \in Nat /\ Len(history) = Len(events)
  BY DEF TypeOK, ReplayRebuilds
<1>2. /\ Len(events') = Len(events) + 1 /\ Len(history') = Len(events) + 1
      /\ \A i \in 1 .. Len(events) : events'[i] = events[i] /\ history'[i] = history[i]
      /\ events'[Len(events) + 1] = e
      /\ history'[Len(events) + 1] = Apply(Current, e)
  BY <1>1 DEF TypeOK
<1>3. ASSUME NEW i \in 0 .. Len(events) PROVE After(i)' = After(i)
  BY <1>1, <1>2 DEF After
<1>4. After(Len(events)) = Current
  BY <1>1 DEF After, Current
<1>5. ASSUME NEW i \in 1 .. Len(events')
      PROVE  /\ MayApply(After(i - 1)', i - 1, events'[i])
             /\ history'[i] = Apply(After(i - 1)', events'[i])
  <2>1. After(i - 1)' = After(i - 1)
    BY <1>1, <1>2, <1>3
  <2>2. CASE i = Len(events) + 1
    <3>1. i - 1 = Len(events)
      BY <1>1, <2>2
    <3> QED
      BY <1>2, <1>4, <2>1, <2>2, <3>1
  <2>3. CASE i # Len(events) + 1
    <3>1. i \in 1 .. Len(events)
      BY <1>1, <1>2, <2>3
    <3> QED
      BY <1>2, <2>1, <3>1 DEF ReplayRebuilds
  <2> QED
    BY <2>2, <2>3
<1>6. ReplayRebuilds'
  BY <1>2, <1>5 DEF ReplayRebuilds
<1> QED
  BY <1>2, <1>3, <1>6 DEF Current

LEMMA RecoverableStep ==
  ASSUME SoleReliableHost
  PROVE  Guarded /\ Recoverable /\ [Next]_vars => Recoverable'
<1> SUFFICES ASSUME Guarded, Recoverable, [Next]_vars PROVE Recoverable'
  OBVIOUS
<1>0. TypeOK /\ Len(events) \in Nat /\ Len(history) = Len(events)
  BY DEF Guarded, Recoverable, ReplayRebuilds, TypeOK
<1>a. Faults = {} /\ (\A p, q \in Procs : p = q)
  BY DEF SoleReliableHost
<1> DEFINE
     R(p) ==
       /\ pc[p] = "down" => mem[p] = Draft
       /\ pc[p] = "replay" => buffer[p] = events /\ mem[p] = After(pos[p])
       /\ pc[p] \in {"idle", "append"} => mem[p] = Current /\ last[p] = Len(events)
       /\ pc[p] = "append" => MayApply(mem[p], last[p], record[p])
       /\ pc[p] = "commit" =>
            /\ last[p] + 1 = Len(events)
            /\ mem[p] = After(last[p])
            /\ record[p] = events[Len(events)]
     Kept == UNCHANGED <<events, partial, history>>
<1>b. \A p \in Procs : R(p)
  BY DEF Recoverable
<1>c. ASSUME Kept, SnapshotIsAPast', NeverRejected',
             NEW p \in Procs, R(p)'
      PROVE  Recoverable'
  <2>1. ReplayRebuilds' /\ ~partial' /\ Len(events') > 0
    BY <1>c DEF Recoverable, ReplayRebuilds, After
  <2>2. \A q \in Procs : R(q)'
    BY <1>c, <1>a
  <2> QED
    BY <1>c, <2>1, <2>2 DEF Recoverable
<1>d. Kept /\ UNCHANGED snapshot => SnapshotIsAPast'
  BY DEF Recoverable, SnapshotIsAPast
<1>e. UNCHANGED rejected => NeverRejected'
  BY DEF Recoverable, NeverRejected
<1>1. CASE UNCHANGED vars
  <2>1. Kept /\ SnapshotIsAPast' /\ NeverRejected'
    BY <1>1, <1>d, <1>e DEF vars
  <2>2. \A p \in Procs : R(p)'
    BY <1>1, <1>b DEF vars, After, Current
  <2>3. ReplayRebuilds' /\ ~partial' /\ Len(events') > 0
    BY <2>1 DEF Recoverable, ReplayRebuilds, After
  <2> QED
    BY <2>1, <2>2, <2>3 DEF Recoverable
<1>2. ASSUME NEW p \in Procs, Requests(p) PROVE Recoverable'
  <2>1. PICK e \in Records : e.seq = last[p] + 1 /\ Request(p, e)
    BY <1>2 DEF Requests
  <2>2. Kept /\ UNCHANGED <<snapshot, rejected, mem, last>>
    BY <2>1 DEF Request
  <2>3. pc[p] = "idle" /\ pc'[p] = "append" /\ record'[p] = e
        /\ MayApply(mem[p], last[p], e)
    BY <2>1, <1>0 DEF Request, TypeOK
  <2>4. R(p)'
    BY <2>2, <2>3, <1>b DEF Current
  <2> QED
    BY <2>2, <2>4, <1>c, <1>d, <1>e
<1>3. ASSUME NEW p \in Procs, AppendEvent(p) PROVE Recoverable'
  <2>1. /\ pc[p] = "append" /\ pc'[p] = "commit"
        /\ UNCHANGED <<snapshot, lock, rejected, mem, last, record>>
        /\ partial' = FALSE
    BY <1>3, <1>0 DEF AppendEvent, volatile, TypeOK
  <2>2. /\ mem[p] = Current /\ last[p] = Len(events)
        /\ MayApply(mem[p], last[p], record[p])
    BY <2>1, <1>b
  <2>3. record[p] \in Records
    BY <1>0 DEF TypeOK
  <2>4. events' = Append(events, record[p])
    BY <1>3 DEF AppendEvent, Line, Recoverable
  <2>5. history' = Append(history, Apply(Current, record[p]))
    BY <1>3, <2>2 DEF AppendEvent
  <2>6. /\ ReplayRebuilds' /\ Len(events') = Len(events) + 1
        /\ events'[Len(events')] = record[p]
        /\ \A i \in 0 .. Len(events) : After(i)' = After(i)
    BY <1>0, <2>2, <2>3, <2>4, <2>5, JournalGrows DEF Recoverable
  <2>7. After(last[p])' = Current
    <3>1. After(Len(events)) = Current
      BY <1>0 DEF After, Current, Recoverable
    <3>2. Len(events) \in 0 .. Len(events)
      BY <1>0
    <3> QED
      BY <2>1, <2>2, <2>6, <3>1, <3>2
  <2>8. R(p)'
    BY <2>1, <2>2, <2>6, <2>7, <1>0
  <2>9. SnapshotIsAPast'
    <3>1. snapshot.seq \in 1 .. Len(history)
      BY DEF Recoverable, SnapshotIsAPast
    <3>2. history'[snapshot.seq] = history[snapshot.seq]
          /\ Len(history') = Len(history) + 1
      <4>1. history \in Seq(Contents) /\ Apply(Current, record[p]) \in Contents
        BY <2>2, <2>3, ApplyType, <1>0 DEF TypeOK
      <4> QED
        BY <2>5, <3>1, <4>1
    <3> QED
      BY <2>1, <3>1, <3>2, <1>0 DEF Recoverable, SnapshotIsAPast
  <2>10. \A q \in Procs : R(q)'
    BY <2>8, <1>a
  <2> QED
    BY <2>1, <2>6, <2>9, <2>10, <1>0, <1>e DEF Recoverable
<1>4. ASSUME NEW p \in Procs, AppendTorn(p) \/ AppendUnacked(p) PROVE FALSE
  BY <1>4, <1>a DEF AppendTorn, AppendUnacked
<1>5. ASSUME NEW p \in Procs, AppendFails(p) PROVE Recoverable'
  <2>1. Kept /\ UNCHANGED <<snapshot, rejected, mem, last>>
    BY <1>5 DEF AppendFails, loading
  <2>2. pc[p] = "append" /\ pc'[p] = "idle"
    BY <1>5, <1>0 DEF AppendFails, Return, TypeOK
  <2>3. R(p)'
    BY <2>1, <2>2, <1>b DEF Current
  <2> QED
    BY <2>1, <2>3, <1>c, <1>d, <1>e
<1>6. ASSUME NEW p \in Procs, Commit(p) PROVE Recoverable'
  <2>1. Kept /\ UNCHANGED rejected
    BY <1>6 DEF Commit, loading
  <2>2. /\ pc[p] = "commit" /\ pc'[p] = "idle"
        /\ mem'[p] = Apply(mem[p], record[p]) /\ last'[p] = record[p].seq
        /\ snapshot' = snapshot
           \/ snapshot' = [seq |-> record[p].seq, contents |-> mem'[p]]
    BY <1>6, <1>0 DEF Commit, Return, TypeOK
  <2>3. /\ last[p] + 1 = Len(events) /\ mem[p] = After(last[p])
        /\ record[p] = events[Len(events)]
    BY <2>2, <1>b
  <2>4. /\ MayApply(After(Len(events) - 1), Len(events) - 1, events[Len(events)])
        /\ history[Len(events)] = Apply(After(Len(events) - 1), events[Len(events)])
    BY <1>0 DEF Recoverable, ReplayRebuilds
  <2>5. last[p] = Len(events) - 1 /\ record[p].seq = Len(events)
    <3>1. last[p] \in Nat
      BY <1>0 DEF TypeOK
    <3>2. record[p].seq = Len(events) - 1 + 1
      BY <2>3, <2>4 DEF MayApply
    <3> QED
      BY <2>3, <3>1, <3>2, <1>0
  <2>6. mem'[p] = Current
    BY <2>2, <2>3, <2>4, <2>5, <1>0 DEF Current
  <2>7. R(p)'
    BY <2>1, <2>2, <2>5, <2>6 DEF Current
  <2>8. SnapshotIsAPast'
    <3>1. CASE snapshot' = snapshot
      BY <2>1, <3>1, <1>d
    <3>2. CASE snapshot' = [seq |-> record[p].seq, contents |-> mem'[p]]
      <4>1. snapshot'.seq = Len(history) /\ snapshot'.contents = history[Len(history)]
        BY <2>5, <2>6, <3>2, <1>0 DEF Current
      <4>2. Len(history) \in 1 .. Len(history)
        BY <1>0 DEF Recoverable
      <4> QED
        BY <2>1, <4>1, <4>2 DEF SnapshotIsAPast
    <3> QED
      BY <2>2, <3>1, <3>2
  <2> QED
    BY <2>1, <2>7, <2>8, <1>c, <1>e
<1>7. ASSUME NEW p \in Procs, BeginLoad(p) PROVE Recoverable'
  <2>1. Kept /\ UNCHANGED <<snapshot, mem, pos>>
    BY <1>7 DEF BeginLoad
  <2>2. pc[p] = "down" /\ pc'[p] = "replay" /\ buffer'[p] = events /\ pos[p] = 0
    BY <1>7, <1>0 DEF BeginLoad, Guarded, TypeOK
  <2>3. R(p)'
    BY <2>1, <2>2, <1>b DEF After
  <2>4. NeverRejected'
    BY <1>7, <1>0 DEF BeginLoad, Recoverable, NeverRejected, TypeOK
  <2> QED
    BY <2>1, <2>3, <2>4, <1>c, <1>d
(* The line the replay is at is legal after those before it.               *)
<1>8. ASSUME NEW p \in Procs, pc[p] = "replay", pos[p] < Len(buffer[p])
      PROVE  /\ MayApply(mem[p], last[p], buffer[p][pos[p] + 1])
             /\ Apply(mem[p], buffer[p][pos[p] + 1]) = After(pos[p] + 1)
             /\ buffer[p] = events /\ pos[p] \in Nat
  <2>1. buffer[p] = events /\ mem[p] = After(pos[p])
    BY <1>8, <1>b
  <2>2. last[p] = pos[p] /\ pos[p] \in Nat
    BY <1>8, <1>0 DEF Guarded, TypeOK
  <2>3. pos[p] + 1 \in 1 .. Len(events) /\ (pos[p] + 1) - 1 = pos[p]
    BY <1>8, <1>0, <2>1, <2>2
  <2>4. /\ MayApply(After(pos[p]), pos[p], events[pos[p] + 1])
        /\ history[pos[p] + 1] = Apply(After(pos[p]), events[pos[p] + 1])
    BY <2>3 DEF Recoverable, ReplayRebuilds
  <2>5. After(pos[p] + 1) = history[pos[p] + 1]
    BY <2>2 DEF After
  <2> QED
    BY <2>1, <2>2, <2>4, <2>5
<1>9. ASSUME NEW p \in Procs, ReplayLine(p) PROVE Recoverable'
  <2>1. Kept /\ UNCHANGED <<snapshot, rejected, buffer, pc>>
    BY <1>9 DEF ReplayLine
  <2>2. /\ pc[p] = "replay" /\ pos[p] < Len(buffer[p])
        /\ mem'[p] = Apply(mem[p], buffer[p][pos[p] + 1]) /\ pos'[p] = pos[p] + 1
    BY <1>9, <1>0 DEF ReplayLine, TypeOK
  <2>3. buffer'[p] = events' /\ mem'[p] = After(pos[p] + 1)
    BY <2>1, <2>2, <1>8
  <2>4. R(p)'
    BY <2>1, <2>2, <2>3 DEF After
  <2> QED
    BY <2>1, <2>4, <1>c, <1>d, <1>e
<1>10. ASSUME NEW p \in Procs, RejectLine(p) PROVE FALSE
  BY <1>10, <1>8 DEF RejectLine
<1>11. ASSUME NEW p \in Procs, EndLoad(p) PROVE Recoverable'
  <2>1. Kept /\ UNCHANGED <<rejected, mem, last>>
    BY <1>11 DEF EndLoad
  <2>2. /\ pc[p] = "replay" /\ pc'[p] = "idle" /\ pos[p] = Len(buffer[p])
        /\ snapshot' = [seq |-> last[p], contents |-> mem[p]]
    BY <1>11, <1>0 DEF EndLoad, TypeOK
  <2>3. last[p] = Len(events) /\ mem[p] = After(Len(events))
    BY <2>2, <1>b DEF Guarded
  <2>4. mem[p] = Current
    BY <2>3, <1>0 DEF After, Current, Recoverable
  <2>5. R(p)'
    BY <2>1, <2>2, <2>3, <2>4 DEF Current
  <2>6. SnapshotIsAPast'
    BY <2>1, <2>2, <2>3, <2>4, <1>0 DEF SnapshotIsAPast, Current, Recoverable
  <2> QED
    BY <2>1, <2>5, <2>6, <1>c, <1>e
<1>12. ASSUME NEW p \in Procs, AbortLoad(p) \/ Crash(p) PROVE Recoverable'
  <2>1. Kept /\ UNCHANGED <<snapshot, rejected>>
    BY <1>12, <1>a DEF AbortLoad, Crash
  <2>2. pc'[p] = "down" /\ mem'[p] = Draft
    BY <1>12, <1>0 DEF AbortLoad, Crash, Forget, TypeOK
  <2>3. R(p)'
    BY <2>2
  <2> QED
    BY <2>1, <2>3, <1>c, <1>d, <1>e
<1> QED
  BY <1>0, <1>1, <1>2, <1>3, <1>4, <1>5, <1>6, <1>7, <1>9, <1>10, <1>11, <1>12,
     RequestsARecord DEF Next

LEMMA RecoverableInvariant ==
  ASSUME SoleReliableHost
  PROVE  Spec => [](Guarded /\ Recoverable)
  BY GuardedInit, RecoverableInit, GuardedStep, RecoverableStep, PTL DEF Spec

(* With one process and appends that either fail cleanly or succeed, what  *)
(* is on disk rebuilds the committed graph at every moment of every        *)
(* operation, whatever the process was doing when it died                  *)
(* (dtg_append_event_locked, dtg_event_apply_line).                        *)
THEOREM JournalIsAuthoritative ==
  ASSUME SoleReliableHost
  PROVE  Spec => []ReplayRebuilds
<1>1. Recoverable => ReplayRebuilds
  BY DEF Recoverable
<1> QED
  BY <1>1, RecoverableInvariant, PTL

(* Under the same assumptions no cold load is ever refused                 *)
(* (dtg_replay_events never reports a line that does not apply).           *)
THEOREM AlwaysLoads ==
  ASSUME SoleReliableHost
  PROVE  Spec => []NeverRejected
<1>1. Recoverable => NeverRejected
  BY DEF Recoverable
<1> QED
  BY <1>1, RecoverableInvariant, PTL

(* Under the same assumptions the graph a process serves is the last       *)
(* committed one: no crash loses an accepted transition (dtg_store_load,   *)
(* dtg_store_graph_event, dtg_store_node_event).                           *)
THEOREM NothingAcceptedIsLost ==
  ASSUME SoleReliableHost
  PROVE  Spec => []ServesCommitted
<1>1. Recoverable => ServesCommitted
  BY DEF Recoverable, ServesCommitted
<1> QED
  BY <1>1, RecoverableInvariant, PTL

(* Under the same assumptions state.json is exactly the graph at the       *)
(* record it names (dtg_write_snapshot_locked).                            *)
THEOREM SnapshotIsConsistent ==
  ASSUME SoleReliableHost
  PROVE  Spec => []SnapshotIsAPast
<1>1. Recoverable => SnapshotIsAPast
  BY DEF Recoverable
<1> QED
  BY <1>1, RecoverableInvariant, PTL

(* Under the same assumptions a graph is served after a cold load only     *)
(* once state.json has caught up with the journal (dtg_store_load).        *)
THEOREM LoadAlwaysRefreshes ==
  ASSUME SoleReliableHost
  PROVE  Spec => LoadRefreshesSnapshot
<1> DEFINE Refreshed(p) == pc[p] = "replay" /\ pc'[p] = "idle" =>
                             snapshot' = [seq |-> Len(events), contents |-> Current]
<1>1. ASSUME Guarded, Recoverable, [Next]_vars, NEW p \in Procs
      PROVE  Refreshed(p)
  <2>1. SUFFICES ASSUME pc[p] = "replay", pc'[p] = "idle"
                 PROVE  snapshot' = [seq |-> Len(events), contents |-> Current]
    OBVIOUS
  <2>2. EndLoad(p)
    BY <1>1, <2>1, OnlyEndLoadServes DEF Guarded
  <2>3. buffer[p] = events /\ mem[p] = After(pos[p]) /\ last[p] = pos[p]
    BY <1>1, <2>1 DEF Guarded, Recoverable
  <2>4. pos[p] = Len(events) /\ snapshot' = [seq |-> last[p], contents |-> mem[p]]
    BY <2>2, <2>3 DEF EndLoad
  <2>5. After(Len(events)) = Current
    BY <1>1 DEF After, Current, Recoverable, ReplayRebuilds
  <2> QED
    BY <2>3, <2>4, <2>5
<1>2. Guarded /\ Recoverable /\ [Next]_vars => [\A p \in Procs : Refreshed(p)]_vars
  BY <1>1
<1> QED
  BY <1>2, RecoverableInvariant, PTL DEF Spec, LoadRefreshesSnapshot
-----------------------------------------------------------------------------
(* The store implements DurableGraph.  A record that waits for its append  *)
(* moves the graph or one node, and nothing else.                          *)
MovesOneThing ==
  \A p \in Procs : pc[p] = "append" /\ record[p].node # NoNode =>
    /\ record[p].node \in Nodes
    /\ record[p].g = mem[p].g
    /\ record[p].approved = mem[p].approved

LEMMA MovesOneThingInit == Init => MovesOneThing
  BY DEF Init, MovesOneThing

LEMMA MovesOneThingStep ==
  ASSUME TypeOK, MovesOneThing, [Next]_vars
  PROVE  MovesOneThing'
<1>1. CASE UNCHANGED vars
  BY <1>1 DEF vars, MovesOneThing
<1>2. ASSUME NEW p \in Procs, StoreGraphEvent(p)
      PROVE  MovesOneThing'
  <2>1. PICK g \in GraphStates, approved \in {mem[p].approved, TRUE} :
          Request(p, GraphRecord(p, g, approved))
    BY <1>2 DEF StoreGraphEvent
  <2>2. record'[p].node = NoNode
    BY <2>1 DEF Request, GraphRecord, TypeOK
  <2>3. ASSUME NEW q \in Procs, q # p
        PROVE  pc'[q] = pc[q] /\ record'[q] = record[q] /\ mem'[q] = mem[q]
    BY <2>1, <2>3 DEF Request, TypeOK
  <2> QED
    BY <2>2, <2>3 DEF MovesOneThing
<1>3. ASSUME NEW p \in Procs, StoreNodeEvent(p)
      PROVE  MovesOneThing'
  <2>1. PICK x \in Nodes, state \in NodeStates, started \in {0, 1} :
          Request(p, NodeRecord(p, x, state, mem[p].attempts[x] + started))
    BY <1>3 DEF StoreNodeEvent
  <2>2. /\ record'[p].node = x /\ record'[p].g = mem'[p].g
        /\ record'[p].approved = mem'[p].approved
    BY <2>1 DEF Request, NodeRecord, TypeOK
  <2>3. ASSUME NEW q \in Procs, q # p
        PROVE  pc'[q] = pc[q] /\ record'[q] = record[q] /\ mem'[q] = mem[q]
    BY <2>1, <2>3 DEF Request, TypeOK
  <2> QED
    BY <2>2, <2>3 DEF MovesOneThing
<1>4. ASSUME NEW p \in Procs,
             \/ AppendEvent(p) \/ AppendTorn(p) \/ AppendFails(p) \/ AppendUnacked(p)
             \/ Commit(p)
      PROVE  MovesOneThing'
  <2>1. pc'[p] # "append"
    BY <1>4 DEF AppendEvent, AppendTorn, AppendFails, AppendUnacked, Commit, Return, TypeOK
  <2>2. ASSUME NEW q \in Procs, q # p
        PROVE  pc'[q] = pc[q] /\ record'[q] = record[q] /\ mem'[q] = mem[q]
    BY <1>4, <2>2 DEF AppendEvent, AppendTorn, AppendFails, AppendUnacked, Commit, Return,
                      volatile, TypeOK
  <2> QED
    BY <2>1, <2>2 DEF MovesOneThing
<1>5. ASSUME NEW p \in Procs,
             \/ BeginLoad(p) \/ ReplayLine(p) \/ RejectLine(p) \/ EndLoad(p)
             \/ AbortLoad(p) \/ Crash(p)
      PROVE  MovesOneThing'
  <2>1. pc'[p] # "append"
    BY <1>5 DEF BeginLoad, ReplayLine, RejectLine, EndLoad, AbortLoad, Crash, Forget, TypeOK
  <2>2. ASSUME NEW q \in Procs, q # p
        PROVE  pc'[q] = pc[q] /\ record'[q] = record[q] /\ mem'[q] = mem[q]
    BY <1>5, <2>2 DEF BeginLoad, ReplayLine, RejectLine, EndLoad, AbortLoad, Crash, Forget, TypeOK
  <2> QED
    BY <2>1, <2>2 DEF MovesOneThing
<1> QED
  BY <1>1, <1>2, <1>3, <1>4, <1>5 DEF Next

LEMMA SameMoves ==
  /\ \A x, y : Durable!NodeMayGo(x, y) <=> NodeMayGo(x, y)
  /\ \A x, y : Durable!GraphMayGo(x, y) <=> GraphMayGo(x, y)
<1>1. \A x : Durable!NodeSuccessors(x) = NodeSuccessors(x)
  BY DEF Durable!NodeSuccessors, NodeSuccessors
<1>2. \A x : Durable!GraphSuccessors(x) = GraphSuccessors(x)
  BY DEF Durable!GraphSuccessors, GraphSuccessors
<1> QED
  BY <1>1, <1>2 DEF Durable!NodeMayGo, NodeMayGo, Durable!GraphMayGo, GraphMayGo

(* A legal record applied to the committed graph is a legal step of it.    *)
LEMMA RecordIsLegal ==
  ASSUME NEW s \in Contents, NEW e \in Records, NEW i, MayApply(s, i, e),
         e.node # NoNode => e.g = s.g /\ e.approved = s.approved
  PROVE  Durable!Legal(s, Apply(s, e))
<1>1. CASE e.node = NoNode
  BY <1>1, SameMoves DEF Durable!Legal, MayApply, Apply
<1>2. CASE e.node # NoNode
  <2>1. e.node \in Nodes
    BY <1>2 DEF Records
  <2> DEFINE t == Apply(s, e)
  <2>2. /\ t.g = s.g /\ t.approved = s.approved
        /\ t.n = [s.n EXCEPT ![e.node] = e.state]
        /\ t.attempts = [s.attempts EXCEPT ![e.node] = e.attempts]
    BY <1>2 DEF Apply
  <2>3. t.n[e.node] = e.state /\ t.attempts[e.node] = e.attempts
    BY <2>1, <2>2 DEF Contents
  <2>4. Durable!NodeMayGo(s.n[e.node], t.n[e.node])
    BY <1>2, <2>3, SameMoves DEF MayApply
  <2> HIDE DEF t
  <2>5. Durable!Legal(s, t)
    BY <2>1, <2>2, <2>3, <2>4 DEF Durable!Legal
  <2> QED
    BY <2>5 DEF t
<1> QED
  BY <1>1, <1>2

LEMMA HostIsAll ==
  ASSUME SoleReliableHost, NEW p \in Procs
  PROVE  p = Host
<1>1. Host \in Procs
  BY DEF Host
<1> QED
  BY <1>1 DEF SoleReliableHost

LEMMA ImplementsInit ==
  ASSUME SoleReliableHost, Init
  PROVE  Durable!Init
<1>1. PICK p \in Procs : pc[p] = "idle"
  BY DEF Init
<1>2. pc[Host] = "idle" /\ mem[Host] = Draft
  BY <1>1, HostIsAll DEF Init
<1>3. Current = Draft
  BY DEF Init, Current
<1>4. Draft \in Durable!Contents
  BY DraftType DEF Durable!Contents, Contents, Durable!GraphStates, GraphStates,
                   Durable!NodeStates, NodeStates
<1> QED
  BY <1>2, <1>3, <1>4 DEF Durable!Init

(* Every step of the store is a step of DurableGraph, or none.             *)
LEMMA ImplementsStep ==
  ASSUME SoleReliableHost, Host \in Procs,
         Guarded, Recoverable, Recoverable', MovesOneThing, [Next]_vars
  PROVE  [Durable!Next]_<<Current, IF pc[Host] = "idle" THEN mem[Host] ELSE Offline>>
<1> DEFINE shown == IF pc[Host] = "idle" THEN mem[Host] ELSE Offline
<1>1. ASSUME NEW p \in Procs, AppendEvent(p)
      PROVE  Durable!Commit
  <2>1. pc[p] = "append" /\ pc'[p] = "commit" /\ mem[p] \in Contents /\ record[p] \in Records
    BY <1>1 DEF AppendEvent, Guarded, TypeOK
  <2>2. mem[p] = Current /\ MayApply(mem[p], last[p], record[p])
    BY <2>1 DEF Recoverable
  <2>3. Current' = Apply(Current, record[p])
    <3>1. history \in Seq(Contents) /\ history' = Append(history, Apply(Current, record[p]))
      BY <1>1, <2>2 DEF AppendEvent, Guarded, TypeOK
    <3> QED
      BY <3>1 DEF Current
  <2>4. record[p].node # NoNode => record[p].g = mem[p].g /\ record[p].approved = mem[p].approved
    BY <2>1 DEF MovesOneThing
  <2>5. Durable!Legal(Current, Current')
    BY <2>1, <2>2, <2>3, <2>4, RecordIsLegal
  <2>6. pc'[Host] # "idle"
    BY <2>1, HostIsAll
  <2> QED
    BY <2>5, <2>6 DEF Durable!Commit
<1>2. ASSUME UNCHANGED history
      PROVE  Durable!Expose \/ Durable!GoOffline
  <2>1. Current' = Current
    BY <1>2 DEF Current
  <2>2. CASE pc'[Host] = "idle"
    <3>1. mem'[Host] = Current'
      BY <2>2 DEF Recoverable
    <3> QED
      BY <2>1, <2>2, <3>1 DEF Durable!Expose
  <2>3. CASE pc'[Host] # "idle"
    BY <2>1, <2>3 DEF Durable!GoOffline
  <2> QED
    BY <2>2, <2>3
<1>3. UNCHANGED history \/ \E p \in Procs : AppendEvent(p)
  BY RequestsARecord
     DEF Next, vars, Requests, Request, AppendTorn, AppendFails, AppendUnacked, Commit, BeginLoad,
         ReplayLine, RejectLine, EndLoad, AbortLoad, Crash, loading, Guarded
<1> QED
  BY <1>1, <1>2, <1>3 DEF Durable!Next

(* One process and appends that fail cleanly or succeed: the store keeps   *)
(* the promise of DurableGraph, one committed graph that survives every    *)
(* crash, shown as it is or not at all.                                    *)
THEOREM StoreImplementsDurableGraph ==
  ASSUME SoleReliableHost
  PROVE  Spec => ImplementsDurableGraph
<1>1. Spec => []MovesOneThing
  <2>1. TypeOK /\ MovesOneThing /\ [Next]_vars => MovesOneThing'
    BY MovesOneThingStep
  <2> QED
    BY <2>1, MovesOneThingInit, TypeCorrect, PTL DEF Spec
<1>2. Init => Durable!Init
  BY ImplementsInit
<1>3. CASE Procs = {}
  <2>1. ~Init
    BY <1>3 DEF Init
  <2> QED
    BY <2>1, PTL DEF Spec
<1>4. CASE Procs # {}
  <2>1. Host \in Procs
    BY <1>4 DEF Host
  <2>2. Guarded /\ Recoverable /\ Recoverable' /\ MovesOneThing /\ [Next]_vars
          => [Durable!Next]_<<Current, IF pc[Host] = "idle" THEN mem[Host] ELSE Offline>>
    BY <2>1, ImplementsStep
  <2> QED
    BY <1>1, <1>2, <2>2, RecoverableInvariant, PTL
       DEF Spec, ImplementsDurableGraph, Durable!Spec
<1> QED
  BY <1>3, <1>4
-----------------------------------------------------------------------------
(* The facts about accepted definitions that TaskScheduler assumes of its  *)
(* table.                                                                  *)

(* An action that fits its node fixes the kind of the node.                *)
LEMMA ActionFixesKind ==
  ASSUME NEW g, NEW n, ActionFits(g, n)
  PROVE  /\ n.kind = "agent_turn" <=> n.action \in AgentActions
         /\ n.kind = "approval" <=> n.action = "approval.wait"
<1>1. CASE n.action \in AgentActions /\ PromptFits(g, n)
  BY <1>1 DEF AgentActions, PromptFits
<1>2. CASE n.action = "agent.receipt.verify" /\ ReceiptFits(g, n)
  BY <1>2 DEF AgentActions, ReceiptFits, ReadOnlyGate
<1>3. CASE n.action = "workspace.read" /\ ReadFits(n)
  BY <1>3 DEF AgentActions, ReadFits
<1>4. CASE n.action = "workspace.write" /\ WriteFits(n)
  BY <1>4 DEF AgentActions, WriteFits
<1>5. CASE n.action = "test.run" /\ TestFits(n)
  BY <1>5 DEF AgentActions, TestFits
<1>6. CASE n.action = "workspace.assert" /\ AssertFits(n)
  BY <1>6 DEF AgentActions, AssertFits, ReadOnlyGate
<1>7. CASE n.action = "outputs.verify" /\ ReadOnlyGate(n)
  BY <1>7 DEF AgentActions, ReadOnlyGate
<1>8. CASE n.action = "approval.wait" /\ WaitsOnly(n, "approval")
  BY <1>8 DEF AgentActions, WaitsOnly
<1>9. CASE n.action = "join.all" /\ WaitsOnly(n, "join")
  BY <1>9 DEF AgentActions, WaitsOnly
<1> QED
  BY <1>1, <1>2, <1>3, <1>4, <1>5, <1>6, <1>7, <1>8, <1>9 DEF ActionFits

(* Only an Agent turn or a host tool writes.                               *)
LEMMA OnlyAgentsAndToolsWrite ==
  ASSUME NEW g, NEW n, ActionFits(g, n), Writes(n)
  PROVE  n.kind \in {"agent_turn", "host_tool"}
BY DEF ActionFits, Writes, AgentActions, PromptFits, ReceiptFits, ReadOnlyGate, ReadFits,
       WriteFits, TestFits, AssertFits, WaitsOnly

(* Every node of an accepted native graph is what the scheduler assumes: a *)
(* writer that is not idempotent is retried only if its transcript can     *)
(* prove that no tool ran, a goal is never retried automatically, a test   *)
(* counts as a writer, and kinds and actions belong together               *)
(* (dtg_policy_validate, dtg_native_action_policy).                        *)
THEOREM AcceptedIsSafe ==
  ASSUME NEW g, NEW strict, Accepted(g, strict), g.executor = "native", NEW i \in Indices(g)
  PROVE  SafeToSchedule(g.nodes[i])
<1> DEFINE n == g.nodes[i]
<1>1. ActionFits(g, n)
  BY DEF Accepted
<1>2. NodeIsValid(g, strict \/ StrictByDefault(g.policy), i)
  BY DEF Accepted, Valid
<1>3. n.automatic /\ ~n.idempotent => n.action = "agent.prompt" /\ n.toolResult
  BY <1>2 DEF NodeIsValid
<1>4. n.action = "agent.goal" => n.toolResult /\ ~n.automatic
  BY <1>1 DEF ActionFits, PromptFits, AgentActions
<1>5. n.action = "test.run" => n.kind = "host_tool" /\ Writes(n)
  BY <1>1 DEF ActionFits, TestFits, AgentActions, Writes
<1>6. /\ n.kind = "agent_turn" <=> n.action \in AgentActions
      /\ n.kind = "approval" <=> n.action = "approval.wait"
  BY <1>1, ActionFixesKind
<1>7. Writes(n) => n.kind \in {"agent_turn", "host_tool"}
  BY <1>1, OnlyAgentsAndToolsWrite
<1> QED
  BY <1>3, <1>4, <1>5, <1>6, <1>7 DEF SafeToSchedule

(* A dependency of an accepted graph is another node of it, and no two     *)
(* nodes share an id (dtg_validate_graph).                                 *)
THEOREM AcceptedIsClosed ==
  ASSUME NEW g, NEW strict, Accepted(g, strict), NEW i \in Indices(g)
  PROVE  /\ DepIds(g.nodes[i]) \subseteq Ids(g) \ {g.nodes[i].id}
         /\ \A j \in Indices(g) : g.nodes[j].id = g.nodes[i].id => j = i
<1>1. NodeIsValid(g, strict \/ StrictByDefault(g.policy), i)
  BY DEF Accepted, Valid
<1> QED
  BY <1>1 DEF NodeIsValid

(* What passes can be started: a native graph of the Agent that was        *)
(* accepted passes the same check when it is started and before each       *)
(* dispatch (dtg_executor_graph_is_available).                             *)
THEOREM AcceptedIsExecutable ==
  ASSUME NEW g, NEW strict, Accepted(g, strict), g.executor = "native", g.mode = "agent"
  PROVE  Executable(g)
BY DEF Accepted, Valid, ExecutorFits, Executable
-----------------------------------------------------------------------------
(* The writes of a graph and their undo, for any contents of the file, any *)
(* texts and any number of writers and attempts.                           *)
Outcomes == {"written", "failed", "unsaved"}
Answers == {"none", "refused", "applied"}

(* Every attempt has a checkpoint, or is without one, and one receipt.     *)
FileStates(C) ==
  {s \in [file : C, saved : [Writers -> Seq(C \cup {Unsaved})],
          receipt : [Writers -> Seq(Answers)]] :
     \A n \in Writers : Len(s.saved[n]) = Len(s.receipt[n])}

LEMMA AppendKeeps ==
  ASSUME NEW D, NEW q \in Seq(D), NEW x \in D
  PROVE  /\ Len(Append(q, x)) = Len(q) + 1
         /\ \A i \in 1 .. Len(q) : Append(q, x)[i] = q[i]
  OBVIOUS

LEMMA UndoKeepsCheckpoints ==
  ASSUME NEW C, NEW s \in FileStates(C), NEW n \in Writers
  PROVE  Undone(s, n).saved = s.saved
  BY DEF Undone, FileStates

(* An undo gives back what the attempt found, written or not and saved or  *)
(* not, whatever happened since: it is enough that the file is again what  *)
(* the attempt left, and that the attempt is still the last of its node    *)
(* (dtg_write_checkpoint_receipt, dtg_executor_undo).                      *)
THEOREM UndoRestores ==
  ASSUME NEW C, Unsaved \notin C, NEW s \in FileStates(C), NEW n \in Writers,
         NEW outcome \in Outcomes, NEW later \in FileStates(C),
         later.file = Attempted(s, n, outcome).file,
         later.saved[n] = Attempted(s, n, outcome).saved[n]
  PROVE  Undone(later, n).file = s.file
<1> DEFINE taken == IF outcome = "unsaved" THEN Unsaved ELSE s.file
<1>1. s.file \in C /\ s.saved \in [Writers -> Seq(C \cup {Unsaved})]
  BY DEF FileStates
<1>2. later.saved[n] = Append(s.saved[n], taken)
  BY <1>1 DEF Attempted
<1>3. later.file = IF outcome = "written" THEN Text[n] ELSE s.file
  BY DEF Attempted
<1>4. taken \in C \cup {Unsaved}
  BY <1>1
<1> HIDE DEF taken
<1>5. Checkpoint(later, n) = taken
  <2>1. s.saved[n] \in Seq(C \cup {Unsaved})
    BY <1>1
  <2>2. /\ Len(later.saved[n]) = Len(s.saved[n]) + 1
        /\ later.saved[n][Len(s.saved[n]) + 1] = taken
        /\ later.saved[n] # <<>>
    BY <1>2, <1>4, <2>1
  <2> QED
    BY <2>2 DEF Checkpoint, LastAttempt
<1>6. CASE outcome = "unsaved"
  BY <1>3, <1>5, <1>6 DEF Undone, taken
<1>7. CASE outcome # "unsaved"
  <2>1. taken = s.file /\ taken # Unsaved
    BY <1>1, <1>7 DEF taken
  <2>2. CASE later.file = Text[n]
    <3>1. Undone(later, n) = [later EXCEPT !.file = taken, !.receipt = Told(later, n, "applied")]
      BY <1>5, <2>1, <2>2 DEF Undone
    <3> QED
      BY <2>1, <3>1 DEF FileStates
  <2>3. CASE later.file # Text[n]
    <3>1. Undone(later, n).file = later.file
      BY <1>5, <2>1, <2>3 DEF Undone, FileStates
    <3> QED
      BY <1>3, <2>3, <3>1
  <2> QED
    BY <2>2, <2>3
<1> QED
  BY <1>6, <1>7

LEMMA AttemptType ==
  ASSUME NEW C, Text \in Seq(C), NEW s \in FileStates(C), NEW n \in Writers,
         NEW outcome \in Outcomes
  PROVE  Attempted(s, n, outcome) \in FileStates(C)
<1> DEFINE taken == IF outcome = "unsaved" THEN Unsaved ELSE s.file
           new == Attempted(s, n, outcome)
<1>1. /\ s.file \in C /\ s.saved \in [Writers -> Seq(C \cup {Unsaved})]
      /\ s.receipt \in [Writers -> Seq(Answers)]
      /\ \A m \in Writers : Len(s.saved[m]) = Len(s.receipt[m])
  BY DEF FileStates
<1>2. taken \in C \cup {Unsaved} /\ "none" \in Answers
  BY <1>1 DEF Answers
<1>3. Text[n] \in C
  BY DEF Writers
<1>4. new = [file |-> IF outcome = "written" THEN Text[n] ELSE s.file,
             saved |-> [s.saved EXCEPT ![n] = Append(s.saved[n], taken)],
             receipt |-> [s.receipt EXCEPT ![n] = Append(s.receipt[n], "none")]]
  BY <1>1 DEF Attempted
<1> HIDE DEF taken, new
<1>5. Append(s.saved[n], taken) \in Seq(C \cup {Unsaved})
      /\ Append(s.receipt[n], "none") \in Seq(Answers)
  BY <1>1, <1>2
<1>6. /\ new.file \in C
      /\ new.saved \in [Writers -> Seq(C \cup {Unsaved})]
      /\ new.receipt \in [Writers -> Seq(Answers)]
  BY <1>1, <1>3, <1>4, <1>5
<1>7. ASSUME NEW m \in Writers PROVE Len(new.saved[m]) = Len(new.receipt[m])
  <2>1. CASE m = n
    <3>1. new.saved[m] = Append(s.saved[n], taken) /\ new.receipt[m] = Append(s.receipt[n], "none")
      BY <1>1, <1>4, <2>1
    <3>2. /\ Len(Append(s.saved[n], taken)) = Len(s.saved[n]) + 1
          /\ Len(Append(s.receipt[n], "none")) = Len(s.receipt[n]) + 1
      BY <1>1, <1>2
    <3> QED
      BY <3>1, <3>2, <1>1
  <2>2. CASE m # n
    <3>1. new.saved[m] = s.saved[m] /\ new.receipt[m] = s.receipt[m]
      BY <1>1, <1>4, <2>2
    <3> QED
      BY <3>1, <1>1
  <2> QED
    BY <2>1, <2>2
<1>8. new \in [file : C, saved : [Writers -> Seq(C \cup {Unsaved})],
               receipt : [Writers -> Seq(Answers)]]
  BY <1>4, <1>6
<1> QED
  BY <1>7, <1>8 DEF FileStates, new

LEMMA ToldType ==
  ASSUME NEW C, NEW s \in FileStates(C), NEW n \in Writers, NEW answer \in Answers,
         Checkpoint(s, n) # Unsaved
  PROVE  /\ Told(s, n, answer) \in [Writers -> Seq(Answers)]
         /\ \A m \in Writers : /\ Len(Told(s, n, answer)[m]) = Len(s.receipt[m])
                               /\ \A i \in 1 .. Len(s.receipt[m]) :
                                    s.receipt[m][i] # "none" => Told(s, n, answer)[m][i] = s.receipt[m][i]
         /\ Told(s, n, answer)[n][LastAttempt(s, n)] # "none" \/ answer = "none"
<1> DEFINE k == LastAttempt(s, n)
           one == IF s.receipt[n][k] = "none" THEN answer ELSE s.receipt[n][k]
           new == Told(s, n, answer)
<1>1. /\ s.saved \in [Writers -> Seq(C \cup {Unsaved})]
      /\ s.receipt \in [Writers -> Seq(Answers)]
      /\ \A m \in Writers : Len(s.saved[m]) = Len(s.receipt[m])
  BY DEF FileStates
<1>2. new = [s.receipt EXCEPT ![n] = [s.receipt[n] EXCEPT ![k] = one]]
  BY <1>1 DEF Told
<1>3. s.saved[n] # <<>> /\ s.saved[n] \in Seq(C \cup {Unsaved})
  BY <1>1 DEF Checkpoint
<1>4. k \in 1 .. Len(s.receipt[n])
  BY <1>1, <1>3 DEF LastAttempt
<1> HIDE DEF k
<1>5. s.receipt[n] \in Seq(Answers) /\ s.receipt[n][k] \in Answers
  BY <1>1, <1>4
<1>6. one \in Answers /\ (one # "none" \/ answer = "none")
  BY <1>5
<1>7. s.receipt[n][k] # "none" => one = s.receipt[n][k]
  OBVIOUS
<1> HIDE DEF one, new
<1> DEFINE own == [s.receipt[n] EXCEPT ![k] = one]
<1>8. /\ own \in Seq(Answers) /\ Len(own) = Len(s.receipt[n]) /\ own[k] = one
      /\ \A i \in 1 .. Len(s.receipt[n]) : s.receipt[n][i] # "none" => own[i] = s.receipt[n][i]
  BY <1>4, <1>5, <1>6, <1>7
<1> HIDE DEF own
<1>9. new = [s.receipt EXCEPT ![n] = own]
  BY <1>2 DEF own
<1>10. new \in [Writers -> Seq(Answers)] /\ new[n] = own
       /\ \A m \in Writers : m # n => new[m] = s.receipt[m]
  BY <1>1, <1>8, <1>9
<1> QED
  BY <1>6, <1>8, <1>10 DEF new, k

LEMMA UndoType ==
  ASSUME NEW C, NEW s \in FileStates(C), NEW n \in Writers
  PROVE  Undone(s, n) \in FileStates(C)
<1>1. /\ s.file \in C /\ s.saved \in [Writers -> Seq(C \cup {Unsaved})]
      /\ s.receipt \in [Writers -> Seq(Answers)]
      /\ \A m \in Writers : Len(s.saved[m]) = Len(s.receipt[m])
      /\ s = [file |-> s.file, saved |-> s.saved, receipt |-> s.receipt]
  BY DEF FileStates
<1>2. CASE Checkpoint(s, n) = Unsaved
  BY <1>2 DEF Undone
<1>3. CASE Checkpoint(s, n) # Unsaved
  <2>1. Checkpoint(s, n) \in C
    <3>1. s.saved[n] # <<>> /\ s.saved[n] \in Seq(C \cup {Unsaved})
      BY <1>1, <1>3 DEF Checkpoint
    <3>2. s.saved[n][Len(s.saved[n])] \in C \cup {Unsaved}
      BY <3>1
    <3>3. Checkpoint(s, n) = s.saved[n][Len(s.saved[n])]
      BY <3>1 DEF Checkpoint, LastAttempt
    <3> QED
      BY <3>2, <3>3, <1>3
  <2>2. ASSUME NEW answer \in Answers
        PROVE  /\ Told(s, n, answer) \in [Writers -> Seq(Answers)]
               /\ \A m \in Writers : Len(Told(s, n, answer)[m]) = Len(s.saved[m])
    BY <1>1, <1>3, ToldType
  <2>3. "refused" \in Answers /\ "applied" \in Answers
    BY DEF Answers
  <2>4. CASE s.file # Text[n]
    <3>1. Undone(s, n) = [file |-> s.file, saved |-> s.saved, receipt |-> Told(s, n, "refused")]
      BY <1>1, <1>3, <2>4 DEF Undone
    <3> QED
      BY <1>1, <2>2, <2>3, <3>1 DEF FileStates
  <2>5. CASE s.file = Text[n]
    <3>1. Undone(s, n) = [file |-> Checkpoint(s, n), saved |-> s.saved,
                          receipt |-> Told(s, n, "applied")]
      BY <1>1, <1>3, <2>5 DEF Undone
    <3> QED
      BY <1>1, <2>1, <2>2, <2>3, <3>1 DEF FileStates
  <2> QED
    BY <2>4, <2>5
<1> QED
  BY <1>2, <1>3

(* The writes of two nodes undone in the opposite order leave the file as  *)
(* it was before them, whichever of them took place, also when they wrote  *)
(* the same text, or what was there already: by UndoRestores, applied from *)
(* the inside out, as it is for any number of writes that are nested.      *)
THEOREM ReverseOrderAlwaysRestores ==
  ASSUME NEW C, Unsaved \notin C, Text \in Seq(C), NEW s \in FileStates(C),
         NEW a \in Writers, NEW b \in Writers, a # b,
         NEW one \in Outcomes, NEW two \in Outcomes
  PROVE  Undone(Undone(Attempted(Attempted(s, a, one), b, two), b), a).file = s.file
<1> DEFINE s1 == Attempted(s, a, one)
           s2 == Attempted(s1, b, two)
           s3 == Undone(s2, b)
<1>1. s1 \in FileStates(C)
  BY AttemptType
<1> HIDE DEF s1
<1>2. s2 \in FileStates(C)
  BY <1>1, AttemptType
<1>3. s2.saved[a] = s1.saved[a]
  BY <1>1 DEF Attempted, FileStates
<1> HIDE DEF s2
<1>4. s3 \in FileStates(C) /\ s3.saved = s2.saved
  BY <1>2, UndoType, UndoKeepsCheckpoints
<1>5. s3.file = s1.file
  BY <1>1, <1>2, UndoRestores DEF s2
<1> HIDE DEF s3
<1>6. Undone(s3, a).file = s.file
  BY <1>3, <1>4, <1>5, UndoRestores DEF s1
<1> QED
  BY <1>6 DEF s1, s2, s3

(* No attempt, undo or edit replaces a checkpoint or a receipt that is     *)
(* there: the answer that an undo gave first is the one that is on record  *)
(* (dtg_persist_undo_receipt, and the immutable files of an attempt).      *)
THEOREM RecordsAreNeverReplaced ==
  ASSUME NEW C, Text \in Seq(C), NEW s \in FileStates(C), NEW new,
         \/ \E n \in Writers, outcome \in Outcomes : new = Attempted(s, n, outcome)
         \/ \E n \in Writers : new = Undone(s, n)
         \/ \E content \in C : new = Edited(s, content)
  PROVE  /\ new \in FileStates(C)
         /\ \A m \in Writers, i \in Nat : i \in 1 .. Len(s.saved[m]) =>
              /\ i <= Len(new.saved[m])
              /\ new.saved[m][i] = s.saved[m][i]
              /\ s.receipt[m][i] # "none" => new.receipt[m][i] = s.receipt[m][i]
<1> DEFINE Keeps == \A m \in Writers, i \in Nat : i \in 1 .. Len(s.saved[m]) =>
              /\ i <= Len(new.saved[m])
              /\ new.saved[m][i] = s.saved[m][i]
              /\ s.receipt[m][i] # "none" => new.receipt[m][i] = s.receipt[m][i]
<1>1. /\ s.file \in C /\ s.saved \in [Writers -> Seq(C \cup {Unsaved})]
      /\ s.receipt \in [Writers -> Seq(Answers)]
      /\ \A m \in Writers : Len(s.saved[m]) = Len(s.receipt[m])
      /\ s = [file |-> s.file, saved |-> s.saved, receipt |-> s.receipt]
  BY DEF FileStates
<1>2. ASSUME NEW n \in Writers, NEW outcome \in Outcomes, new = Attempted(s, n, outcome)
      PROVE  new \in FileStates(C) /\ Keeps
  <2>1. new \in FileStates(C)
    BY <1>2, AttemptType
  <2>2. PICK taken \in C \cup {Unsaved} : new.saved = [s.saved EXCEPT ![n] = Append(s.saved[n], taken)]
    BY <1>1, <1>2 DEF Attempted
  <2>3. new.receipt = [s.receipt EXCEPT ![n] = Append(s.receipt[n], "none")]
    BY <1>1, <1>2 DEF Attempted
  <2>4. ASSUME NEW m \in Writers, NEW i \in Nat, i \in 1 .. Len(s.saved[m])
        PROVE  /\ i <= Len(new.saved[m])
               /\ new.saved[m][i] = s.saved[m][i]
               /\ s.receipt[m][i] # "none" => new.receipt[m][i] = s.receipt[m][i]
    <3>1. CASE m # n
      <4>1. new.saved[m] = s.saved[m] /\ new.receipt[m] = s.receipt[m]
        BY <1>1, <2>2, <2>3, <3>1
      <4> QED
        BY <2>4, <4>1
    <3>2. CASE m = n
      <4>1. new.saved[m] = Append(s.saved[m], taken)
            /\ new.receipt[m] = Append(s.receipt[m], "none")
        BY <1>1, <2>2, <2>3, <3>2
      <4>2. s.saved[m] \in Seq(C \cup {Unsaved}) /\ s.receipt[m] \in Seq(Answers)
            /\ Len(s.saved[m]) = Len(s.receipt[m]) /\ "none" \in Answers
        BY <1>1 DEF Answers
      <4>3. Len(Append(s.saved[m], taken)) = Len(s.saved[m]) + 1
            /\ Append(s.saved[m], taken)[i] = s.saved[m][i]
        <5> DEFINE D == C \cup {Unsaved}
        <5>1. s.saved[m] \in Seq(D) /\ taken \in D
          BY <2>2, <4>2
        <5> HIDE DEF D
        <5> QED
          BY <2>4, <5>1, AppendKeeps
      <4>4. Append(s.receipt[m], "none")[i] = s.receipt[m][i]
        BY <2>4, <4>2, AppendKeeps
      <4>5. i <= Len(s.saved[m]) + 1
        BY <2>4, <4>2
      <4> QED
        BY <4>1, <4>3, <4>4, <4>5
    <3> QED
      BY <3>1, <3>2
  <2> QED
    BY <2>1, <2>4
<1>3. ASSUME NEW n \in Writers, new = Undone(s, n)
      PROVE  new \in FileStates(C) /\ Keeps
  <2>1. new \in FileStates(C) /\ new.saved = s.saved
    BY <1>3, UndoType, UndoKeepsCheckpoints
  <2>2. ASSUME NEW m \in Writers, NEW i \in 1 .. Len(s.receipt[m]), s.receipt[m][i] # "none"
        PROVE  new.receipt[m][i] = s.receipt[m][i]
    <3>1. CASE new.receipt = s.receipt
      BY <3>1
    <3>2. CASE new.receipt # s.receipt
      <4>1. Checkpoint(s, n) # Unsaved
        BY <1>3, <3>2 DEF Undone
      <4>2. new.receipt = Told(s, n, "refused") \/ new.receipt = Told(s, n, "applied")
        BY <1>1, <1>3, <4>1 DEF Undone
      <4>3. "refused" \in Answers /\ "applied" \in Answers
        BY DEF Answers
      <4>4. Told(s, n, "refused")[m][i] = s.receipt[m][i]
        BY <2>2, <4>1, <4>3, ToldType
      <4>5. Told(s, n, "applied")[m][i] = s.receipt[m][i]
        BY <2>2, <4>1, <4>3, ToldType
      <4> QED
        BY <4>2, <4>4, <4>5
    <3> QED
      BY <3>1, <3>2
  <2>3. \A m \in Writers : Len(s.saved[m]) \in Nat
    BY <1>1
  <2> QED
    BY <1>1, <2>1, <2>2, <2>3
<1>4. ASSUME NEW content \in C, new = Edited(s, content)
      PROVE  new \in FileStates(C) /\ Keeps
  <2>1. new = [file |-> content, saved |-> s.saved, receipt |-> s.receipt]
    BY <1>1, <1>4 DEF Edited
  <2> QED
    BY <1>1, <2>1 DEF FileStates
<1> QED
  BY <1>2, <1>3, <1>4
=============================================================================
