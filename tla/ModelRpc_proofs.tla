--------------------------- MODULE ModelRpc_proofs ---------------------------
(***************************************************************************)
(* What holds of a turn whose model is somewhere else, for any number of   *)
(* prompts, requests and interrupts, any stream a model may send and any   *)
(* order in which the three pipes are drained.                             *)
(***************************************************************************)
EXTENDS ModelRpc, SequenceTheorems, TLAPS

(* The shapes of the variables, without the bounds of a checked instance.  *)
Kinds == {"separator", "header", "body", "prompt", "head", "tail", "final", "fresh", "data"}
Whats == {"request", "user", "text", "tools", "none", "error", "stop", "tool_calls"}
Items == [kind : Kinds, id : Nat, what : Whats]
RelayType ==
  [id : Nat, valid : BOOLEAN, complete : BOOLEAN, cut : BOOLEAN, canceled : BOOLEAN,
   stopping : BOOLEAN, fresh : BOOLEAN, final : Whats]
WorkerType == [is : {"none", "up", "dead"}, sent : Nat, out : Seq(Items)]
EventType == [at : {"none", "prefix", "model", "discard"}, valid : BOOLEAN]
TurnType ==
  [ready : BOOLEAN, working : BOOLEAN, pending : BOOLEAN, stop : BOOLEAN, task : Nat]
RuntimeType ==
  [at : {"idle", "asking", "reading", "answered", "dead", "gone"}, turn : Nat,
   request : Nat, asked : Nat, part : Nat, got : Nat, tools : BOOLEAN, latch : BOOLEAN,
   result : {"none", "failed", "stop", "tools"}, killed : Nat]
UserType == [prompts : Nat, interrupts : Nat, hit : SUBSET Nat]
MadeType == [sent : Nat, batch : BOOLEAN]
Shaped ==
  /\ cur \in RelayType /\ next \in RelayType /\ worker \in WorkerType
  /\ event \in EventType /\ turn \in TurnType /\ runtime \in RuntimeType
  /\ stdin \in Seq(Items) /\ stdout \in Seq(Items) /\ stderr \in Seq({"waiting"})
  /\ user \in UserType /\ made \in MadeType
-----------------------------------------------------------------------------
(* What the operations of the host make of a relay.                        *)
LEMMA NoRelayIs ==
  /\ NoRelay \in RelayType /\ ~IsRelay(NoRelay) /\ NoRelay.id = 0
  /\ NoRelay.final = "none" /\ ~NoRelay.canceled
  BY DEF NoRelay, RelayType, Whats, IsRelay

LEMMA NewRelayIs ==
  ASSUME NEW id \in Nat
  PROVE  LET r == NewRelay(id) IN
         /\ r \in RelayType /\ r.id = id
         /\ r.final = "none" /\ ~r.canceled /\ ~r.stopping
  BY DEF NewRelay, NoRelay, RelayType, Whats

LEMMA RelayFailIs ==
  ASSUME NEW j \in RelayType
  PROVE  LET r == RelayFail(j) IN
         /\ r \in RelayType /\ r.id = j.id
         /\ r.final = "error" /\ r.canceled = j.canceled /\ r.stopping
  BY DEF RelayFail, StopWorker, RelayType, Whats

LEMMA RevokedIs ==
  ASSUME NEW j \in RelayType
  PROVE  LET r == Revoked(j) IN
         /\ r \in RelayType /\ r.id = j.id
         /\ r.final = j.final /\ r.canceled = j.canceled /\ r.stopping = j.stopping
  BY DEF Revoked, RelayType

LEMMA CanceledIs ==
  ASSUME NEW j \in RelayType
  PROVE  LET r == Canceled(j) IN
         /\ r \in RelayType /\ r.id = j.id
         /\ IsRelay(j) => r.canceled /\ r.final = "none" /\ r.stopping
         /\ ~IsRelay(j) => r = j
  BY DEF Canceled, Revoked, StopWorker, RelayType, Whats, IsRelay

(* The upload of a relay is noted, its frame is cut or completed.          *)
LEMMA CompleteIs ==
  ASSUME NEW j \in RelayType, NEW b
  PROVE  LET r == [j EXCEPT !.complete = @ \/ b] IN
         /\ r \in RelayType /\ r.id = j.id
         /\ r.final = j.final /\ r.canceled = j.canceled /\ r.stopping = j.stopping
<1>1. (j.complete \/ b) \in BOOLEAN
  OBVIOUS
<1>2. ASSUME NEW c \in BOOLEAN
      PROVE  LET r == [j EXCEPT !.complete = c] IN
             /\ r \in RelayType /\ r.id = j.id
             /\ r.final = j.final /\ r.canceled = j.canceled /\ r.stopping = j.stopping
  BY DEF RelayType
<1> QED
  BY <1>1, <1>2

LEMMA CutIs ==
  ASSUME NEW j \in RelayType, NEW b \in BOOLEAN
  PROVE  LET r == [j EXCEPT !.cut = b] IN
         /\ r \in RelayType /\ r.id = j.id
         /\ r.final = j.final /\ r.canceled = j.canceled /\ r.stopping = j.stopping
  BY DEF RelayType

(* The receipt of the worker ends its relay.                               *)
LEMMA ReceivedIs ==
  ASSUME NEW j \in RelayType, NEW w \in Whats
  PROVE  LET r == [StopWorker(j) EXCEPT !.final = w] IN
         /\ r \in RelayType /\ r.id = j.id
         /\ r.final = w /\ r.canceled = j.canceled /\ r.stopping
  BY DEF StopWorker, RelayType

LEMMA ItemIs ==
  ASSUME NEW k \in Kinds, NEW id \in Nat, NEW w \in Whats
  PROVE  /\ Item(k, id, w) \in Items /\ Item(k, id, w).id = id
         /\ Item(k, id, w).kind = k /\ Item(k, id, w).what = w
  BY DEF Items, Item

LEMMA KindIs ==
  ASSUME NEW x \in Items, NEW k \in Kinds
  PROVE  LET y == [x EXCEPT !.kind = k] IN
         y \in Items /\ y.kind = k /\ y.id = x.id /\ y.what = x.what
  BY DEF Items

LEMMA FirstIs ==
  ASSUME NEW s \in Seq(Items), s # <<>>
  PROVE  /\ Head(s) \in Items /\ Tail(s) \in Seq(Items) /\ Head(s) = s[1]
         /\ Head(s).id \in Nat /\ Head(s).kind \in Kinds /\ Head(s).what \in Whats
<1>1. Head(s) \in Items /\ Tail(s) \in Seq(Items) /\ Head(s) = s[1]
  OBVIOUS
<1> QED
  BY <1>1 DEF Items

LEMMA EventIs ==
  /\ NoEvent \in EventType /\ Discard \in EventType
  /\ \A e \in EventType : Revoked(e) \in EventType
  BY DEF NoEvent, Discard, EventType, Revoked

LEMMA WorkerIs ==
  LET up == [NoWorker EXCEPT !.is = "up"] IN
  /\ NoWorker \in WorkerType /\ NoWorker.out = <<>>
  /\ up \in WorkerType /\ up.out = <<>>
<1>1. <<>> \in Seq(Items)
  OBVIOUS
<1> QED
  BY <1>1 DEF NoWorker, WorkerType

(* Whatever a stream was, a batch that counts is whole.                    *)
LEMMA EndingIs ==
  ASSUME NEW end \in Endings
  PROVE  (end.ok /\ end.tools => end.batch) /\ end.batch \in BOOLEAN
<1>1. PICK job \in After[MaxLines], tls \in Tls :
        end = [ok    |-> EndCompletes(job, tls),
               tools |-> HasCalls(job),
               batch |-> /\ HasCalls(job) /\ CallsAreWhole(job)
                         /\ job.done /\ job.finish = "tool_calls"]
  BY DEF Endings
<1>2. EndCompletes(job, tls) /\ HasCalls(job)
        => CallsAreWhole(job) /\ job.done /\ job.finish = "tool_calls"
  BY DEF EndCompletes, Completes
<1>3. /\ end.ok = EndCompletes(job, tls) /\ end.tools = HasCalls(job)
      /\ end.batch = (/\ HasCalls(job) /\ CallsAreWhole(job)
                      /\ job.done /\ job.finish = "tool_calls")
  BY <1>1, Zenon
<1> QED
  BY <1>2, <1>3, Zenon
-----------------------------------------------------------------------------
(* The receipts and the requests in a pipe, and what a worker has said.    *)
Receipts(s) ==
  {<<s[k].id, s[k].what>> : k \in {i \in 1 .. Len(s) : s[i].kind \in {"final", "fresh"}}}
Headers(s) == {s[k].id : k \in {i \in 1 .. Len(s) : s[i].kind = "header"}}
Verdicts(s) == {s[k].what : k \in {i \in 1 .. Len(s) : s[i].kind = "final"}}
InOrder(s) ==
  \A i, k \in 1 .. Len(s) :
    i < k /\ s[i].kind = "header" /\ s[k].kind = "header" => s[i].id < s[k].id

LEMMA ItemsOf == ASSUME NEW s \in Seq(Items) PROVE \A i \in 1 .. Len(s) : s[i] \in Items
  OBVIOUS
LEMMA PipeIds ==
  ASSUME NEW s \in Seq(Items)
  PROVE  /\ \A h \in Headers(s) : h \in Nat
         /\ \A r \in Receipts(s) : r[1] \in Nat
<1>1. \A i \in 1 .. Len(s) : s[i].id \in Nat
  BY ItemsOf DEF Items
<1> QED
  BY <1>1 DEF Headers, Receipts

LEMMA PipeEmpty == Receipts(<<>>) = {} /\ Headers(<<>>) = {} /\ Verdicts(<<>>) = {} /\ InOrder(<<>>)
  BY DEF Receipts, Headers, Verdicts, InOrder

LEMMA PipeTail ==
  ASSUME NEW s \in Seq(Items), s # <<>>
  PROVE  /\ Receipts(Tail(s)) \subseteq Receipts(s)
         /\ Headers(Tail(s)) \subseteq Headers(s)
         /\ Verdicts(Tail(s)) \subseteq Verdicts(s)
         /\ InOrder(s) => InOrder(Tail(s))
<1>1. /\ Tail(s) \in Seq(Items) /\ Len(Tail(s)) = Len(s) - 1 /\ Len(s) \in Nat
      /\ \A i \in 1 .. Len(Tail(s)) : i + 1 \in 1 .. Len(s) /\ Tail(s)[i] = s[i + 1]
  OBVIOUS
<1>2. Receipts(Tail(s)) \subseteq Receipts(s)
  BY <1>1 DEF Receipts
<1>3. Headers(Tail(s)) \subseteq Headers(s)
  BY <1>1 DEF Headers
<1>4. Verdicts(Tail(s)) \subseteq Verdicts(s)
  BY <1>1 DEF Verdicts
<1>5. ASSUME InOrder(s), NEW i \in 1 .. Len(Tail(s)), NEW k \in 1 .. Len(Tail(s)), i < k,
             Tail(s)[i].kind = "header", Tail(s)[k].kind = "header"
      PROVE  Tail(s)[i].id < Tail(s)[k].id
  BY <1>1, <1>5 DEF InOrder
<1> QED
  BY <1>2, <1>3, <1>4, <1>5 DEF InOrder

(* The first of a pipe; a request is older than all behind it.             *)
LEMMA PipeHead ==
  ASSUME NEW s \in Seq(Items), s # <<>>
  PROVE  /\ Head(s).kind \in {"final", "fresh"} => <<Head(s).id, Head(s).what>> \in Receipts(s)
         /\ Head(s).kind = "final" => Head(s).what \in Verdicts(s)
         /\ Head(s).kind = "header" =>
              /\ Head(s).id \in Headers(s)
              /\ InOrder(s) => \A h \in Headers(Tail(s)) : Head(s).id < h
<1>1. /\ 1 \in 1 .. Len(s) /\ Head(s) = s[1] /\ Len(s) \in Nat /\ Len(Tail(s)) = Len(s) - 1
      /\ \A i \in 1 .. Len(Tail(s)) : i + 1 \in 1 .. Len(s) /\ Tail(s)[i] = s[i + 1] /\ 1 < i + 1
  OBVIOUS
<1>2. ASSUME s[1].kind = "header", InOrder(s), NEW i \in 1 .. Len(Tail(s)), Tail(s)[i].kind = "header"
      PROVE  s[1].id < Tail(s)[i].id
  BY <1>1, <1>2 DEF InOrder
<1>3. Head(s).kind = "header" /\ InOrder(s) => \A h \in Headers(Tail(s)) : Head(s).id < h
  BY <1>1, <1>2 DEF Headers
<1> QED
  BY <1>1, <1>3 DEF Receipts, Headers, Verdicts

LEMMA PipeAppend ==
  ASSUME NEW s \in Seq(Items), NEW x \in Items
  PROVE  LET t == Append(s, x) IN
         /\ Receipts(t) \subseteq Receipts(s) \cup {<<x.id, x.what>>}
         /\ x.kind \notin {"final", "fresh"} => Receipts(t) \subseteq Receipts(s)
         /\ Verdicts(t) \subseteq Verdicts(s) \cup {x.what}
         /\ x.kind # "final" => Verdicts(t) \subseteq Verdicts(s)
<1> DEFINE t == Append(s, x)
<1>1. /\ Len(t) = Len(s) + 1 /\ Len(s) \in Nat
      /\ \A i \in 1 .. Len(t) : (i \in 1 .. Len(s) /\ t[i] = s[i]) \/ t[i] = x
  OBVIOUS
<1> HIDE DEF t
<1>2. /\ Receipts(t) \subseteq Receipts(s) \cup {<<x.id, x.what>>}
      /\ x.kind \notin {"final", "fresh"} => Receipts(t) \subseteq Receipts(s)
  BY <1>1 DEF Receipts
<1>3. /\ Verdicts(t) \subseteq Verdicts(s) \cup {x.what}
      /\ x.kind # "final" => Verdicts(t) \subseteq Verdicts(s)
  BY <1>1 DEF Verdicts
<1> QED
  BY <1>2, <1>3 DEF t

LEMMA PipeSubSeq ==
  ASSUME NEW s \in Seq(Items), NEW n \in 0 .. Len(s)
  PROVE  Receipts(SubSeq(s, n + 1, Len(s))) \subseteq Receipts(s)
<1> DEFINE t == SubSeq(s, n + 1, Len(s))
<1>1. \A i \in n + 1 .. Len(s) : s[i] \in Items
  OBVIOUS
<1>2. /\ Len(s) \in Nat /\ Len(t) = Len(s) - n
      /\ \A i \in 1 .. Len(t) : i + n \in 1 .. Len(s) /\ t[i] = s[i + n]
  BY <1>1, SubSeqProperties
<1> HIDE DEF t
<1>3. Receipts(t) \subseteq Receipts(s)
  BY <1>2 DEF Receipts
<1> QED
  BY <1>3 DEF t

(* A fresh receipt that is read again as a plain one says the same.        *)
LEMMA PipeAgain ==
  ASSUME NEW s \in Seq(Items), s # <<>>, Head(s).kind = "fresh"
  PROVE  Receipts(<<[Head(s) EXCEPT !.kind = "final"]>> \o Tail(s)) \subseteq Receipts(s)
<1> DEFINE y == [Head(s) EXCEPT !.kind = "final"]
           t == <<y>> \o Tail(s)
<1>1. Head(s) = s[1] /\ 1 \in 1 .. Len(s) /\ Len(s) \in Nat /\ Tail(s) \in Seq(Items) /\ Len(Tail(s)) = Len(s) - 1
  OBVIOUS
<1>2. y.id = s[1].id /\ y.what = s[1].what /\ y \in Items
  <2>1. "final" \in Kinds /\ Head(s) \in Items
    BY DEF Kinds
  <2> QED
    BY <1>1, <2>1, KindIs
<1> HIDE DEF y
<1>3. /\ Len(t) = Len(s)
      /\ \A i \in 1 .. Len(t) : (i = 1 /\ t[i] = y) \/ (i # 1 /\ t[i] = s[i])
  <2>1. <<y>> \in Seq(Items) /\ Len(<<y>>) = 1 /\ <<y>>[1] = y
    BY <1>2
  <2>2. /\ Len(t) = 1 + Len(Tail(s))
        /\ \A i \in 1 .. Len(t) : t[i] = IF i <= 1 THEN <<y>>[i] ELSE Tail(s)[i - 1]
    BY <1>1, <2>1
  <2>3. \A i \in 1 .. Len(s) : i # 1 => Tail(s)[i - 1] = s[i]
    BY <1>1
  <2>4. Len(t) = Len(s)
    BY <1>1, <2>2
  <2>5. ASSUME NEW i \in 1 .. Len(t)
        PROVE  (i = 1 /\ t[i] = y) \/ (i # 1 /\ t[i] = s[i])
    <3>1. CASE i = 1
      <4>1. 1 \in 1 .. Len(t) /\ 1 <= 1
        BY <3>1
      <4>2. t[1] = <<y>>[1]
        BY <2>2, <4>1
      <4> QED
        BY <2>1, <3>1, <4>2
    <3>2. CASE i # 1
      <4>1. ~(i <= 1) /\ i \in 1 .. Len(s)
        BY <1>1, <2>4, <3>2
      <4> QED
        BY <2>2, <2>3, <3>2, <4>1
    <3> QED
      BY <3>1, <3>2
  <2> QED
    BY <2>4, <2>5
<1> HIDE DEF t
<1>4. Receipts(t) \subseteq Receipts(s)
  BY <1>1, <1>2, <1>3 DEF Receipts
<1> QED
  BY <1>4 DEF t, y

(* What a request of the runtime adds to its pipe.                         *)
LEMMA AskedItems ==
  ASSUME NEW s \in Seq(Items), NEW n \in Nat
  PROVE  LET t == s \o [i \in 1 .. 3 |-> Item(<<"separator", "header", "body">>[i], n, "request")]
         IN  /\ t \in Seq(Items)
             /\ Headers(t) \subseteq Headers(s) \cup {n}
             /\ InOrder(s) /\ (\A h \in Headers(s) : h < n) => InOrder(t)
<1> DEFINE kinds == <<"separator", "header", "body">>
           asks == [i \in 1 .. 3 |-> Item(kinds[i], n, "request")]
           t == s \o asks
<1>1. "request" \in Whats /\ \A i \in 1 .. 3 : kinds[i] \in Kinds
  <2>1. \A i \in 1 .. 3 : kinds[i] \in {"separator", "header", "body"}
    OBVIOUS
  <2> QED
    BY <2>1 DEF Whats, Kinds
<1>2. \A i \in 1 .. 3 : asks[i] \in Items /\ asks[i].id = n /\ (asks[i].kind = "header" => i = 2)
  <2>1. \A i \in 1 .. 3 : kinds[i] = "header" => i = 2
    OBVIOUS
  <2> QED
    BY <1>1, <2>1, ItemIs
<1> HIDE DEF kinds
<1>3. asks \in Seq(Items) /\ Len(asks) = 3
  BY <1>2
<1> HIDE DEF asks
<1>4. /\ t \in Seq(Items) /\ Len(t) = Len(s) + 3 /\ Len(s) \in Nat
      /\ \A i \in 1 .. Len(t) : t[i] = IF i <= Len(s) THEN s[i] ELSE asks[i - Len(s)]
  <2>1. t \in Seq(Items) /\ Len(t) = Len(s) + Len(asks) /\ Len(s) \in Nat
    BY <1>3, ConcatProperties, LenProperties
  <2>2. \A i \in 1 .. Len(s) + Len(asks) : t[i] = IF i <= Len(s) THEN s[i] ELSE asks[i - Len(s)]
    BY <1>3, ConcatProperties
  <2> QED
    BY <1>3, <2>1, <2>2
<1> HIDE DEF t
<1>5. \A i \in 1 .. Len(t) :
        \/ i \in 1 .. Len(s) /\ t[i] = s[i]
        \/ /\ i \notin 1 .. Len(s) /\ t[i].id = n
           /\ t[i].kind = "header" => i = Len(s) + 2
  <2>1. ASSUME NEW i \in 1 .. Len(t), ~(i <= Len(s))
        PROVE  i - Len(s) \in 1 .. 3 /\ t[i] = asks[i - Len(s)]
    BY <1>4, <2>1
  <2>2. ASSUME NEW i \in 1 .. Len(t), ~(i <= Len(s))
        PROVE  t[i].id = n /\ (t[i].kind = "header" => i = Len(s) + 2)
    <3>1. t[i].id = n /\ (t[i].kind = "header" => i - Len(s) = 2)
      BY <1>2, <2>1, <2>2
    <3> QED
      BY <1>4, <3>1
  <2> QED
    BY <1>4, <2>2
<1>6. Headers(t) \subseteq Headers(s) \cup {n}
  BY <1>5 DEF Headers
<1>7. ASSUME InOrder(s), \A h \in Headers(s) : h < n, NEW i \in 1 .. Len(t), NEW k \in 1 .. Len(t),
             i < k, t[i].kind = "header", t[k].kind = "header"
      PROVE  t[i].id < t[k].id
  <2>1. CASE k \in 1 .. Len(s) /\ t[k] = s[k]
    <3>1. i \in 1 .. Len(s) /\ t[i] = s[i]
      BY <1>4, <1>5, <1>7, <2>1
    <3> QED
      BY <1>7, <2>1, <3>1 DEF InOrder
  <2>2. CASE t[k].id = n /\ k = Len(s) + 2 
    <3>1. i \in 1 .. Len(s) /\ t[i] = s[i]
      BY <1>4, <1>5, <1>7, <2>2
    <3> QED
      BY <1>7, <2>2, <3>1 DEF Headers
  <2> QED
    BY <1>5, <1>7, <2>1, <2>2
<1> QED
  BY <1>4, <1>6, <1>7 DEF InOrder, t, asks, kinds
-----------------------------------------------------------------------------
(* Every step keeps the shapes.                                            *)
LEMMA RpcCancelShape ==
  ASSUME Shaped, RpcCancel
  PROVE  cur' \in RelayType /\ next' \in RelayType /\ event' \in EventType
  BY CanceledIs, NoRelayIs, EventIs DEF RpcCancel, Shaped

LEMMA BeginShape ==
  ASSUME NEW j \in RelayType, Begin(j)
  PROVE  cur' \in RelayType /\ worker' \in WorkerType
  BY RelayFailIs, WorkerIs DEF Begin

LEMMA TurnShape ==
  ASSUME Shaped
  PROVE  Settled(turn) \in TurnType /\ ChildStop(turn) \in TurnType
  BY DEF Shaped, Settled, ChildStop, TurnType

LEMMA RelayingShape ==
  ASSUME Shaped, Relaying
  PROVE  /\ Head(worker.out) \in Items /\ Head(worker.out).what \in Whats /\ cur.id \in Nat
         /\ [worker EXCEPT !.out = Tail(@)] \in WorkerType
         /\ [worker EXCEPT !.out = <<>>] \in WorkerType
<1>1. worker.out \in Seq(Items) /\ worker.out # <<>> /\ <<>> \in Seq(Items)
  BY DEF Shaped, WorkerType, Relaying
<1>2. /\ Head(worker.out) \in Items /\ Tail(worker.out) \in Seq(Items)
      /\ Head(worker.out).what \in Whats
  BY <1>1, FirstIs
<1>3. ASSUME NEW s \in Seq(Items)
      PROVE  [worker EXCEPT !.out = s] \in WorkerType
  BY <1>1 DEF Shaped, WorkerType
<1> QED
  BY <1>1, <1>2, <1>3 DEF Shaped, RelayType

LEMMA RuntimeShape ==
  ASSUME Shaped
  PROVE  /\ Idle(runtime) \in RuntimeType
         /\ [Idle(runtime) EXCEPT !.latch = FALSE, !.killed = runtime.turn] \in RuntimeType
         /\ \A n \in Nat : [runtime EXCEPT !.part = n] \in RuntimeType
  BY DEF Shaped, Idle, RuntimeType

LEMMA AnsweredShape ==
  ASSUME Shaped, NEW ok \in BOOLEAN, Answered(ok)
  PROVE  runtime' \in RuntimeType
  BY DEF Shaped, Answered, RuntimeType

LEMMA DrainShaped ==
  ASSUME Shaped, Drain
  PROVE  Shaped'
<1> USE DEF Shaped
<1>1. CASE DrainSeparator
  <2>1. event' \in EventType
    BY <1>1 DEF DrainSeparator, EventType
  <2>2. stdout' \in Seq(Items)
    BY <1>1, FirstIs DEF DrainSeparator
  <2> QED
    BY <1>1, <2>1, <2>2 DEF DrainSeparator, host, log
<1>2. CASE DrainHeader
  <2>1. Head(stdout).id \in Nat /\ stdout' \in Seq(Items)
    BY <1>2, FirstIs DEF DrainHeader
  <2>2. ASSUME NEW id \in Nat, StartRpc(id)
        PROVE  /\ cur' \in RelayType /\ next' \in RelayType
               /\ event' \in EventType /\ worker' \in WorkerType
    <3>1. event' \in EventType
      BY <2>2 DEF StartRpc, EventType
    <3> QED
      BY <2>2, <3>1, NewRelayIs, RevokedIs, BeginShape DEF StartRpc
  <2>3. ASSUME NEW id \in Nat, SendStartError(id)
        PROVE  /\ cur' \in RelayType /\ next' \in RelayType
               /\ event' \in EventType /\ worker' \in WorkerType
    BY <2>3, NewRelayIs, RevokedIs, RelayFailIs, EventIs DEF SendStartError
  <2>4. CASE ~Admissible
    BY <1>2, <2>1, <2>4, EventIs DEF DrainHeader, host, log
  <2>5. CASE Admissible /\ Refuses
    BY <1>2, <2>1, <2>3, <2>5 DEF DrainHeader, host, log
  <2>6. CASE Admissible /\ ~Refuses
    BY <1>2, <2>1, <2>2, <2>6 DEF DrainHeader, host, log
  <2> QED
    BY <2>4, <2>5, <2>6
<1>3. CASE DrainBody
  <2>1. stdout' \in Seq(Items)
    BY <1>3, FirstIs DEF DrainBody
  <2>2. cur' \in RelayType /\ next' \in RelayType
    BY <1>3, CompleteIs DEF DrainBody
  <2> QED
    BY <1>3, <2>1, <2>2, EventIs DEF DrainBody, log
<1>4. CASE DrainWaiting
  <2>1. stderr' \in Seq({"waiting"})
    BY <1>4 DEF DrainWaiting
  <2> QED
    BY <1>4, <2>1, RpcCancelShape, TurnShape DEF DrainWaiting, host, log
<1> QED
  BY <1>1, <1>2, <1>3, <1>4 DEF Drain

LEMMA TickShaped ==
  ASSUME Shaped, Tick
  PROVE  Shaped'
<1> USE DEF Shaped
<1>1. CASE DeliveryDeadline
  BY <1>1, RpcCancelShape, TurnShape DEF DeliveryDeadline, pipes, log
<1>2. CASE RequestDeadline
  BY <1>2, RelayFailIs DEF RequestDeadline, pipes, log
<1>3. CASE ReapWorker
  BY <1>3, WorkerIs DEF ReapWorker, host, pipes, log
<1>4. CASE DeliverFinal
  <2>1. "final" \in Kinds /\ "fresh" \in Kinds /\ cur.id \in Nat /\ cur.final \in Whats
    BY DEF Kinds, RelayType
  <2>2. Item("final", cur.id, cur.final) \in Items
    BY <2>1, ItemIs
  <2>3. [Item("final", cur.id, cur.final) EXCEPT
           !.kind = IF cur.fresh THEN "fresh" ELSE "final"] \in Items
    BY <2>1, <2>2, KindIs
  <2>4. stdin' \in Seq(Items)
    BY <1>4, <2>3 DEF DeliverFinal
  <2> QED
    BY <1>4, <2>4, BeginShape, NoRelayIs DEF DeliverFinal, Promote, log
<1>5. CASE DropCanceled
  BY <1>5, BeginShape, NoRelayIs DEF DropCanceled, Promote, pipes, log
<1>6. CASE DeliverPiece
  <2> DEFINE whole == Item("tail", cur.id, Head(worker.out).what)
  <2>1. "tail" \in Kinds /\ "head" \in Kinds /\ Head(worker.out).what \in Whats /\ cur.id \in Nat
    BY <1>6, RelayingShape DEF DeliverPiece, Kinds
  <2>2. whole \in Items /\ [whole EXCEPT !.kind = "head"] \in Items
    BY <2>1, ItemIs, KindIs
  <2>3. CASE cur.cut
    <3>1. stdin' = Append(stdin, whole)
      BY <1>6, <2>3 DEF DeliverPiece
    <3>3. Append(stdin, whole) \in Seq(Items)
      BY <2>2
    <3>2. worker' \in WorkerType /\ cur' \in RelayType
      BY <1>6, <2>3, RelayingShape, CutIs DEF DeliverPiece
    <3> QED
      BY <1>6, <3>1, <3>2, <3>3 DEF DeliverPiece, log
  <2>4. CASE ~cur.cut
    <3>1. stdin' = Append(stdin, [whole EXCEPT !.kind = "head"])
      BY <1>6, <2>4 DEF DeliverPiece
    <3>3. Append(stdin, [whole EXCEPT !.kind = "head"]) \in Seq(Items)
      BY <2>2
    <3>2. worker' \in WorkerType /\ cur' \in RelayType
      BY <1>6, <2>4, CutIs DEF DeliverPiece
    <3> QED
      BY <1>6, <3>1, <3>2, <3>3 DEF DeliverPiece, log
  <2> QED
    BY <2>3, <2>4
<1>7. CASE TakeReceipt
  BY <1>7, RelayingShape, ReceivedIs DEF TakeReceipt, pipes, log
<1>8. CASE WorkerLost
  BY <1>8, RelayFailIs DEF WorkerLost, pipes, log
<1>9. CASE OwnerLost
  BY <1>9, RpcCancelShape DEF OwnerLost, pipes, log
<1> QED
  BY <1>1, <1>2, <1>3, <1>4, <1>5, <1>6, <1>7, <1>8, <1>9 DEF Tick

LEMMA UserShaped ==
  ASSUME Shaped, User \/ Reap
  PROVE  Shaped'
<1> USE DEF Shaped
<1>1. CASE Send
  <2>1. user.prompts + 1 \in Nat
    BY DEF UserType
  <2>2. [turn EXCEPT !.task = user.prompts + 1, !.working = TRUE] \in TurnType
    BY <2>1 DEF TurnType
  <2>3. [user EXCEPT !.prompts = user.prompts + 1] \in UserType
    BY <2>1 DEF UserType
  <2>4. stdin' \in Seq(Items)
    BY <1>1, <2>1, ItemIs DEF Send, Kinds, Whats
  <2> QED
    BY <1>1, <2>2, <2>3, <2>4 DEF Send, host
<1>2. CASE Interrupt
  <2>1. user.interrupts + 1 \in Nat /\ user.hit \cup {turn.task} \in SUBSET Nat
    BY DEF UserType, TurnType
  <2>2. user' \in UserType
    BY <1>2, <2>1 DEF UserType, Interrupt
  <2>3. turn' \in TurnType
    BY <1>2 DEF TurnType, Interrupt
  <2>4. runtime' \in RuntimeType
    BY <1>2 DEF RuntimeType, Interrupt
  <2> QED
    BY <1>2, <2>2, <2>3, <2>4, RpcCancelShape DEF Interrupt, pipes
<1>3. CASE Stop
  BY <1>3, RpcCancelShape, TurnShape DEF Stop, pipes, log
<1>4. CASE Reap
  <2>1. turn' \in TurnType
    BY <1>4 DEF TurnType, Reap
  <2>2. runtime' \in RuntimeType
    BY <1>4 DEF RuntimeType, NoRuntime, Reap
  <2> QED
    BY <1>4, <2>1, <2>2, CanceledIs, NoRelayIs, EventIs DEF Reap, log
<1> QED
  BY <1>1, <1>2, <1>3, <1>4 DEF User

LEMMA WorkerShaped ==
  ASSUME Shaped, Worker
  PROVE  Shaped'
<1> USE DEF Shaped
<1>1. worker.out \in Seq(Items) /\ worker.sent \in Nat /\ cur.id \in Nat
  BY DEF WorkerType, RelayType
<1>2. ASSUME NEW s \in Seq(Items), NEW w \in Whats
      PROVE  Emit(s, w) \in Seq(Items) /\ Receipt(s, w) \in Seq(Items)
  BY <1>1, <1>2, ItemIs DEF Emit, Receipt, Kinds
<1>3. ASSUME NEW s \in Seq(Items)
      PROVE  /\ [worker EXCEPT !.out = s] \in WorkerType
             /\ [worker EXCEPT !.out = s, !.sent = @ + 1] \in WorkerType
  <2>1. worker.sent + 1 \in Nat
    BY <1>1
  <2> QED
    BY <1>1, <1>3, <2>1 DEF WorkerType
<1>4. CASE WorkerHears
  <2>1. "text" \in Whats
    BY DEF Whats
  <2>2. Emit(worker.out, "text") \in Seq(Items)
    BY <1>1, <1>2, <2>1
  <2> QED
    BY <1>3, <1>4, <2>2 DEF WorkerHears, host, pipes, log
<1>5. ASSUME NEW end \in Endings, WorkerEnds(end)
      PROVE  Shaped'
  <2> DEFINE word == IF end.ok THEN "stop" ELSE "error"
  <2>1. "tools" \in Whats /\ "tool_calls" \in Whats /\ word \in Whats
    BY DEF Whats
  <2>2. Emit(worker.out, "tools") \in Seq(Items)
    BY <1>1, <1>2, <2>1
  <2>3. /\ Receipt(Emit(worker.out, "tools"), "tool_calls") \in Seq(Items)
        /\ Receipt(worker.out, word) \in Seq(Items)
    BY <1>1, <1>2, <2>1, <2>2
  <2>5. worker' \in WorkerType
    <3>1. ASSUME end.ok /\ end.tools
          PROVE  worker' \in WorkerType
      BY <1>3, <1>5, <2>3, <3>1 DEF WorkerEnds
    <3>2. ASSUME ~(end.ok /\ end.tools)
          PROVE  worker' \in WorkerType
      BY <1>3, <1>5, <2>3, <3>2 DEF WorkerEnds
    <3> QED
      BY <3>1, <3>2
  <2>6. \A n \in {0, 1} : [sent |-> worker.sent + n, batch |-> end.batch] \in MadeType
    BY <1>1, EndingIs DEF MadeType
  <2>7. made' \in MadeType
    BY <1>5, <2>6 DEF WorkerEnds
  <2> QED
    BY <1>5, <2>5, <2>7 DEF WorkerEnds, host, pipes
<1>6. CASE WorkerDies
  <2>1. worker' \in WorkerType
    BY <1>1, <1>6 DEF WorkerType, WorkerDies
  <2> QED
    BY <1>6, <2>1 DEF WorkerDies, host, pipes, log
<1> QED
  BY <1>4, <1>5, <1>6 DEF Worker

LEMMA ReadingShaped ==
  ASSUME Shaped, Reading
  PROVE  Shaped'
<1> USE DEF Shaped
<1>1. ASSUME NEW k, Reads(k), runtime' \in RuntimeType
      PROVE  Shaped'
  BY <1>1, FirstIs DEF Reads, host, log
<1>2. CASE ReadHead
  BY <1>1, <1>2, RuntimeShape, FirstIs DEF ReadHead, Reads
<1>3. CASE ReadTail
  <2>1. runtime.got + 1 \in Nat /\ (Head(stdin).what = "tools") \in BOOLEAN
    BY DEF RuntimeType
  <2>2. ASSUME NEW b \in BOOLEAN
        PROVE  [runtime EXCEPT !.part = 0, !.got = @ + 1, !.tools = b] \in RuntimeType
    BY <2>1 DEF RuntimeType
  <2>3. runtime' \in RuntimeType
    BY <1>3, <2>1, <2>2, RuntimeShape, AnsweredShape DEF ReadTail
  <2> QED
    BY <1>1, <1>3, <2>3 DEF ReadTail
<1>4. CASE ReadPrompt
  BY <1>1, <1>4, RuntimeShape DEF ReadPrompt
<1>5. CASE ReadFinal
  <2>1. \A w : Agrees(w) \in BOOLEAN
    BY DEF Agrees
  <2> QED
    BY <1>1, <1>5, <2>1, AnsweredShape DEF ReadFinal
<1>6. CASE ReadFresh
  <2>1. stdin # <<>> /\ "final" \in Kinds
    BY <1>6 DEF ReadFresh, Kinds
  <2>2. [Head(stdin) EXCEPT !.kind = "final"] \in Items /\ Tail(stdin) \in Seq(Items)
    BY <2>1, FirstIs, KindIs
  <2>3. <<[Head(stdin) EXCEPT !.kind = "final"]>> \o Tail(stdin) \in Seq(Items)
    BY <2>2
  <2>4. runtime' \in RuntimeType
    BY <1>6, RuntimeShape, AnsweredShape DEF ReadFresh
  <2>5. stdin' \in Seq(Items)
    BY <1>6, <2>2, <2>3 DEF ReadFresh
  <2> QED
    BY <1>6, <2>4, <2>5 DEF ReadFresh, host, log
<1> QED
  BY <1>2, <1>3, <1>4, <1>5, <1>6 DEF Reading

LEMMA RuntimeShaped ==
  ASSUME Shaped, Runtime
  PROVE  Shaped'
<1> USE DEF Shaped
<1>1. Announce => stderr' \in Seq({"waiting"})
  BY DEF Announce
<1>2. ASSUME NEW n \in 1 .. 2, TakePrompt(n)
      PROVE  Shaped'
  <2>1. n \in 1 .. Len(stdin)
    BY <1>2 DEF TakePrompt
  <2>2. SubSeq(stdin, 1, n) \in Seq(Items) /\ SubSeq(stdin, n + 1, Len(stdin)) \in Seq(Items)
    BY <2>1, SubSeqProperties
  <2>3. ASSUME NEW s \in Seq(Items)
        PROVE  Whole(s) \in Nat
    <3>1. Len(s) = 1 => s[1] \in Items
      <4>1. Len(s) = 1 => 1 \in 1 .. Len(s)
        OBVIOUS
      <4> QED
        BY <4>1, ItemsOf
    <3> QED
      BY <3>1 DEF Whole, Items
  <2>4. ASSUME NEW t \in Nat, NEW a \in {"asking", "answered"}
        PROVE  [runtime EXCEPT !.at = a, !.turn = t, !.killed = 0] \in RuntimeType
    BY DEF RuntimeType
  <2>5. runtime' \in RuntimeType
    BY <1>2, <2>2, <2>3, <2>4 DEF TakePrompt
  <2> QED
    BY <1>2, <2>2, <2>5 DEF TakePrompt, host, log
<1>3. CASE Ask
  <2> DEFINE asks == [i \in 1 .. 3 |->
               Item(<<"separator", "header", "body">>[i], runtime.asked + 1, "request")]
  <2>1. runtime.asked + 1 \in Nat
    BY DEF RuntimeType
  <2>2. stdout' \in Seq(Items)
    <3>1. stdout \o asks \in Seq(Items)
      BY <2>1, AskedItems
    <3>2. stdout' = stdout \o asks \/ stdout' = stdout
      BY <1>3 DEF Ask
    <3> QED
      BY <3>1, <3>2
  <2>3. [runtime EXCEPT !.at = "reading", !.asked = @ + 1, !.request = runtime.asked + 1,
                        !.part = 0, !.tools = FALSE, !.got = 0] \in RuntimeType
    BY <2>1 DEF RuntimeType
  <2>4. runtime' \in RuntimeType
    BY <1>3, <2>3, RuntimeShape DEF Ask, Interrupted
  <2>5. NothingMade \in MadeType
    BY DEF NothingMade, MadeType
  <2> QED
    BY <1>1, <1>3, <2>2, <2>4, <2>5 DEF Ask, host
<1>4. CASE Abort
  BY <1>1, <1>4, RuntimeShape DEF Abort, Interrupted, host, log
<1>5. CASE Reading
  BY <1>5, ReadingShaped
<1>6. CASE IdleOut
  BY <1>6, AnsweredShape DEF IdleOut, host, pipes, log
<1>7. CASE GoOn
  <2>1. runtime' \in RuntimeType
    BY <1>7 DEF RuntimeType, GoOn
  <2> QED
    BY <1>7, <2>1 DEF GoOn, host, pipes, log
<1>8. CASE EndTurn
  BY <1>1, <1>8, RuntimeShape DEF EndTurn, host, log
<1>9. CASE RuntimeDies
  <2>1. runtime' \in RuntimeType
    BY <1>9 DEF RuntimeType, NoRuntime, RuntimeDies
  <2> QED
    BY <1>9, <2>1 DEF RuntimeDies, host, pipes, log
<1> QED
  BY <1>2, <1>3, <1>4, <1>5, <1>6, <1>7, <1>8, <1>9 DEF Runtime

LEMMA NextShaped ==
  ASSUME Shaped, [Next]_vars
  PROVE  Shaped'
<1>1. CASE UNCHANGED vars
  BY <1>1 DEF Shaped, vars, host, pipes, log
<1> QED
  BY <1>1, DrainShaped, TickShaped, UserShaped, WorkerShaped, RuntimeShaped DEF Next
-----------------------------------------------------------------------------
(* The receipt of the request id is out: nothing that may still answer, in *)
(* the host or on its way to it, has that number.                          *)
Behind(id) ==
  /\ IsRelay(cur) => id < cur.id
  /\ IsRelay(next) => id < next.id
  /\ \A h \in Headers(stdout) : id < h

(* While an interrupted turn has not ended, no relay may deliver.          *)
Silent == turn.pending => ~IsRelay(next) /\ (IsRelay(cur) => cur.canceled)

(* Requests are numbered as they come.                                     *)
Ordered ==
  /\ IsRelay(next) => cur.id < next.id
  /\ \A h \in Headers(stdout) : cur.id < h /\ next.id < h
  /\ InOrder(stdout)

(* A receipt in the pipe is the last word on its request.                  *)
Delivered == \A r \in Receipts(stdin) : r[1] # 0 /\ Behind(r[1])

(* The runtime has made every request there is.                            *)
Alive == runtime.at \notin {"dead", "gone"}
Asked ==
  Alive => /\ cur.id <= runtime.asked /\ next.id <= runtime.asked
           /\ runtime.request <= runtime.asked
           /\ \A h \in Headers(stdout) : h <= runtime.asked
           /\ \A r \in Receipts(stdin) : r[1] <= runtime.asked

(* Only a relay has a worker that says something, and a relay with a       *)
(* receipt has told its worker to leave.                                   *)
OfCur == ~IsRelay(cur) => worker.out = <<>> /\ cur.final # "tool_calls"
Stops ==
  /\ cur.final # "none" => cur.stopping
  /\ next.final = "none" \/ (next.final = "error" /\ next.stopping)

(* A receipt that says tools and answers the runtime's request is of a     *)
(* whole batch, wherever it is: said, taken, or on its way.                *)
Batched ==
  /\ \A r \in Receipts(stdin) : r = <<runtime.request, "tool_calls">> => made.batch
  /\ cur.id = runtime.request =>
       ("tool_calls" \in Verdicts(worker.out) \/ cur.final = "tool_calls" => made.batch)

(* What the runtime counted, and when it has a request.                    *)
Counted ==
  /\ runtime.at # "answered" => runtime.result = "none"
  /\ runtime.at \in {"dead", "gone", "idle"} => runtime.request = 0
  /\ runtime.result = "tools" =>
       made.batch /\ runtime.request # 0 /\ Behind(runtime.request)

HostPart == PendingWaitsForCanceled /\ Silent /\ OfCur /\ Stops
PipePart == Ordered /\ Delivered /\ Asked /\ Batched /\ Counted
RpcInv == Shaped /\ HostPart /\ PipePart

LEMMA Numbers ==
  ASSUME Shaped
  PROVE  /\ cur.id \in Nat /\ next.id \in Nat
         /\ runtime.asked \in Nat /\ runtime.request \in Nat
         /\ worker.out \in Seq(Items)
         /\ \A h \in Headers(stdout) : h \in Nat
         /\ \A r \in Receipts(stdin) : r[1] \in Nat
  BY PipeIds DEF Shaped, RelayType, RuntimeType, WorkerType
-----------------------------------------------------------------------------
(* The host: a second relay, silence, the worker and its receipt.          *)
LEMMA CancelHost ==
  ASSUME Shaped, HostPart, RpcCancel, UNCHANGED worker
  PROVE  /\ PendingWaitsForCanceled' /\ OfCur' /\ Stops'
         /\ ~IsRelay(next') /\ (IsRelay(cur') => cur'.canceled)
  BY NoRelayIs, CanceledIs DEF Shaped, RpcCancel, HostPart, PendingWaitsForCanceled, OfCur,
     Stops, IsRelay

LEMMA PromoteHost ==
  ASSUME Shaped, HostPart, Promote, UNCHANGED turn
  PROVE  HostPart'
  BY NoRelayIs, RelayFailIs, WorkerIs DEF Shaped, Promote, Begin, HostPart,
     PendingWaitsForCanceled, Silent, OfCur, Stops, IsRelay

LEMMA StartHost ==
  ASSUME Shaped, HostPart, NEW id \in Nat, StartRpc(id), Admissible, ~Refuses, UNCHANGED turn
  PROVE  HostPart'
<1> USE DEF HostPart, PendingWaitsForCanceled, Silent, Admissible, Refuses
<1>1. CASE IsRelay(cur)
  BY <1>1, NewRelayIs, RevokedIs DEF Shaped, StartRpc, IsRelay, OfCur, Stops
<1>2. CASE ~IsRelay(cur)
  BY <1>2, NewRelayIs, RelayFailIs, WorkerIs DEF Shaped, StartRpc, Begin, IsRelay, OfCur, Stops
<1> QED
  BY <1>1, <1>2

LEMMA RefuseHost ==
  ASSUME Shaped, HostPart, NEW id \in Nat, SendStartError(id), Admissible, UNCHANGED turn
  PROVE  HostPart'
<1> USE NewRelayIs, RelayFailIs, RevokedIs
    DEF HostPart, Admissible, Shaped, SendStartError, IsRelay
<1>1. PendingWaitsForCanceled' /\ Silent'
  BY DEF PendingWaitsForCanceled, Silent
<1>2. OfCur' /\ Stops'
  BY DEF PendingWaitsForCanceled, OfCur, Stops
<1> QED
  BY <1>1, <1>2

LEMMA DrainHost ==
  ASSUME Shaped, HostPart, Drain
  PROVE  HostPart'
<1> USE DEF Shaped, IsRelay
<1>1. CASE DrainSeparator
  BY <1>1 DEF DrainSeparator, host, HostPart, PendingWaitsForCanceled, Silent, OfCur, Stops
<1>2. CASE DrainHeader
  <2>1. Head(stdout).id \in Nat
    BY <1>2, FirstIs DEF DrainHeader
  <2>2. CASE ~Admissible
    BY <1>2, <2>2 DEF DrainHeader, host, HostPart, PendingWaitsForCanceled, Silent, OfCur, Stops
  <2>3. CASE Admissible /\ Refuses
    BY <1>2, <2>1, <2>3, RefuseHost DEF DrainHeader
  <2>4. CASE Admissible /\ ~Refuses
    BY <1>2, <2>1, <2>4, StartHost DEF DrainHeader
  <2> QED
    BY <2>2, <2>3, <2>4
<1>3. CASE DrainBody
  <2>1. /\ cur'.id = cur.id /\ cur'.canceled = cur.canceled
        /\ cur'.final = cur.final /\ cur'.stopping = cur.stopping
    BY <1>3, CompleteIs DEF DrainBody
  <2>2. /\ next'.id = next.id
        /\ next'.final = next.final /\ next'.stopping = next.stopping
    BY <1>3, CompleteIs DEF DrainBody
  <2>3. UNCHANGED <<worker, turn>>
    BY <1>3 DEF DrainBody
  <2> QED
    BY <2>1, <2>2, <2>3 DEF HostPart, PendingWaitsForCanceled, Silent, OfCur, Stops
<1>4. CASE DrainWaiting
  <2>1. CASE turn.stop
    BY <1>4, <2>1 DEF DrainWaiting, host, HostPart, PendingWaitsForCanceled, Silent, OfCur, Stops
  <2>2. CASE ~turn.stop
    BY <1>4, <2>2, CancelHost DEF DrainWaiting, HostPart, Silent
  <2> QED
    BY <2>1, <2>2
<1> QED
  BY <1>1, <1>2, <1>3, <1>4 DEF Drain

LEMMA TickHost ==
  ASSUME Shaped, HostPart, Tick
  PROVE  HostPart'
<1> USE DEF Shaped, IsRelay
<1>1. CASE DeliveryDeadline
  BY <1>1, CancelHost DEF DeliveryDeadline, HostPart, Silent
<1>2. CASE RequestDeadline \/ WorkerLost
  BY <1>2, RelayFailIs DEF RequestDeadline, WorkerLost, Live, HostPart,
     PendingWaitsForCanceled, Silent, OfCur, Stops
<1>3. CASE ReapWorker
  BY <1>3, WorkerIs DEF ReapWorker, host, HostPart, PendingWaitsForCanceled, Silent, OfCur, Stops
<1>4. CASE DeliverFinal \/ DropCanceled
  BY <1>4, PromoteHost DEF DeliverFinal, DropCanceled
<1>5. CASE DeliverPiece
  <2>1. /\ cur'.id = cur.id /\ cur'.canceled = cur.canceled
        /\ cur'.final = cur.final /\ cur'.stopping = cur.stopping
    BY <1>5, CutIs DEF DeliverPiece
  <2>2. IsRelay(cur) /\ UNCHANGED <<next, turn>>
    BY <1>5 DEF DeliverPiece, Relaying, Live
  <2> QED
    BY <2>1, <2>2 DEF HostPart, PendingWaitsForCanceled, Silent, OfCur, Stops
<1>6. CASE TakeReceipt
  BY <1>6, RelayingShape, ReceivedIs DEF TakeReceipt, Relaying, Live, HostPart,
     PendingWaitsForCanceled, Silent, OfCur, Stops
<1>7. CASE OwnerLost
  BY <1>7, CancelHost DEF OwnerLost, HostPart, Silent
<1> QED
  BY <1>1, <1>2, <1>3, <1>4, <1>5, <1>6, <1>7 DEF Tick

LEMMA OtherHost ==
  ASSUME Shaped, HostPart, User \/ Reap \/ Worker \/ Runtime
  PROVE  HostPart'
<1>1. CASE Send
  BY <1>1 DEF Send, host, HostPart, PendingWaitsForCanceled, Silent, OfCur, Stops, Shaped, TurnType
<1>2. CASE Interrupt \/ Stop
  BY <1>2, CancelHost DEF Interrupt, Stop, HostPart, Silent
<1>3. CASE Reap
  BY <1>3, NoRelayIs, CanceledIs DEF Reap, Shaped, TurnType, IsRelay, HostPart,
     PendingWaitsForCanceled, Silent, OfCur, Stops
<1>4. CASE Worker
  <2>1. UNCHANGED <<host, turn>> /\ (worker'.out = worker.out \/ IsRelay(cur))
    BY <1>4 DEF Worker, WorkerHears, WorkerEnds, WorkerDies, Working, Shaped, WorkerType
  <2> QED
    BY <2>1 DEF host, HostPart, PendingWaitsForCanceled, Silent, OfCur, Stops
<1>5. CASE Runtime
  <2>1. UNCHANGED <<host, turn, worker>>
    BY <1>5 DEF Runtime, TakePrompt, Ask, Abort, Reading, ReadHead, ReadTail, ReadPrompt,
       ReadFinal, ReadFresh, Reads, IdleOut, GoOn, EndTurn, RuntimeDies
  <2> QED
    BY <2>1 DEF host, HostPart, PendingWaitsForCanceled, Silent, OfCur, Stops
<1> QED
  BY <1>1, <1>2, <1>3, <1>4, <1>5 DEF User
-----------------------------------------------------------------------------
(* The numbers and the receipts.  Most steps add no number and no receipt. *)
Quiet ==
  /\ cur'.id = cur.id /\ (next'.id = next.id \/ next'.id = 0)
  /\ cur'.final \in {cur.final, "none", "error"}
  /\ Headers(stdout') \subseteq Headers(stdout) /\ (InOrder(stdout) => InOrder(stdout'))
  /\ Receipts(stdin') \subseteq Receipts(stdin)
  /\ Verdicts(worker'.out) \subseteq Verdicts(worker.out)
  /\ runtime'.request \in {runtime.request, 0} /\ made' = made
  /\ Alive' => Alive /\ runtime'.asked = runtime.asked

(* The runtime counts nothing new.                                         *)
Steady ==
  /\ runtime'.at # "answered" => runtime'.result = "none"
  /\ runtime'.at \in {"dead", "gone", "idle"} => runtime'.request = 0
  /\ runtime'.result = "tools" =>
       runtime.result = "tools" /\ runtime'.request = runtime.request

LEMMA QuietKeeps ==
  ASSUME Shaped, HostPart, PipePart, Quiet
  PROVE  /\ Ordered' /\ Delivered' /\ Asked' /\ Batched'
         /\ \A id \in Nat : Behind(id) => Behind(id)'
<1> USE Numbers DEF Quiet, IsRelay
<1>1. Ordered'
  BY DEF PipePart, Ordered
<1>2. \A id \in Nat : Behind(id) => Behind(id)'
  BY DEF Behind
<1>3. Delivered'
  BY DEF PipePart, Delivered, Behind
<1>4. Asked'
  BY DEF PipePart, Asked
<1>5. Batched'
  BY PipeEmpty DEF HostPart, OfCur, PipePart, Batched, Delivered
<1> QED
  BY <1>1, <1>2, <1>3, <1>4, <1>5

LEMMA QuietSteady ==
  ASSUME Shaped, HostPart, PipePart, Quiet, Steady
  PROVE  PipePart'
<1>1. \A id \in Nat : Behind(id) => Behind(id)'
  BY QuietKeeps
<1>2. ASSUME runtime'.result = "tools"
      PROVE  made'.batch /\ runtime'.request # 0 /\ Behind(runtime.request)'
  <2>1. /\ runtime'.request = runtime.request /\ runtime.request # 0
        /\ Behind(runtime.request) /\ made'.batch
    BY <1>2 DEF PipePart, Counted, Steady, Quiet
  <2>2. PICK id \in Nat : id = runtime.request
    BY Numbers
  <2>3. Behind(id)'
    BY <1>1, <2>1, <2>2
  <2> QED
    BY <2>1, <2>2, <2>3 DEF Behind
<1>3. Counted'
  BY <1>2 DEF Counted, Steady
<1> QED
  BY <1>3, QuietKeeps DEF PipePart

(* The runtime is as it was.                                               *)
LEMMA SameRuntime ==
  ASSUME PipePart, UNCHANGED runtime
  PROVE  Steady
  BY DEF PipePart, Counted, Steady

(* A request that is admitted is the newest one.                           *)
LEMMA AdmitKeeps ==
  ASSUME Shaped, HostPart, PipePart, NEW h \in Headers(stdout),
         Headers(stdout') \subseteq Headers(stdout), InOrder(stdout'),
         \A x \in Headers(stdout') : h < x,
         UNCHANGED <<runtime, stdin, made>>,
         \/ /\ cur'.id = cur.id /\ next'.id = h /\ cur'.final = cur.final
            /\ worker' = worker /\ IsRelay(cur)
         \/ /\ cur'.id = h /\ next' = next /\ cur'.final \in {"none", "error"}
            /\ worker'.out = <<>> /\ ~IsRelay(cur) /\ ~IsRelay(next)
  PROVE  PipePart'
<1> USE Numbers DEF IsRelay
<1>1. \A id \in Nat : Behind(id) => Behind(id)'
  BY DEF Behind
<1>2. Ordered'
  BY DEF PipePart, Ordered
<1>3. Delivered'
  BY DEF PipePart, Delivered, Behind
<1>4. Asked'
  BY DEF PipePart, Asked, Alive
<1>5. Batched'
  BY PipeEmpty DEF PipePart, Batched
<1>6. Counted'
  BY <1>1 DEF PipePart, Counted, Behind
<1> QED
  BY <1>2, <1>3, <1>4, <1>5, <1>6 DEF PipePart

LEMMA DrainPipes ==
  ASSUME Shaped, HostPart, PipePart, Drain
  PROVE  PipePart'
<1> USE DEF Shaped, IsRelay
<1>0. UNCHANGED <<runtime, stdin, made>> /\ Steady
  BY SameRuntime DEF Drain, DrainSeparator, DrainHeader, DrainBody, DrainWaiting, log
<1>1. CASE DrainSeparator
  BY <1>0, <1>1, PipeTail, QuietSteady DEF DrainSeparator, host, Quiet, Alive
<1>2. CASE DrainHeader
  <2> DEFINE h == Head(stdout).id
  <2>1. /\ h \in Nat /\ h \in Headers(stdout) /\ stdout' = Tail(stdout)
        /\ Headers(Tail(stdout)) \subseteq Headers(stdout) /\ InOrder(Tail(stdout))
        /\ \A x \in Headers(Tail(stdout)) : h < x
    BY <1>2, FirstIs, PipeTail, PipeHead DEF DrainHeader, PipePart, Ordered
  <2>2. CASE ~Admissible
    BY <1>0, <1>2, <2>1, <2>2, QuietSteady DEF DrainHeader, host, Quiet, Alive
  <2>3. CASE Admissible /\ Refuses
    <3>1. SendStartError(h)
      BY <1>2, <2>3 DEF DrainHeader
    <3>2. CASE (IsRelay(next) /\ ~next.canceled) \/ (IsRelay(cur) /\ ~cur.canceled)
      <4>1. /\ cur'.id = cur.id /\ next'.id = next.id /\ cur'.final \in {cur.final, "error"}
            /\ UNCHANGED worker
        BY <3>1, <3>2, RelayFailIs DEF SendStartError
      <4> QED
        BY <1>0, <2>1, <4>1, QuietSteady DEF Quiet, Alive
    <3>3. CASE ~((IsRelay(next) /\ ~next.canceled) \/ (IsRelay(cur) /\ ~cur.canceled))
      <4>1. IsRelay(cur)
        BY <2>3 DEF Refuses, HostPart, PendingWaitsForCanceled
      <4>2. /\ cur'.id = cur.id /\ next'.id = h /\ cur'.final = cur.final
            /\ worker' = worker
        BY <2>1, <3>1, <3>3, <4>1, NewRelayIs, RelayFailIs, RevokedIs DEF SendStartError
      <4> QED
        BY <1>0, <2>1, <4>1, <4>2, AdmitKeeps
    <3> QED
      BY <3>2, <3>3
  <2>4. CASE Admissible /\ ~Refuses
    <3>1. StartRpc(h)
      BY <1>2, <2>4 DEF DrainHeader
    <3>2. CASE IsRelay(cur)
      <4>1. /\ cur'.id = cur.id /\ next'.id = h /\ cur'.final = cur.final
            /\ worker' = worker
        BY <2>1, <3>1, <3>2, NewRelayIs, RevokedIs DEF StartRpc
      <4> QED
        BY <1>0, <2>1, <3>2, <4>1, AdmitKeeps
    <3>3. CASE ~IsRelay(cur)
      <4>1. ~IsRelay(next)
        BY <3>3 DEF HostPart, PendingWaitsForCanceled
      <4>2. next' = next /\ Begin(NewRelay(h))
        BY <3>1, <3>3 DEF StartRpc
      <4>3. /\ NewRelay(h) \in RelayType /\ NewRelay(h).id = h /\ NewRelay(h).final = "none"
        BY <2>1, NewRelayIs
      <4>4. /\ cur'.id = h /\ cur'.final \in {"none", "error"} /\ worker'.out = <<>>
        BY <4>2, <4>3, RelayFailIs, WorkerIs DEF Begin
      <4> QED
        BY <1>0, <2>1, <3>3, <4>1, <4>2, <4>4, AdmitKeeps
    <3> QED
      BY <3>2, <3>3
  <2> QED
    BY <2>2, <2>3, <2>4
<1>3. CASE DrainBody
  <2>1. cur'.id = cur.id /\ next'.id = next.id /\ cur'.final = cur.final
    BY <1>3, CompleteIs DEF DrainBody
  <2>2. stdout' = Tail(stdout) /\ stdout # <<>> /\ UNCHANGED worker
    BY <1>3 DEF DrainBody
  <2> QED
    BY <1>0, <2>1, <2>2, PipeTail, QuietSteady DEF Quiet, Alive
<1>4. CASE DrainWaiting
  BY <1>0, <1>4, CanceledIs, NoRelayIs, QuietSteady
     DEF DrainWaiting, RpcCancel, host, Quiet, Alive
<1> QED
  BY <1>1, <1>2, <1>3, <1>4 DEF Drain

(* The relay that waits takes the place of the one that is over, maybe     *)
(* with its receipt.                                                       *)
LEMMA PromoteKeeps ==
  ASSUME Shaped, HostPart, PipePart, IsRelay(cur), Promote,
         Receipts(stdin') \subseteq Receipts(stdin) \cup {<<cur.id, cur.final>>},
         UNCHANGED <<runtime, stdout, made>>
  PROVE  PipePart'
<1> USE Numbers DEF IsRelay
<1>1. /\ cur'.id = next.id /\ cur'.final \in {"none", "error"} /\ worker'.out = <<>>
      /\ next'.id = 0
  BY NoRelayIs, RelayFailIs, WorkerIs DEF Promote, Begin, HostPart, Stops, Shaped
<1>2. \A id \in Nat : Behind(id) => Behind(id)'
  BY <1>1 DEF Behind
<1>3. Ordered'
  BY <1>1 DEF PipePart, Ordered
<1>4. Delivered'
  <2>1. ASSUME NEW r \in Receipts(stdin')
        PROVE  r[1] # 0 /\ Behind(r[1])'
    <3>1. CASE r \in Receipts(stdin)
      BY <1>1, <3>1 DEF PipePart, Delivered, Behind
    <3>2. CASE r = <<cur.id, cur.final>>
      BY <1>1, <3>2 DEF PipePart, Ordered, Behind
    <3> QED
      BY <3>1, <3>2
  <2> QED
    BY <2>1 DEF Delivered, Behind
<1>5. Asked'
  BY <1>1 DEF PipePart, Asked, Alive
<1>6. Batched'
  BY <1>1, PipeEmpty DEF PipePart, Batched
<1>7. Counted'
  BY <1>2 DEF PipePart, Counted, Behind
<1> QED
  BY <1>3, <1>4, <1>5, <1>6, <1>7 DEF PipePart

LEMMA TickPipes ==
  ASSUME Shaped, HostPart, PipePart, Tick
  PROVE  PipePart'
<1> USE DEF Shaped, IsRelay
<1>0. UNCHANGED <<runtime, stdout, made>> /\ Steady
  BY SameRuntime DEF Tick, DeliveryDeadline, RequestDeadline, ReapWorker, DeliverFinal,
     DropCanceled, DeliverPiece, TakeReceipt, WorkerLost, OwnerLost, pipes, log
<1>1. CASE DeliveryDeadline \/ OwnerLost
  BY <1>0, <1>1, CanceledIs, NoRelayIs, QuietSteady
     DEF DeliveryDeadline, OwnerLost, RpcCancel, pipes, Quiet, Alive
<1>2. CASE RequestDeadline \/ WorkerLost
  BY <1>0, <1>2, RelayFailIs, QuietSteady DEF RequestDeadline, WorkerLost, pipes, Quiet, Alive
<1>3. CASE ReapWorker
  BY <1>0, <1>3, PipeEmpty, WorkerIs, QuietSteady DEF ReapWorker, host, pipes, Quiet, Alive
<1>4. CASE DeliverFinal
  <2> DEFINE x == [Item("final", cur.id, cur.final) EXCEPT
                     !.kind = IF cur.fresh THEN "fresh" ELSE "final"]
  <2>1. "final" \in Kinds /\ "fresh" \in Kinds /\ cur.id \in Nat /\ cur.final \in Whats
    BY DEF Kinds, RelayType
  <2>2. LET y == Item("final", cur.id, cur.final)
        IN  y \in Items /\ y.id = cur.id /\ y.what = cur.final
    BY <2>1, ItemIs
  <2>3. x \in Items /\ x.id = cur.id /\ x.what = cur.final
    BY <2>1, <2>2, KindIs
  <2>4. stdin' = Append(stdin, x)
    BY <1>4 DEF DeliverFinal
  <2> HIDE DEF x
  <2>5. Receipts(stdin') \subseteq Receipts(stdin) \cup {<<cur.id, cur.final>>}
    BY <2>3, <2>4, PipeAppend
  <2> QED
    BY <1>0, <1>4, <2>5, PromoteKeeps DEF DeliverFinal, Live
<1>5. CASE DropCanceled
  BY <1>0, <1>5, PromoteKeeps DEF DropCanceled, pipes
<1>6. CASE DeliverPiece
  <2> DEFINE whole == Item("tail", cur.id, Head(worker.out).what)
             head  == [whole EXCEPT !.kind = "head"]
  <2>1. "tail" \in Kinds /\ "head" \in Kinds
    BY DEF Kinds
  <2>2. /\ whole \in Items /\ whole.kind = "tail"
        /\ head \in Items /\ head.kind = "head"
    BY <1>6, <2>1, RelayingShape, ItemIs, KindIs DEF DeliverPiece
  <2>3. cur'.id = cur.id /\ cur'.final = cur.final /\ next' = next
    BY <1>6, CutIs DEF DeliverPiece
  <2>4. ASSUME cur.cut
        PROVE  /\ stdin' = Append(stdin, whole)
               /\ Verdicts(worker'.out) \subseteq Verdicts(worker.out)
    <3>1. stdin' = Append(stdin, whole) /\ worker'.out = Tail(worker.out)
      BY <1>6, <2>4 DEF DeliverPiece, WorkerType
    <3> QED
      BY <1>6, <3>1, Numbers, PipeTail DEF DeliverPiece, Relaying
  <2>5. ASSUME ~cur.cut
        PROVE  stdin' = Append(stdin, head) /\ worker' = worker
    BY <1>6, <2>5 DEF DeliverPiece
  <2>6. Receipts(stdin') \subseteq Receipts(stdin)
    BY <2>2, <2>4, <2>5, PipeAppend
  <2> QED
    BY <1>0, <2>3, <2>4, <2>5, <2>6, QuietSteady DEF Quiet, Alive
<1>7. CASE TakeReceipt
  <2>1. /\ cur'.id = cur.id /\ cur'.final = Head(worker.out).what
        /\ worker'.out = <<>> /\ UNCHANGED <<next, stdin>>
    BY <1>7, RelayingShape, ReceivedIs DEF TakeReceipt, pipes, WorkerType
  <2>2. Head(worker.out).what \in Verdicts(worker.out)
    BY <1>7, Numbers, PipeHead DEF TakeReceipt, Relaying
  <2>3. Batched'
    BY <1>0, <2>1, <2>2, PipeEmpty DEF PipePart, Batched
  <2> QED
    BY <1>0, <2>1, <2>3 DEF PipePart, Ordered, Delivered, Asked, Counted, Behind, Alive
<1> QED
  BY <1>1, <1>2, <1>3, <1>4, <1>5, <1>6, <1>7 DEF Tick

LEMMA UserPipes ==
  ASSUME Shaped, HostPart, PipePart, User \/ Reap
  PROVE  PipePart'
<1> USE DEF Shaped, IsRelay
<1>1. CASE Send
  <2>1. user.prompts + 1 \in Nat /\ "prompt" \in Kinds /\ "user" \in Whats
    BY DEF UserType, Kinds, Whats
  <2>2. LET x == Item("prompt", user.prompts + 1, "user")
        IN  x \in Items /\ x.kind = "prompt" /\ stdin' = Append(stdin, x)
    BY <1>1, <2>1, ItemIs DEF Send
  <2>3. Receipts(stdin') \subseteq Receipts(stdin)
    BY <2>2, PipeAppend
  <2> QED
    BY <1>1, <2>3, SameRuntime, QuietSteady DEF Send, host, Quiet, Alive
<1>2. CASE Interrupt
  <2>1. /\ runtime'.at = runtime.at /\ runtime'.result = runtime.result
        /\ runtime'.request = runtime.request /\ runtime'.asked = runtime.asked
    BY <1>2 DEF Interrupt, RuntimeType
  <2>2. Steady
    BY <2>1 DEF PipePart, Counted, Steady
  <2> QED
    BY <1>2, <2>1, <2>2, CanceledIs, NoRelayIs, QuietSteady
       DEF Interrupt, RpcCancel, pipes, Quiet, Alive
<1>3. CASE Stop
  BY <1>3, CanceledIs, NoRelayIs, SameRuntime, QuietSteady
     DEF Stop, RpcCancel, pipes, log, Quiet, Alive
<1>4. CASE Reap
  <2>1. Steady /\ runtime'.request = 0 /\ ~Alive'
    BY <1>4 DEF Reap, NoRuntime, Steady, Alive
  <2> QED
    BY <1>4, <2>1, CanceledIs, NoRelayIs, PipeEmpty, QuietSteady DEF Reap, log, Quiet
<1> QED
  BY <1>1, <1>2, <1>3, <1>4 DEF User

LEMMA WorkerPipes ==
  ASSUME Shaped, HostPart, PipePart, Worker
  PROVE  PipePart'
<1> USE DEF Shaped, IsRelay
<1>0. UNCHANGED <<cur, next, runtime, stdin, stdout>> /\ Steady
  BY SameRuntime DEF Worker, WorkerHears, WorkerEnds, WorkerDies, host, pipes
<1>1. CASE WorkerHears
  <2>1. "data" \in Kinds /\ "text" \in Whats
    BY DEF Kinds, Whats
  <2>2. LET x == Item("data", cur.id, "text")
        IN  x \in Items /\ x.kind = "data" /\ worker'.out = Append(worker.out, x)
    BY <1>1, <2>1, ItemIs, Numbers DEF WorkerHears, Emit, WorkerType
  <2>3. Verdicts(worker'.out) \subseteq Verdicts(worker.out)
    BY <2>2, PipeAppend, Numbers
  <2> QED
    BY <1>0, <1>1, <2>3, QuietSteady DEF WorkerHears, log, Quiet, Alive
<1>2. CASE WorkerDies
  <2>1. worker'.out = worker.out /\ made' = made
    BY <1>2 DEF WorkerDies, WorkerType, log
  <2> QED
    BY <1>0, <2>1, QuietSteady DEF Quiet, Alive
<1>3. ASSUME NEW end \in Endings, WorkerEnds(end)
      PROVE  PipePart'
  <2> DEFINE word == IF end.ok THEN "stop" ELSE "error"
             data == Item("data", cur.id, "tools")
             last == Item("final", cur.id, "tool_calls")
             only == Item("final", cur.id, word)
  <2>1. Verdicts(worker.out) = {}
    BY <1>3 DEF WorkerEnds, Said, Verdicts
  <2>2. /\ data \in Items /\ data.kind = "data"
        /\ last \in Items /\ last.what = "tool_calls"
        /\ only \in Items /\ only.what = word
    <3>1. /\ "data" \in Kinds /\ "final" \in Kinds
          /\ "tools" \in Whats /\ "tool_calls" \in Whats /\ word \in Whats
      BY DEF Kinds, Whats
    <3> QED
      BY <3>1, ItemIs, Numbers
  <2>3. ASSUME "tool_calls" \in Verdicts(worker'.out)
        PROVE  end.batch
    <3>1. CASE end.ok /\ end.tools
      BY <3>1, EndingIs
    <3>2. CASE ~(end.ok /\ end.tools)
      <4>1. worker'.out = Append(worker.out, only)
        BY <1>3, <3>2 DEF WorkerEnds, Receipt, WorkerType
      <4>2. Verdicts(worker'.out) \subseteq {word}
        BY <2>1, <2>2, <4>1, PipeAppend, Numbers
      <4> QED
        BY <2>3, <4>2
    <3> QED
      BY <3>1, <3>2
  <2>4. cur.final = "none" /\ cur.id # 0 /\ made' = (IF cur.id # runtime.request THEN made
          ELSE [sent |-> worker.sent + (IF end.ok /\ end.tools THEN 1 ELSE 0), batch |-> end.batch])
    BY <1>3 DEF WorkerEnds, Working, HostPart, Stops
  <2>5. CASE cur.id # runtime.request
    <3>1. made' = made
      BY <2>4, <2>5
    <3>2. Batched'
      BY <1>0, <2>5, <3>1 DEF PipePart, Batched
    <3> QED
      BY <1>0, <3>1, <3>2 DEF PipePart, Ordered, Delivered, Asked, Counted, Behind, Alive
  <2>6. CASE cur.id = runtime.request
    <3>1. ~Behind(runtime.request) /\ made'.batch = end.batch
      BY <2>4, <2>6, Numbers DEF Behind
    <3>2. \A r \in Receipts(stdin) : r[1] # runtime.request
      BY <3>1 DEF PipePart, Delivered
    <3>3. Batched'
      BY <1>0, <2>3, <2>4, <3>1, <3>2 DEF Batched
    <3>4. runtime.result # "tools"
      BY <3>1 DEF PipePart, Counted
    <3> QED
      BY <1>0, <3>3, <3>4 DEF PipePart, Ordered, Delivered, Asked, Counted, Behind, Alive
  <2> QED
    BY <2>5, <2>6
<1> QED
  BY <1>1, <1>2, <1>3 DEF Worker

(* What the runtime reads was in its pipe.                                 *)
LEMMA RuntimeQuiet ==
  ASSUME Shaped, HostPart, PipePart, UNCHANGED <<cur, next, worker, stdout, made>>,
         Receipts(stdin') \subseteq Receipts(stdin), Steady,
         runtime'.request \in {runtime.request, 0},
         Alive' => Alive /\ runtime'.asked = runtime.asked
  PROVE  PipePart'
  BY QuietSteady DEF Quiet

LEMMA ReadingPipes ==
  ASSUME Shaped, HostPart, PipePart, Reading
  PROVE  PipePart'
<1> USE DEF Shaped
<1>0. /\ UNCHANGED <<cur, next, worker, stdout, made>> /\ runtime.at = "reading" /\ stdin # <<>>
      /\ Receipts(stdin') \subseteq Receipts(stdin) /\ runtime.result = "none"
  BY PipeTail, PipeAgain DEF Reading, ReadHead, ReadTail, ReadPrompt, ReadFinal, ReadFresh, Reads,
     host, log, PipePart, Counted
<1>1. runtime'.request = runtime.request /\ runtime'.asked = runtime.asked /\ Alive
  BY <1>0 DEF Reading, ReadHead, ReadTail, ReadPrompt, ReadFinal, ReadFresh, Answered,
     RuntimeType, Alive
<1>2. \/ runtime'.at = "reading" /\ runtime'.result = "none"
      \/ runtime'.at = "answered" /\ runtime'.result # "tools"
      \/ ReadFinal /\ Mine /\ runtime'.at = "answered" /\ Head(stdin).what = "tool_calls"
  BY <1>0 DEF Reading, ReadHead, ReadTail, ReadPrompt, ReadFinal, ReadFresh, Answered, Agrees,
     RuntimeType
<1>3. CASE ~(ReadFinal /\ Mine /\ runtime'.at = "answered" /\ Head(stdin).what = "tool_calls")
  BY <1>0, <1>1, <1>2, <1>3, RuntimeQuiet DEF Steady
<1>4. CASE ReadFinal /\ Mine /\ runtime'.at = "answered" /\ Head(stdin).what = "tool_calls"
  <2>1. <<runtime.request, "tool_calls">> \in Receipts(stdin)
    BY <1>0, <1>4, PipeHead DEF ReadFinal, Reads, Mine
  <2>2. made.batch /\ runtime.request # 0 /\ Behind(runtime.request)
    BY <2>1 DEF PipePart, Batched, Delivered
  <2>3. Counted'
    BY <1>0, <1>1, <1>4, <2>2 DEF Counted, Behind
  <2>4. Ordered' /\ Delivered' /\ Asked' /\ Batched'
    BY <1>0, <1>1, QuietKeeps DEF Quiet
  <2> QED
    BY <2>3, <2>4 DEF PipePart
<1> QED
  BY <1>3, <1>4

LEMMA RuntimePipes ==
  ASSUME Shaped, HostPart, PipePart, Runtime
  PROVE  PipePart'
<1> USE DEF Shaped
<1>1. ASSUME NEW n \in 1 .. 2, TakePrompt(n)
      PROVE  PipePart'
  <2>1. n \in 0 .. Len(stdin) /\ stdin' = SubSeq(stdin, n + 1, Len(stdin))
    BY <1>1 DEF TakePrompt
  <2>2. /\ runtime.at = "idle" /\ runtime'.at \in {"asking", "answered"}
        /\ runtime'.result = runtime.result /\ runtime'.request = runtime.request
        /\ runtime'.asked = runtime.asked
    BY <1>1 DEF TakePrompt, RuntimeType
  <2>3. Steady
    BY <2>2 DEF PipePart, Counted, Steady
  <2> QED
    BY <1>1, <2>1, <2>2, <2>3, PipeSubSeq, RuntimeQuiet DEF TakePrompt, host, log, Alive
<1>2. CASE Ask /\ ~runtime.latch
  <2> DEFINE n == runtime.asked + 1
  <2>1. /\ n \in Nat /\ Headers(stdout') \subseteq Headers(stdout) \cup {n}
        /\ InOrder(stdout) /\ (\A h \in Headers(stdout) : h < n) => InOrder(stdout')
    <3>1. n \in Nat
      BY Numbers
    <3>2. stdout' = stdout \o
            [i \in 1 .. 3 |-> Item(<<"separator", "header", "body">>[i], n, "request")]
      BY <1>2 DEF Ask
    <3> HIDE DEF n
    <3> QED
      BY <3>1, <3>2, AskedItems
  <2>2. /\ Alive /\ runtime'.at = "reading" /\ runtime'.request = n /\ runtime'.asked = n
        /\ runtime'.result = "none"
    BY <1>2 DEF Ask, RuntimeType, Alive, PipePart, Counted
  <2>3. UNCHANGED <<cur, next, worker, stdin>>
    BY <1>2 DEF Ask, host
  <2>4. /\ \A h \in Headers(stdout) : h < n
        /\ \A r \in Receipts(stdin) : r[1] < n
        /\ cur.id < n /\ next.id < n
    BY <2>2, Numbers DEF PipePart, Asked
  <2>5. Ordered'
    BY <2>1, <2>3, <2>4 DEF PipePart, Ordered, IsRelay
  <2>6. Delivered'
    BY <2>1, <2>3, <2>4 DEF PipePart, Delivered, Behind, IsRelay
  <2>7. Asked'
    <3>1. \A r \in Receipts(stdin') : r[1] <= n
      BY <2>3, <2>4, Numbers
    <3>2. \A h \in Headers(stdout') : h <= n
      BY <2>1, <2>4, Numbers
    <3> QED
      BY <2>1, <2>2, <2>3, <2>4, <3>1, <3>2, Numbers DEF Asked
  <2>8. Batched'
    BY <2>2, <2>3, <2>4, Numbers DEF Batched
  <2>9. Counted'
    BY <2>2 DEF Counted
  <2> QED
    BY <2>5, <2>6, <2>7, <2>8, <2>9 DEF PipePart
<1>3. CASE (Ask /\ runtime.latch) \/ Abort \/ EndTurn
  <2>1. /\ runtime.at \in {"asking", "reading", "answered"}
        /\ runtime'.at = "idle" /\ runtime'.result = "none" /\ runtime'.request = 0
        /\ runtime'.asked = runtime.asked
    BY <1>3 DEF Ask, Abort, EndTurn, Interrupted, Idle, RuntimeType
  <2>2. UNCHANGED <<cur, next, worker, stdout, made>> /\ stdin' \in {stdin, <<>>}
    BY <1>3 DEF Ask, Abort, EndTurn, host, log
  <2> QED
    BY <2>1, <2>2, PipeEmpty, RuntimeQuiet DEF Steady, Alive
<1>4. CASE Reading
  BY <1>4, ReadingPipes
<1>5. CASE IdleOut \/ GoOn
  <2>1. /\ runtime.at \in {"reading", "answered"} /\ runtime'.request = runtime.request
        /\ runtime'.asked = runtime.asked
        /\ \/ runtime'.at = "answered" /\ runtime'.result = "failed"
           \/ runtime'.at = "asking" /\ runtime'.result = "none"
    BY <1>5 DEF IdleOut, GoOn, Answered, RuntimeType
  <2> QED
    BY <1>5, <2>1, RuntimeQuiet DEF IdleOut, GoOn, host, pipes, log, Steady, Alive
<1>6. CASE RuntimeDies
  <2>1. Steady /\ ~Alive' /\ runtime'.request = 0
    BY <1>6 DEF RuntimeDies, NoRuntime, Steady, Alive
  <2> QED
    BY <1>6, <2>1, RuntimeQuiet DEF RuntimeDies, host, pipes, log
<1> QED
  BY <1>1, <1>2, <1>3, <1>4, <1>5, <1>6 DEF Runtime
-----------------------------------------------------------------------------
(* The invariant of the relay and the runtime.                             *)
THEOREM RpcInvAlways == Spec => []RpcInv
<1>1. Init => RpcInv
  <2>1. ASSUME Init
        PROVE  Shaped
    <3>1. <<>> \in Seq(Items) /\ <<"waiting">> \in Seq({"waiting"})
      OBVIOUS
    <3>2. runtime \in RuntimeType /\ turn \in TurnType /\ user \in UserType /\ made \in MadeType
      BY <2>1 DEF Init, RuntimeType, NoRuntime, TurnType, UserType, MadeType, NothingMade
    <3> QED
      BY <2>1, <3>1, <3>2, NoRelayIs, WorkerIs, EventIs DEF Init, Shaped
  <2>2. ASSUME Init
        PROVE  HostPart
    BY <2>2, NoRelayIs, WorkerIs DEF Init, HostPart, PendingWaitsForCanceled, Silent, OfCur, Stops
  <2>3. ASSUME Init
        PROVE  PipePart
    <3>1. runtime.at = "idle" /\ runtime.request = 0 /\ runtime.asked = 0 /\ runtime.result = "none"
      BY <2>3 DEF Init, NoRuntime
    <3> QED
      BY <2>3, <3>1, NoRelayIs, WorkerIs, PipeEmpty
         DEF Init, PipePart, Ordered, Delivered, Asked, Batched, Counted, Alive
  <2> QED
    BY <2>1, <2>2, <2>3 DEF RpcInv
<1>2. RpcInv /\ [Next]_vars => RpcInv'
  <2>1. ASSUME RpcInv, UNCHANGED vars
        PROVE  HostPart' /\ PipePart'
    BY <2>1 DEF RpcInv, vars, host, pipes, log, HostPart, PendingWaitsForCanceled, Silent, OfCur,
       Stops, PipePart, Ordered, Delivered, Asked, Batched, Counted, Behind, Alive
  <2>2. ASSUME RpcInv, Next
        PROVE  HostPart'
    BY <2>2, DrainHost, TickHost, OtherHost DEF RpcInv, Next
  <2>3. ASSUME RpcInv, Next
        PROVE  PipePart'
    BY <2>3, DrainPipes, TickPipes, UserPipes, WorkerPipes, RuntimePipes DEF RpcInv, Next
  <2> QED
    BY <2>1, <2>2, <2>3, NextShaped DEF RpcInv
<1> QED
  BY <1>1, <1>2, PTL DEF Spec

(* One worker at a time: a second request is held only while the canceled  *)
(* one before it is being taken down.                                      *)
THEOREM OneRelayAlways == Spec => []PendingWaitsForCanceled
<1>1. RpcInv => PendingWaitsForCanceled
  BY DEF RpcInv, HostPart
<1> QED
  BY <1>1, RpcInvAlways, PTL

(* Tools run only from a batch whose every call is whole, of a stream that *)
(* said it was done and that tools were the reason.                        *)
THEOREM ToolsAreWholeAlways == Spec => []ToolsAreWhole
<1>1. RpcInv => ToolsAreWhole
  BY DEF RpcInv, PipePart, Counted, ToolsAreWhole
<1> QED
  BY <1>1, RpcInvAlways, PTL

(* Stop is stop: from the interrupt of a turn until the runtime says that  *)
(* it waits, not one more byte is written to it.                           *)
THEOREM InterruptSilencesAlways == Spec => InterruptSilences
<1> DEFINE Silences == turn.pending /\ turn'.pending => Len(stdin') <= Len(stdin)
<1>1. ASSUME RpcInv, [Next]_vars, turn.pending, turn'.pending
      PROVE  Len(stdin') <= Len(stdin)
  <2> USE DEF RpcInv, Shaped
  <2>1. Len(stdin) \in Nat /\ (stdin # <<>> => Len(Tail(stdin)) = Len(stdin) - 1)
    BY <1>1
  <2>2. ~Live
    BY <1>1 DEF HostPart, Silent, Live
  <2>3. \/ stdin' = stdin \/ stdin' = <<>> \/ (stdin # <<>> /\ stdin' = Tail(stdin))
        \/ ReadFresh \/ (\E n \in 1 .. 2 : TakePrompt(n))
    <3>1. Tick => stdin' = stdin
      BY <2>2 DEF Tick, DeliveryDeadline, RequestDeadline, ReapWorker, DeliverFinal,
         DropCanceled, DeliverPiece, TakeReceipt, WorkerLost, OwnerLost, Relaying, pipes
    <3>2. User \/ Reap => stdin' \in {stdin, <<>>}
      BY <1>1 DEF User, Send, Interrupt, Stop, Reap, pipes
    <3>3. Drain \/ Worker => stdin' = stdin
      BY DEF Drain, DrainSeparator, DrainHeader, DrainBody, DrainWaiting, Worker, WorkerHears,
         WorkerEnds, WorkerDies, pipes
    <3>4. Reading => ReadFresh \/ (stdin # <<>> /\ stdin' = Tail(stdin))
      BY DEF Reading, ReadHead, ReadTail, ReadPrompt, ReadFinal, Reads
    <3>5. Ask \/ Abort \/ IdleOut \/ GoOn \/ EndTurn \/ RuntimeDies => stdin' \in {stdin, <<>>}
      BY DEF Ask, Abort, IdleOut, GoOn, EndTurn, RuntimeDies, pipes
    <3>6. UNCHANGED vars => stdin' = stdin
      BY DEF vars, pipes
    <3> QED
      BY <1>1, <3>1, <3>2, <3>3, <3>4, <3>5, <3>6 DEF Next, Runtime
  <2>4. Len(<<>>) = 0
    OBVIOUS
  <2>5. ASSUME ReadFresh
        PROVE  Len(stdin') <= Len(stdin)
    <3>1. stdin # <<>> /\ "final" \in Kinds
      BY <2>5 DEF ReadFresh, Kinds
    <3>2. [Head(stdin) EXCEPT !.kind = "final"] \in Items /\ Tail(stdin) \in Seq(Items)
      BY <1>1, <3>1, FirstIs, KindIs
    <3>3. ASSUME NEW y \in Items
          PROVE  Len(<<y>> \o Tail(stdin)) = Len(stdin)
      <4>1. <<y>> \in Seq(Items) /\ Len(<<y>>) = 1
        OBVIOUS
      <4>2. Len(<<y>> \o Tail(stdin)) = 1 + Len(Tail(stdin))
        BY <3>2, <4>1, ConcatProperties
      <4> QED
        BY <2>1, <3>1, <4>2
    <3>4. Len(<<[Head(stdin) EXCEPT !.kind = "final"]>> \o Tail(stdin)) = Len(stdin)
      BY <3>2, <3>3
    <3>5. \/ stdin' = <<[Head(stdin) EXCEPT !.kind = "final"]>> \o Tail(stdin)
          \/ stdin' = stdin \/ stdin' = Tail(stdin)
      BY <2>5 DEF ReadFresh
    <3> QED
      BY <2>1, <3>1, <3>4, <3>5
  <2>6. ASSUME NEW n \in 1 .. 2, TakePrompt(n)
        PROVE  Len(stdin') <= Len(stdin)
    <3>1. n \in 1 .. Len(stdin) /\ stdin' = SubSeq(stdin, n + 1, Len(stdin))
      BY <2>6 DEF TakePrompt
    <3>2. \A i \in n + 1 .. Len(stdin) : stdin[i] \in Items
      BY <1>1, <3>1
    <3>3. Len(SubSeq(stdin, n + 1, Len(stdin))) <= Len(stdin)
      BY <2>1, <3>1, <3>2, SubSeqProperties
    <3> QED
      BY <3>1, <3>3
  <2>7. Len(stdin) <= Len(stdin) /\ 0 <= Len(stdin)
    BY <2>1
  <2>8. stdin # <<>> => Len(Tail(stdin)) <= Len(stdin)
    BY <2>1
  <2> QED
    BY <2>3, <2>4, <2>5, <2>6, <2>7, <2>8
<1>2. RpcInv /\ [Next]_vars => [Silences]_vars
  BY <1>1
<1> QED
  BY <1>2, RpcInvAlways, PTL DEF Spec, InterruptSilences
=============================================================================
