------------------------------ MODULE ModelRpc ------------------------------
(***************************************************************************)
(* A turn of a piped runtime whose model is somewhere else.  The runtime   *)
(* asks the host for a completion on its stdout; the host admits the       *)
(* request, lets a worker process talk to the model and relays what comes  *)
(* back into the runtime's stdin, where the prompts of the user arrive as  *)
(* well; the runtime says on stderr that it waits again.                   *)
(*                                                                         *)
(* Three processes and three pipes.  The host is dstudio_model_rpc.c with  *)
(* the event framing, the turn bookkeeping and the user's requests of      *)
(* dstudio.c; the worker is the transport of ModelStream; the runtime is   *)
(* the remote loop of ds4_design.c with dstudio_remote_llm.c.              *)
(*                                                                         *)
(* The user may send, interrupt and stop at any moment, the worker and the *)
(* runtime may die at any moment, and a deadline may pass whenever its     *)
(* clock runs.  A frame may be written to the runtime in two pieces.       *)
(***************************************************************************)
EXTENDS ModelStream, Sequences, FiniteSets

CONSTANTS
  MaxLines,      (* bound on the lines of a stream                         *)
  Tls,           (* the transports a request may use: TRUE is TLS          *)
  MaxPrompts,    (* bound on the prompts of the user                       *)
  MaxRequests,   (* bound on the requests of the runtime                   *)
  MaxInterrupts, (* bound on the interrupts of the user                    *)
  MaxText        (* bound on the data frames of a completion               *)

ASSUME RpcAssumption ==
  /\ MaxLines \in Nat /\ Tls \subseteq BOOLEAN
  /\ MaxPrompts \in Nat /\ MaxRequests \in Nat
  /\ MaxInterrupts \in Nat /\ MaxText \in Nat

VARIABLES
  cur, next, (* g_model_rpc, g_model_rpc_next; valid is: their epoch, like *)
             (* the one of the event, is g_model_rpc_epoch still           *)
  worker,    (* the process of the relay in cur                            *)
  event,     (* g_child_event_active, g_child_event_epoch                  *)
  turn,      (* g_active_turn_task, g_agent_working, g_interrupt_pending,  *)
             (* g_child_stop_requested                                     *)
  runtime,   (* the process in g_child                                     *)
  stdin, stdout, stderr,  (* its pipes                                     *)
  user,      (* history: the prompts and interrupts of the user            *)
  made       (* history: what the worker made of the runtime's request     *)

host  == <<cur, next>>
pipes == <<stdin, stdout, stderr>>
log   == <<user, made>>
vars  == <<host, worker, event, turn, runtime, pipes, log>>

Ids == 0 .. MaxRequests
Prompts == 0 .. MaxPrompts

NoRelay == [id |-> 0, valid |-> FALSE, complete |-> FALSE, cut |-> FALSE,
            canceled |-> FALSE, stopping |-> FALSE, final |-> "none",
            fresh |-> FALSE]
IsRelay(j) == j.id # 0
NewRelay(id) == [NoRelay EXCEPT !.id = id, !.valid = TRUE]

NoRuntime == [at |-> "gone", turn |-> 0, request |-> 0, asked |-> 0, part |-> 0,
              got |-> 0, tools |-> FALSE, result |-> "none", latch |-> FALSE,
              killed |-> 0]
NoWorker == [is |-> "none", sent |-> 0, out |-> <<>>]
NoEvent == [at |-> "none", valid |-> FALSE]
Discard == [at |-> "discard", valid |-> FALSE]

NothingMade == [sent |-> 0, batch |-> FALSE]

Item(k, id, what) == [kind |-> k, id |-> id, what |-> what]
-----------------------------------------------------------------------------
(* model_rpc_owner_matches: the runtime is the one that asked, its pipe is *)
(* open, and nothing revoked the epoch.                                    *)
HasChild == runtime.at # "gone"
OwnerMatches(j) == j.valid /\ HasChild

(* model_rpc_stop_worker                                                   *)
StopWorker(j) == [j EXCEPT !.stopping = TRUE]

(* model_rpc_relay_fail: what was not delivered is dropped, and an error   *)
(* receipt that begins with a newline takes its place.                     *)
RelayFail(j) == [StopWorker(j) EXCEPT !.final = "error", !.fresh = TRUE, !.cut = FALSE]

(* A new epoch: what was captured before is no longer valid.               *)
Revoked(x) == [x EXCEPT !.valid = FALSE]

(* model_rpc_cancel: delivery ends before anything is signalled.           *)
Canceled(j) ==
  IF IsRelay(j)
  THEN [StopWorker(Revoked(j)) EXCEPT !.canceled = TRUE, !.final = "none", !.cut = FALSE]
  ELSE j
RpcCancel == cur' = Canceled(cur) /\ next' = NoRelay /\ event' = Revoked(event)

(* request_child_stop                                                      *)
ChildStop(t) == [t EXCEPT !.stop = TRUE, !.working = FALSE, !.pending = FALSE, !.task = 0]

(* The relay j takes the place of the current one, with a worker or        *)
(* without (model_rpc_spawn_worker).                                       *)
Begin(j) ==
  IF j.final # "none" \/ ~IsRelay(j) THEN cur' = j /\ worker' = NoWorker
  ELSE \/ cur' = j /\ worker' = [NoWorker EXCEPT !.is = "up"]
       \/ cur' = RelayFail(j) /\ worker' = NoWorker
-----------------------------------------------------------------------------
(* drain_child_stdout_data: the record separator fixes the epoch ...       *)
DrainSeparator ==
  /\ HasChild /\ stdout # <<>> /\ Head(stdout).kind = "separator"
  /\ event' = [at |-> "prefix", valid |-> TRUE]
  /\ stdout' = Tail(stdout)
  /\ UNCHANGED <<host, worker, turn, runtime, stdin, stderr, log>>

(* Faulty variant: the header is admitted whenever it arrives.             *)
AdmissibleAnyTime == ~turn.stop

(* ... and the complete header is admitted only in the same epoch.         *)
Admissible == ~turn.pending /\ ~turn.stop /\ event.valid

(* Faulty variant: the current request need not be canceled.               *)
RefusesOnlyPending == IsRelay(next)
(* model_rpc_start refuses beside a request that was not canceled.         *)
Refuses == IsRelay(next) \/ (IsRelay(cur) /\ ~cur.canceled)

(* model_rpc_start                                                         *)
StartRpc(id) ==
  /\ IF IsRelay(cur)
     THEN next' = NewRelay(id) /\ cur' = Revoked(cur) /\ UNCHANGED worker
     ELSE Begin(NewRelay(id)) /\ UNCHANGED next
  /\ event' = [at |-> "model", valid |-> TRUE]

(* model_rpc_send_start_error: the admitted request fails, or, when there  *)
(* is none, a relay carries the refusal.                                   *)
SendStartError(id) ==
  LET refusal == RelayFail(NewRelay(id))
  IN  /\ IF IsRelay(next) /\ ~next.canceled
         THEN next' = RelayFail(next) /\ UNCHANGED cur
         ELSE IF IsRelay(cur) /\ ~cur.canceled
         THEN cur' = RelayFail(cur) /\ UNCHANGED next
         ELSE IF IsRelay(cur)
         THEN next' = refusal /\ cur' = Revoked(cur)
         ELSE cur' = refusal /\ UNCHANGED next
      /\ event' = Discard
      /\ UNCHANGED worker

DrainHeader ==
  /\ HasChild /\ stdout # <<>> /\ Head(stdout).kind = "header"
  /\ IF ~Admissible
     THEN event' = Discard /\ UNCHANGED <<host, worker>>
     ELSE IF Refuses THEN SendStartError(Head(stdout).id)
     ELSE StartRpc(Head(stdout).id)
  /\ stdout' = Tail(stdout)
  /\ UNCHANGED <<turn, runtime, stdin, stderr, log>>

(* model_rpc_input_owner, model_rpc_input_append: the newline completes    *)
(* the upload of the request it belongs to, if that is still the one.      *)
TakesInput(j) ==
  /\ IsRelay(j) /\ event.valid /\ OwnerMatches(j)
  /\ ~j.canceled /\ ~j.stopping

DrainBody ==
  /\ HasChild /\ stdout # <<>> /\ Head(stdout).kind = "body"
  /\ IF event.at = "model" /\ IsRelay(next)
     THEN /\ next' = [next EXCEPT !.complete = @ \/ TakesInput(next)]
          /\ UNCHANGED cur
     ELSE /\ cur' = [cur EXCEPT !.complete = @ \/ (event.at = "model" /\ TakesInput(cur))]
          /\ UNCHANGED next
  /\ event' = NoEvent
  /\ stdout' = Tail(stdout)
  /\ UNCHANGED <<worker, turn, runtime, stdin, stderr, log>>

(* Faulty variant: an interrupted turn is left to the interrupt.           *)
SettledUnlessPending(t) ==
  [t EXCEPT !.ready = TRUE, !.task = 0, !.working = @ /\ t.pending]

(* The turn is over, interrupted or not.                                   *)
Settled(t) ==
  [t EXCEPT !.ready = TRUE, !.task = 0, !.working = FALSE, !.pending = FALSE]

(* scan_lines: the runtime waits for a prompt.  Nothing of the turn that   *)
(* ended may be delivered any more.                                        *)
DrainWaiting ==
  /\ HasChild /\ stderr # <<>>
  /\ stderr' = Tail(stderr)
  /\ IF turn.stop THEN UNCHANGED <<host, event, turn>>
     ELSE /\ RpcCancel
          /\ turn' = Settled(turn)
  /\ UNCHANGED <<worker, runtime, stdin, stdout, log>>
-----------------------------------------------------------------------------
(* model_rpc_tick, in the order of its branches.                           *)
Live == IsRelay(cur) /\ ~cur.canceled

(* The runtime does not take its answer: the turn fails, the child goes.   *)
DeliveryDeadline ==
  /\ Live /\ HasChild /\ cur.final # "none" /\ ~turn.stop
  /\ RpcCancel
  /\ turn' = ChildStop(turn)
  /\ UNCHANGED <<worker, runtime, pipes, log>>

RequestDeadline ==
  /\ Live /\ cur.final = "none"
  /\ cur' = RelayFail(cur)
  /\ UNCHANGED <<next, worker, event, turn, runtime, pipes, log>>

(* The worker was told to leave: it is reaped when it has.                 *)
ReapWorker ==
  /\ IsRelay(cur) /\ cur.stopping /\ worker.is = "dead"
  /\ worker' = NoWorker
  /\ UNCHANGED <<host, event, turn, runtime, pipes, log>>

Room == Len(stdin) < 2
Promote == Begin(next) /\ next' = NoRelay

(* The receipt goes out only after the worker is gone.                     *)
DeliverFinal ==
  /\ Live /\ OwnerMatches(cur) /\ worker.is = "none" /\ cur.final # "none" /\ Room
  /\ stdin' = Append(stdin, [Item("final", cur.id, cur.final) EXCEPT
                               !.kind = IF cur.fresh THEN "fresh" ELSE "final"])
  /\ Promote
  /\ UNCHANGED <<event, turn, runtime, stdout, stderr, log>>

DropCanceled ==
  /\ IsRelay(cur) /\ cur.canceled /\ worker.is = "none"
  /\ Promote
  /\ UNCHANGED <<event, turn, runtime, pipes, log>>

(* A data frame of the worker goes on to the runtime, maybe in two pieces. *)
Relaying == Live /\ OwnerMatches(cur) /\ ~cur.stopping /\ worker.out # <<>>

DeliverPiece ==
  /\ Relaying /\ Head(worker.out).kind = "data" /\ Room
  /\ LET whole == Item("tail", cur.id, Head(worker.out).what)
     IN  IF cur.cut
         THEN /\ stdin' = Append(stdin, whole)
              /\ worker' = [worker EXCEPT !.out = Tail(@)]
              /\ cur' = [cur EXCEPT !.cut = FALSE]
         ELSE /\ stdin' = Append(stdin, [whole EXCEPT !.kind = "head"])
              /\ cur' = [cur EXCEPT !.cut = TRUE]
              /\ UNCHANGED worker
  /\ UNCHANGED <<next, event, turn, runtime, stdout, stderr, log>>

(* The receipt of the worker: it has no more to do.                        *)
TakeReceipt ==
  /\ Relaying /\ Head(worker.out).kind = "final"
  /\ cur' = [StopWorker(cur) EXCEPT !.final = Head(worker.out).what]
  /\ worker' = [worker EXCEPT !.out = <<>>]
  /\ UNCHANGED <<next, event, turn, runtime, pipes, log>>

(* The worker died without a receipt, maybe within a frame.                *)
WorkerLost ==
  /\ Live /\ ~cur.stopping /\ worker.is = "dead"
  /\ worker.out = <<>> \/ cur.cut
  /\ cur' = RelayFail(cur)
  /\ UNCHANGED <<next, worker, event, turn, runtime, pipes, log>>

(* The runtime is gone, or its pipe is broken.                             *)
OwnerLost ==
  /\ Live /\ (~OwnerMatches(cur) \/ runtime.at = "dead")
  /\ RpcCancel
  /\ UNCHANGED <<worker, turn, runtime, pipes, log>>
-----------------------------------------------------------------------------
(* api_agent_send, agent_write_turn                                        *)
Ready == HasChild /\ turn.ready /\ ~turn.stop

Send ==
  /\ Ready /\ ~turn.pending /\ ~turn.working /\ user.prompts < MaxPrompts
  /\ LET n == user.prompts + 1
     IN  /\ stdin' = Append(stdin, Item("prompt", n, "user"))
         /\ turn' = [turn EXCEPT !.task = n, !.working = TRUE]
         /\ user' = [user EXCEPT !.prompts = n]
  /\ UNCHANGED <<host, worker, event, runtime, stdout, stderr, made>>

(* api_agent_interrupt, interrupt_piped_runtime.  Without a turn there is  *)
(* nothing to interrupt.                                                   *)
Interrupt ==
  /\ Ready /\ turn.working /\ user.interrupts < MaxInterrupts
  /\ RpcCancel
  /\ turn' = [turn EXCEPT !.pending = TRUE, !.task = 0]
  /\ runtime' = IF runtime.at = "dead" THEN runtime ELSE [runtime EXCEPT !.latch = TRUE]
  /\ user' = [user EXCEPT !.interrupts = @ + 1, !.hit = @ \cup {turn.task}]
  /\ UNCHANGED <<worker, pipes, made>>

(* api_stop of a piped child                                               *)
Stop ==
  /\ HasChild /\ ~turn.stop
  /\ RpcCancel
  /\ turn' = ChildStop(turn)
  /\ UNCHANGED <<worker, runtime, pipes, log>>

(* reap_child, close_pipes                                                 *)
Reap ==
  /\ runtime.at = "dead"
  /\ cur' = Canceled(cur) /\ next' = NoRelay /\ event' = NoEvent
  /\ turn' = [turn EXCEPT !.ready = FALSE, !.stop = FALSE, !.task = 0,
                          !.working = FALSE, !.pending = FALSE]
  /\ runtime' = NoRuntime
  /\ stdin' = <<>> /\ stdout' = <<>> /\ stderr' = <<>>
  /\ UNCHANGED <<worker, log>>
-----------------------------------------------------------------------------
(* The worker: model_rpc_worker_cli.  It reads its whole request before it *)
(* opens a connection, and keeps its group until the host takes it down.   *)
Working == worker.is = "up" /\ ~cur.stopping /\ cur.complete /\ IsRelay(cur)
Said == \E i \in 1 .. Len(worker.out) : worker.out[i].kind = "final"

Emit(out, what) == Append(out, Item("data", cur.id, what))
Receipt(out, what) == Append(out, Item("final", cur.id, what))

(* Text goes on as it comes, as far as the pipe takes it.                  *)
WorkerHears ==
  /\ Working /\ worker.out = <<>> /\ worker.sent < MaxText
  /\ worker' = [worker EXCEPT !.out = Emit(@, "text"), !.sent = @ + 1]
  /\ UNCHANGED <<host, event, turn, runtime, pipes, log>>

(* The ways a stream may end: whether the transport lets it count, whether *)
(* it holds calls, and whether they are a batch that may be run.           *)
Endings ==
  {[ok    |-> EndCompletes(job, tls),
    tools |-> HasCalls(job),
    batch |-> /\ HasCalls(job) /\ CallsAreWhole(job)
              /\ job.done /\ job.finish = "tool_calls"] :
   job \in After[MaxLines], tls \in Tls}

(* The connection ends, whatever the lines made of the job.                *)
WorkerEnds(end) ==
  /\ Working /\ ~Said
  /\ LET tools == end.ok /\ end.tools
     IN  /\ worker' = [worker EXCEPT !.out =
              IF tools THEN Receipt(Emit(@, "tools"), "tool_calls")
              ELSE Receipt(@, IF end.ok THEN "stop" ELSE "error")]
         /\ made' = IF cur.id # runtime.request THEN made
                    ELSE [sent  |-> worker.sent + (IF tools THEN 1 ELSE 0),
                          batch |-> end.batch]
  /\ UNCHANGED <<host, event, turn, runtime, pipes, user>>

WorkerDies ==
  /\ worker.is = "up"
  /\ worker' = [worker EXCEPT !.is = "dead"]
  /\ UNCHANGED <<host, event, turn, runtime, pipes, log>>

(* SIGTERM, and after a second SIGKILL.                                    *)
WorkerObeys == cur.stopping /\ WorkerDies
-----------------------------------------------------------------------------
(* The runtime between two turns: read_prompt announces that it waits and  *)
(* takes what arrives before a gap as one prompt, whatever it is.          *)
Whole(items) ==
  IF Len(items) = 1 /\ items[1].kind = "prompt" THEN items[1].id ELSE 0

TakePrompt(n) ==
  /\ runtime.at = "idle" /\ n \in 1 .. Len(stdin)
  /\ runtime' = [runtime EXCEPT !.at = IF runtime.asked < MaxRequests THEN "asking"
                                       ELSE "answered",
                                !.turn = Whole(SubSeq(stdin, 1, n)), !.killed = 0]
  /\ stdin' = SubSeq(stdin, n + 1, Len(stdin))
  /\ UNCHANGED <<host, worker, event, turn, stdout, stderr, log>>

(* The turn is over; the latch of an interrupt may outlive it.             *)
Idle(r) == [r EXCEPT !.at = "idle", !.turn = 0, !.request = 0, !.part = 0,
                     !.tools = FALSE, !.got = 0, !.result = "none"]
Announce == stderr' = Append(stderr, "waiting")

(* design_finish_interrupted_turn                                          *)
Interrupted == runtime' = [Idle(runtime) EXCEPT !.latch = FALSE, !.killed = runtime.turn]

(* remote_chat_stream: an interrupt that is there already ends the turn,   *)
(* before anything is asked.                                               *)
Ask ==
  /\ runtime.at = "asking"
  /\ IF runtime.latch
     THEN Interrupted /\ Announce /\ UNCHANGED <<stdout, made>>
     ELSE /\ made' = NothingMade
           /\ runtime' = [runtime EXCEPT !.at = "reading", !.asked = @ + 1,
                                        !.request = runtime.asked + 1, !.part = 0,
                                        !.tools = FALSE, !.got = 0]
          /\ stdout' = stdout \o [i \in 1 .. 3 |->
               Item(<<"separator", "header", "body">>[i], runtime.asked + 1, "request")]
          /\ UNCHANGED stderr
  /\ UNCHANGED <<host, worker, event, turn, stdin, user>>

(* The interrupt is seen while the answer is read: what is already in the  *)
(* pipe is dropped (discard_cancelled_input).                              *)
Abort ==
  /\ runtime.at = "reading" /\ runtime.latch
  /\ Interrupted /\ Announce
  /\ stdin' = <<>>
  /\ UNCHANGED <<host, worker, event, turn, stdout, log>>

Reads(kind) ==
  /\ runtime.at = "reading" /\ ~runtime.latch /\ stdin # <<>>
  /\ Head(stdin).kind = kind
  /\ stdin' = Tail(stdin)
  /\ UNCHANGED <<host, worker, event, turn, stdout, stderr, log>>
Mine == Head(stdin).id = runtime.request

(* The answer is over, well or badly; the loop decides what follows.       *)
Answered(ok) ==
  runtime' = [runtime EXCEPT !.at = "answered", !.part = 0,
                             !.result = IF ~ok THEN "failed"
                                        ELSE IF runtime.tools THEN "tools" ELSE "stop"]

ReadHead ==
  Reads("head") /\ runtime' = [runtime EXCEPT !.part = Head(stdin).id]

(* A whole data frame.  A batch of tools is kept until the receipt, and    *)
(* nothing may follow it.                                                  *)
ReadTail ==
  /\ Reads("tail")
  /\ IF runtime.part # Head(stdin).id \/ ~Mine
     THEN runtime' = [runtime EXCEPT !.part = 0]
     ELSE IF runtime.tools THEN Answered(FALSE)
     ELSE runtime' = [runtime EXCEPT !.part = 0, !.got = @ + 1,
                                     !.tools = Head(stdin).what = "tools"]

(* A prompt that arrives while an answer is read is a line of no meaning.  *)
ReadPrompt ==
  Reads("prompt") /\ runtime' = [runtime EXCEPT !.part = 0]

(* model_done counts when its reason agrees with the tools that came.      *)
Agrees(what) == what = IF runtime.tools THEN "tool_calls" ELSE "stop"

ReadFinal ==
  /\ Reads("final")
  /\ IF Mine THEN Answered(Agrees(Head(stdin).what)) ELSE UNCHANGED runtime

(* The newline of a fresh receipt ends a frame that was cut: the fragment  *)
(* is an error of its own, if it got as far as its id.                     *)
ReadFresh ==
  /\ runtime.at = "reading" /\ ~runtime.latch /\ stdin # <<>>
  /\ Head(stdin).kind = "fresh"
  /\ IF runtime.part # 0
     THEN \/ /\ runtime.part = runtime.request
             /\ Answered(FALSE)
             /\ stdin' = <<[Head(stdin) EXCEPT !.kind = "final"]>> \o Tail(stdin)
          \/ /\ runtime' = [runtime EXCEPT !.part = 0]
             /\ UNCHANGED stdin
     ELSE /\ IF Mine THEN Answered(FALSE) ELSE UNCHANGED runtime
          /\ stdin' = Tail(stdin)
  /\ UNCHANGED <<host, worker, event, turn, stdout, stderr, log>>

(* read_line_fd: half an hour of silence ends the answer.                  *)
IdleOut ==
  /\ runtime.at = "reading" /\ ~runtime.latch /\ stdin = <<>> /\ stdout = <<>>
  /\ Answered(FALSE)
  /\ UNCHANGED <<host, worker, event, turn, pipes, log>>

(* design_remote_run_turn after an answer: another round, or the end.  An  *)
(* interrupt is looked for before the next request, not before the end.    *)
GoOn ==
  /\ runtime.at = "answered" /\ runtime.asked < MaxRequests
  /\ runtime' = [runtime EXCEPT !.at = "asking", !.result = "none"]
  /\ UNCHANGED <<host, worker, event, turn, pipes, log>>

EndTurn ==
  /\ runtime.at = "answered"
  /\ runtime' = Idle(runtime)
  /\ Announce
  /\ UNCHANGED <<host, worker, event, turn, stdin, stdout, log>>

RuntimeDies ==
  /\ runtime.at \notin {"dead", "gone"}
  /\ runtime' = [NoRuntime EXCEPT !.at = "dead"]
  /\ UNCHANGED <<host, worker, event, turn, pipes, log>>

RuntimeObeys == turn.stop /\ RuntimeDies
-----------------------------------------------------------------------------
Init ==
  /\ cur = NoRelay /\ next = NoRelay
  /\ worker = NoWorker /\ event = NoEvent
  /\ turn = [ready |-> FALSE, working |-> FALSE, pending |-> FALSE, stop |-> FALSE, task |-> 0]
  /\ runtime = [NoRuntime EXCEPT !.at = "idle"]
  /\ stdin = <<>> /\ stdout = <<>> /\ stderr = <<"waiting">>
  /\ user = [prompts |-> 0, interrupts |-> 0, hit |-> {}]
  /\ made = NothingMade

User == Send \/ Interrupt \/ Stop
Drain == DrainSeparator \/ DrainHeader \/ DrainBody \/ DrainWaiting
Tick ==
  \/ DeliveryDeadline \/ RequestDeadline \/ ReapWorker \/ DeliverFinal
  \/ DropCanceled \/ DeliverPiece \/ TakeReceipt \/ WorkerLost \/ OwnerLost
Worker == WorkerHears \/ (\E end \in Endings : WorkerEnds(end)) \/ WorkerDies
Reading == ReadHead \/ ReadTail \/ ReadPrompt \/ ReadFinal \/ ReadFresh
Runtime ==
  \/ \E n \in 1 .. 2 : TakePrompt(n)
  \/ Ask \/ Abort \/ Reading \/ IdleOut \/ GoOn \/ EndTurn \/ RuntimeDies

Next == User \/ Drain \/ Tick \/ Reap \/ Worker \/ Runtime

Spec == Init /\ [][Next]_vars

(* The host runs its handlers again and again and its clocks run, a worker *)
(* that is killed dies, a runtime goes on with what it can do.             *)
FairSpec ==
  /\ Spec
  /\ WF_vars(Drain) /\ WF_vars(Tick) /\ WF_vars(Reap)
  /\ WF_vars(WorkerObeys) /\ WF_vars(RuntimeObeys)
  /\ WF_vars(Ask \/ Abort \/ Reading \/ EndTurn) /\ WF_vars(IdleOut)
  /\ WF_vars(\E n \in 1 .. 2 : TakePrompt(n))
-----------------------------------------------------------------------------
Relays == [id : Ids, valid : BOOLEAN, complete : BOOLEAN, cut : BOOLEAN,
           canceled : BOOLEAN, stopping : BOOLEAN, fresh : BOOLEAN,
           final : {"none", "error", "stop", "tool_calls"}]
TypeOK ==
  /\ cur \in Relays /\ next \in Relays
  /\ worker.is \in {"none", "up", "dead"} /\ Len(worker.out) <= MaxText + 2
  /\ event \in [at : {"none", "prefix", "model", "discard"}, valid : BOOLEAN]
  /\ turn \in [ready : BOOLEAN, working : BOOLEAN, pending : BOOLEAN,
               stop : BOOLEAN, task : Prompts]
  /\ runtime \in [at : {"idle", "asking", "reading", "answered", "dead", "gone"},
                   turn : Prompts, request : Ids, asked : Ids, part : Ids,
                   got : 0 .. MaxText + 1, tools : BOOLEAN, latch : BOOLEAN,
                   result : {"none", "failed", "stop", "tools"},
                   killed : Prompts]
  /\ made \in [sent : 0 .. MaxText + 1, batch : BOOLEAN]
  /\ Len(stdin) <= 3 + MaxPrompts /\ stderr \in Seq({"waiting"})

(* One worker at a time: a second request is held only while the canceled  *)
(* one before it is being taken down.                                      *)
PendingWaitsForCanceled == IsRelay(next) => IsRelay(cur) /\ cur.canceled

(* Stop is stop: from the interrupt of a turn until the runtime says that  *)
(* it waits, not one more byte is written to it.                           *)
InterruptSilences ==
  [][turn.pending /\ turn'.pending => Len(stdin') <= Len(stdin)]_vars

(* An answer that the runtime counts as complete, in a turn the user asked *)
(* for, is complete: every frame the worker of that very request sent was  *)
(* read, whatever was canceled, cut or delivered late before it.           *)
AnswerIsWhole ==
  runtime.turn # 0 /\ runtime.result \in {"stop", "tools"} =>
    runtime.got = made.sent

(* Tools run only from a batch whose every call is whole, of a stream that *)
(* said it was done and that tools were the reason.                        *)
ToolsAreWhole ==
  runtime.result = "tools" => made.batch

(* A turn ends: whatever the model, its worker and the runtime do, the host*)
(* takes prompts again, or has no runtime any more.                        *)
TurnEnds == turn.working ~> ~turn.working

(* SIGINT interrupts one Design turn (ds4_design.c:269): a prompt that was *)
(* sent after the interrupt settled is not interrupted by it.              *)
InterruptEndsItsTurn == runtime.killed \in user.hit \cup {0}
(* The consumer of a cut frame gets an explicit failure                    *)
(* (dstudio_model_rpc.c:168), never a prompt: every prompt is the user's.  *)
PromptsAreTheUsers ==
  runtime.at \in {"asking", "reading", "answered"} => runtime.turn # 0
=============================================================================
