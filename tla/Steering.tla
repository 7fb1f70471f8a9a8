------------------------------ MODULE Steering ------------------------------
(***************************************************************************)
(* Input for a running turn: the host side (dstudio_steering.c and the     *)
(* turn bookkeeping of dstudio.c), the client in the Agent process         *)
(* (dstudio_remote_llm.c) and the loop of the Agent that uses it           *)
(* (remote-agent.cfrag).                                                   *)
(*                                                                         *)
(* The host admits inputs of the user to the turn that runs; the Agent     *)
(* pulls them between two rounds of the model, appends each one to its     *)
(* transcript and acknowledges it with its next pull.  The pull that would *)
(* end the turn seals it.  The Agent waits two seconds for an answer; the  *)
(* host, which is one thread, may serve the pull much later.  The host may *)
(* interrupt or stop the Agent, and the Agent may die, at any moment.  A   *)
(* text is left out: an id stands for the text it came with, and ids are   *)
(* numbered in the order in which the user first sends them.               *)
(***************************************************************************)
EXTENDS Naturals, Sequences, FiniteSets, SequencesExt

CONSTANTS
  MaxPending,  (* 16: inputs of a turn that are not applied                *)
  MaxInputs,   (* 128: inputs of a turn                                    *)
  MaxTurns,    (* bound on the turns of a behaviour                        *)
  MaxLives,    (* bound on the Agent processes of a behaviour              *)
  TranscriptFills  (* may the transcript of the Agent reach its budget?    *)

ASSUME SteeringAssumption ==
  /\ MaxPending \in Nat /\ MaxInputs \in Nat
  /\ MaxTurns \in Nat /\ MaxLives \in Nat
  /\ TranscriptFills \in BOOLEAN

VARIABLES
  steer,     (* g_steer: key, turn, open, inputs                           *)
  active,    (* g_active_turn_task, or 0                                   *)
  working,   (* g_agent_working                                            *)
  interrupt, (* g_interrupt_pending                                        *)
  stopping,  (* g_child_stop_requested                                     *)
  task,      (* the last task id that was given to a turn                  *)
  agent,     (* the Agent process                                          *)
  stdin,     (* the turn whose prompt is in the Agent's pipe, or 0         *)
  stderr,    (* the markers of the Agent the host has not read             *)
  wire,      (* pulls on their way to the host, in the order of accept     *)
  reply,     (* the answer to the pull the Agent waits for                 *)
  (* history, turn by turn: see TurnInput                                  *)
  admitted, appended, heard, receipts, sealed

host    == <<active, working, interrupt, stopping, task>>
process == <<agent, stdin, stderr>>
link    == <<wire, reply>>
history == <<admitted, appended, heard, receipts, sealed>>
vars    == <<steer, host, process, link, history>>

Turns == 1 .. MaxTurns
Ids == 1 .. MaxTurns * MaxInputs

(* Answers: none yet, anything but 200, an empty pull, the id of the turn, *)
(* or the n-th input.                                                      *)
Silence == [is |-> "silence"]
Refusal == [is |-> "refusal"]
Empty == [is |-> "empty"]
TurnIs(t) == [is |-> "turn", turn |-> t]
Input(i, id) == [is |-> "input", n |-> i, id |-> id]

FreshAgent(key) ==
  [phase |-> "idle", key |-> key, turn |-> 0, ack |-> 0, enabled |-> FALSE,
   finishing |-> FALSE, added |-> FALSE, sigint |-> FALSE, failed |-> FALSE, now |-> 0]
-----------------------------------------------------------------------------
(* steer_active.  A process that died counts until it is reaped.           *)
SteerActive ==
  steer.turn # 0 /\ steer.turn = active /\ working /\ ~interrupt

Unapplied(inputs) == {i \in 1 .. Len(inputs) : inputs[i].state # "applied"}
First(S) == CHOOSE i \in S : \A j \in S : i <= j

Known(id) == \E i \in 1 .. Len(steer.inputs) : steer.inputs[i].id = id

Room ==
  Cardinality(Unapplied(steer.inputs)) < MaxPending /\ Len(steer.inputs) < MaxInputs

(* The user repeats a request or sends a new one.                          *)
IsNew(id) == \A i \in Ids : i < id <=> \E t \in Turns : Contains(admitted[t], i)
Sent(id) == Known(id) \/ IsNew(id)

(* api_steer.  Every other request is answered and changes nothing.        *)
Admit(turn, id) ==
  /\ SteerActive /\ steer.turn = turn
  /\ Sent(id) /\ ~Known(id)
  /\ steer.open
  /\ Room
  /\ steer' = [steer EXCEPT !.inputs = Append(@, [id |-> id, state |-> "pending"])]
  /\ admitted' = [admitted EXCEPT ![turn] = Append(@, id)]
  /\ UNCHANGED <<host, process, link, appended, heard, receipts, sealed>>

(* The answer to the oldest pull.  The Agent gets it if it still waits for *)
(* this very pull, which is then the last one.                             *)
Waits == agent.phase \in {"begin", "drain"} /\ reply = Silence

Answer(r) ==
  /\ wire' = Tail(wire)
  /\ reply' = IF Len(wire) = 1 /\ Waits THEN r ELSE reply

(* api_steer_pull, a pull without a turn: the turn that runs is opened.    *)
BeginServed(pull) ==
  pull.key = steer.key /\ pull.turn = 0 /\ active # 0 /\ ~interrupt

ServeBegin ==
  /\ wire # << >> /\ BeginServed(Head(wire))
  /\ steer' = IF steer.turn = active THEN steer
              ELSE [steer EXCEPT !.turn = active, !.open = TRUE, !.inputs = << >>]
  /\ Answer(TurnIs(active))
  /\ UNCHANGED <<host, process, history>>

(* A pull of the turn that runs, with an acknowledgement the host knows of.*)
AckKnown(ack) ==
  ack # 0 => ack <= Len(steer.inputs) /\ steer.inputs[ack].state # "pending"

TurnServed(pull) ==
  /\ pull.key = steer.key /\ pull.turn # 0
  /\ pull.turn = steer.turn /\ SteerActive
  /\ AckKnown(pull.ack)

Acked(ack) ==
  IF ack = 0 THEN steer.inputs ELSE [steer.inputs EXCEPT ![ack].state = "applied"]

Receipt(ack) ==
  receipts' =
    IF ack = 0 \/ steer.inputs[ack].state = "applied" THEN receipts
    ELSE [receipts EXCEPT ![steer.turn] = Append(@, steer.inputs[ack].id)]

(* Faulty variant: only the last pull of a turn hands out what has come in.*)
ServeInputAtEnd ==
  /\ wire # << >> /\ TurnServed(Head(wire))
  /\ LET pull == Head(wire)
         inputs == Acked(pull.ack)
         i == First(Unapplied(inputs))
     IN  /\ Unapplied(inputs) # {}
         /\ IF inputs[i].state = "delivered" \/ ~pull.finish
            THEN steer' = [steer EXCEPT !.inputs = inputs] /\ Answer(Empty)
            ELSE /\ steer' = [steer EXCEPT !.inputs =
                                [inputs EXCEPT ![i].state = "delivered"]]
                 /\ Answer(Input(i, inputs[i].id))
         /\ Receipt(pull.ack)
  /\ UNCHANGED <<host, process, admitted, appended, heard, sealed>>

(* Faulty variant: what is handed out counts as applied.                   *)
ServeInputOptimistic ==
  /\ wire # << >> /\ TurnServed(Head(wire))
  /\ LET inputs == Acked(Head(wire).ack)
         i == First(Unapplied(inputs))
     IN  /\ Unapplied(inputs) # {}
         /\ steer' = [steer EXCEPT !.inputs = [inputs EXCEPT ![i].state = "applied"]]
         /\ receipts' = [receipts EXCEPT ![steer.turn] = Append(@, inputs[i].id)]
         /\ Answer(Input(i, inputs[i].id))
  /\ UNCHANGED <<host, process, admitted, appended, heard, sealed>>

(* The first input that is not applied is handed out, once.                *)
ServeInput ==
  /\ wire # << >> /\ TurnServed(Head(wire))
  /\ LET pull == Head(wire)
         inputs == Acked(pull.ack)
         i == First(Unapplied(inputs))
     IN  /\ Unapplied(inputs) # {}
         /\ IF inputs[i].state = "delivered"
            THEN steer' = [steer EXCEPT !.inputs = inputs] /\ Answer(Refusal)
            ELSE /\ steer' = [steer EXCEPT !.inputs =
                                [inputs EXCEPT ![i].state = "delivered"]]
                 /\ Answer(Input(i, inputs[i].id))
         /\ Receipt(pull.ack)
  /\ UNCHANGED <<host, process, admitted, appended, heard, sealed>>

(* Nothing to hand out: a finishing pull closes admission.                 *)
ServeEmpty ==
  /\ wire # << >> /\ TurnServed(Head(wire))
  /\ LET pull == Head(wire)
     IN  /\ Unapplied(Acked(pull.ack)) = {}
         /\ steer' = [steer EXCEPT !.inputs = Acked(pull.ack), !.open = @ /\ ~pull.finish]
         /\ sealed' = IF pull.finish THEN sealed \cup {steer.turn} ELSE sealed
         /\ Receipt(pull.ack)
  /\ Answer(Empty)
  /\ UNCHANGED <<host, process, admitted, appended, heard>>

ServeRefusal ==
  /\ wire # << >> /\ ~BeginServed(Head(wire)) /\ ~TurnServed(Head(wire))
  /\ Answer(Refusal)
  /\ UNCHANGED <<steer, host, process, history>>
-----------------------------------------------------------------------------
(* The turns of the host: api_agent_send, dtg_agent_submit_for_graph.      *)
Send ==
  /\ ~stopping /\ ~working /\ ~interrupt
  /\ task < MaxTurns
  /\ task' = task + 1
  /\ active' = task + 1
  /\ working' = TRUE
  /\ stdin' = task + 1
  /\ UNCHANGED <<steer, interrupt, stopping, agent, stderr, link, history>>

(* api_agent_interrupt gives up the task; the cancel of a node and the     *)
(* watchdog, which call dtg_executor_cancel, keep it.                      *)
Interrupt ==
  /\ working
  /\ interrupt' = TRUE
  /\ active' \in {0, active}
  /\ agent' = [agent EXCEPT !.sigint = TRUE]
  /\ UNCHANGED <<steer, working, stopping, task, stdin, stderr, link, history>>

(* pump: +DSTUDIO_TURN_ERROR, then +DWARFSTAR_WAITING.                     *)
TurnError ==
  /\ stderr = "error, waiting"
  /\ stderr' = "waiting"
  /\ active' = 0
  /\ UNCHANGED <<steer, working, interrupt, stopping, task, agent, stdin, link, history>>

Waiting ==
  /\ stderr = "waiting" /\ ~stopping
  /\ stderr' = "none"
  /\ active' = 0 /\ working' = FALSE /\ interrupt' = FALSE
  /\ UNCHANGED <<steer, stopping, task, agent, stdin, link, history>>

RequestStop ==
  /\ ~stopping /\ steer.key < MaxLives
  /\ stopping' = TRUE
  /\ active' = 0 /\ working' = FALSE /\ interrupt' = FALSE
  /\ UNCHANGED <<steer, task, process, link, history>>

(* reap_child and the next start, which calls steer_prepare.               *)
Restart ==
  /\ agent.phase = "dead"
  /\ steer' = [key |-> steer.key + 1, turn |-> 0, open |-> FALSE, inputs |-> << >>]
  /\ active' = 0 /\ working' = FALSE /\ interrupt' = FALSE /\ stopping' = FALSE
  /\ agent' = FreshAgent(steer.key + 1)
  /\ stdin' = 0 /\ stderr' = "none"
  /\ UNCHANGED <<task, link, history>>
-----------------------------------------------------------------------------
(* The Agent process.  steer_exchange sends the pull and waits.            *)
Pull(turn, ack, finish) ==
  wire' = Append(wire, [key |-> agent.key, turn |-> turn, ack |-> ack, finish |-> finish])

(* A turn begins with dstudio_steer_begin.                                 *)
StartTurn ==
  /\ agent.phase = "idle" /\ stdin # 0
  /\ stdin' = 0
  /\ agent' = [FreshAgent(agent.key) EXCEPT !.phase = "begin", !.now = stdin,
                                            !.failed = agent.failed]
  /\ Pull(0, 0, FALSE)
  /\ UNCHANGED <<steer, host, stderr, reply, history>>

Begun ==
  /\ agent.phase = "begin" /\ reply # Silence
  /\ agent' = [agent EXCEPT !.phase = "loop", !.enabled = reply.is = "turn",
                            !.turn = IF reply.is = "turn" THEN reply.turn ELSE 0]
  /\ reply' = Silence
  /\ UNCHANGED <<steer, host, stdin, stderr, wire, history>>

EndTurn(markers) ==
  /\ agent' = [agent EXCEPT !.phase = "idle"]
  /\ stderr' = markers
  /\ UNCHANGED heard

AskModel(enabled) ==
  /\ agent' = [agent EXCEPT !.phase = "model", !.enabled = enabled]
  /\ heard' = [heard EXCEPT ![agent.now] = Len(appended[agent.now])]
  /\ UNCHANGED stderr

Drain(finishing) ==
  /\ agent' = [agent EXCEPT !.phase = "drain", !.finishing = finishing, !.added = FALSE]
  /\ Pull(agent.turn, agent.ack, finishing)
  /\ UNCHANGED <<stderr, heard>>

(* A transcript that failed has no snapshot: the turn ends in an error.    *)
AskOrFail(enabled) ==
  IF agent.failed THEN EndTurn("error, waiting") ELSE AskModel(enabled)

(* The top of the loop: stop, or drain what has come in.                   *)
Loop ==
  /\ agent.phase = "loop"
  /\ \/ agent.sigint /\ EndTurn("waiting") /\ UNCHANGED wire
     \/ agent.enabled /\ Drain(FALSE)
     \/ ~agent.enabled /\ AskOrFail(FALSE) /\ UNCHANGED wire
  /\ UNCHANGED <<steer, host, stdin, reply, admitted, appended, receipts, sealed>>

(* The model has answered: tools and another round, an end by an error, a  *)
(* question or an interrupt, or an answer, before which the Agent drains.  *)
Model ==
  /\ agent.phase = "model"
  /\ \/ /\ agent' = [agent EXCEPT !.phase = "loop"]
        /\ UNCHANGED <<stderr, wire, heard>>
     \/ \E markers \in {"waiting", "error, waiting"} : EndTurn(markers) /\ UNCHANGED wire
     \/ agent.enabled /\ Drain(TRUE)
  /\ UNCHANGED <<steer, host, stdin, reply, admitted, appended, receipts, sealed>>

(* dstudio_steer_drain returns; a turn goes on if it has added something.  *)
Drained(enabled) ==
  IF ~agent.finishing THEN AskOrFail(enabled)
  ELSE IF agent.added
  THEN /\ agent' = [agent EXCEPT !.phase = "loop", !.enabled = enabled]
       /\ UNCHANGED <<stderr, heard>>
  ELSE EndTurn("waiting")

(* An input: append it, then ask for the next one, acknowledging this one. *)
(* The append may fail and says so to nobody but the transcript.           *)
HasInput == agent.phase = "drain" /\ reply.is = "input" /\ reply.n > agent.ack

(* Faulty variant: the pull after an input still asks for the seal.        *)
AppendInputFinishing ==
  /\ HasInput
  /\ appended' = [appended EXCEPT ![agent.now] = Append(@, reply.id)]
  /\ agent' = [agent EXCEPT !.ack = reply.n, !.added = TRUE]
  /\ reply' = Silence
  /\ Pull(agent.turn, reply.n, agent.finishing)
  /\ UNCHANGED <<steer, host, stdin, stderr, admitted, heard, receipts, sealed>>

AppendInput ==
  /\ HasInput
  /\ \E fails \in {agent.failed, agent.failed \/ TranscriptFills} :
       /\ agent' = [agent EXCEPT !.ack = reply.n, !.added = TRUE, !.failed = fails]
       /\ appended' = IF fails THEN appended
                      ELSE [appended EXCEPT ![agent.now] =
                              Append(@, reply.id)]
  /\ reply' = Silence
  /\ Pull(agent.turn, reply.n, FALSE)
  /\ UNCHANGED <<steer, host, stdin, stderr, admitted, heard, receipts, sealed>>

NoInput ==
  /\ agent.phase = "drain" /\ reply # Silence /\ ~HasInput
  /\ Drained(reply.is = "empty")
  /\ reply' = Silence
  /\ UNCHANGED <<steer, host, stdin, wire, admitted, appended, receipts, sealed>>

(* Two seconds without an answer, or a broken one: nothing is retried.     *)
GiveUp ==
  /\ agent.phase \in {"begin", "drain"}
  /\ reply' = Silence
  /\ IF agent.phase = "begin"
     THEN agent' = [agent EXCEPT !.phase = "loop"] /\ UNCHANGED <<stderr, heard>>
     ELSE Drained(FALSE)
  /\ UNCHANGED <<steer, host, stdin, wire, admitted, appended, receipts, sealed>>

Die ==
  /\ agent.phase # "dead" /\ steer.key < MaxLives
  /\ agent' = [agent EXCEPT !.phase = "dead"]
  /\ reply' = Silence
  /\ UNCHANGED <<steer, host, stdin, stderr, wire, history>>
-----------------------------------------------------------------------------
Init ==
  /\ steer = [key |-> 1, turn |-> 0, open |-> FALSE, inputs |-> << >>]
  /\ active = 0 /\ working = FALSE /\ interrupt = FALSE /\ stopping = FALSE
  /\ task = 0
  /\ agent = FreshAgent(1)
  /\ stdin = 0 /\ stderr = "none"
  /\ wire = << >> /\ reply = Silence
  /\ admitted = [t \in Turns |-> << >>]
  /\ appended = [t \in Turns |-> << >>]
  /\ heard = [t \in Turns |-> 0]
  /\ receipts = [t \in Turns |-> << >>]
  /\ sealed = {}

Serve == ServeBegin \/ ServeInput \/ ServeEmpty \/ ServeRefusal

AgentStep ==
  \/ StartTurn \/ Begun \/ Loop \/ Model \/ AppendInput \/ NoInput \/ GiveUp

Next ==
  \/ \E t \in Turns, id \in Ids : Admit(t, id)
  \/ Serve \/ Send \/ Interrupt \/ TurnError \/ Waiting \/ RequestStop \/ Restart
  \/ AgentStep \/ Die

Spec == Init /\ [][Next]_vars

(* The Agent goes on: the model answers, and an exchange ends within two   *)
(* seconds.  The main loop serves what it accepted and reads its pipes.    *)
FairSpec ==
  Spec /\ WF_vars(AgentStep) /\ WF_vars(Serve) /\ WF_vars(TurnError \/ Waiting)
-----------------------------------------------------------------------------
(* The type invariant, with the limits of docs/GOALS_AND_STEERING.md on    *)
(* what a turn holds.                                                      *)
Pulls == [key : 1 .. MaxLives, turn : 0 .. MaxTurns, ack : 0 .. MaxInputs, finish : BOOLEAN]

TypeOK ==
  /\ steer.key \in 1 .. MaxLives /\ steer.turn \in 0 .. MaxTurns /\ steer.open \in BOOLEAN
  /\ steer.inputs \in Seq([id : Ids, state : {"pending", "delivered", "applied"}])
  /\ Len(steer.inputs) <= MaxInputs
  /\ Cardinality(Unapplied(steer.inputs)) <= MaxPending
  /\ active \in 0 .. MaxTurns /\ task \in 0 .. MaxTurns
  /\ working \in BOOLEAN /\ interrupt \in BOOLEAN /\ stopping \in BOOLEAN
  /\ agent \in [phase : {"idle", "begin", "loop", "drain", "model", "dead"},
               key : 1 .. MaxLives, turn : 0 .. MaxTurns, ack : 0 .. MaxInputs,
               enabled : BOOLEAN, finishing : BOOLEAN, added : BOOLEAN,
               sigint : BOOLEAN, failed : BOOLEAN, now : 0 .. MaxTurns]
  /\ stdin \in 0 .. MaxTurns /\ stderr \in {"none", "waiting", "error, waiting"}
  /\ wire \in Seq(Pulls)
  /\ \A t \in Turns :
       /\ admitted[t] \in Seq(Ids) /\ appended[t] \in Seq(Ids) /\ receipts[t] \in Seq(Ids)
       /\ heard[t] \in Nat
  /\ sealed \subseteq Turns

(* What the user is promised: each input once, in order, in its own turn,  *)
(* the receipt behind the append, and no input left behind by the seal.    *)
Contract == INSTANCE TurnInput
ImplementsTurnInput == Contract!InputSpec

(* The seal is the last word: a turn whose admission was closed asks the   *)
(* model nothing more, whoever gave up on whose answer.                    *)
SealIsLast ==
  agent.now \in sealed => agent.phase \in {"drain", "idle", "dead"}

(* An input that comes in while the answer is being given continues the    *)
(* same turn: a turn that ends with an answer has given the model all that *)
(* it has appended.                                                        *)
BoundaryInputIsHeard ==
  agent.phase = "idle" /\ agent.finishing /\ ~agent.sigint
    => heard[agent.now] = Len(appended[agent.now])

(* An input admitted to a turn is given to the model while the turn goes   *)
(* on, also if the model calls tools for ever: only the end of the turn,   *)
(* an interrupt or a lost exchange can leave it behind.                    *)
Steered(t) ==
  active = t /\ ~interrupt /\ agent.now = t /\ agent.phase # "dead" /\ agent.enabled

AdmittedIsHeard ==
  \A t \in Turns, n \in 1 .. MaxInputs :
    Steered(t) /\ Len(admitted[t]) >= n ~> heard[t] >= n \/ ~Steered(t)

(* "ACK only after the owner appended the actual user input."              *)
ReceiptAfterAppend ==
  \A t \in Turns :
    /\ Len(receipts[t]) <= Len(appended[t])
    /\ \A i \in 1 .. Len(receipts[t]) : receipts[t][i] = appended[t][i]
=============================================================================
