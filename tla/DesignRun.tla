----------------------------- MODULE DesignRun -----------------------------
(***************************************************************************)
(* The turns of a Design session (ds4_design.c): main waits for a message, *)
(* a turn samples the model, runs the tool calls it answers with and       *)
(* samples again, until an answer without a call ends it.  The same tools  *)
(* (module DesignProject) are driven by one of two loops, for a local      *)
(* engine (run_turn) or for a remote model (design_remote_run_turn); they  *)
(* differ in how they recover, in what they bound and in when they stop.   *)
(*                                                                         *)
(* SIGINT only sets a latch; the loops look at it between two steps.       *)
(***************************************************************************)
EXTENDS DesignProject, DesignSession

CONSTANTS
  Loops,            (* the loops a process may have been started with      *)
  Used,             (* the tools the model calls                           *)
  MaxTodoContinues, (* DESIGN_INCOMPLETE_TODO_AUTO_CONTINUES               *)
  MaxGenContinues,  (* DESIGN_GENERATION_AUTO_CONTINUES                    *)
  MaxRetries,       (* DESIGN_REMOTE_AUTO_CONTINUES                        *)
  MaxToolErrors,    (* DESIGN_REMOTE_MAX_TOOL_ERRORS                       *)
  MaxBatch,         (* bound on the calls of one answer                    *)
  MaxSteers,        (* bound on the steering messages a turn takes         *)
  MaxSignals        (* bound on the SIGINTs                                *)

ASSUME RunAssumption ==
  /\ Loops \subseteq {"local", "remote"}
  /\ Used \subseteq Tools
  /\ {MaxTodoContinues, MaxGenContinues, MaxRetries, MaxBatch, MaxSteers, MaxSignals} \subseteq Nat
  /\ MaxToolErrors \in Nat \ {0}

VARIABLES
  turn,   (* where the process is, and the counters of the turn            *)
  latch,  (* g_design_interrupt_requested                                  *)
  tally   (* the signals so far, the turns they ended, and whether the     *)
          (* session was asked for a wording                               *)

vars == <<project, files, shell, call, owed, reviewed, turn, latch, tally, live, saved>>

Local == turn.loop = "local"
Over == turn.at \in {"prompt", "down"}

(* What a turn starts with.                                                *)
FreshTurn(loop) ==
  [loop |-> loop, at |-> "prompt", kind |-> "none", left |-> 0, erred |-> FALSE,
   todo |-> 0, gen |-> 0, retries |-> 0, streak |-> 0, plain |-> FALSE, steers |-> 0]

RunInit ==
  /\ ProjectInit /\ SessionInit
  /\ turn \in {FreshTurn(l) : l \in Loops}
  /\ latch = FALSE
  /\ tally = [signals |-> 0, cut |-> 0, asked |-> FALSE]

Quiet == call' = NoCall /\ UNCHANGED <<files, shell, owed, reviewed>>
SameSession == UNCHANGED <<live, saved>>
At(a) == turn' = [turn EXCEPT !.at = a] /\ SameSession
-----------------------------------------------------------------------------
(* The end of a turn.                                                      *)

(* design_session_save_now: the transcript is saved after every local      *)
(* turn, and the required wording is dropped with it.                      *)
Saved(p) == [p EXCEPT !.copy = FALSE]

AfterSave(p) ==
  \/ Local /\ project' = Saved(p) /\ Saves
  \/ Local /\ project' = p /\ SaveFails
  \/ ~Local /\ project' = p /\ SameSession

Ends(p) ==
  /\ AfterSave(Finished(p))
  /\ turn' = FreshTurn(turn.loop)

(* Where the loops look at the latch before they go on.                    *)
(* Faulty variant: they do not look.                                       *)
LooksAway(a) == turn.at = a
Looks(a) == turn.at = a /\ ~latch

(* design_finish_interrupted_turn: the signal is consumed.                 *)
LatchCleared == FALSE

Interrupted ==
  /\ turn.at \in {"started", "round", "answered", "ran"} /\ latch
  /\ turn.at = "round" => Local
  /\ latch' = LatchCleared
  /\ tally' = [tally EXCEPT !.cut = @ + 1]
  /\ Ends(project) /\ Quiet

(* run_turn returns 1: a compaction or a prefill failed, main leaves its   *)
(* loop and kills the shell jobs.  Most failures leave the run unfinished. *)
Breaks(p) ==
  /\ turn' = [FreshTurn(turn.loop) EXCEPT !.at = "down"]
  /\ shell' = "none" /\ call' = NoCall
  /\ project' = p /\ UNCHANGED <<files, owed, reviewed>> /\ SameSession
-----------------------------------------------------------------------------
(* Between turns.                                                          *)

(* A message: a local loop may have to compact before it, and may fail to. *)
(* The first message of a session names it.                                *)
Message(literal) ==
  /\ turn.at = "prompt"
  /\ \/ /\ project' = Started(literal)
        /\ turn' = [turn EXCEPT !.at = IF Local THEN "started" ELSE "round"]
        /\ tally' = [tally EXCEPT !.asked = @ \/ literal]
        /\ live' = (IF Local THEN Named(live) ELSE live) /\ saved' = saved
        /\ Quiet
     \/ Local /\ Breaks(project) /\ tally' = tally
  /\ latch' = latch

(* The context is full before a message: a compaction makes room, or fails *)
(* and the message is dropped.                                             *)
MakeRoom ==
  /\ turn.at = "prompt" /\ Local
  /\ project' = [project EXCEPT !.phase = "idle"]
  /\ Quiet /\ SameSession /\ UNCHANGED <<turn, latch, tally>>

(* /new: a local session may fail to build its prompt, and then the record *)
(* of the project is not touched.                                          *)
NewSession ==
  /\ turn.at = "prompt"
  /\ \/ project' = Renewed /\ tally' = [tally EXCEPT !.asked = FALSE]
     \/ Local /\ UNCHANGED <<project, tally>>
  /\ IF Local THEN Renews(project' = Renewed) ELSE SameSession
  /\ Quiet /\ UNCHANGED <<turn, latch>>

(* /save                                                                   *)
SaveSession ==
  /\ turn.at = "prompt" /\ Local
  /\ AfterSave(project)
  /\ Quiet /\ UNCHANGED <<turn, latch, tally>>

(* /switch: another transcript; the record of the project is not touched.  *)
SwitchSession ==
  /\ turn.at = "prompt" /\ Local
  /\ Switches
  /\ tally' = [tally EXCEPT !.asked = FALSE]
  /\ Quiet /\ UNCHANGED <<project, turn, latch>>

(* /del                                                                    *)
DeleteSession ==
  /\ turn.at = "prompt" /\ Local
  /\ Deletes
  /\ Quiet /\ UNCHANGED <<project, turn, latch, tally>>

(* The end of the input, or SIGTERM at any time.                           *)
Leave ==
  /\ turn.at # "down"
  /\ Breaks(project) /\ UNCHANGED <<latch, tally>>

Restart ==
  /\ turn.at = "down"
  /\ Reboot /\ IF Local THEN Boots ELSE SameSession
  /\ turn' = FreshTurn(turn.loop)
  /\ latch' = FALSE
  /\ tally' = [tally EXCEPT !.asked = FALSE]

(* design_on_interrupt: the running shell jobs are told too.               *)
Signal ==
  /\ tally.signals < MaxSignals /\ turn.at # "down"
  /\ latch' = TRUE
  /\ tally' = [tally EXCEPT !.signals = @ + 1]
  /\ shell' \in {shell, "none"}
  /\ call' = NoCall /\ UNCHANGED <<project, files, owed, reviewed, turn>> /\ SameSession
-----------------------------------------------------------------------------
(* A round.                                                                *)

Begin == Looks("started") /\ At("round") /\ Quiet /\ UNCHANGED <<project, latch, tally>>

(* How the answer of a model may end: by itself, with a batch of calls, or *)
(* with one that cannot be parsed.  The local loop also stops at the limit *)
(* of its generation; a remote stream may be lost, in a way that may be    *)
(* tried again, or fail.                                                   *)
LocalKinds == {"eos", "batch", "malformed", "limit"}
RemoteKinds == {"eos", "batch", "malformed", "lost", "failed"}

(* Steering is drained, the transcript compacted and synced: each of the   *)
(* last two may fail.                                                      *)
Sample ==
  /\ turn.at = "round" /\ (Local => ~latch)
  /\ \/ \E k \in IF Local THEN LocalKinds ELSE RemoteKinds :
          /\ turn' = [turn EXCEPT !.at = "answered", !.kind = k]
          /\ project' = project /\ Quiet /\ SameSession
     \/ Local /\ Breaks(project)
  /\ UNCHANGED <<latch, tally>>

Again(t) == turn' = [t EXCEPT !.at = "round", !.kind = "none"] /\ SameSession

(* design_generation_end_action                                            *)
MayGenerate == turn.gen < MaxGenContinues

(* An answer cut at the limit of its generation: the loop goes on with it  *)
(* a few times in a turn, and needs room in the context to do so.          *)
Limited ==
  /\ Looks("answered") /\ turn.kind = "limit"
  /\ IF MayGenerate
     THEN \/ Again([turn EXCEPT !.gen = @ + 1]) /\ project' = project /\ Quiet
          \/ Breaks(Finished(project))
     ELSE Ends(project) /\ Quiet
  /\ UNCHANGED <<latch, tally>>

(* A remote stream failed.                                                 *)
Failed ==
  /\ Looks("answered") /\ turn.kind \in {"lost", "failed"}
  /\ IF turn.kind = "lost" /\ turn.retries < MaxRetries
     THEN Again([turn EXCEPT !.retries = @ + 1]) /\ project' = project
     ELSE Ends(project)
  /\ Quiet /\ UNCHANGED <<latch, tally>>

(* While the plan has unfinished steps the loop insists a few times.       *)
Insists ==
  IF turn.todo < MaxTodoContinues
  THEN Again([turn EXCEPT !.todo = @ + 1]) /\ project' = project
  ELSE Ends(project)

(* Else it takes the steering that is still there, or seals it and ends    *)
(* the turn.                                                               *)
Steered ==
  /\ turn.steers < MaxSteers
  /\ Again([turn EXCEPT !.steers = @ + 1]) /\ project' = project

(* An answer without a call.                                               *)
Answered ==
  /\ Looks("answered") /\ turn.kind = "eos"
  /\ IF project.todos = "open" THEN Insists ELSE Steered \/ Ends(project)
  /\ Quiet /\ UNCHANGED <<latch, tally>>
-----------------------------------------------------------------------------
(* A batch of calls.                                                       *)

(* After too many errors in a row a remote model was told to answer in     *)
(* plain text: a call that it still makes ends the turn.                   *)
Refused ==
  /\ Looks("answered") /\ turn.kind \in {"batch", "malformed"} /\ turn.plain
  /\ Ends(project) /\ Quiet /\ UNCHANGED <<latch, tally>>

(* design_tool_round_result: nothing of a malformed batch is executed.     *)
Dispatch ==
  /\ Looks("answered") /\ turn.kind \in {"batch", "malformed"} /\ ~turn.plain
  /\ IF turn.kind = "batch"
     THEN \E n \in 1 .. MaxBatch : turn' = [turn EXCEPT !.at = "tools", !.left = n, !.erred = FALSE]
     ELSE turn' = [turn EXCEPT !.at = "ran", !.left = 0, !.erred = TRUE]
  /\ Quiet /\ SameSession /\ UNCHANGED <<project, latch, tally>>

(* execute_tool_calls: the calls in order, each behind the gates.          *)
CallTool ==
  /\ turn.at = "tools" /\ turn.left > 0 /\ ~latch
  /\ \E t \in Used, p \in Pages : Called(t, p)
  /\ turn' = [turn EXCEPT !.left = @ - 1, !.erred = @ \/ ~Succeeded']
  /\ SameSession /\ UNCHANGED <<latch, tally>>

(* The rest of the batch is deferred, or refused after an interrupt.       *)
SkipTools ==
  /\ turn.at = "tools"
  /\ turn.left = 0 \/ latch \/ project.stop
  /\ turn' = [turn EXCEPT !.at = "ran", !.erred = @ \/ (latch /\ ~project.stop /\ turn.left > 0)]
  /\ Quiet /\ SameSession /\ UNCHANGED <<project, latch, tally>>

(* run_turn after a batch: parsed calls count as progress, the result must *)
(* fit the context, and a tool that waits for the user ends the turn.      *)
Progress(t) == IF t.kind = "batch" THEN [t EXCEPT !.todo = 0] ELSE t

LocalRan ==
  IF project.stop THEN Ends([project EXCEPT !.stop = FALSE])
  ELSE Again(Progress(turn)) /\ project' = project

(* design_remote_run_turn after a batch: errors in a row are counted, and  *)
(* at the limit the model is told to stop calling tools.  Nobody looks at  *)
(* project.stop.                                                           *)
(* Faulty variant: only errors of the parser are counted.                  *)
StreakOfMalformed(t) ==
  IF t.kind = "malformed"
  THEN IF t.streak + 1 >= MaxToolErrors /\ ~t.plain
       THEN [t EXCEPT !.streak = 0, !.plain = TRUE] ELSE [t EXCEPT !.streak = @ + 1]
  ELSE [t EXCEPT !.streak = 0]
Streak(t) ==
  IF t.erred
  THEN IF t.streak + 1 >= MaxToolErrors /\ ~t.plain
       THEN [t EXCEPT !.streak = 0, !.plain = TRUE] ELSE [t EXCEPT !.streak = @ + 1]
  ELSE [t EXCEPT !.streak = 0]

Ran ==
  /\ turn.at = "ran" /\ (Local => ~latch)
  /\ \/ (IF Local THEN LocalRan ELSE Again(Streak(Progress(turn))) /\ project' = project) /\ Quiet
     \/ Local /\ Breaks(project)
  /\ UNCHANGED <<latch, tally>>
-----------------------------------------------------------------------------
Shell ==
  /\ \/ \E p \in Pages, c \in Contents : ShellWrites(p, c)
     \/ ShellEnds
  /\ SameSession /\ UNCHANGED <<turn, latch, tally>>

TurnStep ==
  \/ Begin \/ Sample \/ Interrupted
  \/ Limited \/ Failed \/ Answered
  \/ Refused \/ Dispatch \/ CallTool \/ SkipTools \/ Ran

RunNext ==
  \/ \E literal \in BOOLEAN : Message(literal)
  \/ MakeRoom \/ NewSession \/ SaveSession \/ SwitchSession \/ DeleteSession
  \/ Leave \/ Restart \/ Signal \/ Shell
  \/ TurnStep

RunSpec == RunInit /\ [][RunNext]_vars

(* A turn that runs takes its next step: the model answers or fails, the   *)
(* tools return.                                                           *)
FairRun == RunSpec /\ WF_vars(TurnStep)
-----------------------------------------------------------------------------
RunTypeOK ==
  /\ ProjectTypeOK /\ SessionTypeOK
  /\ turn \in [loop : Loops, at : {"prompt", "started", "round", "answered", "tools", "ran", "down"},
               kind : {"none", "eos", "limit", "lost", "failed", "batch", "malformed"},
               left : 0 .. MaxBatch, erred : BOOLEAN, todo : 0 .. MaxTodoContinues,
               gen : Nat, retries : 0 .. MaxRetries,
               streak : Nat, plain : BOOLEAN, steers : 0 .. MaxSteers]
  /\ latch \in BOOLEAN
  /\ tally \in [signals : 0 .. MaxSignals, cut : Nat, asked : BOOLEAN]

(* A SIGINT ends one turn at most: a turn that was cut consumed a signal   *)
(* of its own, however late in a turn the signal came.                     *)
OneTurnPerSignal == tally.cut <= tally.signals

(* Without new tool calls a turn comes to its end: the continuations a     *)
(* turn is given are bounded, whatever mixture of cut answers, unfinished  *)
(* plans, lost streams and steering asks for them.  A remote turn ends     *)
(* even when it goes on calling tools, if every round has an error; a      *)
(* batch that is deferred because the turn should have stopped has none.   *)
TurnEnds ==
  []<>(Over \/ (turn.at = "tools" /\ (Local \/ Succeeded \/ project.stop)) \/ (turn.kind = "malformed" /\ Local))

(* A signal that comes while a turn runs ends it, or the turn ends by      *)
(* itself.                                                                 *)
InterruptStops == (latch /\ ~Over) ~> Over

(* tool_question: "Stop this turn and wait for the user's answer."  In the *)
(* local loop a tool that waits for the user ends the turn.                *)
LocalQuestionEnds == (Local /\ project.stop /\ ~Over) ~> Over

(* The same of both loops.                                                 *)
QuestionEnds == (project.stop /\ ~Over) ~> Over

(* "Requirements accumulate across revision turns and are reset when the   *)
(* user starts or switches session": while the session lasts, what a       *)
(* message asked for stays required.                                       *)
CopyIsKept == (tally.asked /\ turn.at # "down") => project.copy
=============================================================================
