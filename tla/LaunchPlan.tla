----------------------------- MODULE LaunchPlan -----------------------------
(***************************************************************************)
(* Which configurations a launch admits (api_start before it opens a job,  *)
(* and the preflight that the preparation, the revalidation and the spawn  *)
(* repeat; dstudio.c).  EngineHost starts from an admitted request.        *)
(*                                                                         *)
(* A request is a record: the family of the model and of the engine that   *)
(* is selected, mode, remote, the context in thousands of tokens, whether  *)
(* thinking is Max, whether the power is full, DSpark, expert streaming,   *)
(* whether the user confirmed the memory, and the files that are there.    *)
(* Sizes of files and memory are small numbers.                            *)
(***************************************************************************)
EXTENDS Naturals, FiniteSets

CONSTANTS
  Platform,      (* of the build: "macos", "linux" or "windows"            *)
  Budget,        (* local_metal_budget_bytes; 0 when it is not known       *)
  ModelSize,     (* of a Flash model                                       *)
  SupportSize    (* of its DSpark model                                    *)

Metal == Platform = "macos"
Qwens == {"qwen35", "qwen38"}
-----------------------------------------------------------------------------
(* flash_context_memory_bytes and flash_required_memory_bytes: what a      *)
(* context takes grows with it; a constant is kept free.                   *)
ContextSize(ctx) == ctx \div 64 + 1
Needed(ctx, support) == ModelSize + support + ContextSize(ctx) + 1

(* The support model counts when it is wanted and there; a missing one is  *)
(* left to the preflight.                                                  *)
Support(r) == IF r.dspark /\ "support" \in r.files THEN SupportSize ELSE 0
IsKnown(r) == "model" \in r.files /\ Budget # 0

(* normalize_flash_memory_request: DSpark is dropped for a model that is   *)
(* not a Flash one, unless its own preflight rejects it; a pair that does  *)
(* not fit waits for the user.  The context is never reduced.              *)
Normalized(r) ==
  IF ~r.remote /\ r.model \notin {"qwen27", "v41", "flash"} THEN [r EXCEPT !.dspark = FALSE] ELSE r
NeedsConfirmation(r) ==
  /\ Metal /\ ~r.remote /\ r.model = "flash" /\ IsKnown(r)
  /\ r.dspark /\ "support" \in r.files
  /\ Needed(r.ctx, Support(r)) > Budget /\ ~r.confirmed

(* The note that tells of the largest context that would be resident       *)
(* (flash_largest_safe_context); 0 when none is.                           *)
MapsLazily(r) ==
  /\ Metal /\ ~r.remote /\ r.model = "flash" /\ IsKnown(r)
  /\ ~r.dspark /\ r.ssd # "on" /\ Needed(r.ctx, 0) > Budget
LargestSafe(ctx) ==
  LET fits == {c \in {8, 16, 32, 64, 128, 256, 512, 1024} : c <= ctx /\ Needed(c, 0) <= Budget}
  IN IF fits = {} THEN 0 ELSE CHOOSE c \in fits : \A d \in fits : d <= c
-----------------------------------------------------------------------------
(* model_ssd_streaming: expert streaming is refused where it cannot be had *)
(* and is on only when it is asked for.                                    *)
NeverStreams(r) ==
  \/ r.remote \/ r.dspark \/ Platform = "windows"
  \/ r.model \in {"qwen27", "laguna"} \cup Qwens
StreamingRefused(r) == r.ssd = "on" /\ NeverStreams(r)
Streams(r) == r.ssd = "on" /\ ~NeverStreams(r)

(* native_launch_mode_supported                                            *)
ModeSupported(r) ==
  \/ r.remote \/ r.mode = "server"
  \/ IF r.model = "qwen27" \/ r.engine = "q36" THEN r.mode = "agent"
     ELSE \/ r.model \in Qwens /\ r.mode = "agent"
          \/ r.model \notin Qwens /\ r.engine \notin Qwens

(* native_think_context_preflight                                          *)
ThinkFits(r) == ~r.remote /\ r.model = "qwen27" /\ r.mode # "server" /\ r.max => r.ctx >= 96

(* native_launch_preflight, by family.                                     *)
DeepSeek41Fits(r) ==
  r.model = "v41" => Metal /\ r.full /\ ~r.dspark /\ r.ctx <= 1024
Qwen27Fits(r) ==
  /\ r.model = "qwen27" <=> r.engine = "q36"
  /\ r.model = "qwen27" =>
       ~r.dspark /\ Metal /\ r.ctx <= 256 /\ r.full /\ "projector" \in r.files
QwenFits(r) ==
  /\ r.model \in Qwens => Metal
  /\ r.model \in Qwens <=> r.engine \in Qwens
  /\ r.model = "qwen35" <=> r.engine = "qwen35"
FilesThere(r) ==
  /\ "model" \in r.files
  /\ r.model = "qwen38" => "ple" \in r.files
  /\ r.dspark => "support" \in r.files
Preflight(r) ==
  /\ ModeSupported(r) /\ ThinkFits(r)
  /\ ~r.remote => DeepSeek41Fits(r) /\ Qwen27Fits(r) /\ QwenFits(r) /\ FilesThere(r)
  /\ ~StreamingRefused(r)

(* api_start: a dense model has no hotlist, then the memory, then the rest. *)
Admitted(r) == ~NeedsConfirmation(Normalized(r)) /\ Preflight(Normalized(r))
=============================================================================
