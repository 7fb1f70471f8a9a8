---------------------------- MODULE MCEngineHost ----------------------------
(* The launches of the checked instance: a chat and an agent on a local    *)
(* model, both on the resident model, an agent on a remote one.            *)
EXTENDS EngineHost, LaunchPlan

Req(model, piped, force) == [model |-> model, piped |-> piped, force |-> force]

Local ==
  {Req("ds4", FALSE, FALSE), Req("ds4", TRUE, TRUE), Req("q36", FALSE, FALSE),
   Req("q36", TRUE, FALSE)}

Some == Local \cup {Req("remote", TRUE, FALSE)}
-----------------------------------------------------------------------------
(* What may be asked of a launch.                                          *)
AllFiles == {"model", "support", "ple", "projector"}
Bodies ==
  [model : {"flash", "pro", "laguna", "v41", "qwen27", "qwen35", "qwen38"},
   engine : {"ds4", "q36", "qwen35", "qwen38"}, mode : {"server", "agent", "design"},
   remote : BOOLEAN, ctx : {64, 128, 512, 2048}, max : {FALSE}, full : {TRUE},
   dspark : BOOLEAN, ssd : {"off", "auto", "on"}, confirmed : BOOLEAN,
   files : {AllFiles} \cup {AllFiles \ {f} : f \in AllFiles}]
  \cup
  [model : {"v41", "qwen27"}, engine : {"ds4", "q36"}, mode : {"server", "agent", "design"},
   remote : BOOLEAN, ctx : {64, 128, 512, 2048}, max : BOOLEAN, full : BOOLEAN,
   dspark : {FALSE}, ssd : {"off", "on"}, confirmed : {FALSE}, files : {AllFiles}]

(* What is launched can run: the engine is the one of the model, a draft   *)
(* model is there, is of the same family and is never combined with        *)
(* streaming, and a model without power control or below its context for   *)
(* Max is not started.                                                     *)
ASSUME LaunchesAreSupported ==
  \A r \in Bodies :
    LET l == Normalized(r)
    IN Admitted(r) /\ ~r.remote =>
         /\ l.engine = (CASE l.model = "qwen27" -> "q36"
                          [] l.model \in Qwens -> l.model
                          [] OTHER -> "ds4")
         /\ "model" \in l.files
         /\ l.dspark => l.model = "flash" /\ "support" \in l.files /\ ~Streams(l)
         /\ Streams(l) => l.model \in {"flash", "pro", "v41"}
         /\ l.model \in {"v41", "qwen27"} => l.full
         /\ l.model = "qwen27" /\ l.max /\ l.mode = "agent" => l.ctx \in {128}

(* What the user asked for is launched as it is: neither the context nor   *)
(* streaming is changed, DSpark only goes where it has no meaning, and a   *)
(* pair that does not fit is launched only by a user who said so, who is   *)
(* not asked twice.                                                        *)
ASSUME RequestsAreKept ==
  \A r \in Bodies :
    LET l == Normalized(r)
        again == [r EXCEPT !.confirmed = TRUE]
    IN /\ [l EXCEPT !.dspark = r.dspark] = r
       /\ l.dspark # r.dspark => r.model \in {"pro", "laguna"} \cup Qwens
       /\ Admitted(r) => (Streams(l) <=> l.ssd = "on")
       /\ Admitted(r) /\ Metal /\ ~r.remote /\ l.dspark /\ Needed(l.ctx, SupportSize) > Budget =>
            r.confirmed
       /\ ~NeedsConfirmation(Normalized(again))
       /\ Preflight(Normalized(again)) <=> Preflight(l)

(* The advice is sound: the context it names would be resident.            *)
ASSUME AdviceIsSound ==
  \A r \in Bodies :
    MapsLazily(Normalized(r)) => LET c == LargestSafe(r.ctx) IN c # 0 => c < r.ctx /\ Needed(c, 0) <= Budget
=============================================================================
