---------------------------- MODULE ModelStream ----------------------------
(***************************************************************************)
(* The completion stream of a model, as a transport worker reads it        *)
(* (dstudio_model_stream.c and the transports of dstudio.c): each line     *)
(* changes the worker's job, and the end of the stream decides whether the *)
(* completion counts.  Tool calls arrive in fragments under an ordinal; a  *)
(* batch is published only when every call of it is whole.                 *)
(*                                                                         *)
(* A line is a record: text, a fragment of a call, a finish reason, the    *)
(* completion sentinel, or something invalid.                              *)
(***************************************************************************)
EXTENDS Naturals

Ordinals == 0 .. 1
Reasons == {"stop", "tool_calls", "length"}

Line(k, i, r) == [kind |-> k, ordinal |-> i, reason |-> r]
Lines ==
  {Line(k, 0, "stop") : k \in {"text", "done", "invalid"}}
  \cup {Line(k, i, "stop") : k \in {"head", "rest"}, i \in Ordinals}
  \cup {Line("finish", 0, r) : r \in Reasons}

(* model_rpc_job: the calls gathered so far, the finish reason.            *)
NewJob == [calls |-> [i \in Ordinals |-> "absent"], finish |-> "none",
           done |-> FALSE, error |-> FALSE]
Jobs == [calls : [Ordinals -> {"absent", "part", "whole", "broken"}],
         finish : {"none"} \cup Reasons, done : BOOLEAN, error : BOOLEAN]

(* model_rpc_fail                                                          *)
Failed(job) == [job EXCEPT !.error = TRUE, !.done = TRUE]

(* model_rpc_tools_delta: the head of a call names it and opens its        *)
(* arguments, the rest closes them; a fragment too many spoils the call.   *)
Gathered(call, part) ==
  IF call = "absent" /\ part = "head" THEN "part"
  ELSE IF call = "part" /\ part = "rest" THEN "whole"
  ELSE "broken"

(* model_rpc_sse_line                                                      *)
SseLine(job, line) ==
  IF job.error THEN job
  ELSE CASE line.kind = "done" -> [job EXCEPT !.done = TRUE]
         [] line.kind = "finish" ->
              IF job.finish \in {"none", line.reason}
              THEN [job EXCEPT !.finish = line.reason] ELSE Failed(job)
         [] line.kind = "text" ->
              IF job.finish = "none" THEN job ELSE Failed(job)
         [] line.kind \in {"head", "rest"} ->
              IF job.finish = "none"
              THEN [job EXCEPT !.calls[line.ordinal] = Gathered(@, line.kind)]
              ELSE Failed(job)
         [] OTHER -> Failed(job)

(* What a stream of at most n lines may have made of the job.              *)
After[n \in Nat] ==
  IF n = 0 THEN {NewJob}
  ELSE LET before == After[n - 1]
       IN  before \cup {SseLine(job, line) : job \in before, line \in Lines}

HasCalls(job) == \E i \in Ordinals : job.calls[i] # "absent"
(* Every ordinal below the last one seen, and the calls are whole.         *)
CallsAreWhole(job) ==
  \A i \in Ordinals :
    \/ job.calls[i] = "whole"
    \/ job.calls[i] = "absent" /\ \A k \in Ordinals : k > i => job.calls[k] = "absent"

(* Faulty variant: the finish reason vouches for the calls.                *)
CompletesUnchecked(job) ==
  ~job.error /\ IF HasCalls(job) THEN job.finish = "tool_calls" ELSE job.finish = "stop"

(* model_rpc_complete: the completion counts, and with it its batch.       *)
Completes(job) ==
  /\ ~job.error
  /\ IF HasCalls(job)
     THEN job.done /\ job.finish = "tool_calls" /\ CallsAreWhole(job)
     ELSE job.finish = "stop"

(* model_rpc_http_stream and model_rpc_curl_stream at the end of the       *)
(* connection: an unfinished stream fails, but a provider behind TLS may   *)
(* close a plain answer without the sentinel.                              *)
EndCompletes(job, tls) ==
  /\ ~job.error
  /\ job.done \/ (tls /\ job.finish # "none" /\ ~HasCalls(job))
  /\ Completes(job)
=============================================================================
