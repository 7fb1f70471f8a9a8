----------------------------- MODULE MediaJobs -----------------------------
(***************************************************************************)
(* The local image and video jobs.  A request forks a detached generator   *)
(* (dstudio_image.c, dstudio_video.c) that claims the directory of the job,*)
(* asks ds4-server to yield its memory, runs the pipeline script and       *)
(* answers; the script writes worker.pid, loads the model in a child of    *)
(* its own and publishes status.json.  A server stops a job by writing     *)
(* cancel-requested and signalling the pid, and stops the jobs it owns     *)
(* when it exits.                                                          *)
(*                                                                         *)
(* Everything the parties know of each other is in the directory of the    *)
(* job, and every party is a process of its own: a step is one access to   *)
(* the directory, to ds4-server, or one signal.  Several servers share the *)
(* directory; one that exits or dies leaves its generators behind.         *)
(***************************************************************************)
EXTENDS Naturals, FiniteSets

CONSTANTS
  MaxRequests, (* bound on the generate requests, numbered as they arrive, *)
               (* and the generators that serve them                       *)
  Ids,         (* ids of jobs                                              *)
  Asks,        (* the servers and ids a request may ask                    *)
  VideoIds,    (* the ids of video jobs: the rest are images               *)
  First, Second, (* a DStudio server and its successor; the token of one   *)
                 (* is the server itself                                   *)
  Yields,      (* the requests for which memory may be short               *)
  MaxStray,    (* bound on the memory requests that outlive their client   *)
               (* or are lost, in one life of ds4-server                   *)
  Nobody

Requests == 1 .. MaxRequests
Hosts == {First, Second}

ASSUME MediaAssumption ==
  /\ MaxRequests \in Nat
  /\ VideoIds \subseteq Ids /\ Asks \in [Requests -> SUBSET (Hosts \X Ids)]
  /\ Nobody \notin Hosts \cup Requests \cup Ids /\ Hosts \cap {"none", "empty"} = {}
  /\ MaxStray \in Nat /\ Yields \subseteq Requests

VARIABLES
  job,      (* the directories: owner, cancel-requested, status, worker.pid *)
  gen,      (* the generators, one per request                             *)
  runner,   (* their pipeline scripts, and the child with the model        *)
  stop,     (* the stop request each server is serving                     *)
  host,     (* the servers                                                 *)
  engine,   (* ds4-server since it was started: its pressure depth, how    *)
            (* many memory requests outlived their client or were lost,    *)
            (* and how often a lease of its predecessor was released       *)
  lock      (* heavy-model.lock: the request whose processes hold it       *)

vars == <<job, gen, runner, stop, host, engine, lock>>

Ended == {"complete", "cancelled", "error"}

NoJob == [owner |-> "none", cancel |-> FALSE, status |-> "none", pid |-> Nobody]
NoGen == [at |-> "idle", host |-> Nobody, id |-> Nobody, lease |-> "none",
          answer |-> "none"]
NoRunner == [at |-> "none", term |-> FALSE, child |-> "none", rc |-> "none"]
NoStop == [at |-> "idle", id |-> Nobody]

Init ==
  /\ job = [i \in Ids |-> NoJob]
  /\ gen = [r \in Requests |-> NoGen]
  /\ runner = [r \in Requests |-> NoRunner]
  /\ stop = [h \in Hosts |-> NoStop]
  /\ host = [h \in Hosts |-> [at |-> IF h = First THEN "up" ELSE "off", todo |-> {}, waits |-> Nobody]]
  /\ engine = [depth |-> 0, stray |-> 0, early |-> 0]
  /\ lock = Nobody

Id(r) == gen[r].id
IsVideo(r) == Id(r) \in VideoIds
-----------------------------------------------------------------------------
(* The directory of a job.                                                 *)

(* image_job_owned, video_job_owned: the token of the file is this server's *)
(* Faulty variant: a token is enough.                                      *)
OwnedByAnyone(h, i) == job[i].owner \in Hosts
Owned(h, i) == job[i].owner = h

CancelRequested(i) == job[i].cancel

(* image_write_status: whatever was there is replaced.                     *)
Status(i, s) == [job EXCEPT ![i].status = s]

(* What the generator answers it answers once, and it exits.               *)
Answer(r, a) == gen' = [gen EXCEPT ![r].at = "done", ![r].answer = a]
At(r, a) == gen' = [gen EXCEPT ![r].at = a]

(* image_generation_cancelled                                              *)
(* Faulty variant: only the client is told.                                *)
AnswerCancelledOnly(r) == job' = job /\ Answer(r, "cancelled")
AnswerCancelled(r) ==
  job' = Status(Id(r), "cancelled") /\ Answer(r, "cancelled")
-----------------------------------------------------------------------------
(* The generator.                                                          *)

(* api_image_generate, api_video_generate: the request is forked off twice *)
(* and its fields are validated; one that is refused leaves no trace.      *)
Admit(r, h, i) ==
  /\ gen[r].at = "idle" /\ host[h].at = "up" /\ <<h, i>> \in Asks[r]
  /\ \A q \in 1 .. r - 1 : gen[q].at # "idle"
  /\ gen' = [gen EXCEPT ![r] = [@ EXCEPT !.at = "claim", !.host = h, !.id = i]]
  /\ UNCHANGED <<job, runner, stop, host, engine, lock>>

(* image_claim_job, first half: server-owner is created, and must not be   *)
(* there.                                                                  *)
Claim(r) ==
  /\ gen[r].at = "claim"
  /\ IF job[Id(r)].owner = "none"
     THEN job' = [job EXCEPT ![Id(r)].owner = "empty"] /\ At(r, "token")
     ELSE job' = job /\ Answer(r, "conflict")
  /\ UNCHANGED <<runner, stop, host, engine, lock>>

(* image_claim_job, second half: the token is written; a short write       *)
(* removes the file.                                                       *)
WriteToken(r) ==
  /\ gen[r].at = "token"
  /\ \/ job' = [job EXCEPT ![Id(r)].owner = gen[r].host] /\ At(r, "sources")
     \/ job' = [job EXCEPT ![Id(r)].owner = "none"] /\ Answer(r, "conflict")
  /\ UNCHANGED <<runner, stop, host, engine, lock>>

(* The sources and the prompt are written, and the job is running.         *)
Prepared(r) == job' = Status(Id(r), "running") /\ At(r, "check1")

(* A picture that cannot be decoded or written is told in the status ...   *)
BadSource(r) == job' = Status(Id(r), "error") /\ Answer(r, "error")

(* ... a prompt that cannot be written is not: the claim stays "queued".   *)
Unwritten(r) == job' = job /\ Answer(r, "unwritten")

WriteSources(r) ==
  /\ gen[r].at = "sources"
  /\ Prepared(r) \/ BadSource(r) \/ Unwritten(r)
  /\ UNCHANGED <<runner, stop, host, engine, lock>>

CheckPrepared(r) ==
  /\ gen[r].at = "check1"
  /\ IF CancelRequested(Id(r)) THEN AnswerCancelled(r) ELSE job' = job /\ At(r, "lease")
  /\ UNCHANGED <<runner, stop, host, engine, lock>>

Holding(r, held, a) == gen' = [gen EXCEPT ![r].lease = held, ![r].at = a]

(* media_memory_begin: where the memory is short, or the model is not the  *)
(* local server's, nothing is asked.  Otherwise ds4-server counts the      *)
(* lease, or refuses it; or the client gives up after a minute on a        *)
(* request that waits for the running inference and is counted after it.   *)
LeaseBegin(r) ==
  /\ gen[r].at = "lease"
  /\ \/ Holding(r, "none", "check2") /\ engine' = engine
     \/ /\ r \in Yields /\ Holding(r, "held", "check2")
        /\ engine' = [engine EXCEPT !.depth = @ + 1]
     \/ r \in Yields /\ At(r, "denied") /\ engine' = engine
     \/ /\ r \in Yields /\ engine.stray < MaxStray /\ At(r, "denied")
        /\ engine' = [engine EXCEPT !.depth = @ + 1, !.stray = @ + 1]
  /\ UNCHANGED <<job, runner, stop, host, lock>>

(* The lease is not ready: the pipeline is not started.                    *)
LeaseDenied(r) ==
  /\ gen[r].at = "denied"
  /\ IF CancelRequested(Id(r))
     THEN AnswerCancelled(r)
     ELSE job' = Status(Id(r), "error") /\ Answer(r, "memory")
  /\ UNCHANGED <<runner, stop, host, engine, lock>>

(* The last look; setup_run_cmd_capture starts the script.                 *)
Run(r) ==
  /\ gen[r].at = "check2"
  /\ IF CancelRequested(Id(r))
     THEN At(r, "drop") /\ runner' = runner
     ELSE At(r, "wait") /\ runner' = [runner EXCEPT
                             ![r].at = IF IsVideo(r) THEN "locking" ELSE "boot"]
  /\ UNCHANGED <<job, stop, host, engine, lock>>

(* ds4_engine_memory_pressure_end.  ds4-server does not know whose lease it *)
(* is: one that was given before its start is taken off its depth too.     *)
Released(e, early) ==
  IF e.depth = 0 THEN e ELSE [e EXCEPT !.depth = @ - 1, !.early = @ + early]

(* media_memory_end, on the way out of a cancelled job and when the script *)
(* has ended.  The lease is cleared whether the request got through or not.*)
LeaseEnd(r) ==
  /\ gen[r].at = "drop" \/ (gen[r].at = "wait" /\ runner[r].at = "gone")
  /\ CASE gen[r].lease = "held" ->
              \/ engine' = Released(engine, 0)
              \/ engine.stray < MaxStray /\ engine' = [engine EXCEPT !.stray = @ + 1]
       [] gen[r].lease = "void" -> engine' \in {Released(engine, 1), engine}
       [] OTHER -> engine' = engine
  /\ Holding(r, "none", IF gen[r].at = "drop" THEN "dropped" ELSE "check3")
  /\ UNCHANGED <<job, runner, stop, host, lock>>

Dropped(r) ==
  /\ gen[r].at = "dropped" /\ AnswerCancelled(r)
  /\ UNCHANGED <<runner, stop, host, engine, lock>>

CheckDone(r) ==
  /\ gen[r].at = "check3"
  /\ IF CancelRequested(Id(r)) THEN AnswerCancelled(r) ELSE job' = job /\ At(r, "judge")
  /\ UNCHANGED <<runner, stop, host, engine, lock>>

(* A run that failed keeps the error its worker told; one that succeeded   *)
(* must have told that it is complete.                                     *)
Judge(r) ==
  /\ gen[r].at = "judge"
  /\ LET told == job[Id(r)].status IN
     IF runner[r].rc = "ok" /\ told = "complete"
     THEN job' = job /\ Answer(r, "ok")
     ELSE /\ Answer(r, "error")
          /\ job' = IF runner[r].rc # "ok" /\ told \in {"error", "cancelled"}
                    THEN job ELSE Status(Id(r), "error")
  /\ UNCHANGED <<runner, stop, host, engine, lock>>
-----------------------------------------------------------------------------
(* The pipeline script and the child that holds the model.                 *)

(* "left" is ComfyUI with its weights, whose worker is gone.               *)
Live == {"started", "loaded"}
Here == {"listed", "ready", "spawning", "running"}
Orphan(r) == runner[r].at = "gone" /\ runner[r].child \in Live

(* The script ends: worker.pid is removed at exit, and heavy-model.lock    *)
(* with the process that holds it, which for a video is the script.        *)
Exit(r, rc, child) ==
  runner' = [runner EXCEPT ![r] =
               [@ EXCEPT !.at = "gone", !.rc = rc, !.child = child]]
Unlocked(r, over) == IF over /\ lock = r THEN Nobody ELSE lock
Unlisted(i, s) == [job EXCEPT ![i].pid = Nobody, ![i].status = s]

(* heavy-model-lock.py in front of h3-run.py                               *)
(* Faulty variant: the lock is not waited for.                             *)
TakeLockAnyway(r) ==
  /\ runner[r].at = "locking"
  /\ lock' = r /\ runner' = [runner EXCEPT ![r].at = "boot"]
  /\ UNCHANGED <<job, gen, stop, host, engine>>
TakeLock(r) ==
  /\ runner[r].at = "locking" /\ lock = Nobody
  /\ lock' = r /\ runner' = [runner EXCEPT ![r].at = "boot"]
  /\ UNCHANGED <<job, gen, stop, host, engine>>

(* worker.pid is created, then written.                                    *)
Boot(r) ==
  /\ runner[r].at = "boot"
  /\ job' = [job EXCEPT ![Id(r)].pid = r]
  /\ runner' = [runner EXCEPT ![r].at = "listing"]
  /\ UNCHANGED <<gen, stop, host, engine, lock>>
List(r) ==
  /\ runner[r].at = "listing"
  /\ runner' = [runner EXCEPT ![r].at = "listed"]
  /\ UNCHANGED <<job, gen, stop, host, engine, lock>>

(* The two looks at cancel-requested: at startup and before the model is   *)
(* loaded.  A video says that it is queued, or fails in its setup.         *)
Look(r) ==
  /\ runner[r].at \in {"listed", "ready"} /\ ~runner[r].term
  /\ IF CancelRequested(Id(r))
     THEN /\ job' = Unlisted(Id(r), "cancelled")
          /\ Exit(r, "canceled", "none") /\ lock' = Unlocked(r, IsVideo(r))
     ELSE \/ /\ job' = IF IsVideo(r) THEN Status(Id(r), "running") ELSE job
             /\ runner' = [runner EXCEPT
                  ![r].at = IF @ = "listed" THEN "ready" ELSE "spawning",
                  ![r].child = IF runner[r].at = "ready" THEN "started" ELSE @]
             /\ lock' = lock
          \/ /\ runner[r].at = "ready"
             /\ job' = Unlisted(Id(r), "error")
             /\ Exit(r, "failed", "none") /\ lock' = Unlocked(r, IsVideo(r))
  /\ UNCHANGED <<gen, stop, host, engine>>

(* Popen returned, and ACTIVE_PROCESS is the child.                        *)
Record(r) ==
  /\ runner[r].at = "spawning" /\ ~runner[r].term
  /\ runner' = [runner EXCEPT ![r].at = "running"]
  /\ UNCHANGED <<job, gen, stop, host, engine, lock>>

(* The child loads its model: an image worker is behind the lock itself.   *)
Load(r) ==
  /\ runner[r].child = "started"
  /\ IF IsVideo(r) THEN lock' = lock ELSE lock = Nobody /\ lock' = r
  /\ runner' = [runner EXCEPT ![r].child = "loaded"]
  /\ UNCHANGED <<job, gen, stop, host, engine>>

(* Progress is told by an image worker itself, for a video by the script.  *)
Progress(r) ==
  /\ runner[r].child = "loaded"
  /\ IsVideo(r) => runner[r].at = "running" /\ ~runner[r].term
  /\ job' = Status(Id(r), "running")
  /\ UNCHANGED <<gen, runner, stop, host, engine, lock>>

(* An image worker tells its own end.                                      *)
ChildEnds(r) ==
  /\ runner[r].child = "loaded"
  /\ \E ok \in BOOLEAN :
       /\ runner' = [runner EXCEPT ![r].child = IF ok THEN "ok" ELSE "failed"]
       /\ job' = IF IsVideo(r) THEN job
                 ELSE Status(Id(r), IF ok THEN "complete" ELSE "error")
  /\ lock' = Unlocked(r, ~IsVideo(r))
  /\ UNCHANGED <<gen, stop, host, engine>>

(* The script has its child: a video is validated and told complete here.  *)
RunEnds(r) ==
  /\ runner[r].at = "running" /\ ~runner[r].term
  /\ \/ /\ runner[r].child = "ok"
        /\ job' = Unlisted(Id(r), IF IsVideo(r) THEN "complete" ELSE job[Id(r)].status)
        /\ Exit(r, "ok", "ok")
     \/ /\ runner[r].child \in (IF IsVideo(r) THEN {"ok", "failed"} ELSE {"failed"})
        /\ job' = Unlisted(Id(r), "error")
        /\ Exit(r, "failed", "failed")
  /\ lock' = Unlocked(r, IsVideo(r))
  /\ UNCHANGED <<gen, stop, host, engine>>

(* A child that is terminated.  The worker of an image has ComfyUI in a    *)
(* session of its own, without the lock, and waits 45 s for it: it may be  *)
(* killed before that, or end between its start and the try that stops it. *)
Terminated(r) ==
  {"failed"} \cup IF runner[r].child = "loaded" /\ ~IsVideo(r) THEN {"left"} ELSE {}

(* handle_termination: the child that was recorded is terminated, and only *)
(* it; an image script says that it is cancelled, a video script does not. *)
Terminate(r) ==
  /\ runner[r].term /\ runner[r].at \in Here
  /\ LET kills == runner[r].at = "running" /\ runner[r].child \in Live IN
     /\ \E c \in IF kills THEN Terminated(r) ELSE {runner[r].child} :
          Exit(r, "canceled", c)
     /\ lock' = Unlocked(r, IsVideo(r) \/ kills)
  /\ job' = Unlisted(Id(r), IF IsVideo(r) THEN job[Id(r)].status ELSE "cancelled")
  /\ UNCHANGED <<gen, stop, host, engine>>

(* ComfyUI ends by the signal it got, or never.                            *)
Unload(r) ==
  /\ runner[r].child = "left"
  /\ runner' = [runner EXCEPT ![r].child = "failed"]
  /\ UNCHANGED <<job, gen, stop, host, engine, lock>>
-----------------------------------------------------------------------------
(* The stop request, served by the loop of a server.                       *)

(* api_image_stop, api_video_stop: a job of another server is refused, and *)
(* a job that is over is told so.                                          *)
Stop(h, i) ==
  /\ host[h].at = "up" /\ stop[h].at = "idle"
  /\ Owned(h, i) /\ job[i].status \notin Ended
  /\ stop' = [stop EXCEPT ![h] = [at |-> "mark", id |-> i]]
  /\ UNCHANGED <<job, gen, runner, host, engine, lock>>

(* image_request_cancel; when it cannot be written nothing is signalled.   *)
RequestCancel(h) ==
  /\ stop[h].at = "mark"
  /\ \/ job' = [job EXCEPT ![stop[h].id].cancel = TRUE] /\ stop' = [stop EXCEPT ![h].at = "signal"]
     \/ job' = job /\ stop' = [stop EXCEPT ![h] = NoStop]
  /\ UNCHANGED <<gen, runner, host, engine, lock>>

Listed(i) == job[i].pid # Nobody
(* strtol of a file that was created and not written yet is no pid.        *)
Blank(i) == runner[job[i].pid].at = "listing"
Signal(i) == runner' = [runner EXCEPT ![job[i].pid].term = TRUE]

SignalWorker(h) ==
  LET i == stop[h].id IN
  /\ stop[h].at = "signal"
  /\ IF ~Listed(i)
     THEN job' = Status(i, "cancelled") /\ runner' = runner /\ stop' = [stop EXCEPT ![h] = NoStop]
     ELSE IF Blank(i)
          THEN job' = job /\ runner' = runner /\ stop' = [stop EXCEPT ![h] = NoStop]
          ELSE job' = job /\ Signal(i) /\ stop' = [stop EXCEPT ![h].at = "tell"]
  /\ UNCHANGED <<gen, host, engine, lock>>

TellStopped(h) ==
  /\ stop[h].at = "tell"
  /\ job' = Status(stop[h].id, "cancelled")
  /\ stop' = [stop EXCEPT ![h] = NoStop]
  /\ UNCHANGED <<gen, runner, host, engine, lock>>
-----------------------------------------------------------------------------
(* The servers and ds4-server.                                             *)

(* image_runtime_shutdown, video_runtime_shutdown: the directories are     *)
(* walked, and the worker of each job that is owned is stopped.            *)
Quit(h) ==
  /\ host[h].at = "up" /\ stop[h].at = "idle"
  /\ host' = [host EXCEPT ![h].at = "closing", ![h].todo = Ids]
  /\ UNCHANGED <<job, gen, runner, stop, engine, lock>>

Visit(h, i) ==
  /\ i \in host[h].todo /\ host[h].waits = Nobody
  /\ IF Owned(h, i) /\ Listed(i) /\ ~Blank(i)
     THEN Signal(i) /\ host' = [host EXCEPT ![h].waits = i]
     ELSE runner' = runner /\ host' = [host EXCEPT ![h].todo = @ \ {i}]
  /\ UNCHANGED <<job, gen, stop, engine, lock>>

(* image_stop_worker_pid_path: eight seconds are waited, then it is killed.*)
(* Only the script is: its child is a session of its own, which the script *)
(* may have signalled by then, or killed.                                  *)
StopWorker(h) ==
  LET i == host[h].waits IN
  /\ i # Nobody
  /\ \/ ~Listed(i) /\ UNCHANGED <<job, runner, lock>>
     \/ /\ Listed(i)
        /\ LET r == job[i].pid
               kills == runner[r].at = "running" /\ runner[r].child \in Live IN
           \E c \in {runner[r].child} \cup IF kills THEN Terminated(r) ELSE {} :
             /\ Exit(r, "canceled", c)
             /\ lock' = Unlocked(r, IsVideo(r) \/ c \notin Live)
        /\ job' = [job EXCEPT ![i].pid = Nobody]
  /\ host' = [host EXCEPT ![h].waits = Nobody, ![h].todo = @ \ {i}]
  /\ UNCHANGED <<gen, stop, engine>>

Exited(h) ==
  /\ host[h].at = "closing" /\ host[h].todo = {}
  /\ host' = [host EXCEPT ![h].at = "exited"]
  /\ UNCHANGED <<job, gen, runner, stop, engine, lock>>

(* The next server starts when there is none.                              *)
Start ==
  /\ host[First].at \in {"exited", "dead"} /\ host[Second].at = "off"
  /\ host' = [host EXCEPT ![Second].at = "up"]
  /\ UNCHANGED <<job, gen, runner, stop, engine, lock>>

(* ds4-server is started again, for another model or after it died: it has *)
(* no leases, whoever still holds one.                                     *)
RestartEngine ==
  /\ engine' = [depth |-> 0, stray |-> 0, early |-> 0]
  /\ gen' = [r \in Requests |->
               [gen[r] EXCEPT !.lease = IF @ = "held" THEN "void" ELSE @]]
  /\ UNCHANGED <<job, runner, stop, host, lock>>

(* A server dies with the stop request it serves.                          *)
Die(h) ==
  /\ host[h].at = "up"
  /\ host' = [host EXCEPT ![h] = [at |-> "dead", todo |-> {}, waits |-> Nobody]]
  /\ stop' = [stop EXCEPT ![h] = NoStop]
  /\ UNCHANGED <<job, gen, runner, engine, lock>>

Done ==
  /\ \A h \in Hosts : host[h].at \in {"exited", "dead"}
  /\ \A r \in Requests : gen[r].at \in {"idle", "done"} /\ runner[r].child \notin Live
  /\ UNCHANGED vars

Generates(r) ==
  \/ Claim(r) \/ WriteToken(r) \/ WriteSources(r) \/ CheckPrepared(r)
  \/ LeaseBegin(r) \/ LeaseDenied(r) \/ Run(r)
  \/ LeaseEnd(r) \/ Dropped(r) \/ CheckDone(r) \/ Judge(r)
Runs(r) ==
  \/ TakeLock(r) \/ Boot(r) \/ List(r) \/ Look(r) \/ Record(r) \/ RunEnds(r)
  \/ Terminate(r)
Loads(r) == Load(r) \/ ChildEnds(r)
Stops(h) == RequestCancel(h) \/ SignalWorker(h) \/ TellStopped(h)
Closes(h) == (\E i \in Ids : Visit(h, i)) \/ StopWorker(h) \/ Exited(h)

Next ==
  \/ \E r \in Requests : Generates(r) \/ Runs(r) \/ Loads(r) \/ Progress(r) \/ Unload(r)
  \/ \E r \in Requests, h \in Hosts, i \in Ids : Admit(r, h, i)
  \/ \E h \in Hosts : Stops(h) \/ Closes(h) \/ Quit(h) \/ Die(h)
  \/ \E h \in Hosts, i \in Ids : Stop(h, i)
  \/ Start \/ RestartEngine \/ Done

Spec == Init /\ [][Next]_vars

(* The detached processes are scheduled, and an inference ends; nobody has *)
(* to send a request or to stop a job, and a server may hang at any point. *)
FairSpec ==
  /\ Spec
  /\ \A r \in Requests : WF_vars(Generates(r)) /\ WF_vars(Runs(r)) /\ WF_vars(Loads(r))
-----------------------------------------------------------------------------
(* The type invariant.                                                     *)
TypeOK ==
  /\ job \in [Ids -> [owner : Hosts \cup {"none", "empty"}, cancel : BOOLEAN,
                      status : Ended \cup {"none", "running"},
                      pid : Requests \cup {Nobody}]]
  /\ gen \in [Requests ->
       [at : {"idle", "claim", "token", "sources", "check1", "lease", "denied",
              "check2", "drop", "dropped", "wait", "check3", "judge", "done"},
        host : Hosts \cup {Nobody}, id : Ids \cup {Nobody}, lease : {"none", "held", "void"},
        answer : {"none", "conflict", "unwritten", "cancelled", "memory",
                  "error", "ok"}]]
  /\ runner \in [Requests ->
       [at : Here \cup {"none", "locking", "boot", "listing", "gone"},
        term : BOOLEAN, child : Live \cup {"none", "ok", "failed", "left"},
        rc : {"none", "ok", "failed", "canceled"}]]
  /\ stop \in [Hosts -> [at : {"idle", "mark", "signal", "tell"},
                        id : Ids \cup {Nobody}]]
  /\ host \in [Hosts -> [at : {"off", "up", "closing", "exited", "dead"},
                        todo : SUBSET Ids, waits : Ids \cup {Nobody}]]
  /\ engine \in [depth : Nat, stray : 0 .. MaxStray, early : Nat]
  /\ lock \in Requests \cup {Nobody}

(* The pressure depth of ds4-server is the number of leases it has given   *)
(* that are held.  It is more by the requests that outlived their client   *)
(* and the releases that were lost, and less by the releases of leases     *)
(* from before its start: no other job that ends takes the memory from one *)
(* that runs.                                                              *)
Holders == {r \in Requests : gen[r].lease = "held"}
LeaseCounts ==
  /\ Cardinality(Holders) <= engine.depth + engine.early
  /\ engine.depth <= Cardinality(Holders) + engine.stray

(* What a request was answered is what the directory says: a success is a  *)
(* job that is complete, unless it was stopped after its last look, and a  *)
(* job whose request was answered is over.  The exceptions are a prompt    *)
(* that could not be written, which leaves no status, and a child that the *)
(* script lost.                                                            *)
AnswerHolds ==
  \A r \in Requests :
    /\ gen[r].answer = "ok" /\ ~CancelRequested(Id(r)) => job[Id(r)].status = "complete"
    /\ /\ gen[r].answer \notin {"none", "conflict", "unwritten"}
       /\ runner[r].child \notin Live
       => job[Id(r)].status \in Ended

(* heavy-model.lock: of two models that are in memory at once one belongs  *)
(* to a video whose script is gone, or is ComfyUI of an image that was     *)
(* stopped, by a request or by the exit of its server.                     *)
InMemory(r) == runner[r].child \in {"loaded", "left"}
Strayed(r) == IF IsVideo(r) THEN Orphan(r)
              ELSE runner[r].child = "left" /\ runner[r].term
OneModelLoaded ==
  \A r, s \in Requests :
    r # s /\ InMemory(r) /\ InMemory(s) => Strayed(r) \/ Strayed(s)

(* ideogram4-run.py:133: ComfyUI must not keep GPU weights resident beyond *)
(* a worker that was cancelled.  It may.                                   *)
ComfyStops == \A r \in Requests : runner[r].child # "left"

(* A script is signalled for the server that started it, by a stop request *)
(* or by its exit, and never for another server that shares the directory. *)
OwnerStops ==
  [][\A r \in Requests :
       ~runner[r].term /\ runner'[r].term =>
         LET h == gen[r].host IN
         \/ stop[h].at = "signal" /\ stop'[h].at = "tell" /\ stop[h].id = Id(r)
         \/ host[h].waits # host'[h].waits /\ host'[h].waits = Id(r)]_vars

(* A job whose cancellation was persisted ends and stays ended, whoever    *)
(* dies, unless its prompt could not be written or its child was lost.     *)
Lost(i) == \E r \in Requests :
  Id(r) = i /\ (Orphan(r) \/ gen[r].answer = "unwritten")
CancelEnds ==
  \A i \in Ids : job[i].cancel ~> [](job[i].status \in Ended \/ Lost(i))

(* dstudio_video.c:149: a generation already in flight must be stopped     *)
(* when the desktop server exits.                                          *)
ExitStopsJobs ==
  \A r \in Requests :
    runner[r].child \in Live => host[gen[r].host].at # "exited"
=============================================================================
