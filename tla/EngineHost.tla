----------------------------- MODULE EngineHost -----------------------------
(***************************************************************************)
(* The engine as its owner, the single-threaded HTTP loop, sees it: one    *)
(* pending launch (dstudio_launch.c), one child (the reap, stop and drain  *)
(* handlers of dstudio.c) and one dense-Qwen inference process             *)
(* (dstudio_q36.c), each of them a process that dies when it likes.        *)
(*                                                                         *)
(* A launch is prepared by a worker that may not touch the live engine.    *)
(* When its result is in, and the files are still the ones that were       *)
(* captured, the owner stops what runs and publishes the candidate.  The   *)
(* user may stop or cancel at any moment, files may change at any moment,  *)
(* and a server that DStudio does not own may hold the port or the lock.   *)
(*                                                                         *)
(* The handlers of the loop run one at a time; the model lets them come in *)
(* any order.  A deadline may pass whenever its clock runs.                *)
(***************************************************************************)
EXTENDS Naturals, FiniteSets

CONSTANTS
  Requests,    (* the launches the user may ask for                        *)
  MaxLaunches, (* bound on the launches of a behaviour                     *)
  MaxEvents    (* bound on the changes of the files and on the servers     *)
               (* that others start, together                              *)

Models == {"ds4", "q36", "remote"}
RequestType == [model : Models, piped : BOOLEAN, force : BOOLEAN]

ASSUME EngineAssumption ==
  /\ Requests \subseteq RequestType
  /\ \A r \in Requests : r.model = "remote" => r.piped
  /\ MaxLaunches \in Nat /\ MaxEvents \in Nat

VARIABLES
  job,      (* g_launch                                                    *)
  worker,   (* the preparation worker and what it wrote                    *)
  child,    (* g_child, g_child_stop_requested, the process behind it      *)
  q36,      (* g_q36                                                       *)
  inf,      (* the inference process and its owner channel                 *)
  mode, ready, external,       (* g_mode, g_ready, g_external_server       *)
  active,   (* g_active_launch_task, and with it its mode                  *)
  status,   (* the status of every launch task                             *)
  answers,  (* history: the answers every launch request got               *)
  foreign,  (* the server DStudio does not own                             *)
  disk,     (* the versions of the captured files and of the executable    *)
  events,   (* how many there were of the bounded events                   *)
  closing   (* the shutdown after the loop                                 *)

host  == <<mode, ready, external, active>>
tasks == <<status, answers>>
world == <<foreign, disk, events>>
vars  == <<job, worker, child, q36, inf, host, tasks, world, closing>>

Tasks == 1 .. MaxLaunches
Versions == {0, 1}
AnyRequest == [model |-> "ds4", piped |-> FALSE, force |-> FALSE]

NoJob == [task |-> 0, req |-> AnyRequest, client |-> FALSE, canceled |-> FALSE,
          received |-> FALSE, failed |-> FALSE, validated |-> FALSE,
          stopping |-> FALSE, started |-> FALSE, files |-> 0, exe |-> 0]
NoWorker == [is |-> "none", exe |-> 0, release |-> FALSE]
NoChild == [is |-> "none", model |-> "ds4", up |-> FALSE, dead |-> FALSE,
            stop |-> FALSE, task |-> 0]
NoQ36 == [pid |-> FALSE, ready |-> FALSE, stopping |-> FALSE, task |-> 0,
          files |-> 0, exe |-> 0]
NoInf == [is |-> "none", files |-> 0, exe |-> 0]

Pending == job.task # 0
HasChild == child.is # "none"
(* q36_running, q36_ready                                                  *)
Q36Running == q36.pid
Q36Ready == q36.pid /\ q36.ready /\ ~q36.stopping
-----------------------------------------------------------------------------
(* task_set_status: no task is 0.                                          *)
Mark(st, t, s) == IF t = 0 THEN st ELSE [st EXCEPT ![t] = s]

(* task_status_terminal                                                    *)
Ended == {"completed", "failed", "canceled"}

(* launch_result_error, and the answers of launch_commit.                  *)
Answered ==
  IF job.client
  THEN [answers EXCEPT ![job.task] = IF @ = "waits" THEN "answered" ELSE "again"]
  ELSE answers

(* port_listening: anyone may be behind the port of the engine.            *)
PortOpen ==
  \/ foreign \in {"up", "alien"}
  \/ child.is = "server" /\ child.up /\ ~child.dead
  \/ inf.is = "up"

(* request_child_stop on top of the statuses st.                           *)
StopsChild == HasChild /\ ~child.stop
RequestChildStop(st) ==
  /\ child' = IF StopsChild THEN [child EXCEPT !.stop = TRUE] ELSE child
  /\ status' = IF StopsChild THEN Mark(st, active, "canceled") ELSE st
  /\ active' = IF StopsChild THEN 0 ELSE active
  /\ mode' = IF HasChild THEN mode ELSE "none"
  /\ external' = (external /\ HasChild)

(* q36_request_stop: the channel is closed, the process is still owned.    *)
Q36Stopped == IF q36.pid THEN [q36 EXCEPT !.stopping = TRUE, !.ready = FALSE] ELSE q36
ReadyAfterQ36Stop == ready /\ ~(q36.pid /\ ~q36.stopping)
ReadyAfterStop == ReadyAfterQ36Stop /\ ~StopsChild

(* The owner forgets the candidate.  The launch task stays active while it *)
(* is not terminal in the statuses st: a spawned engine is loading.        *)
Dispose(st) ==
  /\ job' = NoJob
  /\ worker' = NoWorker
  /\ active' = IF active = job.task /\ st[active] \in Ended THEN 0 ELSE active

Strayed == job.started /\ q36.task = job.task
Released == IF Strayed THEN Q36Stopped ELSE q36
ReadyAfterRelease == IF Strayed THEN ReadyAfterQ36Stop ELSE ready
-----------------------------------------------------------------------------
Created == {t \in Tasks : status[t] # "none"}
NextTask == Cardinality(Created) + 1
Idle == ~Pending /\ ~child.stop /\ ~(q36.pid /\ q36.stopping)

(* What launch_begin captures: the files, and whether the worker may free  *)
(* the port.                                                               *)
Candidate(t, req, client) ==
  [NoJob EXCEPT !.task = t, !.req = req, !.client = client, !.files = disk.files]
MayRelease(req) == req.force /\ req.model = "ds4" /\ ~HasChild /\ ~q36.pid
Worker(req) == [NoWorker EXCEPT !.is = "busy", !.release = MayRelease(req)]

(* api_start and launch_begin.  A busy owner refuses and changes nothing;  *)
(* the worker may not come up.                                             *)
Start(req) ==
  /\ ~closing /\ Idle /\ NextTask \in Tasks
  /\ \/ /\ job' = Candidate(NextTask, req, TRUE)
        /\ worker' = Worker(req)
        /\ status' = [status EXCEPT ![NextTask] = "working"]
        /\ answers' = [answers EXCEPT ![NextTask] = "waits"]
     \/ /\ status' = [status EXCEPT ![NextTask] = "failed"]
        /\ answers' = [answers EXCEPT ![NextTask] = "answered"]
        /\ UNCHANGED <<job, worker>>
  /\ UNCHANGED <<child, q36, inf, host, world, closing>>

(* launch_cancel.  The worker is asked to leave; its owner does not wait.  *)
LaunchCancel ==
  /\ job' = [job EXCEPT !.canceled = TRUE, !.failed = TRUE, !.client = FALSE]
  /\ answers' = Answered
  /\ worker' = IF worker.is = "busy" THEN [worker EXCEPT !.is = "leaving"] ELSE worker

Canceled == Mark(status, job.task, "canceled")

(* api_launch_cancel of the pending launch.                                *)
Cancel ==
  /\ ~closing /\ Pending /\ ~job.canceled
  /\ LaunchCancel
  /\ status' = Canceled
  /\ q36' = Released
  /\ ready' = ReadyAfterRelease
  /\ UNCHANGED <<child, inf, mode, external, active, world, closing>>

(* api_launch_cancel of a launch whose engine is loading.                  *)
CancelLoading ==
  /\ ~closing /\ ~Pending /\ active # 0 /\ HasChild /\ child.task = active
  /\ RequestChildStop(status)
  /\ ready' = FALSE
  /\ UNCHANGED <<job, worker, q36, inf, answers, world, closing>>

(* api_stop: the pending launch, the child and the inference process.      *)
Stop ==
  /\ ~closing /\ (Pending \/ HasChild \/ q36.pid)
  /\ IF Pending /\ ~job.canceled
     THEN LaunchCancel /\ RequestChildStop(Canceled)
     ELSE RequestChildStop(status) /\ UNCHANGED <<job, worker, answers>>
  /\ q36' = Q36Stopped
  /\ ready' = ReadyAfterStop
  /\ UNCHANGED <<inf, world, closing>>
-----------------------------------------------------------------------------
(* launch_preparation_tick, the worker: its result, its failure or its end *)
(* is taken from the pipe and the worker is killed.                        *)
TakeResult ==
  /\ Pending /\ worker.is \in {"prepared", "refused", "exited"}
  /\ job' = [job EXCEPT !.received = worker.is # "exited",
                        !.failed = @ \/ worker.is # "prepared",
                        !.exe = worker.exe]
  /\ worker' = [worker EXCEPT !.is = "killed"]
  /\ UNCHANGED <<child, q36, inf, host, tasks, world, closing>>

(* The deadline of the preparation cancels it; the deadline of the         *)
(* cancellation kills the worker.                                          *)
WorkerDeadline ==
  /\ Pending /\ worker.is \in {"busy", "leaving"}
  /\ IF ~job.canceled
     THEN LaunchCancel /\ status' = Canceled
     ELSE /\ worker' = [worker EXCEPT !.is = "killed"]
          /\ job' = [job EXCEPT !.failed = TRUE]
          /\ UNCHANGED <<status, answers>>
  /\ UNCHANGED <<child, q36, inf, host, world, closing>>

(* The worker has been reaped: the tick goes on with the candidate.        *)
WorkerGone == Pending /\ worker.is \in {"dead", "none"}

(* Faulty variant: only a process that is still there can be lost.         *)
LostWhileThere == job.started /\ q36.pid /\ q36.stopping

Lost == job.started /\ ~(q36.pid /\ ~q36.stopping)
Broken == job.canceled \/ job.failed \/ Lost \/ ~job.received

(* The candidate is given up.                                              *)
FailLaunch ==
  /\ WorkerGone /\ Broken
  /\ status' = IF job.canceled THEN status ELSE Mark(status, job.task, "failed")
  /\ answers' = IF job.canceled THEN answers ELSE Answered
  /\ q36' = Released
  /\ ready' = ReadyAfterRelease
  /\ job' = NoJob /\ worker' = NoWorker
  /\ active' = IF active = job.task THEN 0 ELSE active
  /\ UNCHANGED <<child, inf, mode, external, world, closing>>

(* launch_request_current, launch_revalidate.                              *)
Current == status[job.task] \notin Ended
Revalidated == Current /\ disk.files = job.files /\ disk.exe = job.exe

Stale == ~Current \/ (~job.validated /\ ~Revalidated)

RejectStale ==
  /\ WorkerGone /\ ~Broken /\ Stale
  /\ LET st == Mark(status, job.task, "failed")
     IN  /\ status' = st
         /\ Dispose(st)
  /\ answers' = Answered
  /\ q36' = Released
  /\ ready' = ReadyAfterRelease
  /\ UNCHANGED <<child, inf, mode, external, world, closing>>

Sound == WorkerGone /\ ~Broken /\ ~Stale
Validated == [job EXCEPT !.validated = TRUE]

(* What runs is stopped; the launch goes on when it has been reaped.       *)
StopPrevious ==
  /\ Sound /\ HasChild /\ ~job.stopping
  /\ job' = [Validated EXCEPT !.stopping = TRUE]
  /\ worker' = NoWorker
  /\ RequestChildStop(status)
  /\ ready' = (ready /\ ~StopsChild)
  /\ UNCHANGED <<q36, inf, answers, world, closing>>

(* q36_same_launch                                                         *)
SameLaunch == Q36Ready /\ q36.files = job.files /\ q36.exe = job.exe
WantsQ36 == job.req.model = "q36"

(* Faulty variant: a model that was asked to leave counts as gone.         *)
MustSwitchUnlessLeaving == q36.pid /\ ~q36.stopping /\ ~WantsQ36

MustSwitch == q36.pid /\ (~WantsQ36 \/ (~job.started /\ ~SameLaunch))

SwitchQ36 ==
  /\ Sound /\ ~HasChild /\ MustSwitch /\ ~q36.stopping
  /\ job' = Validated
  /\ worker' = NoWorker
  /\ q36' = Q36Stopped
  /\ ready' = ReadyAfterQ36Stop
  /\ UNCHANGED <<child, inf, mode, external, active, tasks, world, closing>>

(* q36_start_owned: never beside another listener or a child.              *)
CanStartQ36 == ~PortOpen
StartQ36 ==
  /\ Sound /\ ~HasChild /\ WantsQ36 /\ ~job.started /\ ~q36.pid
  /\ worker' = NoWorker
  /\ \/ /\ Revalidated /\ CanStartQ36
        /\ job' = [Validated EXCEPT !.started = TRUE]
        /\ q36' = [NoQ36 EXCEPT !.pid = TRUE, !.task = job.task,
                                !.files = job.files, !.exe = job.exe]
        /\ inf' = [NoInf EXCEPT !.is = "forked"]
        /\ ready' = FALSE
     \/ job' = [Validated EXCEPT !.failed = TRUE] /\ UNCHANGED <<q36, inf, ready>>
  /\ UNCHANGED <<child, mode, external, active, tasks, world, closing>>

(* The candidate may be published: what it replaces is gone and what it    *)
(* needs is ready.                                                         *)
Publishable ==
  Sound /\ ~HasChild /\ ~MustSwitch /\ (WantsQ36 => Q36Ready)

(* The files changed while the previous engine stopped: the next tick      *)
(* gives the candidate up.                                                 *)
ChangedBeforePublication ==
  /\ Publishable /\ ~Revalidated
  /\ job' = [Validated EXCEPT !.failed = TRUE]
  /\ worker' = NoWorker
  /\ UNCHANGED <<child, q36, inf, host, tasks, world, closing>>

(* launch_commit ends the request with the status s of its task.           *)
Settle(s) ==
  LET st == Mark(status, job.task, s)
  IN  /\ status' = st
      /\ Dispose(st)
      /\ answers' = Answered

(* launch_commit, a chat on the resident model.                            *)
PublishQ36 ==
  /\ Publishable /\ Revalidated /\ WantsQ36 /\ ~job.req.piped
  /\ mode' = "server" /\ external' = FALSE /\ ready' = TRUE
  /\ Settle("completed")
  /\ UNCHANGED <<child, q36, inf, world, closing>>

(* launch_commit, a listener DStudio does not own: a chat attaches to a    *)
(* compatible server; everything else fails.                               *)
Occupied == job.req.model = "ds4" /\ PortOpen
Attaches == ~job.req.piped /\ foreign = "up"

CommitOccupied ==
  /\ Publishable /\ Revalidated /\ Occupied
  /\ IF Attaches
     THEN /\ mode' = "server" /\ external' = TRUE /\ ready' = TRUE
          /\ Settle("completed")
     ELSE Settle("failed") /\ UNCHANGED <<mode, ready, external>>
  /\ UNCHANGED <<child, q36, inf, world, closing>>

(* launch_commit, another process holds the lock and has not opened its    *)
(* port: the launch waits for it.                                          *)
Locked == job.req.model = "ds4" /\ ~job.req.piped /\ foreign = "loading"

CommitWaits ==
  /\ Publishable /\ Revalidated /\ ~Occupied /\ Locked
  /\ mode' = "server" /\ external' = TRUE /\ ready' = FALSE
  /\ active' = job.task
  /\ answers' = Answered
  /\ job' = NoJob /\ worker' = NoWorker
  /\ UNCHANGED <<child, q36, inf, status, world, closing>>

(* launch_commit with spawn_agent, spawn_design or spawn_server.  A piped  *)
(* child leaves g_external_server as it is.                                *)
PipedChild(req, task) ==
  [NoChild EXCEPT !.is = "piped", !.model = req.model, !.task = task]

ServerChild(req, task) ==
  [NoChild EXCEPT !.is = "server", !.model = req.model, !.task = task]

Spawned ==
  IF job.req.piped THEN PipedChild(job.req, job.task)
  ELSE ServerChild(job.req, job.task)

CommitSpawn ==
  /\ Publishable /\ Revalidated /\ ~Occupied /\ ~Locked
  /\ WantsQ36 => job.req.piped
  /\ child' = Spawned
  /\ mode' = Spawned.is
  /\ ready' = FALSE
  /\ external' = (external /\ job.req.piped /\ ~WantsQ36)
  /\ active' = job.task
  /\ answers' = Answered
  /\ job' = NoJob /\ worker' = NoWorker
  /\ UNCHANGED <<q36, inf, status, world, closing>>

(* The spawn fails.  A resident model was published before and stays.      *)
SpawnFails ==
  /\ Publishable /\ Revalidated /\ ~Occupied /\ ~Locked
  /\ WantsQ36 => job.req.piped
  /\ IF WantsQ36
     THEN mode' = "server" /\ external' = FALSE /\ ready' = TRUE
     ELSE UNCHANGED <<mode, external, ready>>
  /\ Settle("failed")
  /\ UNCHANGED <<child, q36, inf, world, closing>>
-----------------------------------------------------------------------------
(* maybe_complete_launch_task.  The mode of the active launch is the mode  *)
(* of the child it waits for, or "server" when it waits to attach.         *)
ActiveMode == IF HasChild /\ child.task = active THEN child.is ELSE "server"
CompleteLaunch(m) ==
  IF active # 0 /\ ActiveMode = m
  THEN status' = Mark(status, active, "completed") /\ active' = 0
  ELSE UNCHANGED <<status, active>>

(* scan_lines: the piped child waits for a prompt, the server says it      *)
(* listens.  What a stopped child printed before has no authority.         *)
ReadyLine ==
  /\ ~closing /\ HasChild /\ ~child.dead /\ child.up /\ ~child.stop /\ ~ready
  /\ ready' = TRUE
  /\ CompleteLaunch(child.is)
  /\ UNCHANGED <<job, worker, child, q36, inf, mode, external, answers, world, closing>>

(* drain_child: a server is also ready when its port is open.              *)
ReadyPort ==
  /\ ~closing /\ HasChild /\ mode = "server" /\ ~ready /\ PortOpen
  /\ ready' = TRUE
  /\ CompleteLaunch("server")
  /\ UNCHANGED <<job, worker, child, q36, inf, mode, external, answers, world, closing>>

(* The loop looks at the port even when no child writes.                   *)
ReadyLoop ==
  /\ ~closing /\ mode = "server" /\ ~q36.pid /\ ~child.stop /\ ~ready /\ PortOpen
  /\ ready' = TRUE
  /\ CompleteLaunch("server")
  /\ UNCHANGED <<job, worker, child, q36, inf, mode, external, answers, world, closing>>

(* reap_child                                                              *)
Reap ==
  /\ HasChild /\ child.dead
  /\ status' = IF child.stop THEN status ELSE Mark(status, active, "failed")
  /\ active' = IF child.stop THEN active ELSE 0
  /\ external' = (external /\ ~child.stop)
  /\ child' = NoChild
  /\ mode' = "none" /\ ready' = FALSE
  /\ UNCHANGED <<job, worker, q36, inf, answers, world, closing>>

(* SIGTERM, and after three seconds SIGKILL.                               *)
ChildObeys ==
  /\ HasChild /\ child.stop /\ ~child.dead
  /\ child' = [child EXCEPT !.dead = TRUE]
  /\ UNCHANGED <<job, worker, q36, inf, host, tasks, world, closing>>
-----------------------------------------------------------------------------
(* Faulty variant: the frontend is left alone.                             *)
Q36FailAlone ==
  /\ status' = IF active = q36.task THEN Mark(status, active, "failed") ELSE status
  /\ active' = IF active = q36.task THEN 0 ELSE active
  /\ q36' = Q36Stopped
  /\ ready' = FALSE
  /\ UNCHANGED <<child, mode, external>>

(* q36_fail: the launch it serves, the process and its frontend.           *)
Q36Fail ==
  LET st == IF active = q36.task THEN Mark(status, active, "failed") ELSE status
      others == IF active = q36.task THEN 0 ELSE active
  IN  /\ q36' = Q36Stopped
      /\ IF HasChild /\ ~child.stop
         THEN /\ child' = [child EXCEPT !.stop = TRUE]
              /\ status' = Mark(st, others, "canceled")
              /\ active' = 0
         ELSE status' = st /\ active' = others /\ UNCHANGED child
      /\ ready' = FALSE
      /\ UNCHANGED <<mode, external>>

(* Faulty variant: any receipt will do.                                    *)
AnyReceipt == inf.files \in Versions

(* q36_receipt_matches: the receipt names the files the process opened.    *)
ReceiptMatches == inf.files = q36.files

(* q36_tick, the owner channel: a receipt, or its end.                     *)
Q36Receipt ==
  /\ q36.pid /\ ~q36.stopping /\ ~q36.ready /\ inf.is = "up"
  /\ IF ReceiptMatches
     THEN q36' = [q36 EXCEPT !.ready = TRUE] /\ UNCHANGED <<child, host, status>>
     ELSE Q36Fail
  /\ UNCHANGED <<job, worker, inf, answers, world, closing>>

Q36Closed ==
  /\ q36.pid /\ ~q36.stopping /\ inf.is = "dead"
  /\ Q36Fail
  /\ UNCHANGED <<job, worker, inf, answers, world, closing>>

Q36Deadline ==
  /\ q36.pid /\ ~q36.stopping /\ ~q36.ready
  /\ Q36Fail
  /\ UNCHANGED <<job, worker, inf, answers, world, closing>>

(* q36_tick, the end of the process.                                       *)
Q36Reap ==
  /\ q36.pid /\ q36.stopping /\ inf.is = "dead"
  /\ q36' = [q36 EXCEPT !.pid = FALSE, !.ready = FALSE]
  /\ inf' = NoInf
  /\ mode' = IF HasChild THEN mode ELSE "none"
  /\ ready' = (ready /\ HasChild)
  /\ UNCHANGED <<job, worker, child, external, active, tasks, world, closing>>
-----------------------------------------------------------------------------
(* launch_resume_saved_server: the process the launch waited for is gone   *)
(* and its lock is free, so the launch is prepared again under its task.   *)
Again == IF active # 0 THEN active ELSE NextTask

Resume ==
  /\ external' = FALSE
  /\ \/ /\ ~Pending /\ Again \in Tasks
        /\ job' = Candidate(Again, AnyRequest, FALSE)
        /\ worker' = Worker(AnyRequest)
        /\ status' = [status EXCEPT ![Again] = "working"]
        /\ UNCHANGED active
     \/ /\ ~Pending
        /\ status' = Mark(status, active, "failed")
        /\ active' = 0
        /\ UNCHANGED <<job, worker>>
     \/ Pending /\ UNCHANGED <<job, worker, status, active>>
  /\ UNCHANGED answers

Unavailable ==
  /\ external' = FALSE
  /\ status' = Mark(status, active, "failed")
  /\ active' = 0
  /\ UNCHANGED <<job, worker, answers>>

(* api_status while DStudio uses, or waits for, a server of others.        *)
UsesForeign == ~HasChild /\ ~q36.pid /\ mode = "server" /\ external

StatusOpen ==
  /\ ~closing /\ UsesForeign /\ PortOpen /\ ~ready
  /\ IF foreign = "up"
     THEN /\ ready' = TRUE /\ CompleteLaunch("server")
          /\ UNCHANGED <<job, worker, external, answers>>
     ELSE Unavailable /\ UNCHANGED ready
  /\ UNCHANGED <<child, q36, inf, mode, world, closing>>

StatusShut ==
  /\ ~closing /\ UsesForeign /\ ~PortOpen
  /\ IF ready THEN /\ ready' = FALSE
                   /\ UNCHANGED <<job, worker, external, active, tasks>>
     ELSE /\ IF foreign = "none" THEN Resume ELSE Unavailable
          /\ UNCHANGED ready
  /\ UNCHANGED <<child, q36, inf, mode, world, closing>>
-----------------------------------------------------------------------------
(* launch_preparation_shutdown and stop_child, after the loop.             *)
Quit ==
  /\ ~closing
  /\ closing' = TRUE
  /\ IF Pending /\ ~job.canceled
     THEN /\ LaunchCancel /\ status' = Canceled
          /\ q36' = Released /\ ready' = ReadyAfterRelease
     ELSE UNCHANGED <<job, worker, status, answers, q36, ready>>
  /\ UNCHANGED <<child, inf, mode, external, active, world>>

QuitWorker ==
  /\ closing /\ Pending /\ job.canceled /\ ~WorkerGone
  /\ Dispose(status)
  /\ UNCHANGED <<child, q36, inf, mode, ready, external, tasks, world, closing>>

QuitEngines ==
  /\ closing /\ ~Pending
  /\ StopsChild \/ (q36.pid /\ ~q36.stopping)
  /\ RequestChildStop(status)
  /\ q36' = Q36Stopped
  /\ ready' = ReadyAfterStop
  /\ UNCHANGED <<job, worker, inf, answers, world, closing>>
-----------------------------------------------------------------------------
(* The worker, external to the owner: launch_prepare_cli.  It may free the *)
(* port if it was told to, builds the executable and identifies it.        *)
WorkerFrees ==
  /\ worker.is = "busy" /\ worker.release
  /\ foreign = "alien" \/ (job.req.piped /\ foreign = "up")
  /\ foreign' = "none"
  /\ UNCHANGED <<job, worker, child, q36, inf, host, tasks, disk, events, closing>>

WorkerTells ==
  /\ worker.is \in {"busy", "leaving"}
  /\ \/ worker' = [worker EXCEPT !.is = "prepared", !.exe = disk.exe]
     \/ worker' = [worker EXCEPT !.is = "refused"]
     \/ worker' = [worker EXCEPT !.is = "exited"]
  /\ UNCHANGED <<job, child, q36, inf, host, tasks, world, closing>>

WorkerDies ==
  /\ worker.is = "killed"
  /\ worker' = [worker EXCEPT !.is = "dead"]
  /\ UNCHANGED <<job, child, q36, inf, host, tasks, world, closing>>

(* The child of the host comes up or dies.  A local model and a foreign    *)
(* server exclude each other by the lock of DS4.                           *)
ChildUp ==
  /\ HasChild /\ ~child.dead /\ ~child.up
  /\ child.model = "ds4" => foreign \notin {"loading", "up"}
  /\ child' = [child EXCEPT !.up = TRUE]
  /\ UNCHANGED <<job, worker, q36, inf, host, tasks, world, closing>>

ChildDies ==
  /\ HasChild /\ ~child.dead /\ ~child.stop
  /\ child' = [child EXCEPT !.dead = TRUE]
  /\ UNCHANGED <<job, worker, q36, inf, host, tasks, world, closing>>

(* q36_exec_installation_lease: the forked child compares the executable   *)
(* once more before it becomes it.                                         *)
ExecMatches == disk.exe = q36.exe

InfExec ==
  /\ inf.is = "forked"
  /\ inf' = IF ExecMatches THEN [inf EXCEPT !.is = "loading", !.exe = disk.exe]
            ELSE [inf EXCEPT !.is = "dead"]
  /\ UNCHANGED <<job, worker, child, q36, host, tasks, world, closing>>

(* The model is opened by its path; the receipt names what was opened.     *)
InfUp ==
  /\ inf.is = "loading"
  /\ inf' = [inf EXCEPT !.is = "up", !.files = disk.files]
  /\ UNCHANGED <<job, worker, child, q36, host, tasks, world, closing>>

InfDies ==
  /\ inf.is \in {"forked", "loading", "up", "leaving"}
  /\ inf' = [inf EXCEPT !.is = "dead"]
  /\ UNCHANGED <<job, worker, child, q36, host, tasks, world, closing>>

(* A process that leaves stops listening before its memory is free.        *)
InfLeaves ==
  /\ q36.pid /\ q36.stopping /\ inf.is = "up"
  /\ inf' = [inf EXCEPT !.is = "leaving"]
  /\ UNCHANGED <<job, worker, child, q36, host, tasks, world, closing>>

(* Its guard, or SIGKILL after four seconds.                               *)
InfObeys == q36.pid /\ q36.stopping /\ InfDies

(* Somebody puts other files behind the captured paths, or puts the old    *)
(* ones back: a path may be a link, and the files themselves stay unchanged.*)
Edit ==
  /\ events < MaxEvents /\ events' = events + 1
  /\ \/ disk' = [disk EXCEPT !.files = 1 - @]
     \/ disk' = [disk EXCEPT !.exe = 1 - @]
  /\ UNCHANGED <<job, worker, child, q36, inf, host, tasks, foreign, closing>>

(* A server of others comes, opens its port, goes.                         *)
LocalModelUp == child.model = "ds4" /\ HasChild /\ child.up /\ ~child.dead

ForeignStarts ==
  /\ foreign = "none" /\ events < MaxEvents /\ events' = events + 1
  /\ \/ ~LocalModelUp /\ foreign' = "loading"
     \/ ~PortOpen /\ foreign' = "alien"
  /\ UNCHANGED <<job, worker, child, q36, inf, host, tasks, disk, closing>>

ForeignGoesOn ==
  /\ \/ foreign = "loading" /\ ~PortOpen /\ foreign' = "up"
     \/ foreign # "none" /\ foreign' = "none"
  /\ UNCHANGED <<job, worker, child, q36, inf, host, tasks, disk, events, closing>>
-----------------------------------------------------------------------------
(* main, after the start with a deferred engine: nothing runs.             *)
Init ==
  /\ job = NoJob /\ worker = NoWorker /\ child = NoChild
  /\ q36 = NoQ36 /\ inf = NoInf
  /\ mode = "none" /\ ready = FALSE /\ external = FALSE /\ active = 0
  /\ status = [t \in Tasks |-> "none"]
  /\ answers = [t \in Tasks |-> "nobody"]
  /\ foreign = "none" /\ events = 0
  /\ disk = [files |-> 0, exe |-> 0]
  /\ closing = FALSE

User == (\E req \in Requests : Start(req)) \/ Cancel \/ CancelLoading \/ Stop \/ Quit

LaunchTick ==
  \/ TakeResult \/ WorkerDeadline \/ FailLaunch \/ RejectStale
  \/ StopPrevious \/ SwitchQ36 \/ StartQ36
  \/ ChangedBeforePublication \/ PublishQ36 \/ CommitOccupied
  \/ CommitWaits \/ CommitSpawn \/ SpawnFails

EngineTick ==
  \/ ReadyLine \/ ReadyPort \/ ReadyLoop \/ Reap
  \/ Q36Receipt \/ Q36Closed \/ Q36Deadline \/ Q36Reap
  \/ StatusOpen \/ StatusShut \/ QuitWorker \/ QuitEngines

Processes ==
  \/ WorkerFrees \/ WorkerTells \/ WorkerDies \/ ChildUp \/ ChildDies \/ ChildObeys
  \/ InfExec \/ InfUp \/ InfLeaves \/ InfDies \/ Edit
  \/ ForeignStarts \/ ForeignGoesOn

Next == User \/ LaunchTick \/ EngineTick \/ Processes

Spec == Init /\ [][Next]_vars

(* The owner runs its handlers again and again, every clock runs, and a    *)
(* process that is killed dies.                                            *)
FairSpec ==
  /\ Spec
  /\ WF_vars(LaunchTick) /\ WF_vars(WorkerDies)
  /\ WF_vars(Reap) /\ WF_vars(ChildObeys)
  /\ WF_vars(Q36Receipt \/ Q36Closed \/ Q36Deadline) /\ WF_vars(Q36Reap)
  /\ WF_vars(InfObeys) /\ WF_vars(QuitWorker) /\ WF_vars(QuitEngines)
-----------------------------------------------------------------------------
JobType ==
  [task : Tasks \cup {0}, req : RequestType, client : BOOLEAN, canceled : BOOLEAN,
   received : BOOLEAN, failed : BOOLEAN, validated : BOOLEAN, stopping : BOOLEAN,
   started : BOOLEAN, files : Versions, exe : Versions]
WorkerType ==
  [is : {"none", "busy", "leaving", "prepared", "refused", "exited", "killed", "dead"},
   exe : Versions, release : BOOLEAN]
ChildType ==
  [is : {"none", "server", "piped"}, model : Models, up : BOOLEAN, dead : BOOLEAN,
   stop : BOOLEAN, task : Tasks \cup {0}]
Q36Type ==
  [pid : BOOLEAN, ready : BOOLEAN, stopping : BOOLEAN, task : Tasks \cup {0},
   files : Versions, exe : Versions]
InfType ==
  [is : {"none", "forked", "loading", "up", "leaving", "dead"},
   files : Versions, exe : Versions]
StatusType == [Tasks -> {"none", "working"} \cup Ended]
AnswersType == [Tasks -> {"nobody", "waits", "answered", "again"}]

TypeOK ==
  /\ job \in JobType /\ worker \in WorkerType /\ child \in ChildType
  /\ q36 \in Q36Type /\ inf \in InfType
  /\ mode \in {"none", "server", "piped"}
  /\ ready \in BOOLEAN /\ external \in BOOLEAN /\ active \in Tasks \cup {0}
  /\ status \in StatusType /\ answers \in AnswersType
  /\ foreign \in {"none", "loading", "up", "alien"} /\ events \in 0 .. MaxEvents
  /\ disk \in [files : Versions, exe : Versions]
  /\ closing \in BOOLEAN

(* The host never owns two processes that hold model weights: a child with *)
(* a local model and the inference process exclude each other, down to     *)
(* processes that were told to leave and have not left.                    *)
LoadsWeights == HasChild /\ child.model = "ds4" /\ ~child.dead
InferenceAlive == inf.is \in {"forked", "loading", "up", "leaving"}
OneModelResident == ~(LoadsWeights /\ InferenceAlive)

(* What a launch on the resident model publishes, alone or with a frontend,*)
(* is the executable its worker identified, run on the files it captured   *)
(* when it was admitted, whoever changed them in the meantime.             *)
Publishes(t) ==
  \/ status[t] # "completed" /\ status'[t] = "completed" /\ active # t
  \/ child' # child /\ child'.task = t /\ child.task # t
PublishesWhatItPrepared ==
  [][Pending /\ WantsQ36 /\ Publishes(job.task)
       => inf.files = job.files /\ inf.exe = job.exe]_vars

(* No frontend outlives its model: when the inference process fails or is  *)
(* told to stop, the child that talks to it is told to stop as well.       *)
FrontendHasModel ==
  HasChild /\ child.model = "q36" /\ ~child.stop => q36.pid /\ ~q36.stopping

(* A cancelled launch leaves nothing loading behind its back.              *)
CanceledLoadsNothing ==
  \A t \in Tasks : status[t] = "canceled" =>
    /\ HasChild /\ child.task = t => child.stop
    /\ q36.pid /\ q36.task = t => q36.ready \/ q36.stopping

(* The client of a launch is answered exactly once, on every path out of   *)
(* the preparation.                                                        *)
AnsweredOnce ==
  \A t \in Tasks :
    /\ answers[t] # "again"
    /\ answers[t] = "waits" => job.task = t /\ job.client

(* g_external_server says that the engine is not owned (dstudio.c:495).    *)
ExternalIsNotOwned == external => ~HasChild

(* A launch is decided: no preparation, no teardown and no load of the     *)
(* resident model holds it for ever.                                       *)
LaunchEnds == Pending ~> ~Pending

(* The host leaves nothing of its own behind.                              *)
ShutdownEnds == closing ~> ~Pending /\ ~HasChild /\ ~q36.pid
=============================================================================
