------------------------- MODULE EngineHost_proofs -------------------------
(***************************************************************************)
(* The owner of the engine, for any requests, any number of launches and   *)
(* of changes of the files, and processes that die when they like.         *)
(*                                                                         *)
(*   - TypeOK: a lemma per handler.                                        *)
(*   - Two models are never resident, no frontend outlives its model, and  *)
(*     what is published is what was prepared: OwnerInv.                   *)
(*   - The client of a launch is answered once: ClientInv.                 *)
(*   - A cancelled launch leaves nothing loading: CancelInv.               *)
(***************************************************************************)
EXTENDS EngineHost, FiniteSetTheorems, TLAPS

(* The values the owner starts from.                                       *)
LEMMA StartValues ==
  /\ NoJob \in JobType /\ NoWorker \in WorkerType /\ NoChild \in ChildType
  /\ NoQ36 \in Q36Type /\ NoInf \in InfType
  BY DEF JobType, WorkerType, ChildType, Q36Type, InfType, NoJob, NoWorker,
         NoChild, NoQ36, NoInf, AnyRequest, RequestType, Versions, Models

LEMMA MarkType ==
  ASSUME NEW st \in StatusType, NEW t \in Tasks \cup {0}, NEW s \in {"working"} \cup Ended
  PROVE  Mark(st, t, s) \in StatusType
  BY DEF Mark, StatusType

LEMMA AnsweredType ==
  ASSUME TypeOK
  PROVE  Answered \in AnswersType
  BY DEF TypeOK, Answered, AnswersType

LEMMA CandidateType ==
  ASSUME TypeOK, NEW t \in Tasks, NEW req \in RequestType, NEW c \in BOOLEAN
  PROVE  Candidate(t, req, c) \in JobType /\ Worker(req) \in WorkerType
  BY StartValues DEF TypeOK, Candidate, JobType, Worker, WorkerType, MayRelease

LEMMA CancelTypes ==
  ASSUME TypeOK, LaunchCancel
  PROVE  job' \in JobType /\ worker' \in WorkerType /\ answers' \in AnswersType
<1>1. job' \in JobType
  BY DEF TypeOK, LaunchCancel, JobType
<1>2. worker' \in WorkerType
  BY DEF TypeOK, LaunchCancel, WorkerType
<1> QED
  BY <1>1, <1>2, AnsweredType DEF LaunchCancel

LEMMA JobTask == TypeOK => job.task \in Tasks \cup {0}
  BY DEF TypeOK, JobType

LEMMA CanceledType == TypeOK => Canceled \in StatusType
  BY JobTask, MarkType DEF TypeOK, Canceled, Ended

LEMMA ChildStopTypes ==
  ASSUME TypeOK, NEW st \in StatusType, RequestChildStop(st)
  PROVE  /\ child' \in ChildType /\ status' \in StatusType /\ active' \in Tasks \cup {0}
         /\ mode' \in {"none", "server", "piped"} /\ external' \in BOOLEAN
<1>1. child' \in ChildType
  BY DEF TypeOK, RequestChildStop, ChildType
<1>2. status' \in StatusType
  BY MarkType DEF TypeOK, RequestChildStop, Ended
<1> QED
  BY <1>1, <1>2 DEF TypeOK, RequestChildStop

LEMMA Q36StopTypes ==
  ASSUME TypeOK
  PROVE  /\ Q36Stopped \in Q36Type /\ Released \in Q36Type
         /\ ReadyAfterQ36Stop \in BOOLEAN /\ ReadyAfterStop \in BOOLEAN
         /\ ReadyAfterRelease \in BOOLEAN
<1>1. Q36Stopped \in Q36Type
  BY DEF TypeOK, Q36Stopped, Q36Type
<1> QED
  BY <1>1 DEF TypeOK, Released, ReadyAfterQ36Stop, ReadyAfterStop, ReadyAfterRelease

LEMMA UserTypes ==
  ASSUME TypeOK, User
  PROVE  TypeOK'
<1>1. ASSUME NEW req \in Requests, Start(req)
      PROVE  TypeOK'
  <2>1. NextTask \in Tasks /\ req \in RequestType
    BY <1>1, EngineAssumption DEF Start
  <2>2. Candidate(NextTask, req, TRUE) \in JobType /\ Worker(req) \in WorkerType
    BY <2>1, CandidateType
  <2>3. job' \in JobType /\ worker' \in WorkerType
    BY <1>1, <2>2 DEF TypeOK, Start
  <2>4. /\ [status EXCEPT ![NextTask] = "working"] \in StatusType
        /\ [status EXCEPT ![NextTask] = "failed"] \in StatusType
    BY <2>1 DEF TypeOK, StatusType, Ended
  <2>5. /\ [answers EXCEPT ![NextTask] = "waits"] \in AnswersType
        /\ [answers EXCEPT ![NextTask] = "answered"] \in AnswersType
    BY <2>1 DEF TypeOK, AnswersType
  <2> QED
    BY <1>1, <2>3, <2>4, <2>5 DEF TypeOK, Start, host, world
<1>2. CASE Cancel
  BY <1>2, CancelTypes, CanceledType, Q36StopTypes DEF TypeOK, Cancel, world
<1>3. CASE CancelLoading
  BY <1>3, ChildStopTypes DEF TypeOK, CancelLoading, world
<1>4. CASE Stop
  <2>1. job' \in JobType /\ worker' \in WorkerType /\ answers' \in AnswersType
    BY <1>4, CancelTypes DEF TypeOK, Stop
  <2>2. /\ child' \in ChildType /\ status' \in StatusType /\ active' \in Tasks \cup {0}
        /\ mode' \in {"none", "server", "piped"} /\ external' \in BOOLEAN
    BY <1>4, CanceledType, ChildStopTypes DEF TypeOK, Stop
  <2> QED
    BY <1>4, <2>1, <2>2, Q36StopTypes DEF TypeOK, Stop, world
<1>5. CASE Quit
  BY <1>5, CancelTypes, CanceledType, Q36StopTypes DEF TypeOK, Quit, world
<1> QED
  BY <1>1, <1>2, <1>3, <1>4, <1>5 DEF User

LEMMA SettleTypes ==
  ASSUME TypeOK, NEW s \in Ended, Settle(s)
  PROVE  /\ job' \in JobType /\ worker' \in WorkerType /\ active' \in Tasks \cup {0}
         /\ status' \in StatusType /\ answers' \in AnswersType
  BY JobTask, MarkType, AnsweredType, StartValues DEF TypeOK, Settle, Dispose

LEMMA CompleteTypes ==
  ASSUME TypeOK, NEW m, CompleteLaunch(m)
  PROVE  status' \in StatusType /\ active' \in Tasks \cup {0}
  BY MarkType DEF TypeOK, CompleteLaunch, Ended

LEMMA ValidatedType ==
  ASSUME TypeOK
  PROVE  /\ Validated \in JobType
         /\ [Validated EXCEPT !.stopping = TRUE] \in JobType
         /\ [Validated EXCEPT !.started = TRUE] \in JobType
         /\ [Validated EXCEPT !.failed = TRUE] \in JobType
  BY DEF TypeOK, Validated, JobType

LEMMA SpawnedType ==
  ASSUME TypeOK
  PROVE  Spawned \in ChildType
  BY StartValues DEF TypeOK, Spawned, PipedChild, ServerChild, ChildType, JobType, RequestType

LEMMA LaunchTypes ==
  ASSUME TypeOK, LaunchTick
  PROVE  TypeOK'
<1>1. CASE TakeResult
  <2>1. worker.exe \in Versions /\ worker' \in WorkerType
    BY <1>1 DEF TypeOK, TakeResult, WorkerType
  <2>2. job' \in JobType
    BY <1>1, <2>1 DEF TypeOK, TakeResult, JobType
  <2> QED
    BY <1>1, <2>1, <2>2 DEF TypeOK, TakeResult, host, tasks, world
<1>2. CASE WorkerDeadline
  <2>1. job' \in JobType
    BY <1>2, CancelTypes DEF TypeOK, WorkerDeadline, JobType
  <2>2. worker' \in WorkerType
    BY <1>2, CancelTypes DEF TypeOK, WorkerDeadline, WorkerType
  <2>3. status' \in StatusType /\ answers' \in AnswersType
    BY <1>2, CancelTypes, CanceledType DEF TypeOK, WorkerDeadline
  <2> QED
    BY <1>2, <2>1, <2>2, <2>3 DEF TypeOK, WorkerDeadline, host, world
<1>3. CASE FailLaunch
  <2>1. status' \in StatusType /\ answers' \in AnswersType
    BY <1>3, JobTask, MarkType, AnsweredType DEF TypeOK, FailLaunch, Ended
  <2> QED
    BY <1>3, <2>1, StartValues, Q36StopTypes DEF TypeOK, FailLaunch, world
<1>4. CASE RejectStale
  BY <1>4, JobTask, MarkType, AnsweredType, StartValues, Q36StopTypes
     DEF TypeOK, RejectStale, Dispose, Ended, world
<1>5. CASE StopPrevious
  <2>1. /\ child' \in ChildType /\ status' \in StatusType /\ active' \in Tasks \cup {0}
        /\ mode' \in {"none", "server", "piped"} /\ external' \in BOOLEAN
    BY <1>5, ChildStopTypes DEF TypeOK, StopPrevious
  <2> QED
    BY <1>5, <2>1, ValidatedType, StartValues DEF TypeOK, StopPrevious, world
<1>6. CASE SwitchQ36
  BY <1>6, ValidatedType, StartValues, Q36StopTypes DEF TypeOK, SwitchQ36, tasks, world
<1>7. CASE StartQ36
  <2>1. q36' \in Q36Type
    BY <1>7, StartValues DEF TypeOK, StartQ36, Q36Type, JobType
  <2>2. inf' \in InfType
    BY <1>7, StartValues DEF TypeOK, StartQ36, InfType
  <2> QED
    BY <1>7, <2>1, <2>2, ValidatedType, StartValues DEF TypeOK, StartQ36, tasks, world
<1>8. CASE ChangedBeforePublication
  BY <1>8, ValidatedType, StartValues DEF TypeOK, ChangedBeforePublication, host, tasks, world
<1>9. CASE PublishQ36
  BY <1>9, SettleTypes DEF TypeOK, PublishQ36, Ended, world
<1>10. CASE CommitOccupied
  BY <1>10, SettleTypes DEF TypeOK, CommitOccupied, Ended, world
<1>11. CASE CommitWaits
  BY <1>11, JobTask, AnsweredType, StartValues DEF TypeOK, CommitWaits, world
<1>12. CASE CommitSpawn
  <2>1. Spawned.is \in {"none", "server", "piped"}
    BY SpawnedType DEF ChildType
  <2> QED
    BY <1>12, <2>1, JobTask, AnsweredType, SpawnedType, StartValues DEF TypeOK, CommitSpawn, world
<1>13. CASE SpawnFails
  BY <1>13, SettleTypes DEF TypeOK, SpawnFails, Ended, world
<1> QED
  BY <1>1, <1>2, <1>3, <1>4, <1>5, <1>6, <1>7, <1>8, <1>9, <1>10, <1>11, <1>12, <1>13
     DEF LaunchTick

(* What a saved server does when its process is gone.                      *)
LEMMA ResumeTypes ==
  ASSUME TypeOK, Resume \/ Unavailable
  PROVE  /\ job' \in JobType /\ worker' \in WorkerType /\ active' \in Tasks \cup {0}
         /\ status' \in StatusType /\ answers' \in AnswersType /\ external' \in BOOLEAN
<1>1. AnyRequest \in RequestType
  BY DEF AnyRequest, RequestType, Models
<1>2. Mark(status, active, "failed") \in StatusType
  BY MarkType DEF TypeOK, Ended
<1>3. CASE Unavailable
  BY <1>2, <1>3 DEF TypeOK, Unavailable
<1>4. ASSUME Resume
      PROVE  /\ job' \in JobType /\ worker' \in WorkerType
             /\ active' \in Tasks \cup {0} /\ status' \in StatusType
  <2>1. CASE /\ Again \in Tasks
             /\ job' = Candidate(Again, AnyRequest, FALSE)
             /\ worker' = Worker(AnyRequest)
             /\ status' = [status EXCEPT ![Again] = "working"]
             /\ UNCHANGED active
    <3>1. [status EXCEPT ![Again] = "working"] \in StatusType
      BY <2>1 DEF TypeOK, StatusType
    <3>2. Candidate(Again, AnyRequest, FALSE) \in JobType /\ Worker(AnyRequest) \in WorkerType
      BY <1>1, <2>1, CandidateType
    <3> QED
      BY <2>1, <3>1, <3>2 DEF TypeOK
  <2>2. CASE /\ status' = Mark(status, active, "failed")
             /\ active' = 0
             /\ UNCHANGED <<job, worker>>
    BY <1>2, <2>2 DEF TypeOK
  <2>3. CASE UNCHANGED <<job, worker, status, active>>
    BY <2>3 DEF TypeOK
  <2> QED
    BY <1>4, <2>1, <2>2, <2>3 DEF Resume
<1> QED
  BY <1>3, <1>4 DEF Resume, TypeOK

LEMMA Q36FailTypes ==
  ASSUME TypeOK, Q36Fail
  PROVE  /\ q36' \in Q36Type /\ child' \in ChildType /\ status' \in StatusType
         /\ active' \in Tasks \cup {0} /\ ready' \in BOOLEAN
         /\ UNCHANGED <<mode, external>>
<1>1. child' \in ChildType
  BY DEF TypeOK, Q36Fail, ChildType
<1> DEFINE st == IF active = q36.task THEN Mark(status, active, "failed") ELSE status
           others == IF active = q36.task THEN 0 ELSE active
<1>2. st \in StatusType /\ others \in Tasks \cup {0}
  BY MarkType DEF TypeOK, Ended
<1>3. Mark(st, others, "canceled") \in StatusType
  BY <1>2, MarkType DEF Ended
<1>4. status' = Mark(st, others, "canceled") \/ status' = st
  BY DEF Q36Fail
<1> HIDE DEF st, others
<1>5. active' \in Tasks \cup {0}
  BY <1>2 DEF Q36Fail, others
<1> QED
  BY <1>1, <1>2, <1>3, <1>4, <1>5, Q36StopTypes DEF Q36Fail

LEMMA EngineTypes ==
  ASSUME TypeOK, EngineTick
  PROVE  TypeOK'
<1>1. CASE ReadyLine
  BY <1>1, CompleteTypes DEF TypeOK, ReadyLine, world
<1>2. CASE ReadyPort
  BY <1>2, CompleteTypes DEF TypeOK, ReadyPort, world
<1>3. CASE ReadyLoop
  BY <1>3, CompleteTypes DEF TypeOK, ReadyLoop, world
<1>4. CASE Reap
  BY <1>4, MarkType, StartValues DEF TypeOK, Reap, Ended, world
<1>5. CASE Q36Receipt
  <2>1. [q36 EXCEPT !.ready = TRUE] \in Q36Type
    BY DEF TypeOK, Q36Type
  <2> QED
    BY <1>5, <2>1, Q36FailTypes DEF TypeOK, Q36Receipt, host, world
<1>6. CASE Q36Closed
  BY <1>6, Q36FailTypes DEF TypeOK, Q36Closed, world
<1>7. CASE Q36Deadline
  BY <1>7, Q36FailTypes DEF TypeOK, Q36Deadline, world
<1>8. CASE Q36Reap
  <2>1. q36' \in Q36Type
    BY <1>8 DEF TypeOK, Q36Reap, Q36Type
  <2> QED
    BY <1>8, <2>1, StartValues DEF TypeOK, Q36Reap, tasks, world
<1>9. CASE StatusOpen
  BY <1>9, CompleteTypes, ResumeTypes DEF TypeOK, StatusOpen, world
<1>10. CASE StatusShut
  BY <1>10, ResumeTypes DEF TypeOK, StatusShut, tasks, world
<1>11. CASE QuitWorker
  BY <1>11, StartValues DEF TypeOK, QuitWorker, Dispose, tasks, world
<1>12. CASE QuitEngines
  <2>1. /\ child' \in ChildType /\ status' \in StatusType /\ active' \in Tasks \cup {0}
        /\ mode' \in {"none", "server", "piped"} /\ external' \in BOOLEAN
    BY <1>12, ChildStopTypes DEF TypeOK, QuitEngines
  <2> QED
    BY <1>12, <2>1, Q36StopTypes DEF TypeOK, QuitEngines, world
<1> QED
  BY <1>1, <1>2, <1>3, <1>4, <1>5, <1>6, <1>7, <1>8, <1>9, <1>10, <1>11, <1>12
     DEF EngineTick

LEMMA ProcessTypes ==
  ASSUME TypeOK, Processes
  PROVE  TypeOK'
<1>1. CASE WorkerFrees
  BY <1>1 DEF TypeOK, WorkerFrees, host, tasks
<1>2. CASE WorkerTells \/ WorkerDies
  <2>1. worker \in WorkerType /\ disk.exe \in Versions
    BY DEF TypeOK
  <2>2. worker' \in WorkerType
    BY <1>2, <2>1 DEF WorkerTells, WorkerDies, WorkerType
  <2> QED
    BY <1>2, <2>2 DEF TypeOK, WorkerTells, WorkerDies, host, tasks, world
<1>3. CASE ChildUp \/ ChildDies \/ ChildObeys
  <2>1. child \in ChildType
    BY DEF TypeOK
  <2>2. child' \in ChildType
    BY <1>3, <2>1 DEF ChildUp, ChildDies, ChildObeys, ChildType
  <2> QED
    BY <1>3, <2>2 DEF TypeOK, ChildUp, ChildDies, ChildObeys, host, tasks, world
<1>4. CASE InfExec \/ InfUp \/ InfLeaves \/ InfDies
  <2>1. inf' \in InfType
    BY <1>4 DEF TypeOK, InfExec, InfUp, InfLeaves, InfDies, InfType
  <2> QED
    BY <1>4, <2>1 DEF TypeOK, InfExec, InfUp, InfLeaves, InfDies, host, tasks, world
<1>5. CASE Edit
  <2>1. disk' \in [files : Versions, exe : Versions]
    BY <1>5 DEF TypeOK, Edit, Versions
  <2>2. events' \in 0 .. MaxEvents
    BY <1>5, EngineAssumption DEF TypeOK, Edit
  <2> QED
    BY <1>5, <2>1, <2>2 DEF TypeOK, Edit, host, tasks
<1>6. CASE ForeignStarts
  <2>1. events' \in 0 .. MaxEvents
    BY <1>6, EngineAssumption DEF TypeOK, ForeignStarts
  <2> QED
    BY <1>6, <2>1 DEF TypeOK, ForeignStarts, host, tasks
<1>7. CASE ForeignGoesOn
  BY <1>7 DEF TypeOK, ForeignGoesOn, host, tasks
<1> QED
  BY <1>1, <1>2, <1>3, <1>4, <1>5, <1>6, <1>7 DEF Processes

LEMMA InitTypes == Init => TypeOK
<1>1. /\ [t \in Tasks |-> "none"] \in StatusType
      /\ [t \in Tasks |-> "nobody"] \in AnswersType
  BY DEF StatusType, AnswersType
<1>2. [files |-> 0, exe |-> 0] \in [files : Versions, exe : Versions]
  BY DEF Versions
<1>3. 0 \in 0 .. MaxEvents
  BY EngineAssumption
<1> QED
  BY <1>1, <1>2, <1>3, StartValues DEF Init, TypeOK

LEMMA NextTypes ==
  ASSUME TypeOK, [Next]_vars
  PROVE  TypeOK'
<1>1. CASE UNCHANGED vars
  BY <1>1 DEF TypeOK, vars, host, tasks, world
<1> QED
  BY <1>1, UserTypes, LaunchTypes, EngineTypes, ProcessTypes DEF Next

(* TypeOK holds in every reachable state.                                  *)
THEOREM TypeOKAlways == Spec => []TypeOK
  BY InitTypes, NextTypes, PTL DEF Spec
-----------------------------------------------------------------------------
(* The inductive invariant.  The owner knows of the inference process as   *)
(* long as it exists, whatever it was told.                                *)
ProcessIsOwned == q36.pid <=> inf.is # "none"

(* Beside it runs no child but its frontend.                               *)
FrontendOfModel == HasChild /\ q36.pid => child.model = "q36"

(* A launch that started the model is alone, and started it on what the    *)
(* launch captured.                                                        *)
StartedAlone == job.started => ~HasChild /\ worker.is = "none"
StartedRuns == job.started /\ q36.pid => q36.files = job.files /\ q36.exe = job.exe

(* The process runs the executable it was started for, and it is ready on  *)
(* the files it was started for.                                           *)
ExecHeld == inf.is \in {"loading", "up"} => inf.exe = q36.exe
ReceiptHeld ==
  q36.ready => /\ inf.is \in {"up", "leaving", "dead"}
               /\ inf.files = q36.files /\ inf.exe = q36.exe

Owned ==
  /\ ProcessIsOwned /\ FrontendOfModel /\ FrontendHasModel
  /\ StartedAlone /\ StartedRuns /\ ExecHeld /\ ReceiptHeld
OwnerInv == TypeOK /\ Owned

(* What the helpers that stop a process leave of the records they change.  *)
LEMMA CancelFields ==
  ASSUME job \in JobType, worker \in WorkerType, LaunchCancel
  PROVE  /\ job'.task = job.task /\ job'.started = job.started /\ job'.req = job.req
         /\ job'.files = job.files /\ job'.exe = job.exe
         /\ worker.is = "none" => worker'.is = "none"
<1>1. /\ job'.task = job.task /\ job'.started = job.started /\ job'.req = job.req
      /\ job'.files = job.files /\ job'.exe = job.exe
  BY DEF LaunchCancel, JobType
<1>2. worker.is = "none" => worker'.is = "none"
  BY DEF LaunchCancel, WorkerType
<1> QED
  BY <1>1, <1>2

LEMMA ChildStopFields ==
  ASSUME child \in ChildType, NEW st, RequestChildStop(st)
  PROVE  /\ child'.is = child.is /\ child'.model = child.model /\ child'.task = child.task
         /\ child.stop => child'.stop
         /\ HasChild => child'.stop
  BY DEF ChildType, RequestChildStop, StopsChild

LEMMA Q36StopFields ==
  ASSUME q36 \in Q36Type, q36' = Q36Stopped
  PROVE  /\ q36'.pid = q36.pid /\ q36'.task = q36.task
         /\ q36'.files = q36.files /\ q36'.exe = q36.exe
         /\ q36'.ready => q36.ready
         /\ q36.pid => q36'.stopping
         /\ q36'.stopping => q36.stopping \/ q36.pid
  BY DEF Q36Type, Q36Stopped

LEMMA Q36FailFields ==
  ASSUME child \in ChildType, Q36Fail
  PROVE  /\ child'.is = child.is /\ child'.model = child.model /\ child'.task = child.task
         /\ child.stop => child'.stop
         /\ HasChild => child'.stop
  BY DEF ChildType, Q36Fail

(* A step that stops more than was stopped, and whatever talks to what it  *)
(* stops, keeps what the owner knows.                                      *)
LEMMA StoppingOwns ==
  ASSUME Owned, inf' = inf,
         job'.started = job.started, job'.files = job.files, job'.exe = job.exe,
         worker.is = "none" => worker'.is = "none",
         child'.is = child.is, child'.model = child.model, child.stop => child'.stop,
         q36'.pid = q36.pid, q36'.files = q36.files, q36'.exe = q36.exe,
         q36'.ready => q36.ready,
         q36'.stopping => q36.stopping \/ (HasChild => child'.stop)
  PROVE  Owned'
<1>1. ProcessIsOwned' /\ FrontendOfModel' /\ FrontendHasModel'
  BY DEF Owned, ProcessIsOwned, FrontendOfModel, FrontendHasModel, HasChild
<1>2. StartedAlone' /\ StartedRuns'
  BY DEF Owned, StartedAlone, StartedRuns, HasChild
<1>3. ExecHeld' /\ ReceiptHeld'
  BY DEF Owned, ExecHeld, ReceiptHeld
<1> QED
  BY <1>1, <1>2, <1>3 DEF Owned

LEMMA ReleaseOwns ==
  ASSUME OwnerInv, LaunchCancel, q36' = Released, UNCHANGED <<child, inf>>
  PROVE  Owned'
<1> USE DEF OwnerInv, Owned, ProcessIsOwned, FrontendOfModel, FrontendHasModel, StartedAlone,
            StartedRuns, ExecHeld, ReceiptHeld, HasChild, TypeOK, JobType, WorkerType,
            ChildType, Q36Type, InfType, LaunchCancel
<1>1. CASE Strayed
  BY <1>1 DEF Released, Strayed, Q36Stopped
<1>2. CASE ~Strayed
  BY <1>2 DEF Released
<1> QED
  BY <1>1, <1>2

LEMMA StopOwns ==
  ASSUME OwnerInv, Stop
  PROVE  Owned'
<1>1. Owned /\ inf' = inf /\ q36' = Q36Stopped
  BY DEF OwnerInv, Stop
<1>2. /\ job \in JobType /\ worker \in WorkerType
      /\ child \in ChildType /\ q36 \in Q36Type
  BY DEF OwnerInv, TypeOK
<1>3. /\ child'.is = child.is /\ child'.model = child.model /\ (child.stop => child'.stop)
      /\ HasChild => child'.stop
  BY <1>2, ChildStopFields DEF Stop
<1>4. /\ job'.started = job.started /\ job'.files = job.files /\ job'.exe = job.exe
      /\ worker.is = "none" => worker'.is = "none"
  BY <1>2, CancelFields DEF Stop
<1> QED
  BY <1>1, <1>2, <1>3, <1>4, Q36StopFields, StoppingOwns

LEMMA FailOwns ==
  ASSUME OwnerInv, Q36Fail, UNCHANGED <<job, worker, inf>>
  PROVE  Owned'
<1>1. Owned /\ q36' = Q36Stopped /\ child \in ChildType /\ q36 \in Q36Type
  BY DEF OwnerInv, TypeOK, Q36Fail
<1> QED
  BY <1>1, Q36FailFields, Q36StopFields, StoppingOwns

LEMMA UserOwns ==
  ASSUME OwnerInv, User
  PROVE  Owned'
<1> USE DEF OwnerInv, Owned, ProcessIsOwned, FrontendOfModel, FrontendHasModel, StartedAlone,
            StartedRuns, ExecHeld, ReceiptHeld, HasChild, Pending, TypeOK, JobType, WorkerType,
            ChildType, Q36Type, InfType, host, tasks, world
<1>1. ASSUME NEW req \in Requests, Start(req)
      PROVE  Owned'
  <2>1. CASE job' = Candidate(NextTask, req, TRUE) /\ worker' = Worker(req)
    BY <1>1, <2>1 DEF Start, Candidate, NoJob, Worker, NoWorker
  <2>2. CASE UNCHANGED <<job, worker>>
    BY <1>1, <2>2 DEF Start
  <2> QED
    BY <1>1, <2>1, <2>2 DEF Start
<1>2. CASE Cancel
  BY <1>2, ReleaseOwns DEF Cancel
<1>3. CASE CancelLoading
  BY <1>3 DEF CancelLoading, RequestChildStop, StopsChild
<1>4. CASE Stop
  BY <1>4, StopOwns
<1>5. CASE Quit
  <2>1. CASE Pending /\ ~job.canceled
    BY <1>5, <2>1, ReleaseOwns DEF Quit
  <2>2. CASE ~(Pending /\ ~job.canceled)
    BY <1>5, <2>2 DEF Quit
  <2> QED
    BY <2>1, <2>2
<1> QED
  BY <1>1, <1>2, <1>3, <1>4, <1>5 DEF User

LEMMA DeadlineOwns ==
  ASSUME OwnerInv, WorkerDeadline
  PROVE  Owned'
<1>1. /\ Owned /\ UNCHANGED <<child, q36, inf>>
      /\ job \in JobType /\ worker \in WorkerType
  BY DEF OwnerInv, TypeOK, WorkerDeadline
<1>2. /\ job'.started = job.started /\ job'.files = job.files /\ job'.exe = job.exe
      /\ worker.is = "none" => worker'.is = "none"
  BY <1>1 DEF WorkerDeadline, LaunchCancel, JobType
<1> QED
  BY <1>1, <1>2, StoppingOwns

LEMMA LaunchOwns ==
  ASSUME OwnerInv, LaunchTick
  PROVE  Owned'
<1> USE DEF OwnerInv, Owned, ProcessIsOwned, FrontendOfModel, FrontendHasModel, StartedAlone,
            StartedRuns, ExecHeld, ReceiptHeld, HasChild, Pending, TypeOK, JobType, WorkerType,
            ChildType, Q36Type, InfType, host, tasks, world
<1>1. CASE TakeResult
  BY <1>1 DEF TakeResult
<1>2. CASE WorkerDeadline
  BY <1>2, DeadlineOwns
<1>3. CASE FailLaunch
  BY <1>3 DEF FailLaunch, WorkerGone, Released, Strayed, Q36Stopped, NoJob, NoWorker
<1>4. CASE RejectStale
  BY <1>4 DEF RejectStale, WorkerGone, Dispose, Released, Strayed, Q36Stopped, NoJob, NoWorker
<1>5. CASE StopPrevious
  BY <1>5 DEF StopPrevious, Sound, Validated, RequestChildStop, StopsChild, NoWorker
<1>6. CASE SwitchQ36
  BY <1>6 DEF SwitchQ36, Validated, Q36Stopped, NoWorker
<1>7. CASE StartQ36
  <2>1. CASE /\ job' = [Validated EXCEPT !.started = TRUE]
             /\ q36' = [NoQ36 EXCEPT !.pid = TRUE, !.task = job.task,
                                     !.files = job.files, !.exe = job.exe]
             /\ inf' = [NoInf EXCEPT !.is = "forked"]
    BY <1>7, <2>1 DEF StartQ36, Validated, NoQ36, NoInf, NoWorker
  <2>2. CASE job' = [Validated EXCEPT !.failed = TRUE] /\ UNCHANGED <<q36, inf>>
    BY <1>7, <2>2 DEF StartQ36, Validated, NoWorker
  <2> QED
    BY <1>7, <2>1, <2>2 DEF StartQ36
<1>8. CASE ChangedBeforePublication
  BY <1>8 DEF ChangedBeforePublication, Publishable, Validated, NoWorker
<1>9. CASE PublishQ36
  BY <1>9 DEF PublishQ36, Settle, Dispose, NoJob, NoWorker
<1>10. CASE CommitOccupied
  BY <1>10 DEF CommitOccupied, Settle, Dispose, NoJob, NoWorker
<1>11. CASE CommitWaits
  BY <1>11 DEF CommitWaits, NoJob, NoWorker
<1>12. CASE CommitSpawn
  BY <1>12 DEF CommitSpawn, Publishable, MustSwitch, WantsQ36, Q36Ready, Spawned, PipedChild,
               ServerChild, NoChild, NoJob, NoWorker
<1>13. CASE SpawnFails
  BY <1>13 DEF SpawnFails, Settle, Dispose, NoJob, NoWorker
<1> QED
  BY <1>1, <1>2, <1>3, <1>4, <1>5, <1>6, <1>7, <1>8, <1>9, <1>10, <1>11, <1>12, <1>13
     DEF LaunchTick

LEMMA EngineOwns ==
  ASSUME OwnerInv, EngineTick
  PROVE  Owned'
<1> USE DEF OwnerInv, Owned, ProcessIsOwned, FrontendOfModel, FrontendHasModel, StartedAlone,
            StartedRuns, ExecHeld, ReceiptHeld, HasChild, Pending, TypeOK, JobType, WorkerType,
            ChildType, Q36Type, InfType, host, tasks, world
<1>1. CASE ReadyLine \/ ReadyPort \/ ReadyLoop
  BY <1>1 DEF ReadyLine, ReadyPort, ReadyLoop
<1>2. CASE Reap
  BY <1>2 DEF Reap, NoChild
<1>3. CASE Q36Receipt
  <2>1. CASE ReceiptMatches
    BY <1>3, <2>1 DEF Q36Receipt, ReceiptMatches
  <2>2. CASE ~ReceiptMatches
    BY <1>3, <2>2, FailOwns DEF Q36Receipt
  <2> QED
    BY <2>1, <2>2
<1>4. CASE Q36Closed
  BY <1>4, FailOwns DEF Q36Closed
<1>5. CASE Q36Deadline
  BY <1>5, FailOwns DEF Q36Deadline
<1>6. CASE Q36Reap
  BY <1>6 DEF Q36Reap, NoInf
<1>7. CASE StatusOpen
  BY <1>7 DEF StatusOpen, Unavailable
<1>8. CASE StatusShut
  BY <1>8 DEF StatusShut, UsesForeign, Resume, Unavailable, Candidate, NoJob, Worker, NoWorker
<1>9. CASE QuitWorker
  BY <1>9 DEF QuitWorker, Dispose, NoJob, NoWorker
<1>10. CASE QuitEngines
  BY <1>10 DEF QuitEngines, RequestChildStop, StopsChild, Q36Stopped
<1> QED
  BY <1>1, <1>2, <1>3, <1>4, <1>5, <1>6, <1>7, <1>8, <1>9, <1>10 DEF EngineTick

LEMMA ProcessOwns ==
  ASSUME OwnerInv, Processes
  PROVE  Owned'
<1> USE DEF OwnerInv, Owned, ProcessIsOwned, FrontendOfModel, FrontendHasModel, StartedAlone,
            StartedRuns, ExecHeld, ReceiptHeld, HasChild, Pending, TypeOK, JobType, WorkerType,
            ChildType, Q36Type, InfType, host, tasks, world
<1>1. CASE WorkerFrees \/ WorkerTells \/ WorkerDies
  BY <1>1 DEF WorkerFrees, WorkerTells, WorkerDies
<1>2. CASE ChildUp \/ ChildDies \/ ChildObeys
  BY <1>2 DEF ChildUp, ChildDies, ChildObeys
<1>3. CASE InfExec
  BY <1>3 DEF InfExec, ExecMatches
<1>4. CASE InfUp
  BY <1>4 DEF InfUp
<1>5. CASE InfLeaves \/ InfDies
  BY <1>5 DEF InfLeaves, InfDies
<1>6. CASE Edit \/ ForeignStarts \/ ForeignGoesOn
  BY <1>6 DEF Edit, ForeignStarts, ForeignGoesOn
<1> QED
  BY <1>1, <1>2, <1>3, <1>4, <1>5, <1>6 DEF Processes

LEMMA InitOwns == Init => Owned
  BY DEF Init, Owned, ProcessIsOwned, FrontendOfModel, FrontendHasModel, StartedAlone,
         StartedRuns, ExecHeld, ReceiptHeld, HasChild, NoJob, NoWorker, NoChild, NoQ36, NoInf

LEMMA NextOwns ==
  ASSUME OwnerInv, [Next]_vars
  PROVE  OwnerInv'
<1>1. TypeOK'
  BY NextTypes DEF OwnerInv
<1>2. CASE UNCHANGED vars
  BY <1>1, <1>2 DEF OwnerInv, Owned, ProcessIsOwned, FrontendOfModel, FrontendHasModel, StartedAlone,
              StartedRuns, ExecHeld, ReceiptHeld, HasChild, vars
<1>3. Next => Owned'
  BY UserOwns, LaunchOwns, EngineOwns, ProcessOwns DEF Next
<1> QED
  BY <1>1, <1>2, <1>3 DEF OwnerInv

(* The inductive invariant holds in every reachable state.                 *)
THEOREM OwnerInvAlways == Spec => []OwnerInv
<1>1. Init => OwnerInv
  BY InitTypes, InitOwns DEF OwnerInv
<1> QED
  BY <1>1, NextOwns, PTL DEF Spec

(* The host never owns two processes that hold model weights.              *)
THEOREM OneModelAlways == Spec => []OneModelResident
<1>1. OwnerInv => OneModelResident
  BY DEF OwnerInv, Owned, ProcessIsOwned, FrontendOfModel, OneModelResident, LoadsWeights,
         InferenceAlive
<1> QED
  BY <1>1, OwnerInvAlways, PTL

(* No frontend outlives its model.                                         *)
THEOREM FrontendAlwaysHasModel == Spec => []FrontendHasModel
<1>1. OwnerInv => FrontendHasModel
  BY DEF OwnerInv, Owned
<1> QED
  BY <1>1, OwnerInvAlways, PTL
-----------------------------------------------------------------------------
(* A candidate that may be published is the one that runs.                 *)
LEMMA PublishableRuns ==
  ASSUME OwnerInv, Publishable, WantsQ36
  PROVE  inf.files = job.files /\ inf.exe = job.exe
  BY DEF OwnerInv, Owned, Publishable, Sound, MustSwitch, Q36Ready, SameLaunch, StartedRuns,
         ReceiptHeld

(* No other step publishes the pending launch.                             *)
LEMMA UserIsSilent ==
  ASSUME TypeOK, Pending, WantsQ36, User
  PROVE  ~Publishes(job.task)
<1> USE DEF TypeOK, StatusType, JobType, ChildType, HasChild, Pending, WantsQ36, host, tasks, world,
            Publishes, Mark, Ended
<1>1. CASE Cancel
  BY <1>1 DEF Cancel, LaunchCancel, Canceled
<1>2. CASE CancelLoading
  BY <1>2 DEF CancelLoading
<1>3. CASE Stop
  BY <1>3 DEF Stop, LaunchCancel, Canceled, RequestChildStop, StopsChild
<1>4. CASE Quit
  BY <1>4 DEF Quit, LaunchCancel, Canceled
<1> QED
  BY <1>1, <1>2, <1>3, <1>4 DEF User, Start, Idle

LEMMA LaunchIsSilent ==
  ASSUME TypeOK, Pending, WantsQ36, LaunchTick, ~PublishQ36, ~CommitSpawn
  PROVE  ~Publishes(job.task)
<1> USE DEF TypeOK, StatusType, JobType, ChildType, HasChild, Pending, WantsQ36, host, tasks, world,
            Publishes, Mark, Ended
<1>1. CASE TakeResult \/ WorkerDeadline
  BY <1>1 DEF TakeResult, WorkerDeadline, LaunchCancel, Canceled
<1>2. CASE FailLaunch \/ RejectStale
  BY <1>2 DEF FailLaunch, RejectStale
<1>3. CASE StopPrevious
  BY <1>3 DEF StopPrevious, RequestChildStop, StopsChild
<1>4. CASE SwitchQ36 \/ StartQ36 \/ ChangedBeforePublication
  BY <1>4 DEF SwitchQ36, StartQ36, ChangedBeforePublication
<1>5. CASE CommitOccupied
  BY <1>5 DEF CommitOccupied, Occupied
<1>6. CASE CommitWaits \/ SpawnFails
  BY <1>6 DEF CommitWaits, SpawnFails, Settle
<1> QED
  BY <1>1, <1>2, <1>3, <1>4, <1>5, <1>6 DEF LaunchTick

LEMMA EngineIsSilent ==
  ASSUME TypeOK, Pending, WantsQ36, EngineTick
  PROVE  ~Publishes(job.task)
<1> USE DEF TypeOK, StatusType, JobType, ChildType, HasChild, Pending, WantsQ36, host, tasks, world,
            Publishes, Mark, Ended
<1>1. CASE ReadyLine \/ ReadyPort \/ ReadyLoop
  BY <1>1 DEF ReadyLine, ReadyPort, ReadyLoop, CompleteLaunch
<1>2. CASE Reap
  BY <1>2 DEF Reap, NoChild
<1>3. CASE Q36Receipt \/ Q36Closed \/ Q36Deadline
  BY <1>3 DEF Q36Receipt, Q36Closed, Q36Deadline, Q36Fail
<1>4. CASE Q36Reap
  BY <1>4 DEF Q36Reap
<1>5. CASE StatusOpen
  BY <1>5 DEF StatusOpen, CompleteLaunch, Unavailable
<1>6. CASE StatusShut
  BY <1>6 DEF StatusShut, Resume, Unavailable
<1>7. CASE QuitWorker \/ QuitEngines
  BY <1>7 DEF QuitWorker, QuitEngines, RequestChildStop, StopsChild
<1> QED
  BY <1>1, <1>2, <1>3, <1>4, <1>5, <1>6, <1>7 DEF EngineTick

LEMMA ProcessIsSilent ==
  ASSUME TypeOK, Pending, WantsQ36, Processes
  PROVE  ~Publishes(job.task)
<1> USE DEF TypeOK, StatusType, JobType, ChildType, HasChild, Pending, WantsQ36, host, tasks, world,
            Publishes, Mark, Ended
<1>1. CASE WorkerFrees \/ WorkerTells \/ WorkerDies
  BY <1>1 DEF WorkerFrees, WorkerTells, WorkerDies
<1>2. CASE ChildUp \/ ChildDies \/ ChildObeys
  BY <1>2 DEF ChildUp, ChildDies, ChildObeys
<1>3. CASE InfExec \/ InfUp \/ InfLeaves \/ InfDies
  BY <1>3 DEF InfExec, InfUp, InfLeaves, InfDies
<1>4. CASE Edit \/ ForeignStarts \/ ForeignGoesOn
  BY <1>4 DEF Edit, ForeignStarts, ForeignGoesOn
<1> QED
  BY <1>1, <1>2, <1>3, <1>4 DEF Processes

(* What a launch on the resident model publishes is what its worker        *)
(* identified and what it captured.                                        *)
THEOREM PublishesWhatItPreparedAlways == Spec => PublishesWhatItPrepared
<1> DEFINE Prepared == Pending /\ WantsQ36 /\ Publishes(job.task)
                         => inf.files = job.files /\ inf.exe = job.exe
<1>1. ASSUME OwnerInv, Next
      PROVE  Prepared
  <2>1. CASE PublishQ36 \/ CommitSpawn
    BY <1>1, <2>1, PublishableRuns DEF PublishQ36, CommitSpawn
  <2>2. CASE ~PublishQ36 /\ ~CommitSpawn
    BY <1>1, <2>2, UserIsSilent, LaunchIsSilent, EngineIsSilent, ProcessIsSilent
       DEF Next, OwnerInv
  <2> QED
    BY <2>1, <2>2
<1>2. OwnerInv /\ [Next]_vars => [Prepared]_vars
  BY <1>1
<1> QED
  BY <1>2, OwnerInvAlways, PTL DEF Spec, PublishesWhatItPrepared
-----------------------------------------------------------------------------
(* The client of the pending launch is the one that still waits.           *)
ClientWaits == job.client => Pending /\ answers[job.task] = "waits" /\ ~job.canceled
ClientInv == AnsweredOnce /\ ClientWaits

(* The ways the client is dropped: it is told, or the launch was canceled  *)
(* before.                                                                 *)
LEMMA ClientToldOnce ==
  ASSUME TypeOK, ClientInv, Pending, ~job'.client,
         answers' = Answered \/ (job.canceled /\ UNCHANGED answers)
  PROVE  ClientInv'
<1>1. job.task \in Tasks /\ job.client \in BOOLEAN
  BY DEF TypeOK, JobType, Pending
<1>2. CASE job.client
  BY <1>1, <1>2 DEF ClientInv, AnsweredOnce, ClientWaits, Answered, TypeOK, AnswersType
<1>3. CASE ~job.client
  BY <1>1, <1>3 DEF ClientInv, AnsweredOnce, ClientWaits, Answered
<1> QED
  BY <1>2, <1>3

LEMMA ClientKept ==
  ASSUME ClientInv, UNCHANGED answers, UNCHANGED <<job.task, job.client, job.canceled>>
  PROVE  ClientInv'
  BY DEF ClientInv, AnsweredOnce, ClientWaits, Pending

(* A client that nobody has cannot wait.                                   *)
LEMMA ClientNone ==
  ASSUME ClientInv, UNCHANGED answers, ~job.client, ~job'.client
  PROVE  ClientInv'
  BY DEF ClientInv, AnsweredOnce, ClientWaits

LEMMA CanceledHasTold == ClientInv /\ job.canceled => ~job.client
  BY DEF ClientInv, ClientWaits

LEMMA PendingHasTask == ClientInv /\ ~Pending => ~job.client
  BY DEF ClientInv, ClientWaits

LEMMA CancelTells ==
  ASSUME TypeOK, ClientInv, Pending, LaunchCancel
  PROVE  ClientInv'
<1>1. ~job'.client
  BY DEF TypeOK, JobType, LaunchCancel
<1> QED
  BY <1>1, ClientToldOnce DEF LaunchCancel

LEMMA UserTells ==
  ASSUME TypeOK, ClientInv, User
  PROVE  ClientInv'
<1>1. ASSUME NEW req \in Requests, Start(req)
      PROVE  ClientInv'
  <2>1. NextTask \in Tasks /\ ~Pending /\ ~job.client
    BY <1>1, PendingHasTask DEF Start, Idle
  <2>2. \A t \in Tasks : answers[t] # "waits" /\ answers[t] # "again"
    BY <2>1 DEF ClientInv, AnsweredOnce
  <2>3. CASE job' = Candidate(NextTask, req, TRUE) /\ answers' = [answers EXCEPT ![NextTask] = "waits"]
    BY <2>1, <2>2, <2>3 DEF Candidate, NoJob, ClientInv, AnsweredOnce, ClientWaits, Pending,
                            TypeOK, AnswersType, Tasks
  <2>4. CASE answers' = [answers EXCEPT ![NextTask] = "answered"] /\ UNCHANGED job
    BY <2>1, <2>2, <2>4 DEF ClientInv, AnsweredOnce, ClientWaits, TypeOK, AnswersType
  <2> QED
    BY <1>1, <2>3, <2>4 DEF Start
<1>2. CASE Cancel
  BY <1>2, CancelTells DEF Cancel
<1>3. CASE CancelLoading
  BY <1>3, ClientKept DEF CancelLoading
<1>4. CASE Stop
  BY <1>4, CancelTells, ClientKept DEF Stop
<1>5. CASE Quit
  BY <1>5, CancelTells, ClientKept DEF Quit
<1> QED
  BY <1>1, <1>2, <1>3, <1>4, <1>5 DEF User

LEMMA LaunchTells ==
  ASSUME TypeOK, ClientInv, LaunchTick
  PROVE  ClientInv'
<1>0. ~NoJob.client
  BY DEF NoJob
<1>1. CASE TakeResult
  BY <1>1, ClientKept DEF TakeResult, tasks, TypeOK, JobType
<1>2. CASE WorkerDeadline
  <2>1. CASE ~job.canceled
    BY <1>2, <2>1, CancelTells DEF WorkerDeadline
  <2>2. CASE job.canceled
    BY <1>2, <2>2, ClientKept DEF WorkerDeadline, TypeOK, JobType
  <2> QED
    BY <2>1, <2>2
<1>3. CASE FailLaunch
  BY <1>0, <1>3, ClientToldOnce DEF FailLaunch, WorkerGone
<1>4. CASE RejectStale
  BY <1>0, <1>4, ClientToldOnce DEF RejectStale, WorkerGone, Dispose
<1>5. CASE StopPrevious \/ SwitchQ36 \/ StartQ36 \/ ChangedBeforePublication
  <2>1. UNCHANGED <<answers, job.task, job.client, job.canceled>>
    BY <1>5 DEF StopPrevious, SwitchQ36, StartQ36, ChangedBeforePublication, tasks, Validated,
                TypeOK, JobType
  <2> QED
    BY <2>1, ClientKept
<1>6. ASSUME NEW s, Publishable, Settle(s)
      PROVE  ClientInv'
  BY <1>0, <1>6, ClientToldOnce DEF Settle, Dispose, Publishable, Sound, WorkerGone
<1>7. CASE PublishQ36 \/ CommitOccupied \/ SpawnFails
  BY <1>6, <1>7 DEF PublishQ36, CommitOccupied, SpawnFails
<1>8. CASE CommitWaits \/ CommitSpawn
  BY <1>0, <1>8, ClientToldOnce DEF CommitWaits, CommitSpawn, Publishable, Sound, WorkerGone
<1> QED
  BY <1>1, <1>2, <1>3, <1>4, <1>5, <1>7, <1>8 DEF LaunchTick

LEMMA EngineTells ==
  ASSUME TypeOK, ClientInv, EngineTick
  PROVE  ClientInv'
<1>1. CASE ReadyLine \/ ReadyPort \/ ReadyLoop \/ Reap
  BY <1>1, ClientKept DEF ReadyLine, ReadyPort, ReadyLoop, Reap
<1>2. CASE Q36Receipt \/ Q36Closed \/ Q36Deadline \/ Q36Reap
  BY <1>2, ClientKept DEF Q36Receipt, Q36Closed, Q36Deadline, Q36Reap, tasks
<1>3. CASE StatusOpen
  BY <1>3, ClientKept DEF StatusOpen, Unavailable
<1>4. ASSUME Resume
      PROVE  ClientInv'
  <2>1. CASE Pending
    BY <1>4, <2>1, ClientKept DEF Resume
  <2>2. CASE ~Pending /\ UNCHANGED job
    BY <1>4, <2>2, ClientKept DEF Resume
  <2>3. CASE ~Pending /\ job' = Candidate(Again, AnyRequest, FALSE)
    BY <1>4, <2>3, PendingHasTask, ClientNone DEF Resume, Candidate, NoJob
  <2> QED
    BY <1>4, <2>1, <2>2, <2>3 DEF Resume
<1>5. CASE StatusShut
  BY <1>4, <1>5, ClientKept DEF StatusShut, tasks, Unavailable
<1>6. CASE QuitWorker
  BY <1>6, CanceledHasTold, ClientNone DEF QuitWorker, tasks, Dispose, NoJob
<1>7. CASE QuitEngines
  BY <1>7, ClientKept DEF QuitEngines
<1> QED
  BY <1>1, <1>2, <1>3, <1>5, <1>6, <1>7 DEF EngineTick

LEMMA ProcessTells ==
  ASSUME ClientInv, Processes
  PROVE  ClientInv'
<1>1. UNCHANGED <<job, answers>>
  BY DEF Processes, WorkerFrees, WorkerTells, WorkerDies, ChildUp, ChildDies, ChildObeys, InfExec,
         InfUp, InfLeaves, InfDies, Edit, ForeignStarts, ForeignGoesOn, tasks
<1> QED
  BY <1>1, ClientKept

(* The client of a launch is answered exactly once, on every path out of   *)
(* the preparation.                                                        *)
THEOREM AnsweredOnceAlways == Spec => []AnsweredOnce
<1>1. Init => ClientInv
  BY DEF Init, ClientInv, AnsweredOnce, ClientWaits, NoJob
<1>2. TypeOK /\ ClientInv /\ [Next]_vars => ClientInv'
  <2>1. ASSUME ClientInv, UNCHANGED vars
        PROVE  ClientInv'
    BY <2>1, ClientKept DEF vars, tasks
  <2> QED
    BY <2>1, UserTells, LaunchTells, EngineTells, ProcessTells DEF Next
<1>3. ClientInv => AnsweredOnce
  BY DEF ClientInv
<1> QED
  BY <1>1, <1>2, <1>3, TypeOKAlways, PTL DEF Spec
-----------------------------------------------------------------------------
(* The tasks are created in order, and the owner names none that is not    *)
(* created.                                                                *)
CreatedSegment == \E n \in 0 .. MaxLaunches : Created = 1 .. n
Named == {active, job.task, child.task, q36.task}
Known == \A t \in Tasks : status[t] = "none" => t \notin Named

(* What nearly every step does: it names no other task and creates none.   *)
NamesKept ==
  /\ active' \in {0, active, job.task} /\ job'.task \in {0, job.task}
  /\ child'.task \in {0, child.task, job.task} /\ q36'.task \in {0, q36.task, job.task}
StatusKept == \A t \in Tasks : status'[t] = "none" <=> status[t] = "none"

LEMMA KeptSuffices ==
  ASSUME CreatedSegment, Known, NamesKept, StatusKept
  PROVE  CreatedSegment' /\ Known'
<1>1. Created' = Created
  BY DEF StatusKept, Created
<1> QED
  BY <1>1 DEF CreatedSegment, Known, Named, NamesKept, StatusKept, Tasks

LEMMA MarkKeeps ==
  ASSUME NEW st \in StatusType, NEW t \in Tasks \cup {0}, NEW s \in {"working"} \cup Ended,
         t # 0 => st[t] # "none"
  PROVE  \A u \in Tasks : Mark(st, t, s)[u] = "none" <=> st[u] = "none"
  BY DEF Mark, StatusType, Ended

LEMMA NamedAreCreated ==
  ASSUME TypeOK, Known
  PROVE  /\ job.task # 0 => status[job.task] # "none"
         /\ active # 0 => status[active] # "none"
  BY DEF TypeOK, JobType, Known, Named

LEMMA CanceledKeeps ==
  ASSUME TypeOK, Known
  PROVE  \A u \in Tasks : Canceled[u] = "none" <=> status[u] = "none"
  BY JobTask, NamedAreCreated, MarkKeeps DEF TypeOK, Canceled, Ended

LEMMA StopNames ==
  ASSUME TypeOK, Known, Stop
  PROVE  NamesKept /\ StatusKept
<1>1. /\ job \in JobType /\ worker \in WorkerType
      /\ child \in ChildType /\ q36 \in Q36Type /\ status \in StatusType
  BY DEF TypeOK
<1>2. q36'.task = q36.task
  BY <1>1, Q36StopFields DEF Stop
<1>3. job'.task = job.task
  BY <1>1, CancelFields DEF Stop
<1>4. PICK st \in {status, Canceled} : RequestChildStop(st)
  BY DEF Stop
<1>5. child'.task = child.task
  BY <1>1, <1>4, ChildStopFields
<1>6. active' \in {0, active}
  BY <1>4 DEF RequestChildStop
<1>7. st \in StatusType /\ \A u \in Tasks : st[u] = "none" <=> status[u] = "none"
  BY <1>1, CanceledType, CanceledKeeps
<1>8. \A u \in Tasks : status'[u] = "none" <=> st[u] = "none"
  <2>1. active # 0 => st[active] # "none"
    BY <1>7, NamedAreCreated DEF TypeOK
  <2>2. active \in Tasks \cup {0} /\ "canceled" \in {"working"} \cup Ended
    BY DEF TypeOK, Ended
  <2>3. \A u \in Tasks : Mark(st, active, "canceled")[u] = "none" <=> st[u] = "none"
    BY <1>7, <2>1, <2>2, MarkKeeps
  <2> QED
    BY <1>4, <2>3 DEF RequestChildStop
<1> QED
  BY <1>2, <1>3, <1>5, <1>6, <1>7, <1>8 DEF NamesKept, StatusKept

LEMMA FailNames ==
  ASSUME TypeOK, Known, Q36Fail, UNCHANGED job
  PROVE  NamesKept /\ StatusKept
<1>1. q36'.task = q36.task /\ child'.task = child.task
  BY Q36StopFields, Q36FailFields DEF TypeOK, Q36Fail
<1> DEFINE st == IF active = q36.task THEN Mark(status, active, "failed") ELSE status
           others == IF active = q36.task THEN 0 ELSE active
<1>2. active \in Tasks \cup {0} /\ status \in StatusType /\ {"failed", "canceled"} \subseteq Ended
  BY DEF TypeOK, Ended
<1>3. /\ st \in StatusType /\ others \in {0, active}
      /\ \A u \in Tasks : st[u] = "none" <=> status[u] = "none"
  BY <1>2, NamedAreCreated, MarkKeeps, MarkType
<1>4. others # 0 => st[others] # "none"
  BY <1>2, <1>3, NamedAreCreated
<1>5. \A u \in Tasks : Mark(st, others, "canceled")[u] = "none" <=> st[u] = "none"
  BY <1>2, <1>3, <1>4, MarkKeeps
<1>6. status' \in {st, Mark(st, others, "canceled")} /\ active' \in {0, others}
  BY DEF Q36Fail
<1> QED
  BY <1>1, <1>3, <1>5, <1>6 DEF NamesKept, StatusKept

LEMMA DeadlineNames ==
  ASSUME TypeOK, Known, WorkerDeadline
  PROVE  NamesKept /\ StatusKept
<1>1. UNCHANGED <<child, q36, active>> /\ status' \in {status, Canceled}
  BY DEF WorkerDeadline, host
<1>2. job'.task = job.task
  BY DEF TypeOK, JobType, WorkerDeadline, LaunchCancel
<1> QED
  BY <1>1, <1>2, CanceledKeeps DEF NamesKept, StatusKept

LEMMA UserNames ==
  ASSUME TypeOK, Known, User, \A req \in Requests : ~Start(req)
  PROVE  NamesKept /\ StatusKept
<1> USE DEF NamesKept, StatusKept, Known, Named, TypeOK, JobType, WorkerType, ChildType, Q36Type,
            StatusType, Mark, host, tasks, world
<1>1. CASE Cancel
  BY <1>1 DEF Cancel, LaunchCancel, Canceled, Released, Strayed, Q36Stopped
<1>2. CASE CancelLoading
  BY <1>2 DEF CancelLoading, RequestChildStop, StopsChild
<1>3. CASE Stop
  BY <1>3, StopNames
<1>4. CASE Quit
  <2>1. CASE Pending /\ ~job.canceled
    <3>1. job'.task = job.task
      BY <1>4, <2>1, CancelFields DEF Quit
    <3>2. q36'.task = q36.task
      BY <1>4, <2>1 DEF Quit, Released, Q36Stopped
    <3> QED
      BY <1>4, <2>1, <3>1, <3>2, CanceledKeeps DEF Quit
  <2>2. CASE ~(Pending /\ ~job.canceled)
    BY <1>4, <2>2 DEF Quit
  <2> QED
    BY <2>1, <2>2
<1> QED
  BY <1>1, <1>2, <1>3, <1>4 DEF User

LEMMA LaunchNames ==
  ASSUME TypeOK, Known, LaunchTick
  PROVE  NamesKept /\ StatusKept
<1> USE DEF NamesKept, StatusKept, Known, Named, TypeOK, JobType, WorkerType, ChildType, Q36Type,
            StatusType, Mark, host, tasks, world
<1>1. CASE TakeResult
  BY <1>1 DEF TakeResult
<1>2. CASE WorkerDeadline
  BY <1>2, DeadlineNames
<1>3. CASE FailLaunch
  BY <1>3 DEF FailLaunch, Released, Strayed, Q36Stopped, NoJob
<1>4. CASE RejectStale
  BY <1>4 DEF RejectStale, Dispose, Released, Strayed, Q36Stopped, NoJob
<1>5. CASE StopPrevious
  BY <1>5 DEF StopPrevious, Validated, RequestChildStop, StopsChild
<1>6. CASE SwitchQ36
  BY <1>6 DEF SwitchQ36, Validated, Q36Stopped
<1>7. CASE StartQ36
  BY <1>7 DEF StartQ36, Validated, NoQ36
<1>8. CASE ChangedBeforePublication
  BY <1>8 DEF ChangedBeforePublication, Validated
<1>9. CASE PublishQ36 \/ CommitOccupied \/ SpawnFails
  BY <1>9 DEF PublishQ36, CommitOccupied, SpawnFails, Settle, Dispose, NoJob
<1>10. CASE CommitWaits
  BY <1>10 DEF CommitWaits, NoJob
<1>11. CASE CommitSpawn
  BY <1>11 DEF CommitSpawn, Spawned, PipedChild, ServerChild, NoChild, NoJob
<1> QED
  BY <1>1, <1>2, <1>3, <1>4, <1>5, <1>6, <1>7, <1>8, <1>9, <1>10, <1>11 DEF LaunchTick

LEMMA EngineNames ==
  ASSUME TypeOK, Known, EngineTick, ~StatusShut
  PROVE  NamesKept /\ StatusKept
<1> USE DEF NamesKept, StatusKept, Known, Named, TypeOK, JobType, WorkerType, ChildType, Q36Type,
            StatusType, Mark, host, tasks, world
<1>1. CASE ReadyLine \/ ReadyPort \/ ReadyLoop
  BY <1>1 DEF ReadyLine, ReadyPort, ReadyLoop, CompleteLaunch
<1>2. CASE Reap
  BY <1>2 DEF Reap, NoChild
<1>3. CASE Q36Receipt
  <2>1. CASE ReceiptMatches
    BY <1>3, <2>1 DEF Q36Receipt
  <2>2. CASE ~ReceiptMatches
    BY <1>3, <2>2, FailNames DEF Q36Receipt
  <2> QED
    BY <2>1, <2>2
<1>4. CASE Q36Closed \/ Q36Deadline
  BY <1>4, FailNames DEF Q36Closed, Q36Deadline
<1>5. CASE Q36Reap
  BY <1>5 DEF Q36Reap
<1>6. CASE StatusOpen
  BY <1>6 DEF StatusOpen, CompleteLaunch, Unavailable
<1>7. CASE QuitWorker
  BY <1>7 DEF QuitWorker, Dispose, NoJob
<1>8. CASE QuitEngines
  BY <1>8 DEF QuitEngines, Q36Stopped, RequestChildStop, StopsChild
<1> QED
  BY <1>1, <1>2, <1>3, <1>4, <1>5, <1>6, <1>7, <1>8 DEF EngineTick

LEMMA ProcessNames ==
  ASSUME TypeOK, Known, Processes
  PROVE  NamesKept /\ StatusKept
<1> USE DEF NamesKept, StatusKept, Known, Named, TypeOK, JobType, WorkerType, ChildType, Q36Type,
            StatusType, Mark, host, tasks, world
<1>1. CASE WorkerFrees \/ WorkerTells \/ WorkerDies
  BY <1>1 DEF WorkerFrees, WorkerTells, WorkerDies
<1>2. CASE ChildUp \/ ChildDies \/ ChildObeys
  BY <1>2 DEF ChildUp, ChildDies, ChildObeys
<1>3. CASE InfExec \/ InfUp \/ InfLeaves \/ InfDies
  BY <1>3 DEF InfExec, InfUp, InfLeaves, InfDies
<1>4. CASE Edit \/ ForeignStarts \/ ForeignGoesOn
  BY <1>4 DEF Edit, ForeignStarts, ForeignGoesOn
<1> QED
  BY <1>1, <1>2, <1>3, <1>4 DEF Processes

(* The next task is new.                                                   *)
LEMMA NextIsFresh ==
  ASSUME TypeOK, CreatedSegment, NextTask \in Tasks
  PROVE  /\ status[NextTask] = "none"
         /\ Created \cup {NextTask} = 1 .. NextTask
<1>1. PICK n \in 0 .. MaxLaunches : Created = 1 .. n
  BY DEF CreatedSegment
<1>2. n \in Nat
  BY <1>1, EngineAssumption
<1>3. Cardinality(1 .. n) = n
  BY <1>2, FS_Interval
<1>4. NextTask = n + 1
  BY <1>1, <1>3 DEF NextTask
<1> QED
  BY <1>1, <1>2, <1>4 DEF Created

LEMMA CreateKnown ==
  ASSUME TypeOK, CreatedSegment, Known, NextTask \in Tasks, NEW s \in {"working", "failed"},
         status' = [status EXCEPT ![NextTask] = s],
         UNCHANGED <<active, child, q36>>, job'.task \in {0, NextTask, job.task}
  PROVE  CreatedSegment' /\ Known'
<1>1. Created' = Created \cup {NextTask}
  BY DEF TypeOK, StatusType, Created
<1>2. Created' = 1 .. NextTask
  BY <1>1, NextIsFresh
<1>3. NextTask \in 0 .. MaxLaunches
  BY EngineAssumption DEF Tasks
<1>4. \A t \in Tasks : status'[t] = "none" => t # NextTask /\ status[t] = "none"
  BY DEF TypeOK, StatusType
<1>5. Known'
  BY <1>4 DEF Known, Named, Tasks
<1> QED
  BY <1>2, <1>3, <1>5 DEF CreatedSegment

LEMMA ShutNames ==
  ASSUME TypeOK, CreatedSegment, Known, StatusShut
  PROVE  CreatedSegment' /\ Known'
<1>1. CASE UNCHANGED <<job, active, status>>
  <2>1. NamesKept /\ StatusKept
    BY <1>1 DEF NamesKept, StatusKept, StatusShut
  <2> QED
    BY <2>1, KeptSuffices
<1>2. CASE UNCHANGED job /\ status' = Mark(status, active, "failed") /\ active' = 0
  <2>1. NamesKept /\ StatusKept
    BY <1>2 DEF NamesKept, StatusKept, StatusShut, Known, Named, TypeOK, StatusType, Mark
  <2> QED
    BY <2>1, KeptSuffices
<1>3. CASE /\ Again \in Tasks
           /\ job' = Candidate(Again, AnyRequest, FALSE)
           /\ status' = [status EXCEPT ![Again] = "working"]
           /\ UNCHANGED active
  <2>1. job'.task = Again
    BY <1>3 DEF Candidate, NoJob
  <2>2. CASE active # 0
    <3>1. Again = active
      BY <2>2 DEF Again
    <3>2. status[active] # "none"
      BY <2>2, <3>1, <1>3 DEF Known, Named
    <3>3. StatusKept
      BY <1>3, <3>1, <3>2 DEF StatusKept, TypeOK, StatusType
    <3>4. Created' = Created
      BY <3>3 DEF StatusKept, Created
    <3> QED
      BY <1>3, <2>1, <3>1, <3>3, <3>4 DEF StatusShut, StatusKept, CreatedSegment, Known, Named, Tasks
  <2>3. CASE active = 0
    <3>1. Again = NextTask
      BY <2>3 DEF Again
    <3> QED
      BY <1>3, <2>1, <3>1, CreateKnown DEF StatusShut
  <2> QED
    BY <2>2, <2>3
<1> QED
  BY <1>1, <1>2, <1>3 DEF StatusShut, Resume, Unavailable, tasks

LEMMA NextKnown ==
  ASSUME TypeOK, CreatedSegment, Known, [Next]_vars
  PROVE  CreatedSegment' /\ Known'
<1>1. ASSUME NEW req \in Requests, Start(req)
      PROVE  CreatedSegment' /\ Known'
  <2>1. job'.task \in {0, NextTask, job.task}
    BY <1>1 DEF Start, Candidate, NoJob
  <2> QED
    BY <1>1, <2>1, CreateKnown DEF Start, host
<1>2. CASE StatusShut
  BY <1>2, ShutNames
<1>3. CASE UNCHANGED vars
  <2>1. NamesKept /\ StatusKept
    BY <1>3 DEF vars, host, tasks, NamesKept, StatusKept
  <2> QED
    BY <2>1, KeptSuffices
<1>4. ASSUME Next, ~StatusShut, \A req \in Requests : ~Start(req)
      PROVE  NamesKept /\ StatusKept
  <2>1. CASE User
    BY <1>4, <2>1, UserNames
  <2>2. CASE LaunchTick \/ EngineTick \/ Processes
    BY <1>4, <2>2, LaunchNames, EngineNames, ProcessNames
  <2> QED
    BY <1>4, <2>1, <2>2 DEF Next
<1> QED
  BY <1>1, <1>2, <1>3, <1>4, KeptSuffices
-----------------------------------------------------------------------------
(* A pending launch has nothing running yet but the model it started, and  *)
(* a model that loads belongs to it.                                       *)
NothingYet ==
  /\ Pending /\ HasChild => child.task # job.task
  /\ Pending /\ q36.pid /\ ~job.started => q36.task # job.task
  /\ job.started => Pending /\ WantsQ36
  /\ Pending /\ job.task = active => ~WantsQ36
LoadingIsPending ==
  q36.pid /\ ~q36.ready /\ ~q36.stopping => job.started /\ q36.task = job.task

Loads == NothingYet /\ LoadingIsPending /\ CanceledLoadsNothing
CancelInv == OwnerInv /\ CreatedSegment /\ Known /\ Loads

(* Who cancels stops what belongs to the launch.                           *)
LEMMA StopsSuffice ==
  ASSUME CancelInv,
         job'.task = job.task, job'.started = job.started, job'.req = job.req,
         active' \in {0, active},
         child'.is = child.is, child'.task = child.task, child.stop => child'.stop,
         q36'.pid = q36.pid, q36'.task = q36.task, q36' = q36 \/ q36'.stopping,
         \A t \in Tasks : status'[t] = "canceled" =>
           \/ status[t] = "canceled"
           \/ t = job.task /\ (Strayed /\ q36.pid => q36'.stopping)
           \/ t = active /\ (HasChild => child'.stop)
  PROVE  Loads'
<1> USE DEF CancelInv, Loads, NothingYet, LoadingIsPending, HasChild, Pending, WantsQ36, Tasks
<1>1. NothingYet'
  OBVIOUS
<1>2. LoadingIsPending'
  OBVIOUS
<1>3. CanceledLoadsNothing'
  BY DEF CanceledLoadsNothing, Strayed
<1> QED
  BY <1>1, <1>2, <1>3

LEMMA CancelLoads ==
  ASSUME CancelInv, LaunchCancel, status' = Canceled, q36' = Released, UNCHANGED <<child, active>>
  PROVE  Loads'
<1>1. job'.task = job.task /\ job'.started = job.started /\ job'.req = job.req
  BY DEF CancelInv, OwnerInv, TypeOK, JobType, LaunchCancel
<1>2. /\ q36'.pid = q36.pid /\ q36'.task = q36.task /\ (q36' = q36 \/ q36'.stopping)
      /\ Strayed /\ q36.pid => q36'.stopping
  BY DEF CancelInv, OwnerInv, TypeOK, Q36Type, Released, Q36Stopped
<1>3. \A t \in Tasks : status'[t] = "canceled" => status[t] = "canceled" \/ t = job.task
  BY DEF CancelInv, OwnerInv, TypeOK, StatusType, Canceled, Mark
<1> QED
  BY <1>1, <1>2, <1>3, StopsSuffice

LEMMA StopLoads ==
  ASSUME CancelInv, NEW st \in StatusType, RequestChildStop(st), q36' = Q36Stopped,
         job'.task = job.task, job'.started = job.started, job'.req = job.req,
         \A t \in Tasks : st[t] = "canceled" => status[t] = "canceled" \/ t = job.task
  PROVE  Loads'
<1>1. /\ q36'.pid = q36.pid /\ q36'.task = q36.task /\ (q36' = q36 \/ q36'.stopping)
      /\ q36.pid => q36'.stopping
  BY DEF CancelInv, OwnerInv, TypeOK, Q36Type, Q36Stopped
<1>2. /\ child'.is = child.is /\ child'.task = child.task /\ (child.stop => child'.stop)
      /\ active' \in {0, active}
  BY DEF CancelInv, OwnerInv, TypeOK, ChildType, RequestChildStop
<1>3. \A t \in Tasks : status'[t] = "canceled" =>
        st[t] = "canceled" \/ (t = active /\ (HasChild => child'.stop))
  BY DEF CancelInv, OwnerInv, TypeOK, ChildType, StatusType, RequestChildStop, StopsChild, Mark
<1> QED
  BY <1>1, <1>2, <1>3, StopsSuffice

LEMMA FailLoads ==
  ASSUME CancelInv, Q36Fail, UNCHANGED job
  PROVE  Loads'
<1>1. /\ q36'.pid = q36.pid /\ q36'.task = q36.task /\ (q36' = q36 \/ q36'.stopping)
  BY DEF CancelInv, OwnerInv, TypeOK, Q36Type, Q36Fail, Q36Stopped
<1>2. /\ child'.is = child.is /\ child'.task = child.task /\ (child.stop => child'.stop)
      /\ active' \in {0, active}
  BY DEF CancelInv, OwnerInv, TypeOK, ChildType, Q36Fail
<1>3. \A t \in Tasks : status'[t] = "canceled" =>
        status[t] = "canceled" \/ (t = active /\ (HasChild => child'.stop))
  BY DEF CancelInv, OwnerInv, TypeOK, ChildType, StatusType, Q36Fail, Mark
<1> QED
  BY <1>1, <1>2, <1>3, StopsSuffice

LEMMA UserStopLoads ==
  ASSUME CancelInv, Stop
  PROVE  Loads'
<1>1. TypeOK /\ job \in JobType /\ worker \in WorkerType /\ status \in StatusType
  BY DEF CancelInv, OwnerInv, TypeOK
<1>2. job'.task = job.task /\ job'.started = job.started /\ job'.req = job.req
  BY <1>1, CancelFields DEF Stop
<1>3. /\ Canceled \in StatusType
      /\ \A t \in Tasks : Canceled[t] = "canceled" => status[t] = "canceled" \/ t = job.task
  BY <1>1, CanceledType DEF Canceled, Mark, StatusType
<1>4. PICK st \in {status, Canceled} : RequestChildStop(st)
  BY DEF Stop
<1>5. /\ st \in StatusType
      /\ \A t \in Tasks : st[t] = "canceled" => status[t] = "canceled" \/ t = job.task
  BY <1>1, <1>3
<1>6. q36' = Q36Stopped
  BY DEF Stop
<1> QED
  BY <1>2, <1>4, <1>5, <1>6, StopLoads

(* A result that never comes cancels the launch, and then ends its worker. *)
LEMMA DeadlineLoads ==
  ASSUME CancelInv, WorkerDeadline
  PROVE  Loads'
<1>1. CASE LaunchCancel /\ status' = Canceled
  <2>1. job.started => worker.is = "none"
    BY DEF CancelInv, OwnerInv, Owned, StartedAlone
  <2>2. ~job.started /\ Released = q36 /\ UNCHANGED <<child, q36, active>>
    BY <2>1 DEF WorkerDeadline, Released, Strayed, host
  <2> QED
    BY <1>1, <2>2, CancelLoads
<1>2. CASE job' = [job EXCEPT !.failed = TRUE] /\ UNCHANGED status
  <2>1. job'.task = job.task /\ job'.started = job.started /\ job'.req = job.req
    BY <1>2 DEF CancelInv, OwnerInv, TypeOK, JobType
  <2> QED
    BY <1>2, <2>1, StopsSuffice DEF WorkerDeadline, host
<1> QED
  BY <1>1, <1>2 DEF WorkerDeadline

LEMMA UserLoads ==
  ASSUME CancelInv, User
  PROVE  Loads'
<1> USE DEF CancelInv, OwnerInv, Owned, StartedAlone, Loads, NothingYet, LoadingIsPending,
            CanceledLoadsNothing, TypeOK, JobType, WorkerType, ChildType, Q36Type, StatusType,
            HasChild, Pending, WantsQ36, Mark, Ended, host, tasks, world
<1>1. ASSUME NEW req \in Requests, Start(req)
      PROVE  Loads'
  <2>1. status[NextTask] = "none" /\ NextTask \in Tasks
    BY <1>1, NextIsFresh DEF Start
  <2>2. NextTask \notin Named
    BY <2>1 DEF Known
  <2>3. CASE /\ job' = Candidate(NextTask, req, TRUE)
             /\ status' = [status EXCEPT ![NextTask] = "working"]
    BY <1>1, <2>1, <2>2, <2>3 DEF Start, Idle, Candidate, NoJob, Named
  <2>4. CASE UNCHANGED job /\ status' = [status EXCEPT ![NextTask] = "failed"]
    BY <1>1, <2>1, <2>2, <2>4 DEF Start, Idle, Named
  <2> QED
    BY <1>1, <2>3, <2>4 DEF Start
<1>2. CASE Cancel
  BY <1>2, CancelLoads DEF Cancel
<1>3. CASE CancelLoading
  BY <1>3 DEF CancelLoading, RequestChildStop, StopsChild
<1>4. CASE Stop
  BY <1>4, UserStopLoads
<1>5. CASE Quit
  BY <1>5, CancelLoads DEF Quit
<1> QED
  BY <1>1, <1>2, <1>3, <1>4, <1>5 DEF User

LEMMA LaunchLoads ==
  ASSUME CancelInv, LaunchTick
  PROVE  Loads'
<1> USE DEF CancelInv, OwnerInv, Owned, StartedAlone, Loads, NothingYet, LoadingIsPending,
            CanceledLoadsNothing, TypeOK, JobType, WorkerType, ChildType, Q36Type, StatusType,
            HasChild, Pending, WantsQ36, Mark, Ended, host, tasks, world
<1>1. CASE TakeResult
  BY <1>1 DEF TakeResult
<1>2. CASE WorkerDeadline
  BY <1>2, DeadlineLoads
<1>3. CASE FailLaunch
  BY <1>3 DEF FailLaunch, Released, Strayed, Q36Stopped, NoJob
<1>4. CASE RejectStale
  BY <1>4 DEF RejectStale, Dispose, Released, Strayed, Q36Stopped, NoJob
<1>5. CASE StopPrevious
  BY <1>5 DEF StopPrevious, Validated, RequestChildStop, StopsChild
<1>6. CASE SwitchQ36
  BY <1>6 DEF SwitchQ36, Validated, Q36Stopped
<1>7. CASE StartQ36
  <2>1. CASE /\ Revalidated
             /\ job' = [Validated EXCEPT !.started = TRUE]
             /\ q36' = [NoQ36 EXCEPT !.pid = TRUE, !.task = job.task,
                                     !.files = job.files, !.exe = job.exe]
    BY <1>7, <2>1 DEF StartQ36, Sound, WorkerGone, Revalidated, Current, Validated, NoQ36
  <2>2. CASE job' = [Validated EXCEPT !.failed = TRUE] /\ UNCHANGED q36
    BY <1>7, <2>2 DEF StartQ36, Validated
  <2> QED
    BY <1>7, <2>1, <2>2 DEF StartQ36
<1>8. CASE ChangedBeforePublication
  BY <1>8 DEF ChangedBeforePublication, Validated
<1>9. CASE PublishQ36
  BY <1>9 DEF PublishQ36, Settle, Dispose, Publishable, MustSwitch, Q36Ready, NoJob
<1>10. CASE CommitOccupied
  BY <1>10 DEF CommitOccupied, Occupied, Settle, Dispose, Publishable, MustSwitch, Q36Ready, NoJob
<1>11. CASE SpawnFails
  BY <1>11 DEF SpawnFails, Settle, Dispose, Publishable, MustSwitch, Q36Ready, NoJob
<1>12. CASE CommitWaits
  BY <1>12 DEF CommitWaits, Locked, Publishable, MustSwitch, Q36Ready, NoJob
<1>13. CASE CommitSpawn
  BY <1>13 DEF CommitSpawn, Revalidated, Current, Spawned, PipedChild, ServerChild, NoChild, Publishable, MustSwitch, Q36Ready, NoJob
<1> QED
  BY <1>1, <1>2, <1>3, <1>4, <1>5, <1>6, <1>7, <1>8, <1>9, <1>10, <1>11, <1>12, <1>13 DEF LaunchTick

LEMMA EngineLoads ==
  ASSUME CancelInv, EngineTick
  PROVE  Loads'
<1> USE DEF CancelInv, OwnerInv, Owned, StartedAlone, Loads, NothingYet, LoadingIsPending,
            CanceledLoadsNothing, TypeOK, JobType, WorkerType, ChildType, Q36Type, StatusType,
            HasChild, Pending, WantsQ36, Mark, Ended, host, tasks, world
<1>1. CASE ReadyLine \/ ReadyPort \/ ReadyLoop
  BY <1>1 DEF ReadyLine, ReadyPort, ReadyLoop, CompleteLaunch
<1>2. CASE Reap
  BY <1>2 DEF Reap, NoChild
<1>3. CASE Q36Receipt
  <2>1. CASE ReceiptMatches
    BY <1>3, <2>1 DEF Q36Receipt
  <2>2. CASE ~ReceiptMatches
    BY <1>3, <2>2, FailLoads DEF Q36Receipt
  <2> QED
    BY <2>1, <2>2
<1>4. CASE Q36Closed
  BY <1>4, FailLoads DEF Q36Closed
<1>5. CASE Q36Deadline
  BY <1>5, FailLoads DEF Q36Deadline
<1>6. CASE Q36Reap
  BY <1>6 DEF Q36Reap
<1>7. CASE StatusOpen
  BY <1>7 DEF StatusOpen, UsesForeign, CompleteLaunch, Unavailable
<1>8. CASE StatusShut
  <2>1. CASE UNCHANGED job
    BY <1>8, <2>1 DEF StatusShut, UsesForeign, Resume, Unavailable
  <2>2. CASE job' = Candidate(Again, AnyRequest, FALSE)
    BY <1>8, <2>2 DEF StatusShut, UsesForeign, Candidate, AnyRequest, NoJob
  <2> QED
    BY <1>8, <2>1, <2>2 DEF StatusShut, Resume, Unavailable
<1>9. CASE QuitWorker
  BY <1>9 DEF QuitWorker, WorkerGone, Dispose, NoJob
<1>10. CASE QuitEngines
  BY <1>10 DEF QuitEngines, Q36Stopped, RequestChildStop, StopsChild
<1> QED
  BY <1>1, <1>2, <1>3, <1>4, <1>5, <1>6, <1>7, <1>8, <1>9, <1>10 DEF EngineTick

LEMMA ProcessLoads ==
  ASSUME CancelInv, Processes
  PROVE  Loads'
<1> USE DEF CancelInv, OwnerInv, Owned, StartedAlone, Loads, NothingYet, LoadingIsPending,
            CanceledLoadsNothing, TypeOK, JobType, WorkerType, ChildType, Q36Type, StatusType,
            HasChild, Pending, WantsQ36, Mark, Ended, host, tasks, world
<1>1. CASE WorkerFrees \/ WorkerTells \/ WorkerDies
  BY <1>1 DEF WorkerFrees, WorkerTells, WorkerDies
<1>2. CASE ChildUp \/ ChildDies \/ ChildObeys
  BY <1>2 DEF ChildUp, ChildDies, ChildObeys
<1>3. CASE InfExec \/ InfUp \/ InfLeaves \/ InfDies
  BY <1>3 DEF InfExec, InfUp, InfLeaves, InfDies
<1>4. CASE Edit \/ ForeignStarts \/ ForeignGoesOn
  BY <1>4 DEF Edit, ForeignStarts, ForeignGoesOn
<1> QED
  BY <1>1, <1>2, <1>3, <1>4 DEF Processes

(* A cancelled launch leaves nothing loading behind its back.              *)
THEOREM CanceledLoadsNothingAlways == Spec => []CanceledLoadsNothing
<1>1. Init => CancelInv
  <2>1. ASSUME Init
        PROVE  Created = 1 .. 0 /\ 0 \in 0 .. MaxLaunches
    BY <2>1, EngineAssumption DEF Init, Created, Tasks
  <2>2. Init => CreatedSegment
    BY <2>1 DEF CreatedSegment
  <2>3. Init => Known /\ Loads
    BY DEF Init, Known, Named, Tasks, Loads, NothingYet, LoadingIsPending, CanceledLoadsNothing,
           Pending, NoJob, NoChild, NoQ36
  <2> QED
    BY <2>2, <2>3, InitTypes, InitOwns DEF CancelInv, OwnerInv
<1>2. CancelInv /\ [Next]_vars => CancelInv'
  <2>1. ASSUME CancelInv, UNCHANGED vars
        PROVE  Loads'
    BY <2>1 DEF CancelInv, Loads, NothingYet, LoadingIsPending, CanceledLoadsNothing, Pending,
                HasChild, WantsQ36, vars, host, tasks
  <2>2. CancelInv /\ Next => Loads'
    BY UserLoads, LaunchLoads, EngineLoads, ProcessLoads DEF Next
  <2> QED
    BY <2>1, <2>2, NextOwns, NextKnown DEF CancelInv, OwnerInv
<1>3. CancelInv => CanceledLoadsNothing
  BY DEF CancelInv, Loads
<1> QED
  BY <1>1, <1>2, <1>3, PTL DEF Spec
=============================================================================
