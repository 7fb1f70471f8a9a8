-------------------------- MODULE MediaJobs_proofs --------------------------
(***************************************************************************)
(* The safety of the media jobs as theorems, for any number of requests    *)
(* and jobs.  The invariant MediaInv relates the four processes of a job   *)
(* over its directory:                                                     *)
(*   Owners   a directory is claimed by one generator, and its token is    *)
(*            that generator's server: what a stop request is checked for; *)
(*   Scripts  a script runs for the generator that claimed, and worker.pid *)
(*            names it: so a signal reaches the job it was meant for;      *)
(*   Locks    who holds heavy-model.lock, and from when to when: what      *)
(*            keeps two models from memory, and what does not.             *)
(* None of the three is kept without the one before it.                    *)
(***************************************************************************)
EXTENDS MediaJobs, FiniteSetTheorems, TLAPS

(* The generator has written its token into the directory of its job, or   *)
(* is about to.                                                            *)
Past == {"sources", "check1", "lease", "denied", "check2", "drop", "dropped", "wait", "check3", "judge"}
Claimed(r) == gen[r].at \in Past \/ (gen[r].at = "done" /\ gen[r].answer # "conflict")
Claiming(r) == gen[r].at = "token" \/ Claimed(r)

(* A directory is claimed once, for the server its generator was started   *)
(* by, and a stop request is served by that server.                        *)
Owners ==
  /\ \A r \in Requests : gen[r].at # "idle" => Id(r) \in Ids /\ gen[r].host \in Hosts
  /\ \A r \in Requests : gen[r].at = "token" => job[Id(r)].owner = "empty"
  /\ \A r \in Requests : Claimed(r) => job[Id(r)].owner = gen[r].host
  /\ \A r, s \in Requests : Claiming(r) /\ Claiming(s) /\ r # s => Id(r) # Id(s)
  /\ \A h \in Hosts : stop[h].at # "idle" => stop[h].id \in Ids /\ job[stop[h].id].owner = h

(* worker.pid names the script of the generator that claimed the job.      *)
Scripts ==
  /\ \A r \in Requests : runner[r].at # "none" => Claimed(r) /\ gen[r].at \in {"wait", "check3", "judge", "done"}
  /\ \A r \in Requests : gen[r].at = "wait" => runner[r].at # "none"
  /\ \A i \in Ids : job[i].pid # Nobody =>
       Id(job[i].pid) = i /\ runner[job[i].pid].at \in {"listing"} \cup Here

(* heavy-model.lock is held by the child of an image from the load of its  *)
(* model, and by the script of a video from its start, to their end.       *)
Locked(r) ==
  /\ runner[r].child # "none" => runner[r].at \in {"spawning", "running", "gone"}
  /\ runner[r].at = "locking" => IsVideo(r)
  /\ IsVideo(r) /\ runner[r].at \in {"boot", "listing"} \cup Here => lock = r
  /\ runner[r].child = "loaded" => lock = r \/ (IsVideo(r) /\ runner[r].at = "gone")
  /\ runner[r].child = "left" => runner[r].at = "gone" /\ ~IsVideo(r)
Locks == \A r \in Requests : Locked(r)

-----------------------------------------------------------------------------
(* The types, variable by variable.                                        *)
JobAts == Ended \cup {"none", "running"}
Tokens == Hosts \cup {"none", "empty"}
Pids == Requests \cup {Nobody}
GenAts == {"idle", "claim", "token", "sources", "check1", "lease", "denied",
           "check2", "drop", "dropped", "wait", "check3", "judge", "done"}
Answers == {"none", "conflict", "unwritten", "cancelled", "memory", "error", "ok"}
RunnerAts == Here \cup {"none", "locking", "boot", "listing", "gone"}
Children == Live \cup {"none", "ok", "failed", "left"}
Leases == {"none", "held", "void"}
Codes == {"none", "ok", "failed", "canceled"}
StopAts == {"idle", "mark", "signal", "tell"}
HostAts == {"off", "up", "closing", "exited", "dead"}
MaybeIds == Ids \cup {Nobody}
MaybeHosts == Hosts \cup {Nobody}

JobType == job \in [Ids -> [owner : Tokens, cancel : BOOLEAN, status : JobAts, pid : Pids]]
GenType ==
  gen \in [Requests -> [at : GenAts, host : MaybeHosts, id : MaybeIds, lease : Leases, answer : Answers]]
RunnerType == runner \in [Requests -> [at : RunnerAts, term : BOOLEAN, child : Children, rc : Codes]]
StopType == stop \in [Hosts -> [at : StopAts, id : MaybeIds]]
HostType == host \in [Hosts -> [at : HostAts, todo : SUBSET Ids, waits : MaybeIds]]
EngineType == engine \in [depth : Nat, stray : 0 .. MaxStray, early : Nat]
LockType == lock \in Pids
Types ==
  JobType /\ GenType /\ RunnerType /\ StopType /\ HostType /\ EngineType /\ LockType

LEMMA TypesAreTypeOK == Types <=> TypeOK
  BY DEF Types, TypeOK, JobType, GenType, RunnerType, StopType, HostType, EngineType, LockType, JobAts,
     Tokens, Pids, GenAts, Leases, Answers, RunnerAts, Children, Codes, StopAts, HostAts, MaybeIds, MaybeHosts

LEMMA Sets ==
  /\ Nobody \notin Requests /\ Nobody \notin Ids /\ Nobody \notin Hosts
  /\ "none" \notin Hosts /\ "empty" \notin Hosts
  /\ First \in Hosts /\ Second \in Hosts
<1>1. Nobody \notin Hosts \cup Requests \cup Ids /\ Hosts \cap {"none", "empty"} = {}
  BY MediaAssumption
<1>2. First \in Hosts /\ Second \in Hosts
  BY DEF Hosts
<1>3. QED
  BY <1>1, <1>2
-----------------------------------------------------------------------------
(* What an assignment to a field of a record does.                         *)
GenSame(q) ==
  /\ gen'[q].host = gen[q].host /\ gen'[q].id = gen[q].id

LEMMA AtMoves ==
  ASSUME GenType, NEW r \in Requests, NEW a \in GenAts, At(r, a)
  PROVE  /\ GenType'
         /\ \A q \in Requests : GenSame(q) /\ gen'[q].answer = gen[q].answer /\ gen'[q].lease = gen[q].lease
         /\ gen'[r].at = a
         /\ \A q \in Requests \ {r} : gen'[q].at = gen[q].at
  BY DEF GenType, At, GenSame

LEMMA AnswerMoves ==
  ASSUME GenType, NEW r \in Requests, NEW a \in Answers, Answer(r, a)
  PROVE  /\ GenType'
         /\ \A q \in Requests : GenSame(q) /\ gen'[q].lease = gen[q].lease
         /\ gen'[r].at = "done" /\ gen'[r].answer = a
         /\ \A q \in Requests \ {r} : gen'[q].at = gen[q].at /\ gen'[q].answer = gen[q].answer
<1>1. "done" \in GenAts
  BY DEF GenAts
<1>2. QED
  BY <1>1 DEF GenType, Answer, GenSame

LEMMA HoldingMoves ==
  ASSUME GenType, NEW r \in Requests, NEW a \in GenAts, NEW held \in Leases, Holding(r, held, a)
  PROVE  /\ GenType'
         /\ \A q \in Requests : GenSame(q) /\ gen'[q].answer = gen[q].answer
         /\ gen'[r].at = a /\ gen'[r].lease = held
         /\ \A q \in Requests \ {r} : gen'[q].at = gen[q].at /\ gen'[q].lease = gen[q].lease
  BY DEF GenType, Holding, GenSame

(* The directory: what a status leaves alone.                              *)
JobSame(i) == job'[i].owner = job[i].owner /\ job'[i].pid = job[i].pid

LEMMA StatusMoves ==
  ASSUME JobType, NEW i \in Ids, NEW s \in JobAts, job' = Status(i, s)
  PROVE  JobType' /\ \A j \in Ids : JobSame(j)
  BY DEF JobType, Status, JobSame

LEMMA UnlistedMoves ==
  ASSUME JobType, NEW i \in Ids, NEW s \in JobAts, job' = Unlisted(i, s)
  PROVE  /\ JobType' /\ \A j \in Ids : job'[j].owner = job[j].owner
         /\ job'[i].pid = Nobody /\ \A j \in Ids \ {i} : job'[j].pid = job[j].pid
<1>1. Nobody \in Pids
  BY DEF Pids
<1>2. QED
  BY <1>1 DEF JobType, Unlisted

(* The scripts.                                                            *)
LEMMA ScriptMoves ==
  ASSUME RunnerType, NEW r \in Requests, NEW a \in RunnerAts, runner' = [runner EXCEPT ![r].at = a]
  PROVE  /\ RunnerType'
         /\ \A q \in Requests : runner'[q].child = runner[q].child /\ runner'[q].term = runner[q].term
         /\ runner'[r].at = a /\ \A q \in Requests \ {r} : runner'[q].at = runner[q].at
  BY DEF RunnerType

LEMMA ChildMoves ==
  ASSUME RunnerType, NEW r \in Requests, NEW c \in Children, runner' = [runner EXCEPT ![r].child = c]
  PROVE  /\ RunnerType'
         /\ \A q \in Requests : runner'[q].at = runner[q].at /\ runner'[q].term = runner[q].term
         /\ runner'[r].child = c /\ \A q \in Requests \ {r} : runner'[q].child = runner[q].child
  BY DEF RunnerType

LEMMA ExitMoves ==
  ASSUME RunnerType, NEW r \in Requests, NEW c \in Children, NEW rc \in Codes, Exit(r, rc, c)
  PROVE  /\ RunnerType' /\ \A q \in Requests : runner'[q].term = runner[q].term
         /\ runner'[r].at = "gone" /\ runner'[r].child = c
         /\ \A q \in Requests \ {r} : runner'[q].at = runner[q].at /\ runner'[q].child = runner[q].child
<1>1. "gone" \in RunnerAts
  BY DEF RunnerAts
<1>2. QED
  BY <1>1 DEF RunnerType, Exit

LEMMA SignalMoves ==
  ASSUME RunnerType, NEW i \in Ids, job[i].pid \in Requests, Signal(i)
  PROVE  /\ RunnerType'
         /\ \A q \in Requests : runner'[q].at = runner[q].at /\ runner'[q].child = runner[q].child
         /\ \A q \in Requests \ {job[i].pid} : runner'[q].term = runner[q].term
  BY DEF RunnerType, Signal

(* The values that are named.                                              *)
LEMMA Named ==
  /\ {"claim", "token", "sources", "check1", "lease", "denied", "check2", "drop", "dropped", "wait",
      "check3", "judge", "done"} \subseteq GenAts
  /\ {"conflict", "unwritten", "cancelled", "memory", "error", "ok"} \subseteq Answers
  /\ {"none", "running", "complete", "cancelled", "error"} \subseteq JobAts
  /\ {"listed", "ready", "spawning", "running", "none", "locking", "boot", "listing", "gone"} \subseteq RunnerAts
  /\ {"started", "loaded", "none", "ok", "failed", "left"} \subseteq Children
  /\ {"none", "held", "void"} \subseteq Leases
  /\ {"none", "ok", "failed", "canceled"} \subseteq Codes
  /\ Nobody \in Pids /\ Requests \subseteq Pids /\ Nobody \in MaybeIds /\ Ids \subseteq MaybeIds
  /\ Hosts \subseteq Tokens /\ "none" \in Tokens /\ "empty" \in Tokens /\ Hosts \subseteq MaybeHosts
  BY DEF GenAts, Leases, Answers, JobAts, RunnerAts, Children, Codes, Pids, MaybeIds, Tokens, MaybeHosts, Ended, Here, Live
-----------------------------------------------------------------------------
MediaInv == Types /\ Owners /\ Scripts /\ Locks

(* A generator that has claimed its job goes on, up to the start of the    *)
(* script or from its end.                                                 *)
Going(q) ==
  /\ Claimed(q) /\ gen[q].at # "done"
  /\ Claimed(q)' /\ gen'[q].at # "wait"
  /\ gen[q].at \in {"wait", "check3", "judge"} => gen'[q].at \in {"check3", "judge", "done"}

LEMMA GoingKeeps ==
  ASSUME MediaInv, NEW r \in Requests, \A q \in Requests : GenSame(q), Going(r),
         \A q \in Requests \ {r} : gen'[q].at = gen[q].at /\ gen'[q].answer = gen[q].answer,
         UNCHANGED <<runner, stop, lock>>, \A i \in Ids : JobSame(i)
  PROVE  Owners' /\ Scripts' /\ Locks'
<1>1. \A q \in Requests : /\ Claimed(q)' = Claimed(q) /\ Claiming(q)' = Claiming(q)
                          /\ Id(q)' = Id(q) /\ IsVideo(q)' = IsVideo(q) /\ gen'[q].host = gen[q].host
  BY DEF Going, Claimed, Claiming, GenSame, Id, IsVideo, Past
<1>2. \A q \in Requests : /\ gen'[q].at = "token" => gen[q].at = "token"
                          /\ gen'[q].at # "idle" => gen[q].at # "idle"
  BY DEF Going, Claimed, Past
<1>3. Owners'
  <2>1. \A q \in Requests : gen'[q].at # "idle" => Id(q)' \in Ids /\ gen'[q].host \in Hosts
    BY <1>1, <1>2 DEF MediaInv, Owners
  <2>2. \A q \in Requests : gen[q].at # "idle" => job'[Id(q)].owner = job[Id(q)].owner
    BY DEF MediaInv, Owners, JobSame
  <2>3. \A q \in Requests : gen'[q].at = "token" => job'[Id(q)'].owner = "empty"
    BY <1>1, <1>2, <2>2 DEF MediaInv, Owners
  <2>4. \A q \in Requests : Claimed(q)' => job'[Id(q)'].owner = gen'[q].host
    BY <1>1, <2>2 DEF MediaInv, Owners, Claimed, Past
  <2>5. \A h \in Hosts : stop'[h].at # "idle" => stop'[h].id \in Ids /\ job'[stop'[h].id].owner = h
    BY DEF MediaInv, Owners, JobSame
  <2>6. QED
    BY <1>1, <2>1, <2>3, <2>4, <2>5 DEF MediaInv, Owners
<1>4. Scripts'
  <2>1. \A q \in Requests : runner'[q].at # "none" =>
          Claimed(q)' /\ gen'[q].at \in {"wait", "check3", "judge", "done"}
    BY <1>1 DEF MediaInv, Scripts, Going
  <2>2. \A q \in Requests : gen'[q].at = "wait" => runner'[q].at # "none"
    BY DEF MediaInv, Scripts, Going
  <2>3. ASSUME NEW i \in Ids, job'[i].pid # Nobody
        PROVE  (Id(job[i].pid) = i /\ runner[job[i].pid].at \in {"listing"} \cup Here)'
    <3>1. job'[i].pid = job[i].pid /\ job[i].pid \in Requests
      BY <2>3 DEF MediaInv, JobSame, Types, JobType, Pids
    <3>2. QED
      BY <1>1, <2>3, <3>1 DEF MediaInv, Scripts
  <2>4. QED
    BY <2>1, <2>2, <2>3 DEF Scripts
<1>5. Locks'
  BY <1>1 DEF MediaInv, Locks, Locked
<1>6. QED
  BY <1>3, <1>4, <1>5

LEMMA AnswerGoes ==
  ASSUME MediaInv, NEW r \in Requests, gen[r].at \in Past, NEW a \in Answers, a # "conflict", Answer(r, a),
         UNCHANGED <<runner, stop, host, lock>>, EngineType',
         job' = job \/ \E s \in JobAts : job' = Status(Id(r), s)
  PROVE  MediaInv'
<1>1. /\ GenType' /\ \A q \in Requests : GenSame(q)
      /\ gen'[r].at = "done" /\ gen'[r].answer = a
      /\ \A q \in Requests \ {r} : gen'[q].at = gen[q].at /\ gen'[q].answer = gen[q].answer
  BY AnswerMoves DEF MediaInv, Types
<1>2. Id(r) \in Ids
  BY DEF MediaInv, Owners, Past
<1>3. JobType' /\ \A i \in Ids : JobSame(i)
  BY <1>2, StatusMoves DEF MediaInv, Types, JobSame, JobType
<1>4. Types'
  BY <1>1, <1>3 DEF MediaInv, Types, RunnerType, StopType, HostType, LockType
<1>5. Going(r)
  BY <1>1 DEF Going, Claimed, Past
<1>6. QED
  BY <1>1, <1>3, <1>4, <1>5, GoingKeeps DEF MediaInv

LEMMA AtGoes ==
  ASSUME MediaInv, NEW r \in Requests, gen[r].at \in Past, NEW a \in Past, NEW held \in Leases,
         At(r, a) \/ Holding(r, held, a), a # "wait",
         gen[r].at \in {"wait", "check3"} => a \in {"check3", "judge"}, gen[r].at # "judge",
         UNCHANGED <<runner, stop, host, lock>>, EngineType',
         job' = job \/ \E s \in JobAts : job' = Status(Id(r), s)
  PROVE  MediaInv'
<1>1. a \in GenAts
  BY DEF Past, GenAts
<1>2. /\ GenType' /\ \A q \in Requests : GenSame(q)
      /\ gen'[r].at = a
      /\ \A q \in Requests \ {r} : gen'[q].at = gen[q].at /\ gen'[q].answer = gen[q].answer
  BY <1>1, AtMoves, HoldingMoves DEF MediaInv, Types
<1>3. Id(r) \in Ids
  BY DEF MediaInv, Owners, Past
<1>4. JobType' /\ \A i \in Ids : JobSame(i)
  BY <1>3, StatusMoves DEF MediaInv, Types, JobSame, JobType
<1>5. Types'
  BY <1>2, <1>4 DEF MediaInv, Types, RunnerType, StopType, HostType, LockType
<1>6. Going(r)
  BY <1>2 DEF Going, Claimed, Past
<1>7. QED
  BY <1>2, <1>4, <1>5, <1>6, GoingKeeps DEF MediaInv

(* The generator, from its claim on.                                       *)
LEMMA GoesNext ==
  ASSUME MediaInv, NEW r \in Requests,
         \/ WriteSources(r) \/ CheckPrepared(r) \/ LeaseBegin(r) \/ LeaseDenied(r)
         \/ LeaseEnd(r) \/ Dropped(r) \/ CheckDone(r) \/ Judge(r)
  PROVE  MediaInv'
<1>1. UNCHANGED <<runner, stop, host, lock>>
  BY DEF WriteSources, CheckPrepared, LeaseBegin, LeaseDenied, LeaseEnd, Dropped, CheckDone, Judge
<1>2. EngineType'
  <2>1. EngineType
    BY DEF MediaInv, Types
  <2>2. CASE engine' = engine
    BY <2>1, <2>2 DEF EngineType
  <2>3. CASE engine' = [engine EXCEPT !.depth = @ + 1]
    BY <2>1, <2>3 DEF EngineType
  <2>4. CASE engine' = [engine EXCEPT !.depth = @ + 1, !.stray = @ + 1] /\ engine.stray < MaxStray
    <3>1. engine' = [depth |-> engine.depth + 1, stray |-> engine.stray + 1, early |-> engine.early]
      BY <2>1, <2>4 DEF EngineType
    <3>2. QED
      BY <2>1, <2>4, <3>1, MediaAssumption DEF EngineType
  <2>5. CASE engine' = [engine EXCEPT !.stray = @ + 1] /\ engine.stray < MaxStray
    BY <2>1, <2>5, MediaAssumption DEF EngineType
  <2>6. ASSUME NEW early \in Nat, engine' = Released(engine, early) PROVE EngineType'
    <3>1. CASE engine.depth = 0
      BY <2>1, <2>6, <3>1 DEF EngineType, Released
    <3>2. CASE engine.depth # 0
      <4>1. engine' = [depth |-> engine.depth - 1, stray |-> engine.stray, early |-> engine.early + early]
        BY <2>1, <2>6, <3>2 DEF EngineType, Released
      <4>2. QED
        BY <2>1, <2>6, <3>2, <4>1 DEF EngineType
    <3>3. QED
      BY <3>1, <3>2
  <2>7. LeaseEnd(r) => \/ engine' = Released(engine, 0) \/ engine' = Released(engine, 1) \/ engine' = engine
                       \/ engine' = [engine EXCEPT !.stray = @ + 1] /\ engine.stray < MaxStray
    BY DEF LeaseEnd
  <2>8. 0 \in Nat /\ 1 \in Nat
    OBVIOUS
  <2>9. CASE LeaseEnd(r)
    BY <2>2, <2>5, <2>6, <2>7, <2>8, <2>9
  <2>10. CASE LeaseBegin(r)
    BY <2>2, <2>3, <2>4, <2>10 DEF LeaseBegin
  <2>11. QED
    BY <2>2, <2>9, <2>10 DEF WriteSources, CheckPrepared, LeaseDenied, Dropped, CheckDone, Judge
<1>3. /\ {"unwritten", "cancelled", "memory", "error", "ok"} \subseteq Answers
      /\ {"running", "cancelled", "error"} \subseteq JobAts
      /\ {"check1", "lease", "denied", "check2", "dropped", "check3", "judge"} \subseteq Past
      /\ {"none", "held"} \subseteq Leases
  BY Named DEF Past
<1>4. ASSUME CancelRequested(Id(r)), AnswerCancelled(r), gen[r].at \in Past PROVE MediaInv'
  BY <1>1, <1>2, <1>3, <1>4, AnswerGoes DEF AnswerCancelled
<1>5. CASE WriteSources(r)
  <2>1. gen[r].at \in Past /\ gen[r].at = "sources"
    BY <1>5 DEF WriteSources, Past
  <2>2. CASE Prepared(r)
    BY <1>1, <1>2, <1>3, <2>1, <2>2, AtGoes DEF Prepared
  <2>3. CASE BadSource(r)
    BY <1>1, <1>2, <1>3, <2>1, <2>3, AnswerGoes DEF BadSource
  <2>4. CASE Unwritten(r)
    BY <1>1, <1>2, <1>3, <2>1, <2>4, AnswerGoes DEF Unwritten
  <2>5. QED
    BY <1>5, <2>2, <2>3, <2>4 DEF WriteSources
<1>6. CASE CheckPrepared(r)
  <2>1. gen[r].at \in Past /\ gen[r].at = "check1"
    BY <1>6 DEF CheckPrepared, Past
  <2>2. CASE CancelRequested(Id(r))
    BY <1>4, <1>6, <2>1, <2>2 DEF CheckPrepared
  <2>3. CASE ~CancelRequested(Id(r))
    BY <1>1, <1>2, <1>3, <1>6, <2>1, <2>3, AtGoes DEF CheckPrepared
  <2>4. QED
    BY <2>2, <2>3
<1>7. CASE LeaseBegin(r)
  <2>1. gen[r].at \in Past /\ gen[r].at = "lease" /\ job' = job
    BY <1>7 DEF LeaseBegin, Past
  <2>2. Holding(r, "none", "check2") \/ Holding(r, "held", "check2") \/ At(r, "denied")
    BY <1>7 DEF LeaseBegin
  <2>3. QED
    BY <1>1, <1>2, <1>3, <2>1, <2>2, AtGoes
<1>8. CASE LeaseDenied(r)
  <2>1. gen[r].at \in Past /\ gen[r].at = "denied"
    BY <1>8 DEF LeaseDenied, Past
  <2>2. CASE CancelRequested(Id(r))
    BY <1>4, <1>8, <2>1, <2>2 DEF LeaseDenied
  <2>3. CASE ~CancelRequested(Id(r))
    BY <1>1, <1>2, <1>3, <1>8, <2>1, <2>3, AnswerGoes DEF LeaseDenied
  <2>4. QED
    BY <2>2, <2>3
<1>9. CASE LeaseEnd(r)
  <2>1. gen[r].at \in {"drop", "wait"} /\ job' = job
    BY <1>9 DEF LeaseEnd
  <2>2. CASE gen[r].at = "drop"
    BY <1>1, <1>2, <1>3, <1>9, <2>1, <2>2, AtGoes DEF LeaseEnd, Past
  <2>3. CASE gen[r].at = "wait"
    BY <1>1, <1>2, <1>3, <1>9, <2>1, <2>3, AtGoes DEF LeaseEnd, Past
  <2>4. QED
    BY <2>1, <2>2, <2>3
<1>10. CASE Dropped(r)
  <2>1. gen[r].at \in Past /\ AnswerCancelled(r)
    BY <1>10 DEF Dropped, Past
  <2>2. QED
    BY <1>1, <1>2, <1>3, <2>1, AnswerGoes DEF AnswerCancelled
<1>11. CASE CheckDone(r)
  <2>1. gen[r].at \in Past /\ gen[r].at = "check3"
    BY <1>11 DEF CheckDone, Past
  <2>2. CASE CancelRequested(Id(r))
    BY <1>4, <1>11, <2>1, <2>2 DEF CheckDone
  <2>3. CASE ~CancelRequested(Id(r))
    BY <1>1, <1>2, <1>3, <1>11, <2>1, <2>3, AtGoes DEF CheckDone
  <2>4. QED
    BY <2>2, <2>3
<1>12. CASE Judge(r)
  <2>1. gen[r].at \in Past
    BY <1>12 DEF Judge, Past
  <2>2. (job' = job /\ Answer(r, "ok")) \/ (Answer(r, "error") /\ (job' = job \/ job' = Status(Id(r), "error")))
    BY <1>12 DEF Judge
  <2>3. QED
    BY <1>1, <1>2, <1>3, <2>1, <2>2, AnswerGoes
<1>13. QED
  BY <1>5, <1>6, <1>7, <1>8, <1>9, <1>10, <1>11, <1>12
-----------------------------------------------------------------------------
(* A generator that is started, and one that claims its job.               *)
LEMMA NotClaimed ==
  ASSUME MediaInv, NEW r \in Requests, gen[r].at \in {"idle", "claim", "token"}
  PROVE  /\ ~Claimed(r) /\ runner[r].at = "none" /\ runner[r].child = "none"
         /\ \A i \in Ids : job[i].pid # r
<1>1. ~Claimed(r) /\ runner[r].at = "none"
  BY DEF MediaInv, Scripts, Claimed, Past
<1>2. runner[r].child = "none"
  BY <1>1 DEF MediaInv, Locks, Locked
<1>3. \A i \in Ids : job[i].pid # r
  BY <1>1, Sets DEF MediaInv, Scripts, Here
<1>4. QED
  BY <1>1, <1>2, <1>3

LEMMA AdmitNext ==
  ASSUME MediaInv, NEW r \in Requests, NEW h \in Hosts, NEW i \in Ids, Admit(r, h, i)
  PROVE  MediaInv'
<1>1. /\ gen[r].at = "idle" /\ gen' = [gen EXCEPT ![r] = [@ EXCEPT !.at = "claim", !.host = h, !.id = i]]
      /\ UNCHANGED <<job, runner, stop, host, engine, lock>>
  BY DEF Admit
<1>2. /\ GenType' /\ gen'[r].at = "claim" /\ gen'[r].host = h /\ gen'[r].id = i
      /\ \A q \in Requests \ {r} : gen'[q] = gen[q]
  BY <1>1, Named DEF MediaInv, Types, GenType
<1>3. /\ ~Claimed(r) /\ runner[r].at = "none" /\ runner[r].child = "none"
      /\ \A j \in Ids : job[j].pid # r
  BY <1>1, NotClaimed
<1>4. /\ ~Claimed(r)' /\ ~Claiming(r)'
      /\ \A q \in Requests \ {r} : /\ Claimed(q)' = Claimed(q) /\ Claiming(q)' = Claiming(q)
                                   /\ Id(q)' = Id(q) /\ IsVideo(q)' = IsVideo(q)
  BY <1>2 DEF Claimed, Claiming, Past, Id, IsVideo
<1>5. Types'
  BY <1>1, <1>2 DEF MediaInv, Types, JobType, RunnerType, StopType, HostType, EngineType, LockType
<1>6. Owners'
  <2>1. Id(r)' = i
    BY <1>2 DEF Id
  <2>2. \A q \in Requests : gen'[q].at # "idle" => Id(q)' \in Ids /\ gen'[q].host \in Hosts
    BY <1>2, <1>4, <2>1 DEF MediaInv, Owners
  <2>3. \A q \in Requests : gen'[q].at = "token" => job[Id(q)'].owner = "empty"
    BY <1>2, <1>4 DEF MediaInv, Owners
  <2>4. \A q \in Requests : Claimed(q)' => job[Id(q)'].owner = gen'[q].host
    BY <1>2, <1>4 DEF MediaInv, Owners
  <2>5. \A q, s \in Requests : Claiming(q)' /\ Claiming(s)' /\ q # s => Id(q)' # Id(s)'
    BY <1>4 DEF MediaInv, Owners
  <2>6. QED
    BY <1>1, <2>2, <2>3, <2>4, <2>5 DEF MediaInv, Owners
<1>7. Scripts'
  <2>1. ASSUME NEW j \in Ids, job'[j].pid # Nobody
        PROVE  (Id(job[j].pid) = j /\ runner[job[j].pid].at \in {"listing"} \cup Here)'
    <3>1. job[j].pid \in Requests \ {r}
      BY <1>1, <1>3, <2>1 DEF MediaInv, Types, JobType, Pids
    <3>2. QED
      BY <1>1, <1>4, <2>1, <3>1 DEF MediaInv, Scripts
  <2>2. QED
    BY <1>1, <1>2, <1>3, <1>4, <2>1 DEF MediaInv, Scripts
<1>8. Locks'
  <2>1. ASSUME NEW q \in Requests
        PROVE  Locked(q)'
    <3>1. CASE q = r
      BY <1>1, <1>3, <3>1 DEF Here, Locked
    <3>2. CASE q # r
      BY <1>1, <1>4, <3>2 DEF MediaInv, Locks, Locked
    <3>3. QED
      BY <3>1, <3>2
  <2>2. QED
    BY <2>1 DEF Locks
<1>9. QED
  BY <1>5, <1>6, <1>7, <1>8 DEF MediaInv

(* The generator opens, fills or gives back server-owner of its job.       *)
LEMMA OwnerNext ==
  ASSUME MediaInv, NEW r \in Requests, gen[r].at \in {"claim", "token"},
         NEW o \in Tokens, job' = [job EXCEPT ![Id(r)].owner = o],
         gen[r].at = "claim" => job[Id(r)].owner = "none" /\ At(r, "token") /\ o = "empty",
         gen[r].at = "token" => \/ o = gen[r].host /\ At(r, "sources")
                                \/ Answer(r, "conflict"),
         UNCHANGED <<runner, stop, host, engine, lock>>
  PROVE  MediaInv'
<1> DEFINE d == Id(r)
<1>1. d \in Ids /\ gen[r].host \in Hosts
  BY DEF MediaInv, Owners
<1>2. /\ JobType' /\ job'[d].owner = o /\ \A j \in Ids : job'[j].pid = job[j].pid
      /\ \A j \in Ids \ {d} : job'[j].owner = job[j].owner
  BY <1>1 DEF MediaInv, Types, JobType
<1>3. At(r, "token") \/ At(r, "sources") \/ Answer(r, "conflict")
  OBVIOUS
<1>4. /\ GenType' /\ \A q \in Requests : GenSame(q)
      /\ \A q \in Requests \ {r} : gen'[q].at = gen[q].at /\ gen'[q].answer = gen[q].answer
      /\ At(r, "token") => gen'[r].at = "token"
      /\ At(r, "sources") => gen'[r].at = "sources"
      /\ Answer(r, "conflict") => gen'[r].at = "done" /\ gen'[r].answer = "conflict"
  BY <1>3, AtMoves, AnswerMoves, Named DEF MediaInv, Types
<1>5. /\ \A q \in Requests : Id(q)' = Id(q) /\ IsVideo(q)' = IsVideo(q) /\ gen'[q].host = gen[q].host
      /\ \A q \in Requests \ {r} : Claimed(q)' = Claimed(q) /\ Claiming(q)' = Claiming(q)
  BY <1>4 DEF Claimed, Claiming, Past, Id, IsVideo, GenSame
<1>6. /\ ~Claimed(r) /\ runner[r].at = "none" /\ runner[r].child = "none"
      /\ \A j \in Ids : job[j].pid # r
  BY NotClaimed
<1>7. job[d].owner \in {"none", "empty"}
  BY DEF MediaInv, Owners
<1>8. \A q \in Requests \ {r} : Claiming(q) => Id(q) # d
  <2>1. CASE gen[r].at = "token"
    BY <2>1 DEF MediaInv, Owners, Claiming
  <2>2. CASE gen[r].at = "claim"
    <3>1. ASSUME NEW q \in Requests, Claiming(q), Id(q) = d PROVE FALSE
      <4>1. job[d].owner = "empty" \/ job[d].owner = gen[q].host
        BY <3>1 DEF MediaInv, Owners, Claiming
      <4>2. gen[q].host \in Hosts
        BY <3>1 DEF MediaInv, Owners, Claiming, Claimed, Past
      <4>3. QED
        BY <2>2, <4>1, <4>2, Sets
    <3>2. QED
      BY <3>1
  <2>3. QED
    BY <2>1, <2>2
<1> HIDE DEF d
<1>9. Types'
  BY <1>2, <1>4 DEF MediaInv, Types, RunnerType, StopType, HostType, EngineType, LockType
<1>10. Owners'
  <2>1. \A q \in Requests : gen'[q].at # "idle" => Id(q)' \in Ids /\ gen'[q].host \in Hosts
    BY <1>1, <1>4, <1>5 DEF MediaInv, Owners, d
  <2>2. \A q \in Requests : gen'[q].at = "token" => job'[Id(q)'].owner = "empty"
    <3>1. TAKE q \in Requests
    <3>2. CASE q = r
      BY <1>2, <1>3, <1>4, <1>5, <3>2 DEF d
    <3>3. CASE q # r
      <4>1. gen'[q].at = "token" => Claiming(q) /\ Id(q) \in Ids /\ job[Id(q)].owner = "empty"
        BY <1>4, <3>3 DEF MediaInv, Owners, Claiming
      <4>2. QED
        BY <1>2, <1>5, <1>8, <3>3, <4>1
    <3>4. QED
      BY <3>2, <3>3
  <2>3. \A q \in Requests : Claimed(q)' => job'[Id(q)'].owner = gen'[q].host
    <3>1. TAKE q \in Requests
    <3>2. CASE q = r
      <4>1. Claimed(r)' => gen[r].at = "token" /\ o = gen[r].host
        BY <1>3, <1>4 DEF Claimed, Past
      <4>2. QED
        BY <1>2, <1>5, <3>2, <4>1 DEF d
    <3>3. CASE q # r
      <4>1. Claimed(q) => Claiming(q) /\ Id(q) \in Ids /\ job[Id(q)].owner = gen[q].host
        BY DEF MediaInv, Owners, Claiming, Claimed, Past
      <4>2. QED
        BY <1>2, <1>5, <1>8, <3>3, <4>1
    <3>4. QED
      BY <3>2, <3>3
  <2>4. \A q, s \in Requests : Claiming(q)' /\ Claiming(s)' /\ q # s => Id(q)' # Id(s)'
    BY <1>5, <1>8 DEF MediaInv, Owners, d
  <2>5. \A h \in Hosts : stop'[h].at # "idle" => stop'[h].id \in Ids /\ job'[stop'[h].id].owner = h
    BY <1>2, <1>7, Sets DEF MediaInv, Owners, d
  <2>6. QED
    BY <2>1, <2>2, <2>3, <2>4, <2>5 DEF Owners
<1>11. Scripts'
  <2>1. ASSUME NEW j \in Ids, job'[j].pid # Nobody
        PROVE  (Id(job[j].pid) = j /\ runner[job[j].pid].at \in {"listing"} \cup Here)'
    <3>1. job[j].pid \in Requests \ {r} /\ job'[j].pid = job[j].pid
      BY <1>2, <1>6, <2>1 DEF MediaInv, Types, JobType, Pids
    <3>2. QED
      BY <1>5, <2>1, <3>1 DEF MediaInv, Scripts
  <2>2. \A q \in Requests : runner'[q].at # "none" =>
          Claimed(q)' /\ gen'[q].at \in {"wait", "check3", "judge", "done"}
    BY <1>4, <1>5, <1>6 DEF MediaInv, Scripts
  <2>3. \A q \in Requests : gen'[q].at = "wait" => runner'[q].at # "none"
    BY <1>3, <1>4 DEF MediaInv, Scripts
  <2>4. QED
    BY <2>1, <2>2, <2>3 DEF Scripts
<1>12. Locks'
  BY <1>5 DEF MediaInv, Locks, Locked
<1>13. QED
  BY <1>9, <1>10, <1>11, <1>12 DEF MediaInv

LEMMA ClaimNext ==
  ASSUME MediaInv, NEW r \in Requests, Claim(r) \/ WriteToken(r)
  PROVE  MediaInv'
<1>1. Id(r) \in Ids /\ gen[r].host \in Hosts /\ {"none", "empty"} \cup Hosts \subseteq Tokens
  BY Named DEF MediaInv, Owners, Claim, WriteToken
<1>2. ASSUME gen[r].at = "claim", job' = job, Answer(r, "conflict"), UNCHANGED <<runner, stop, host, engine, lock>>
      PROVE  MediaInv'
  <2>1. job' = [job EXCEPT ![Id(r)].owner = job[Id(r)].owner]
    BY <1>1, <1>2 DEF MediaInv, Types, JobType
  <2>2. /\ GenType' /\ \A q \in Requests : GenSame(q)
        /\ gen'[r].at = "done" /\ gen'[r].answer = "conflict"
        /\ \A q \in Requests \ {r} : gen'[q].at = gen[q].at /\ gen'[q].answer = gen[q].answer
    BY <1>2, AnswerMoves, Named DEF MediaInv, Types
  <2>3. \A q \in Requests : /\ Id(q)' = Id(q) /\ IsVideo(q)' = IsVideo(q) /\ gen'[q].host = gen[q].host
                            /\ Claimed(q)' = Claimed(q) /\ Claiming(q)' = Claiming(q)
                            /\ (gen'[q].at = "token" => gen[q].at = "token")
                            /\ (gen'[q].at # "idle" => gen[q].at # "idle")
    BY <1>2, <2>2 DEF Claimed, Claiming, Past, Id, IsVideo, GenSame
  <2>4. Types'
    BY <1>2, <2>2 DEF MediaInv, Types, JobType, RunnerType, StopType, HostType, EngineType, LockType
  <2>5. Owners'
    BY <1>2, <2>3 DEF MediaInv, Owners
  <2>6. Scripts'
    <3>1. runner[r].at = "none"
      BY <1>2, NotClaimed
    <3>2. ASSUME NEW j \in Ids, job'[j].pid # Nobody
          PROVE  (Id(job[j].pid) = j /\ runner[job[j].pid].at \in {"listing"} \cup Here)'
      <4>1. job[j].pid \in Requests
        BY <1>2, <3>2 DEF MediaInv, Types, JobType, Pids
      <4>2. QED
        BY <1>2, <2>3, <3>2, <4>1 DEF MediaInv, Scripts
    <3>3. QED
      BY <1>2, <2>2, <2>3, <3>1, <3>2 DEF MediaInv, Scripts
  <2>7. Locks'
    BY <1>2, <2>3 DEF MediaInv, Locks, Locked
  <2>8. QED
    BY <2>4, <2>5, <2>6, <2>7 DEF MediaInv
<1>3. CASE Claim(r)
  <2>1. gen[r].at = "claim" /\ UNCHANGED <<runner, stop, host, engine, lock>>
    BY <1>3 DEF Claim
  <2>2. CASE job[Id(r)].owner = "none"
    <3>1. job' = [job EXCEPT ![Id(r)].owner = "empty"] /\ At(r, "token")
      BY <1>3, <2>2 DEF Claim
    <3>2. QED
      BY <1>1, <2>1, <2>2, <3>1, OwnerNext
  <2>3. CASE job[Id(r)].owner # "none"
    BY <1>2, <1>3, <2>1, <2>3 DEF Claim
  <2>4. QED
    BY <2>2, <2>3
<1>4. CASE WriteToken(r)
  <2>1. gen[r].at = "token" /\ UNCHANGED <<runner, stop, host, engine, lock>>
    BY <1>4 DEF WriteToken
  <2>2. CASE job' = [job EXCEPT ![Id(r)].owner = gen[r].host] /\ At(r, "sources")
    BY <1>1, <2>1, <2>2, OwnerNext
  <2>3. CASE job' = [job EXCEPT ![Id(r)].owner = "none"] /\ Answer(r, "conflict")
    BY <1>1, <2>1, <2>3, OwnerNext
  <2>4. QED
    BY <1>4, <2>2, <2>3 DEF WriteToken
<1>5. QED
  BY <1>3, <1>4
-----------------------------------------------------------------------------
(* A step of a script or of its child: it touches no other.                *)
LEMMA ScriptKeeps ==
  ASSUME MediaInv, Types', NEW r \in Requests, UNCHANGED <<gen, stop>>,
         runner[r].at # "none", runner'[r].at # "none",
         \A q \in Requests \ {r} : runner'[q].at = runner[q].at /\ runner'[q].child = runner[q].child,
         lock' = lock \/ lock \in {r, Nobody},
         \A j \in Ids : job'[j].owner = job[j].owner,
         \A j \in Ids : \/ job'[j].pid = Nobody
                        \/ job'[j].pid = job[j].pid /\ (job[j].pid = r => runner'[r].at \in {"listing"} \cup Here)
                        \/ job'[j].pid = r /\ j = Id(r) /\ runner'[r].at \in {"listing"} \cup Here,
         Locked(r)'
  PROVE  MediaInv'
<1>1. \A q \in Requests : /\ Claimed(q)' = Claimed(q) /\ Claiming(q)' = Claiming(q)
                          /\ Id(q)' = Id(q) /\ IsVideo(q)' = IsVideo(q)
  BY DEF Claimed, Claiming, Id, IsVideo
<1>2. Owners'
  BY <1>1 DEF MediaInv, Owners, Claimed, Past
<1>3. Scripts'
  <2>1. \A q \in Requests : runner'[q].at # "none" =>
          Claimed(q)' /\ gen'[q].at \in {"wait", "check3", "judge", "done"}
    BY <1>1 DEF MediaInv, Scripts
  <2>2. \A q \in Requests : gen'[q].at = "wait" => runner'[q].at # "none"
    BY DEF MediaInv, Scripts
  <2>3. ASSUME NEW j \in Ids, job'[j].pid # Nobody
        PROVE  (Id(job[j].pid) = j /\ runner[job[j].pid].at \in {"listing"} \cup Here)'
    <3>1. CASE job'[j].pid = r /\ j = Id(r) /\ runner'[r].at \in {"listing"} \cup Here
      BY <1>1, <3>1
    <3>2. CASE job'[j].pid = job[j].pid /\ (job[j].pid = r => runner'[r].at \in {"listing"} \cup Here)
      <4>1. job[j].pid \in Requests
        BY <2>3, <3>2 DEF MediaInv, Types, JobType, Pids
      <4>2. Id(job[j].pid) = j /\ runner[job[j].pid].at \in {"listing"} \cup Here
        BY <2>3, <3>2 DEF MediaInv, Scripts
      <4>3. runner'[job[j].pid].at \in {"listing"} \cup Here
        BY <3>2, <4>1, <4>2
      <4>4. QED
        BY <1>1, <3>2, <4>1, <4>2, <4>3
    <3>3. QED
      BY <2>3, <3>1, <3>2
  <2>4. QED
    BY <2>1, <2>2, <2>3 DEF Scripts
<1>4. Locks'
  <2>1. ASSUME NEW q \in Requests \ {r} PROVE Locked(q)'
    <3>1. q # Nobody
      BY Sets
    <3>2. lock = q => lock' = q
      BY <3>1
    <3>3. Locked(q)
      BY DEF MediaInv, Locks
    <3>4. runner'[q].at = runner[q].at /\ runner'[q].child = runner[q].child
      OBVIOUS
    <3>5. QED
      BY <1>1, <3>2, <3>3, <3>4 DEF Locked
  <2>2. QED
    BY <2>1 DEF Locks
<1>5. QED
  BY <1>2, <1>3, <1>4 DEF MediaInv

(* A step of a server: it moves no script, and takes up no job that is not *)
(* its own.                                                                *)
LEMMA StopKeeps ==
  ASSUME MediaInv, Types', UNCHANGED <<gen, lock>>, \A j \in Ids : JobSame(j),
         \A q \in Requests : runner'[q].at = runner[q].at /\ runner'[q].child = runner[q].child,
         \A h \in Hosts : stop'[h].at # "idle" =>
           \/ stop[h].at # "idle" /\ stop'[h].id = stop[h].id
           \/ stop'[h].id \in Ids /\ job[stop'[h].id].owner = h
  PROVE  MediaInv'
<1>1. \A q \in Requests : /\ Claimed(q)' = Claimed(q) /\ Claiming(q)' = Claiming(q)
                          /\ Id(q)' = Id(q) /\ IsVideo(q)' = IsVideo(q)
  BY DEF Claimed, Claiming, Id, IsVideo
<1>2. Owners'
  <2>1. \A h \in Hosts : stop'[h].at # "idle" => stop'[h].id \in Ids /\ job'[stop'[h].id].owner = h
    BY DEF MediaInv, Owners, JobSame
  <2>2. \A q \in Requests : gen[q].at # "idle" => job'[Id(q)].owner = job[Id(q)].owner
    BY DEF MediaInv, Owners, JobSame
  <2>3. \A q \in Requests : Claimed(q) => gen[q].at # "idle"
    BY DEF Claimed, Past
  <2>4. QED
    BY <1>1, <2>1, <2>2, <2>3 DEF MediaInv, Owners
<1>3. Scripts'
  <2>1. ASSUME NEW j \in Ids, job'[j].pid # Nobody
        PROVE  (Id(job[j].pid) = j /\ runner[job[j].pid].at \in {"listing"} \cup Here)'
    <3>1. job'[j].pid = job[j].pid /\ job[j].pid \in Requests
      BY <2>1 DEF MediaInv, Types, JobType, Pids, JobSame
    <3>2. QED
      BY <1>1, <2>1, <3>1 DEF MediaInv, Scripts
  <2>2. QED
    BY <1>1, <2>1 DEF MediaInv, Scripts
<1>4. Locks'
  BY <1>1 DEF MediaInv, Locks, Locked
<1>5. QED
  BY <1>2, <1>3, <1>4 DEF MediaInv
-----------------------------------------------------------------------------
LEMMA Scripted ==
  ASSUME MediaInv, NEW r \in Requests, runner[r].at # "none" \/ runner[r].child # "none"
  PROVE  runner[r].at # "none" /\ Id(r) \in Ids /\ Claimed(r) /\ Locked(r)
<1>1. Locked(r)
  BY DEF MediaInv, Locks
<1>2. runner[r].at # "none"
  BY <1>1 DEF Locked
<1>3. Claimed(r)
  BY <1>2 DEF MediaInv, Scripts
<1>4. Id(r) \in Ids
  BY <1>3 DEF Claimed, Past, MediaInv, Owners
<1>5. QED
  BY <1>1, <1>2, <1>3, <1>4

(* A script that is not listed is named by no directory.                   *)
LEMMA NotListed ==
  ASSUME MediaInv, NEW r \in Requests, runner[r].at \notin {"listing"} \cup Here
  PROVE  \A j \in Ids : job[j].pid # r
  BY Sets DEF MediaInv, Scripts

LEMMA UnlockedMoves ==
  ASSUME LockType, NEW r \in Requests, NEW over \in BOOLEAN, lock' = Unlocked(r, over)
  PROVE  /\ LockType' /\ (lock' = lock \/ lock \in {r, Nobody})
         /\ ~over => lock' = lock
  BY DEF LockType, Unlocked, Pids

(* The script ends.                                                        *)
LEMMA ExitKeeps ==
  ASSUME MediaInv, NEW r \in Requests, runner[r].at # "none", UNCHANGED <<gen, stop, engine>>,
         NEW rc \in Codes, NEW c \in Children, Exit(r, rc, c), HostType',
         NEW s \in JobAts, NEW i \in Ids, job' = Unlisted(i, s), i = Id(r) \/ job[i].pid = r,
         NEW over \in BOOLEAN, lock' = Unlocked(r, over),
         c = "loaded" => (over => IsVideo(r)) /\ runner[r].child = "loaded",
         c = "left" => ~IsVideo(r)
  PROVE  MediaInv'
<1>1. /\ RunnerType' /\ runner'[r].at = "gone" /\ runner'[r].child = c
      /\ \A q \in Requests \ {r} : runner'[q].at = runner[q].at /\ runner'[q].child = runner[q].child
  BY ExitMoves DEF MediaInv, Types
<1>2. /\ JobType' /\ \A j \in Ids : job'[j].owner = job[j].owner
      /\ job'[i].pid = Nobody /\ \A j \in Ids \ {i} : job'[j].pid = job[j].pid
  BY UnlistedMoves DEF MediaInv, Types
<1>3. LockType' /\ (lock' = lock \/ lock \in {r, Nobody}) /\ (~over => lock' = lock)
  BY UnlockedMoves DEF MediaInv, Types
<1>4. i = Id(r)
  <2>1. CASE job[i].pid = r
    <3>1. r # Nobody
      BY Sets
    <3>2. QED
      BY <2>1, <3>1 DEF MediaInv, Scripts
  <2>2. QED
    BY <2>1
<1>5. \A j \in Ids : job'[j].pid = Nobody \/ (job'[j].pid = job[j].pid /\ job[j].pid # r)
  <2>1. ASSUME NEW j \in Ids \ {i}, job[j].pid = r PROVE FALSE
    <3>1. r # Nobody
      BY Sets
    <3>2. QED
      BY <1>4, <2>1, <3>1 DEF MediaInv, Scripts
  <2>2. QED
    BY <1>2, <2>1
<1>6. Types'
  BY <1>1, <1>2, <1>3 DEF MediaInv, Types, GenType, StopType, EngineType
<1>7. Locked(r)'
  <2>1. IsVideo(r)' = IsVideo(r)
    BY DEF IsVideo, Id
  <2>2. Locked(r)
    BY DEF MediaInv, Locks
  <2>3. QED
    BY <1>1, <1>3, <2>1, <2>2 DEF Locked, Here
<1>8. runner'[r].at # "none"
  BY <1>1
<1>9. QED
  BY <1>1, <1>2, <1>3, <1>5, <1>6, <1>7, <1>8, ScriptKeeps

(* The script goes on.                                                     *)
LEMMA RunsOn ==
  ASSUME MediaInv, NEW r \in Requests, TakeLock(r) \/ Boot(r) \/ List(r) \/ Record(r)
  PROVE  MediaInv'
<1>1. /\ runner[r].at \in {"locking", "boot", "listing", "spawning"}
      /\ UNCHANGED <<gen, stop, host, engine>>
  BY DEF TakeLock, Boot, List, Record
<1>2. runner[r].at # "none" /\ Id(r) \in Ids /\ Locked(r)
  BY <1>1, Scripted
<1>3. PICK a \in {"boot", "listing", "listed", "running"} : runner' = [runner EXCEPT ![r].at = a]
  BY DEF TakeLock, Boot, List, Record
<1>4. a \in RunnerAts
  BY <1>3, Named
<1>5. /\ RunnerType' /\ runner'[r].at = a /\ runner'[r].child = runner[r].child
      /\ \A q \in Requests \ {r} : runner'[q].at = runner[q].at /\ runner'[q].child = runner[q].child
  BY <1>3, <1>4, ScriptMoves DEF MediaInv, Types
<1>6. /\ TakeLock(r) => runner[r].at = "locking" /\ a = "boot" /\ lock = Nobody /\ lock' = r /\ job' = job
      /\ Boot(r) => /\ runner[r].at = "boot" /\ a = "listing" /\ lock' = lock
                    /\ job' = [job EXCEPT ![Id(r)].pid = r]
      /\ List(r) => runner[r].at = "listing" /\ a = "listed" /\ lock' = lock /\ job' = job
      /\ Record(r) => runner[r].at = "spawning" /\ a = "running" /\ lock' = lock /\ job' = job
  <2>1. TakeLock(r) => runner'[r].at = "boot"
    BY <1>4, ScriptMoves, Named DEF TakeLock, MediaInv, Types
  <2>2. Boot(r) => runner'[r].at = "listing"
    BY <1>4, ScriptMoves, Named DEF Boot, MediaInv, Types
  <2>3. List(r) => runner'[r].at = "listed"
    BY <1>4, ScriptMoves, Named DEF List, MediaInv, Types
  <2>4. Record(r) => runner'[r].at = "running"
    BY <1>4, ScriptMoves, Named DEF Record, MediaInv, Types
  <2>5. QED
    BY <1>5, <2>1, <2>2, <2>3, <2>4 DEF TakeLock, Boot, List, Record
<1>7. r \in Pids
  BY Named
<1>8. /\ JobType' /\ \A j \in Ids : job'[j].owner = job[j].owner
      /\ Boot(r) => job'[Id(r)].pid = r /\ \A j \in Ids \ {Id(r)} : job'[j].pid = job[j].pid
      /\ ~Boot(r) => job' = job
  <2>1. CASE Boot(r)
    BY <1>2, <1>6, <1>7, <2>1 DEF MediaInv, Types, JobType
  <2>2. CASE ~Boot(r)
    BY <1>6, <2>2 DEF MediaInv, Types, JobType
  <2>3. QED
    BY <2>1, <2>2
<1>9. LockType' /\ (lock' = lock \/ lock \in {r, Nobody})
  BY <1>6, <1>7 DEF MediaInv, Types, LockType
<1>10. Types'
  BY <1>1, <1>5, <1>8, <1>9 DEF MediaInv, Types, GenType, StopType, HostType, EngineType
<1>11. \A j \in Ids : \/ job'[j].pid = job[j].pid /\ (job[j].pid = r => a \in {"listing"} \cup Here)
                      \/ job'[j].pid = r /\ j = Id(r) /\ a \in {"listing"} \cup Here
  <2>1. runner[r].at \in {"locking", "boot"} => \A j \in Ids : job[j].pid # r
    BY NotListed DEF Here
  <2>2. QED
    BY <1>3, <1>6, <1>8, <2>1 DEF Here
<1>12. Locked(r)'
  <2>1. IsVideo(r)' = IsVideo(r)
    BY <1>1 DEF IsVideo, Id
  <2>2. QED
    BY <1>1, <1>2, <1>3, <1>5, <1>6, <2>1 DEF Locked, Here
<1>13. runner'[r].at # "none"
  BY <1>3, <1>5
<1>14. QED
  BY <1>1, <1>2, <1>5, <1>8, <1>9, <1>10, <1>11, <1>12, <1>13, ScriptKeeps

(* The script looks for a cancellation.                                    *)
LEMMA LookNext ==
  ASSUME MediaInv, NEW r \in Requests, Look(r)
  PROVE  MediaInv'
<1>1. /\ runner[r].at \in {"listed", "ready"} /\ UNCHANGED <<gen, stop, host, engine>>
  BY DEF Look
<1>2. runner[r].at # "none" /\ Id(r) \in Ids /\ Locked(r)
  BY <1>1, Scripted
<1>3. HostType' /\ IsVideo(r) \in BOOLEAN
  BY <1>1 DEF MediaInv, Types, HostType, IsVideo
<1>4. ASSUME NEW rc \in {"canceled", "failed"}, NEW s \in {"cancelled", "error"},
             job' = Unlisted(Id(r), s), Exit(r, rc, "none"), lock' = Unlocked(r, IsVideo(r))
      PROVE  MediaInv'
  <2>1. rc \in Codes /\ s \in JobAts /\ "none" \in Children
    BY <1>4, Named
  <2>2. QED
    BY <1>1, <1>2, <1>3, <1>4, <2>1, ExitKeeps
<1>5. ASSUME job' = (IF IsVideo(r) THEN Status(Id(r), "running") ELSE job), lock' = lock,
             runner' = [runner EXCEPT
                  ![r].at = IF @ = "listed" THEN "ready" ELSE "spawning",
                  ![r].child = IF runner[r].at = "ready" THEN "started" ELSE @]
      PROVE  MediaInv'
  <2>1. JobType' /\ \A j \in Ids : JobSame(j)
    <3>1. CASE IsVideo(r)
      BY <1>2, <1>5, <3>1, StatusMoves, Named DEF MediaInv, Types
    <3>2. CASE ~IsVideo(r)
      BY <1>5, <3>2 DEF MediaInv, Types, JobType, JobSame
    <3>3. QED
      BY <3>1, <3>2
  <2>2. {"ready", "spawning"} \subseteq RunnerAts /\ "started" \in Children
    BY Named
  <2>3. /\ RunnerType' /\ runner'[r].at \in {"ready", "spawning"}
        /\ runner[r].at = "ready" => runner'[r].at = "spawning" /\ runner'[r].child = "started"
        /\ runner[r].at # "ready" => runner'[r].child = runner[r].child
        /\ \A q \in Requests \ {r} : runner'[q].at = runner[q].at /\ runner'[q].child = runner[q].child
    BY <1>5, <2>2 DEF MediaInv, Types, RunnerType
  <2>4. Types'
    BY <1>1, <1>5, <2>1, <2>3 DEF MediaInv, Types, GenType, StopType, HostType, EngineType, LockType
  <2>5. IsVideo(r)' = IsVideo(r)
    BY <1>1 DEF IsVideo, Id
  <2>6. Locked(r)'
    BY <1>1, <1>2, <1>5, <2>3, <2>5 DEF Locked, Here
  <2>7. runner'[r].at \in {"listing"} \cup Here /\ runner'[r].at # "none"
    BY <2>3 DEF Here
  <2>8. QED
    BY <1>1, <1>2, <1>5, <2>1, <2>3, <2>4, <2>6, <2>7, ScriptKeeps DEF JobSame
<1>6. CASE CancelRequested(Id(r))
  BY <1>4, <1>6 DEF Look
<1>7. CASE ~CancelRequested(Id(r))
  BY <1>4, <1>5, <1>7 DEF Look
<1>8. QED
  BY <1>6, <1>7

(* The script has its child, or is terminated.                             *)
LEMMA EndNext ==
  ASSUME MediaInv, NEW r \in Requests, RunEnds(r) \/ Terminate(r)
  PROVE  MediaInv'
<1>1. runner[r].at \in Here /\ UNCHANGED <<gen, stop, host, engine>>
  BY DEF RunEnds, Terminate, Here
<1>2. runner[r].at # "none" /\ Id(r) \in Ids /\ Locked(r)
  BY <1>1, Scripted DEF Here
<1>3. HostType' /\ IsVideo(r) \in BOOLEAN
  BY <1>1 DEF MediaInv, Types, HostType, IsVideo
<1>4. job[Id(r)].status \in JobAts /\ runner[r].child \in Children
  BY <1>2 DEF MediaInv, Types, JobType, RunnerType
<1>5. CASE RunEnds(r)
  <2>1. PICK c \in {"ok", "failed"}, s \in {"complete", "error", job[Id(r)].status} :
          job' = Unlisted(Id(r), s) /\ Exit(r, c, c) /\ lock' = Unlocked(r, IsVideo(r))
    BY <1>5 DEF RunEnds
  <2>2. c \in Codes /\ c \in Children /\ s \in JobAts /\ c # "loaded" /\ c # "left"
    BY <1>4, <2>1, Named
  <2>3. QED
    BY <1>1, <1>2, <1>3, <2>1, <2>2, ExitKeeps
<1>6. CASE Terminate(r)
  <2> DEFINE kills == runner[r].at = "running" /\ runner[r].child \in Live
             s == IF IsVideo(r) THEN job[Id(r)].status ELSE "cancelled"
             over == IsVideo(r) \/ kills
  <2>1. PICK c \in (IF kills THEN Terminated(r) ELSE {runner[r].child}) :
          job' = Unlisted(Id(r), s) /\ Exit(r, "canceled", c) /\ lock' = Unlocked(r, over)
    BY <1>6 DEF Terminate
  <2>2. \/ kills /\ (c = "failed" \/ (c = "left" /\ ~IsVideo(r)))
        \/ ~kills /\ c = runner[r].child
    BY <2>1 DEF Terminated
  <2>3. "canceled" \in Codes /\ c \in Children /\ s \in JobAts
    BY <1>4, <2>2, Named
  <2>4. over \in BOOLEAN /\ (c = "loaded" => (over => IsVideo(r)) /\ runner[r].child = "loaded")
    BY <2>2
  <2>5. c = "left" => ~IsVideo(r)
    BY <1>2, <2>2 DEF Locked
  <2> HIDE DEF s, over
  <2>6. QED
    BY <1>1, <1>2, <1>3, <2>1, <2>3, <2>4, <2>5, ExitKeeps
<1>7. QED
  BY <1>5, <1>6

(* The child loads its model, and ends; so does ComfyUI without its worker.*)
LEMMA ChildNext ==
  ASSUME MediaInv, NEW r \in Requests, Load(r) \/ ChildEnds(r) \/ Unload(r)
  PROVE  MediaInv'
<1>1. runner[r].child \in {"started", "loaded", "left"} /\ UNCHANGED <<gen, stop, host, engine>>
  BY DEF Load, ChildEnds, Unload
<1>2. runner[r].at # "none" /\ Id(r) \in Ids /\ Locked(r)
  BY <1>1, Scripted
<1>3. PICK c \in {"loaded", "ok", "failed"} :
        /\ runner' = [runner EXCEPT ![r].child = c]
        /\ \/ Load(r) /\ c = "loaded" /\ job' = job
           \/ Unload(r) /\ c = "failed" /\ job' = job /\ lock' = lock
           \/ /\ ChildEnds(r) /\ c # "loaded"
              /\ job' = job \/ \E s \in {"complete", "error"} : job' = Status(Id(r), s)
  <2>1. CASE Load(r)
    BY <2>1 DEF Load
  <2>2. CASE ChildEnds(r)
    BY <2>2 DEF ChildEnds
  <2>3. CASE Unload(r)
    BY <2>3 DEF Unload
  <2>4. QED
    BY <2>1, <2>2, <2>3
<1>4. c \in Children /\ {"complete", "error"} \subseteq JobAts
  BY <1>3, Named
<1>5. /\ RunnerType' /\ runner'[r].at = runner[r].at /\ runner'[r].child = c
      /\ \A q \in Requests \ {r} : runner'[q].at = runner[q].at /\ runner'[q].child = runner[q].child
  BY <1>3, <1>4, ChildMoves DEF MediaInv, Types
<1>6. JobType' /\ \A j \in Ids : JobSame(j)
  BY <1>2, <1>3, <1>4, StatusMoves DEF MediaInv, Types, JobType, JobSame
<1>7. /\ LockType' /\ (lock' = lock \/ lock \in {r, Nobody})
      /\ IsVideo(r) => lock' = lock
      /\ Load(r) /\ ~IsVideo(r) => lock' = r
  <2>1. CASE Load(r)
    <3>1. r \in Pids
      BY Named
    <3>2. QED
      BY <2>1, <3>1 DEF Load, MediaInv, Types, LockType
  <2>2. CASE lock' = lock /\ ~Load(r)
    BY <2>2 DEF MediaInv, Types, LockType
  <2>3. CASE ChildEnds(r) /\ ~Load(r)
    <3>1. (~IsVideo(r)) \in BOOLEAN /\ lock' = Unlocked(r, ~IsVideo(r))
      BY <2>3 DEF ChildEnds
    <3>2. LockType' /\ (lock' = lock \/ lock \in {r, Nobody}) /\ (~~IsVideo(r) => lock' = lock)
      BY <3>1, UnlockedMoves DEF MediaInv, Types
    <3>3. QED
      BY <2>3, <3>2
  <2>4. QED
    BY <1>3, <2>1, <2>2, <2>3
<1>8. Types'
  BY <1>1, <1>5, <1>6, <1>7 DEF MediaInv, Types, GenType, StopType, HostType, EngineType
<1>9. \A j \in Ids : job[j].pid = r => runner'[r].at \in {"listing"} \cup Here
  <2>1. r # Nobody
    BY Sets
  <2>2. QED
    BY <1>5, <2>1 DEF MediaInv, Scripts
<1>10. Locked(r)'
  <2>1. IsVideo(r)' = IsVideo(r)
    BY <1>1 DEF IsVideo, Id
  <2>2. CASE Load(r) /\ c = "loaded"
    BY <1>1, <1>2, <1>5, <1>7, <2>1, <2>2 DEF Locked, Here
  <2>3. CASE c # "loaded"
    BY <1>1, <1>2, <1>5, <1>7, <2>1, <2>3 DEF Locked
  <2>4. QED
    BY <1>3, <2>2, <2>3
<1>11. QED
  BY <1>1, <1>2, <1>5, <1>6, <1>7, <1>8, <1>9, <1>10, ScriptKeeps DEF JobSame

(* The generator looks a last time and starts its script.                  *)
LEMMA RunNext ==
  ASSUME MediaInv, NEW r \in Requests, Run(r)
  PROVE  MediaInv'
<1>1. gen[r].at = "check2" /\ UNCHANGED <<job, stop, host, engine, lock>>
  BY DEF Run
<1>2. Claimed(r) /\ gen[r].at \in Past
  BY <1>1 DEF Claimed, Past
<1>3. CASE CancelRequested(Id(r))
  <2>1. At(r, "drop") /\ runner' = runner /\ "drop" \in Past /\ EngineType' /\ "none" \in Leases
    BY <1>1, <1>3, Named DEF Run, Past, MediaInv, Types, EngineType
  <2>2. QED
    BY <1>1, <1>2, <2>1, AtGoes
<1>4. CASE ~CancelRequested(Id(r))
  <2> DEFINE a == IF IsVideo(r) THEN "locking" ELSE "boot"
  <2>1. At(r, "wait") /\ runner' = [runner EXCEPT ![r].at = a]
    BY <1>4 DEF Run
  <2>2. a \in RunnerAts /\ "wait" \in GenAts
    BY Named
  <2>3. a # "none" /\ a \notin {"listing"} \cup Here /\ (a = "locking" => IsVideo(r)) /\ (a = "boot" => ~IsVideo(r))
    BY DEF Here
  <2> HIDE DEF a
  <2>4. /\ GenType' /\ \A q \in Requests : GenSame(q) /\ gen'[q].answer = gen[q].answer
        /\ gen'[r].at = "wait" /\ \A q \in Requests \ {r} : gen'[q].at = gen[q].at
    BY <2>1, <2>2, AtMoves DEF MediaInv, Types
  <2>5. /\ RunnerType' /\ \A q \in Requests : runner'[q].child = runner[q].child
        /\ runner'[r].at = a /\ \A q \in Requests \ {r} : runner'[q].at = runner[q].at
    BY <2>1, <2>2, ScriptMoves DEF MediaInv, Types
  <2>6. runner[r].at = "none" /\ runner[r].child = "none" /\ \A j \in Ids : job[j].pid # r
    <3>1. runner[r].at = "none"
      BY <1>1 DEF MediaInv, Scripts
    <3>2. runner[r].child = "none"
      BY <3>1 DEF MediaInv, Locks, Locked
    <3>3. QED
      BY <3>1, <3>2, NotListed DEF Here
  <2>7. \A q \in Requests : /\ Claimed(q)' = Claimed(q) /\ Claiming(q)' = Claiming(q)
                            /\ Id(q)' = Id(q) /\ IsVideo(q)' = IsVideo(q) /\ gen'[q].host = gen[q].host
                            /\ (gen'[q].at = "token" => gen[q].at = "token")
                            /\ (gen'[q].at # "idle" => gen[q].at # "idle")
    BY <1>1, <2>4 DEF Claimed, Claiming, Past, Id, IsVideo, GenSame
  <2>8. Types'
    BY <1>1, <2>4, <2>5 DEF MediaInv, Types, JobType, StopType, HostType, EngineType, LockType
  <2>9. Owners'
    BY <1>1, <2>7 DEF MediaInv, Owners
  <2>10. Scripts'
    <3>1. ASSUME NEW j \in Ids, job'[j].pid # Nobody
          PROVE  (Id(job[j].pid) = j /\ runner[job[j].pid].at \in {"listing"} \cup Here)'
      <4>1. job[j].pid \in Requests \ {r}
        BY <1>1, <2>6, <3>1 DEF MediaInv, Types, JobType, Pids
      <4>2. QED
        BY <1>1, <2>5, <2>7, <3>1, <4>1 DEF MediaInv, Scripts
    <3>2. \A q \in Requests : runner'[q].at # "none" =>
            Claimed(q)' /\ gen'[q].at \in {"wait", "check3", "judge", "done"}
      BY <1>2, <2>4, <2>5, <2>7 DEF MediaInv, Scripts
    <3>3. \A q \in Requests : gen'[q].at = "wait" => runner'[q].at # "none"
      BY <2>3, <2>4, <2>5 DEF MediaInv, Scripts
    <3>4. QED
      BY <3>1, <3>2, <3>3 DEF Scripts
  <2>11. Locks'
    <3>1. ASSUME NEW q \in Requests PROVE Locked(q)'
      <4>1. CASE q = r
        BY <2>3, <2>5, <2>6, <2>7, <4>1 DEF Locked, Here
      <4>2. CASE q # r
        BY <1>1, <2>5, <2>7, <4>2 DEF MediaInv, Locks, Locked
      <4>3. QED
        BY <4>1, <4>2
    <3>2. QED
      BY <3>1 DEF Locks
  <2>12. QED
    BY <2>8, <2>9, <2>10, <2>11 DEF MediaInv
<1>5. QED
  BY <1>3, <1>4

(* What is listed is a script, of the generator that claimed the job.      *)
LEMMA ListedScript ==
  ASSUME MediaInv, NEW i \in Ids, Listed(i)
  PROVE  /\ job[i].pid \in Requests /\ Id(job[i].pid) = i /\ runner[job[i].pid].at # "none"
         /\ Claimed(job[i].pid) /\ job[i].owner = gen[job[i].pid].host
<1>1. job[i].pid \in Requests
  BY DEF Listed, MediaInv, Types, JobType, Pids
<1>2. Id(job[i].pid) = i /\ runner[job[i].pid].at # "none"
  BY DEF Listed, MediaInv, Scripts, Here
<1>3. Claimed(job[i].pid)
  BY <1>1, <1>2 DEF MediaInv, Scripts
<1>4. QED
  BY <1>1, <1>2, <1>3 DEF MediaInv, Owners

(* A request to stop a job, and the progress it makes.                     *)
LEMMA StopNext ==
  ASSUME MediaInv, NEW h \in Hosts, NEW i \in Ids,
         Stop(h, i) \/ Stops(h) \/ \E r \in Requests : Progress(r)
  PROVE  MediaInv'
<1>1. UNCHANGED <<gen, host, engine, lock>>
  BY DEF Stop, Stops, RequestCancel, SignalWorker, TellStopped, Progress
<1>2. stop[h].at # "idle" => stop[h].id \in Ids
  BY DEF MediaInv, Owners
<1>3. JobType' /\ \A j \in Ids : JobSame(j)
  <2>1. CASE job' = job
    BY <2>1 DEF MediaInv, Types, JobType, JobSame
  <2>2. ASSUME NEW j \in Ids, NEW s \in {"running", "cancelled"}, job' = Status(j, s) PROVE JobType' /\ \A k \in Ids : JobSame(k)
    <3>1. s \in JobAts
      BY Named
    <3>2. QED
      BY <2>2, <3>1, StatusMoves DEF MediaInv, Types
  <2>3. ASSUME stop[h].id \in Ids, job' = [job EXCEPT ![stop[h].id].cancel = TRUE] PROVE JobType' /\ \A k \in Ids : JobSame(k)
    BY <2>3 DEF MediaInv, Types, JobType, JobSame
  <2>4. ASSUME NEW r \in Requests, Progress(r) PROVE JobType' /\ \A j \in Ids : JobSame(j)
    <3>1. Id(r) \in Ids /\ job' = Status(Id(r), "running")
      BY <2>4, Scripted DEF Progress
    <3>2. QED
      BY <2>2, <3>1
  <2>5. CASE Stop(h, i)
    BY <2>1, <2>5 DEF Stop
  <2>6. CASE Stops(h)
    <3>1. stop[h].id \in Ids
      BY <1>2, <2>6 DEF Stops, RequestCancel, SignalWorker, TellStopped
    <3>2. \/ job' = job \/ job' = Status(stop[h].id, "cancelled")
          \/ job' = [job EXCEPT ![stop[h].id].cancel = TRUE]
      BY <2>6 DEF Stops, RequestCancel, SignalWorker, TellStopped
    <3>3. QED
      BY <2>1, <2>2, <2>3, <3>1, <3>2
  <2>7. QED
    BY <2>4, <2>5, <2>6
<1>4. RunnerType' /\ \A q \in Requests : runner'[q].at = runner[q].at /\ runner'[q].child = runner[q].child
  <2>1. CASE runner' = runner
    BY <2>1 DEF MediaInv, Types, RunnerType
  <2>2. CASE runner' # runner
    <3>1. SignalWorker(h) /\ Listed(stop[h].id) /\ Signal(stop[h].id)
      BY <2>2 DEF Stop, Stops, RequestCancel, SignalWorker, TellStopped, Progress
    <3>2. stop[h].id \in Ids
      BY <1>2, <3>1 DEF SignalWorker
    <3>3. job[stop[h].id].pid \in Requests
      BY <3>1, <3>2, ListedScript
    <3>4. QED
      BY <3>1, <3>2, <3>3, SignalMoves DEF MediaInv, Types
  <2>3. QED
    BY <2>1, <2>2
<1>5. /\ StopType'
      /\ \A g \in Hosts : stop'[g].at # "idle" =>
           \/ stop[g].at # "idle" /\ stop'[g].id = stop[g].id
           \/ stop'[g].id \in Ids /\ job[stop'[g].id].owner = g
  <2>1. {"idle", "mark", "signal", "tell"} \subseteq StopAts /\ Nobody \in MaybeIds /\ i \in MaybeIds
    BY DEF StopAts, MaybeIds
  <2>2. CASE stop' = stop
    BY <2>2 DEF MediaInv, Types, StopType
  <2>3. CASE Owned(h, i) /\ stop' = [stop EXCEPT ![h] = [at |-> "mark", id |-> i]]
    BY <2>1, <2>3 DEF MediaInv, Types, StopType, Owned
  <2>4. CASE stop' = [stop EXCEPT ![h] = NoStop]
    BY <2>1, <2>4 DEF MediaInv, Types, StopType, NoStop
  <2>5. ASSUME NEW a \in {"signal", "tell"}, stop[h].at # "idle", stop' = [stop EXCEPT ![h].at = a]
        PROVE  /\ StopType'
               /\ \A g \in Hosts : stop'[g].at # "idle" => stop[g].at # "idle" /\ stop'[g].id = stop[g].id
    BY <2>1, <2>5 DEF MediaInv, Types, StopType
  <2>6. \/ stop' = stop \/ stop' = [stop EXCEPT ![h] = NoStop]
        \/ Owned(h, i) /\ stop' = [stop EXCEPT ![h] = [at |-> "mark", id |-> i]]
        \/ stop[h].at # "idle" /\ \E a \in {"signal", "tell"} : stop' = [stop EXCEPT ![h].at = a]
    BY DEF Stop, Stops, RequestCancel, SignalWorker, TellStopped, Progress
  <2>7. QED
    BY <2>2, <2>3, <2>4, <2>5, <2>6
<1>6. Types'
  BY <1>1, <1>3, <1>4, <1>5 DEF MediaInv, Types, GenType, HostType, EngineType, LockType
<1>7. QED
  BY <1>1, <1>3, <1>4, <1>5, <1>6, StopKeeps

(* A server that starts, walks its jobs, exits or dies.                    *)
LEMMA ServerNext ==
  ASSUME MediaInv, NEW h \in Hosts, Quit(h) \/ Closes(h) \/ Start \/ Die(h)
  PROVE  MediaInv'
<1>1. UNCHANGED <<gen, engine>> /\ JobType /\ RunnerType /\ HostType /\ StopType /\ LockType
  BY DEF Quit, Closes, Visit, StopWorker, Exited, Start, Die, MediaInv, Types
<1>2. HostType'
  <2>1. /\ {"off", "up", "closing", "exited", "dead"} \subseteq HostAts
        /\ Nobody \in MaybeIds /\ Ids \subseteq MaybeIds /\ Second \in Hosts
    BY Sets DEF HostAts, MaybeIds
  <2>2. CASE Quit(h)
    BY <1>1, <2>1, <2>2 DEF Quit, HostType
  <2>3. ASSUME NEW i \in Ids, Visit(h, i) PROVE HostType'
    BY <1>1, <2>1, <2>3 DEF Visit, HostType
  <2>4. CASE StopWorker(h)
    BY <1>1, <2>1, <2>4 DEF StopWorker, HostType
  <2>5. CASE Exited(h)
    BY <1>1, <2>1, <2>5 DEF Exited, HostType
  <2>6. CASE Start
    BY <1>1, <2>1, <2>6 DEF Start, HostType
  <2>7. CASE Die(h)
    BY <1>1, <2>1, <2>7 DEF Die, HostType
  <2>8. QED
    BY <2>2, <2>3, <2>4, <2>5, <2>6, <2>7 DEF Closes
<1>3. ASSUME UNCHANGED <<job, lock>>, stop' = stop \/ stop' = [stop EXCEPT ![h] = NoStop],
             runner' = runner \/ \E i \in Ids : Listed(i) /\ Signal(i)
      PROVE  MediaInv'
  <2>1. RunnerType' /\ \A q \in Requests : runner'[q].at = runner[q].at /\ runner'[q].child = runner[q].child
    <3>1. CASE runner' = runner
      BY <1>1, <3>1 DEF RunnerType
    <3>2. ASSUME NEW i \in Ids, Listed(i), Signal(i)
          PROVE  RunnerType' /\ \A q \in Requests : runner'[q].at = runner[q].at /\ runner'[q].child = runner[q].child
      <4>1. job[i].pid \in Requests
        BY <3>2, ListedScript
      <4>2. QED
        BY <1>1, <3>2, <4>1, SignalMoves
    <3>3. QED
      BY <1>3, <3>1, <3>2
  <2>2. /\ StopType'
        /\ \A g \in Hosts : stop'[g].at # "idle" => stop[g].at # "idle" /\ stop'[g].id = stop[g].id
    <3>1. "idle" \in StopAts /\ Nobody \in MaybeIds
      BY DEF StopAts, MaybeIds
    <3>2. QED
      BY <1>1, <1>3, <3>1 DEF StopType, NoStop
  <2>3. JobType' /\ \A j \in Ids : JobSame(j)
    BY <1>1, <1>3 DEF JobType, JobSame
  <2>4. Types'
    BY <1>1, <1>2, <1>3, <2>1, <2>2, <2>3 DEF MediaInv, Types, GenType, EngineType, LockType
  <2>5. QED
    BY <1>1, <1>3, <2>1, <2>2, <2>3, <2>4, StopKeeps
<1>4. CASE Quit(h)
  BY <1>3, <1>4 DEF Quit
<1>5. ASSUME NEW i \in Ids, Visit(h, i) PROVE MediaInv'
  BY <1>3, <1>5 DEF Visit
<1>6. CASE StopWorker(h)
  <2> DEFINE i == host[h].waits
             r == job[i].pid
  <2>1. i \in Ids /\ UNCHANGED <<gen, stop, engine>>
    BY <1>1, <1>6 DEF StopWorker, HostType, MaybeIds
  <2>2. CASE ~Listed(i)
    BY <1>3, <1>6, <2>2 DEF StopWorker
  <2>3. CASE Listed(i)
    <3>1. r \in Requests /\ Id(r) = i /\ runner[r].at # "none"
      BY <2>1, <2>3, ListedScript
    <3>2. PICK c \in {runner[r].child} \cup {"failed", "left"} :
            /\ Exit(r, "canceled", c) /\ lock' = Unlocked(r, IsVideo(r) \/ c \notin Live)
            /\ c = runner[r].child \/ c \in Terminated(r)
            /\ job' = [job EXCEPT ![i].pid = Nobody]
      BY <1>6, <2>3 DEF StopWorker, Listed, Terminated
    <3>3. job' = Unlisted(i, job[i].status) /\ job[i].status \in JobAts
      BY <1>1, <2>1, <3>2 DEF JobType, Unlisted
    <3>4. c \in Children /\ "canceled" \in Codes /\ (IsVideo(r) \/ c \notin Live) \in BOOLEAN
      BY <1>1, <3>1, <3>2, Named DEF RunnerType, IsVideo
    <3>5. /\ c = "loaded" => (IsVideo(r) \/ c \notin Live => IsVideo(r)) /\ runner[r].child = "loaded"
          /\ c = "left" => ~IsVideo(r)
      BY <3>1, <3>2, Scripted DEF Terminated, Live, Locked
    <3> HIDE DEF i, r
    <3>6. QED
      BY <1>2, <2>1, <3>1, <3>2, <3>3, <3>4, <3>5, ExitKeeps
  <2>4. QED
    BY <2>2, <2>3
<1>7. CASE Exited(h)
  BY <1>3, <1>7 DEF Exited
<1>8. CASE Start
  BY <1>3, <1>8 DEF Start
<1>9. CASE Die(h)
  BY <1>3, <1>9 DEF Die
<1>10. QED
  BY <1>4, <1>5, <1>6, <1>7, <1>8, <1>9 DEF Closes

(* ds4-server is started again: the generators keep all but their leases.  *)
LEMMA RestartMoves ==
  ASSUME GenType, RestartEngine
  PROVE  /\ GenType'
         /\ \A q \in Requests : /\ GenSame(q) /\ gen'[q].at = gen[q].at /\ gen'[q].answer = gen[q].answer
                                /\ gen'[q].lease = IF gen[q].lease = "held" THEN "void" ELSE gen[q].lease
<1>1. "void" \in Leases
  BY Named
<1>2. QED
  BY <1>1 DEF RestartEngine, GenType, GenSame

LEMMA RestartNext ==
  ASSUME MediaInv, RestartEngine
  PROVE  MediaInv'
<1>1. /\ GenType' /\ UNCHANGED <<job, runner, stop, host, lock>>
      /\ \A q \in Requests : GenSame(q) /\ gen'[q].at = gen[q].at /\ gen'[q].answer = gen[q].answer
  BY RestartMoves DEF MediaInv, Types, RestartEngine
<1>2. \A q \in Requests : /\ Claimed(q)' = Claimed(q) /\ Claiming(q)' = Claiming(q)
                          /\ Id(q)' = Id(q) /\ IsVideo(q)' = IsVideo(q) /\ gen'[q].host = gen[q].host
  BY <1>1 DEF Claimed, Claiming, GenSame, Id, IsVideo
<1>3. EngineType'
  BY MediaAssumption DEF RestartEngine, EngineType
<1>4. Types'
  BY <1>1, <1>3 DEF MediaInv, Types, JobType, RunnerType, StopType, HostType, LockType
<1>5. Owners'
  BY <1>1, <1>2 DEF MediaInv, Owners
<1>6. Scripts'
  <2>1. ASSUME NEW j \in Ids, job'[j].pid # Nobody
        PROVE  (Id(job[j].pid) = j /\ runner[job[j].pid].at \in {"listing"} \cup Here)'
    <3>1. job[j].pid \in Requests
      BY <1>1, <2>1 DEF MediaInv, Types, JobType, Pids
    <3>2. QED
      BY <1>1, <1>2, <2>1, <3>1 DEF MediaInv, Scripts
  <2>2. QED
    BY <1>1, <1>2, <2>1 DEF MediaInv, Scripts
<1>7. Locks'
  BY <1>1, <1>2 DEF MediaInv, Locks, Locked
<1>8. QED
  BY <1>4, <1>5, <1>6, <1>7 DEF MediaInv

LEMMA MediaStarts == Init => MediaInv
<1> SUFFICES ASSUME Init PROVE MediaInv
  OBVIOUS
<1>1. {"idle"} \subseteq GenAts /\ "none" \in Answers /\ "idle" \in StopAts /\ {"up", "off"} \subseteq HostAts
  BY DEF GenAts, Answers, StopAts, HostAts
<1>2. JobType
  BY Named DEF Init, JobType, NoJob
<1>3. GenType
  BY Named, <1>1 DEF Init, GenType, NoGen, MaybeHosts
<1>4. RunnerType
  BY Named DEF Init, RunnerType, NoRunner
<1>5. StopType
  BY Named, <1>1 DEF Init, StopType, NoStop
<1>6. HostType
  BY Named, <1>1 DEF Init, HostType
<1>7. EngineType /\ LockType
  BY Named, MediaAssumption DEF Init, EngineType, LockType
<1>8. \A r \in Requests : gen[r].at = "idle" /\ runner[r].at = "none" /\ runner[r].child = "none"
  BY DEF Init, NoGen, NoRunner
<1>9. \A r \in Requests : ~Claimed(r) /\ ~Claiming(r)
  BY <1>8 DEF Claimed, Claiming, Past
<1>10. Owners
  BY <1>8, <1>9 DEF Init, Owners, NoStop
<1>11. Scripts
  BY <1>8 DEF Init, Scripts, NoJob
<1>12. Locks
  BY <1>8 DEF Locks, Locked, Here
<1>13. QED
  BY <1>2, <1>3, <1>4, <1>5, <1>6, <1>7, <1>10, <1>11, <1>12 DEF MediaInv, Types

LEMMA MediaNext == MediaInv /\ [Next]_vars => MediaInv'
<1> SUFFICES ASSUME MediaInv, [Next]_vars PROVE MediaInv'
  OBVIOUS
<1>1. ASSUME NEW r \in Requests, Generates(r) PROVE MediaInv'
  BY <1>1, ClaimNext, GoesNext, RunNext DEF Generates
<1>2. ASSUME NEW r \in Requests, Runs(r) PROVE MediaInv'
  BY <1>2, RunsOn, LookNext, EndNext DEF Runs
<1>3. ASSUME NEW r \in Requests, Loads(r) \/ Unload(r) PROVE MediaInv'
  BY <1>3, ChildNext DEF Loads
<1>4. ASSUME NEW r \in Requests, Progress(r) PROVE MediaInv'
  <2>1. First \in Hosts /\ Id(r) \in Ids
    BY <1>4, Sets, Scripted DEF Progress
  <2>2. QED
    BY <1>4, <2>1, StopNext
<1>5. ASSUME NEW h \in Hosts, Stops(h) PROVE MediaInv'
  <2>1. stop[h].at # "idle"
    BY <1>5 DEF Stops, RequestCancel, SignalWorker, TellStopped
  <2>2. stop[h].id \in Ids
    BY <2>1 DEF MediaInv, Owners
  <2>3. QED
    BY <1>5, <2>2, StopNext
<1>6. ASSUME NEW r \in Requests, NEW h \in Hosts, NEW i \in Ids, Admit(r, h, i) PROVE MediaInv'
  BY <1>6, AdmitNext
<1>7. ASSUME NEW h \in Hosts, Closes(h) \/ Quit(h) \/ Die(h) PROVE MediaInv'
  BY <1>7, ServerNext
<1>8. ASSUME NEW h \in Hosts, NEW i \in Ids, Stop(h, i) PROVE MediaInv'
  BY <1>8, StopNext
<1>9. CASE Start
  BY <1>9, Sets, ServerNext
<1>10. CASE UNCHANGED vars
  <2>1. Types'
    BY <1>10 DEF vars, MediaInv, Types, JobType, GenType, RunnerType, StopType, HostType, EngineType, LockType
  <2>2. QED
    BY <1>10, <2>1, StopKeeps DEF vars, JobSame
<1>11. CASE RestartEngine
  BY <1>11, RestartNext
<1>12. QED
  BY <1>1, <1>2, <1>3, <1>4, <1>5, <1>6, <1>7, <1>8, <1>9, <1>10, <1>11 DEF Next, Done
-----------------------------------------------------------------------------
(* The invariant holds in every behaviour: a directory of a job has one    *)
(* generator, the script worker.pid names is that generator's, and a model *)
(* that is loaded is behind heavy-model.lock or belongs to a video whose   *)
(* script is gone.                                                         *)
THEOREM MediaInvAlways == Spec => []MediaInv
  BY MediaStarts, MediaNext, PTL DEF Spec

(* The variables keep their types.                                         *)
THEOREM MediaTypeOK == Spec => []TypeOK
<1>1. MediaInv => TypeOK
  BY TypesAreTypeOK DEF MediaInv
<1>2. QED
  BY <1>1, MediaInvAlways, PTL

(* What terminates a script: nothing but the signal of a server.           *)
LEMMA TermKeeps ==
  ASSUME MediaInv, NEW r \in Requests, Generates(r) \/ Runs(r) \/ Loads(r) \/ Progress(r) \/ Unload(r)
  PROVE  \A q \in Requests : runner'[q].term = runner[q].term
<1>1. RunnerType
  BY DEF MediaInv, Types
<1>2. ASSUME NEW rc, NEW c, Exit(r, rc, c) PROVE \A q \in Requests : runner'[q].term = runner[q].term
  BY <1>1, <1>2 DEF RunnerType, Exit
<1>3. ASSUME NEW a, runner' = [runner EXCEPT ![r].at = a] PROVE \A q \in Requests : runner'[q].term = runner[q].term
  BY <1>1, <1>3 DEF RunnerType
<1>4. ASSUME NEW c, runner' = [runner EXCEPT ![r].child = c] PROVE \A q \in Requests : runner'[q].term = runner[q].term
  BY <1>1, <1>4 DEF RunnerType
<1>5. ASSUME NEW a, NEW c, runner' = [runner EXCEPT ![r].at = a, ![r].child = c]
      PROVE  \A q \in Requests : runner'[q].term = runner[q].term
  BY <1>1, <1>5 DEF RunnerType
<1>6. CASE Run(r)
  BY <1>3, <1>6 DEF Run
<1>7. CASE Generates(r) /\ ~Run(r)
  BY <1>7 DEF Generates, Claim, WriteToken, WriteSources, CheckPrepared, LeaseBegin, LeaseDenied, LeaseEnd,
     Dropped, CheckDone, Judge
<1>8. CASE TakeLock(r) \/ Boot(r) \/ List(r) \/ Record(r)
  BY <1>3, <1>8 DEF TakeLock, Boot, List, Record
<1>9. CASE Look(r)
  <2>1. \/ Exit(r, "canceled", "none") \/ Exit(r, "failed", "none")
        \/ \E a, c : runner' = [runner EXCEPT ![r].at = a, ![r].child = c]
    <3>1. CASE runner' = [runner EXCEPT ![r].at = IF @ = "listed" THEN "ready" ELSE "spawning",
                                        ![r].child = IF runner[r].at = "ready" THEN "started" ELSE @]
      <4>1. runner' = [runner EXCEPT ![r].at = IF runner[r].at = "listed" THEN "ready" ELSE "spawning",
                          ![r].child = IF runner[r].at = "ready" THEN "started" ELSE runner[r].child]
        BY <1>1, <3>1 DEF RunnerType
      <4>2. QED
        BY <4>1
    <3>2. QED
      BY <1>9, <3>1 DEF Look
  <2>2. QED
    BY <1>2, <1>5, <2>1
<1>10. CASE RunEnds(r) \/ Terminate(r)
  BY <1>2, <1>10 DEF RunEnds, Terminate
<1>11. CASE Loads(r) \/ Progress(r) \/ Unload(r)
  BY <1>4, <1>11 DEF Loads, Load, ChildEnds, Progress, Unload
<1>12. QED
  BY <1>6, <1>7, <1>8, <1>9, <1>10, <1>11 DEF Runs

(* api_image_stop, api_video_stop, image_runtime_shutdown: a script is     *)
(* signalled for the server that its generator was started by: a server    *)
(* stops no job of another one that shares the directory.                  *)
THEOREM OwnerStopsAlways == Spec => OwnerStops
<1> DEFINE Signalled(r) ==
      LET h == gen[r].host IN
      \/ stop[h].at = "signal" /\ stop'[h].at = "tell" /\ stop[h].id = Id(r)
      \/ host[h].waits # host'[h].waits /\ host'[h].waits = Id(r)
<1>1. ASSUME MediaInv, [Next]_vars, NEW r \in Requests, ~runner[r].term /\ runner'[r].term PROVE Signalled(r)
  <2>1. StopType /\ HostType /\ RunnerType
    BY <1>1 DEF MediaInv, Types
  <2>2. ASSUME NEW i \in Ids, Listed(i), Signal(i)
        PROVE  job[i].pid = r /\ Id(r) = i /\ job[i].owner = gen[r].host
    <3>1. job[i].pid \in Requests /\ Id(job[i].pid) = i /\ job[i].owner = gen[job[i].pid].host
      BY <1>1, <2>2, ListedScript
    <3>2. job[i].pid = r
      BY <1>1, <2>1, <2>2, <3>1, SignalMoves
    <3>3. QED
      BY <3>1, <3>2
  <2>3. ASSUME NEW h \in Hosts, Stops(h) PROVE Signalled(r)
    <3>1. SignalWorker(h) /\ stop[h].at = "signal" /\ Listed(stop[h].id) /\ Signal(stop[h].id)
          /\ stop' = [stop EXCEPT ![h].at = "tell"]
      BY <1>1, <2>3 DEF Stops, RequestCancel, SignalWorker, TellStopped
    <3>2. stop[h].id \in Ids /\ job[stop[h].id].owner = h
      BY <1>1, <3>1 DEF MediaInv, Owners
    <3>3. Id(r) = stop[h].id /\ gen[r].host = h
      BY <2>2, <3>1, <3>2
    <3>4. stop'[h].at = "tell"
      BY <2>1, <3>1 DEF StopType
    <3>5. QED
      BY <3>1, <3>3, <3>4
  <2>4. ASSUME NEW h \in Hosts, Closes(h) \/ Quit(h) \/ Die(h) PROVE Signalled(r)
    <3>1. CASE \E i \in Ids : Visit(h, i)
      <4>1. PICK i \in Ids : Visit(h, i)
        BY <3>1
      <4>2. /\ host[h].waits = Nobody /\ Owned(h, i) /\ Listed(i) /\ Signal(i)
            /\ host' = [host EXCEPT ![h].waits = i]
        BY <1>1, <4>1 DEF Visit
      <4>3. Id(r) = i /\ gen[r].host = h /\ i # Nobody
        BY <2>2, <4>2, Sets DEF Owned
      <4>4. host'[h].waits = i
        BY <2>1, <4>2 DEF HostType
      <4>5. QED
        BY <4>2, <4>3, <4>4
    <3>2. CASE StopWorker(h)
      <4>1. host[h].waits \in Ids
        BY <2>1, <3>2 DEF StopWorker, HostType, MaybeIds
      <4>2. CASE ~Listed(host[h].waits)
        BY <1>1, <3>2, <4>2 DEF StopWorker
      <4>3. CASE Listed(host[h].waits)
        <5>1. job[host[h].waits].pid \in Requests
          BY <1>1, <4>1, <4>3, ListedScript
        <5>2. PICK c : Exit(job[host[h].waits].pid, "canceled", c)
          BY <3>2, <4>3 DEF StopWorker, Listed
        <5>3. runner'[r].term = runner[r].term
          BY <2>1, <5>1, <5>2 DEF Exit, RunnerType
        <5>4. QED
          BY <1>1, <5>3
      <4>4. QED
        BY <4>2, <4>3
    <3>3. QED
      BY <1>1, <2>4, <3>1, <3>2 DEF Closes, Exited, Quit, Die
  <2>5. QED
    BY <1>1, <2>3, <2>4, TermKeeps DEF Next, vars, Admit, Stop, Start, RestartEngine, Done
<1>2. MediaInv /\ [Next]_vars =>
        [\A r \in Requests :
           ~runner[r].term /\ runner'[r].term =>
             LET h == gen[r].host IN
             \/ stop[h].at = "signal" /\ stop'[h].at = "tell" /\ stop[h].id = Id(r)
             \/ host[h].waits # host'[h].waits /\ host'[h].waits = Id(r)]_vars
  BY <1>1
<1>3. QED
  BY <1>2, MediaInvAlways, PTL DEF Spec, OwnerStops
-----------------------------------------------------------------------------
(* Who leaves ComfyUI behind.  A server that waits for a worker has        *)
(* signalled it, and a worker that was not signalled stops its ComfyUI.    *)
Waited ==
  \A h \in Hosts : host[h].waits # Nobody =>
    \E r \in Requests : Id(r) = host[h].waits /\ runner[r].at # "none" /\ runner[r].term
StrayInv ==
  /\ MediaInv /\ Waited
  /\ \A r \in Requests : runner[r].child = "left" => runner[r].term

(* What a script that runs keeps, whoever moves.                           *)
Kept(q) ==
  /\ runner[q].at # "none" => runner'[q].at # "none" /\ gen'[q].id = gen[q].id
  /\ runner[q].term => runner'[q].term
LeftBy(q) ==
  \/ runner[q].child = "left"
  \/ runner[q].term
  \/ \E h \in Hosts : /\ StopWorker(h) /\ host[h].waits \in Ids
                      /\ Listed(host[h].waits) /\ job[host[h].waits].pid = q

LEMMA ScriptKept ==
  ASSUME MediaInv, NEW r \in Requests, Runs(r) \/ Loads(r) \/ Progress(r) \/ Unload(r)
  PROVE  \A q \in Requests : Kept(q) /\ (runner'[q].child = "left" => LeftBy(q))
<1>1. RunnerType /\ gen' = gen
  BY DEF MediaInv, Types, Runs, Loads, TakeLock, Boot, List, Look, Record, RunEnds, Terminate, Load, ChildEnds,
     Progress, Unload
<1>2. \A q \in Requests : runner'[q].term = runner[q].term
  BY TermKeeps
<1> SUFFICES ASSUME NEW q \in Requests
             PROVE  /\ runner[q].at # "none" => runner'[q].at # "none"
                    /\ runner'[q].child = "left" => LeftBy(q)
  BY <1>1, <1>2 DEF Kept
<1>3. ASSUME NEW rc, NEW c, Exit(r, rc, c)
      PROVE  /\ runner[q].at # "none" => runner'[q].at # "none"
             /\ runner'[q].child = runner[q].child \/ (q = r /\ runner'[q].child = c)
  BY <1>1, <1>3 DEF RunnerType, Exit
<1>4. ASSUME NEW a, a # "none", runner' = [runner EXCEPT ![r].at = a]
      PROVE  (runner[q].at # "none" => runner'[q].at # "none") /\ runner'[q].child = runner[q].child
  BY <1>1, <1>4 DEF RunnerType
<1>5. ASSUME NEW c, c # "left", runner' = [runner EXCEPT ![r].child = c]
      PROVE  runner'[q].at = runner[q].at /\ (runner'[q].child = runner[q].child \/ runner'[q].child # "left")
  BY <1>1, <1>5 DEF RunnerType
<1>6. CASE TakeLock(r) \/ Boot(r) \/ List(r) \/ Record(r)
  <2>1. \E a \in {"boot", "listing", "listed", "running"} : runner' = [runner EXCEPT ![r].at = a]
    BY <1>6 DEF TakeLock, Boot, List, Record
  <2>2. QED
    BY <1>4, <2>1 DEF LeftBy
<1>7. CASE Look(r)
  <2>1. CASE \E rc : Exit(r, rc, "none")
    BY <1>3, <2>1 DEF LeftBy
  <2>2. CASE ~\E rc : Exit(r, rc, "none")
    <3>1. runner' = [runner EXCEPT ![r].at = IF @ = "listed" THEN "ready" ELSE "spawning",
                                   ![r].child = IF runner[r].at = "ready" THEN "started" ELSE @]
      BY <1>7, <2>2 DEF Look
    <3>2. (q # r => runner'[q] = runner[q]) /\ runner'[r].at \in {"ready", "spawning"}
          /\ runner'[r].child \in {"started", runner[r].child}
      BY <1>1, <3>1 DEF RunnerType
    <3>3. QED
      BY <3>2 DEF LeftBy
  <2>3. QED
    BY <2>1, <2>2
<1>8. CASE RunEnds(r)
  <2>1. \E rc, c \in {"ok", "failed"} : Exit(r, rc, c)
    BY <1>8 DEF RunEnds
  <2>2. QED
    BY <1>3, <2>1 DEF LeftBy
<1>9. CASE Terminate(r)
  <2>1. runner[r].term /\ \E c : Exit(r, "canceled", c)
    BY <1>9 DEF Terminate
  <2>2. QED
    BY <1>3, <2>1 DEF LeftBy
<1>10. CASE Loads(r) \/ Unload(r)
  <2>1. \E c \in {"loaded", "ok", "failed"} : runner' = [runner EXCEPT ![r].child = c]
    BY <1>10 DEF Loads, Load, ChildEnds, Unload
  <2>2. QED
    BY <1>5, <2>1 DEF LeftBy
<1>11. CASE Progress(r)
  BY <1>11 DEF Progress, LeftBy
<1>12. QED
  BY <1>6, <1>7, <1>8, <1>9, <1>10, <1>11 DEF Runs

LEMMA NextKept ==
  ASSUME MediaInv, [Next]_vars
  PROVE  \A q \in Requests : Kept(q) /\ (runner'[q].child = "left" => LeftBy(q))
<1>1. RunnerType /\ GenType /\ HostType
  BY DEF MediaInv, Types
<1>2. ASSUME runner' = runner, NEW q \in Requests, runner[q].at # "none" => gen'[q].id = gen[q].id
      PROVE  Kept(q) /\ (runner'[q].child = "left" => LeftBy(q))
  BY <1>2 DEF Kept, LeftBy
<1>3. ASSUME NEW i \in Ids, Listed(i), Signal(i), gen' = gen
      PROVE  \A q \in Requests : Kept(q) /\ (runner'[q].child = "left" => LeftBy(q))
  <2>1. job[i].pid \in Requests
    BY <1>3, ListedScript
  <2>2. /\ \A q \in Requests : runner'[q].at = runner[q].at /\ runner'[q].child = runner[q].child
        /\ \A q \in Requests : runner[q].term => runner'[q].term
    BY <1>1, <1>3, <2>1 DEF Signal, RunnerType
  <2>3. QED
    BY <1>3, <2>2 DEF Kept, LeftBy
<1>4. ASSUME NEW r \in Requests, Generates(r)
      PROVE  \A q \in Requests : Kept(q) /\ (runner'[q].child = "left" => LeftBy(q))
  <2>1. \A q \in Requests : gen'[q].id = gen[q].id
    <3>1. \/ \E a : At(r, a) \/ Answer(r, a)
          \/ \E held, a : Holding(r, held, a)
      BY <1>4 DEF Generates, Claim, WriteToken, WriteSources, Prepared, BadSource, Unwritten, CheckPrepared,
         LeaseBegin, LeaseDenied, LeaseEnd, Run, Dropped, CheckDone, Judge, AnswerCancelled
    <3>2. ASSUME NEW a, At(r, a) PROVE \A q \in Requests : gen'[q].id = gen[q].id
      BY <1>1, <3>2 DEF At, GenType
    <3>3. ASSUME NEW a, Answer(r, a) PROVE \A q \in Requests : gen'[q].id = gen[q].id
      BY <1>1, <3>3 DEF Answer, GenType
    <3>4. ASSUME NEW held, NEW a, Holding(r, held, a) PROVE \A q \in Requests : gen'[q].id = gen[q].id
      BY <1>1, <3>4 DEF Holding, GenType
    <3>5. QED
      BY <3>1, <3>2, <3>3, <3>4
  <2>2. CASE runner' = runner
    BY <1>2, <2>1, <2>2
  <2>3. CASE runner' # runner
    <3>1. Run(r) /\ \E a \in {"locking", "boot"} : runner' = [runner EXCEPT ![r].at = a]
      BY <1>4, <2>3 DEF Generates, Claim, WriteToken, WriteSources, CheckPrepared, LeaseBegin, LeaseDenied,
         LeaseEnd, Run, Dropped, CheckDone, Judge
    <3>2. \A q \in Requests : /\ runner[q].at # "none" => runner'[q].at # "none"
                              /\ runner'[q].term = runner[q].term /\ runner'[q].child = runner[q].child
      BY <1>1, <3>1 DEF RunnerType
    <3>3. QED
      BY <2>1, <3>2 DEF Kept, LeftBy
  <2>4. QED
    BY <2>2, <2>3
<1>5. ASSUME NEW r \in Requests, NEW h \in Hosts, NEW i \in Ids, Admit(r, h, i)
      PROVE  \A q \in Requests : Kept(q) /\ (runner'[q].child = "left" => LeftBy(q))
  <2>1. /\ gen[r].at = "idle" /\ runner' = runner
        /\ gen' = [gen EXCEPT ![r] = [@ EXCEPT !.at = "claim", !.host = h, !.id = i]]
    BY <1>5 DEF Admit
  <2>2. runner[r].at = "none"
    BY <2>1, NotClaimed
  <2>3. \A q \in Requests : runner[q].at # "none" => gen'[q].id = gen[q].id
    BY <1>1, <2>1, <2>2 DEF GenType
  <2>4. QED
    BY <1>2, <2>1, <2>3
<1>6. ASSUME NEW h \in Hosts, StopWorker(h)
      PROVE  \A q \in Requests : Kept(q) /\ (runner'[q].child = "left" => LeftBy(q))
  <2>1. host[h].waits \in Ids /\ gen' = gen
    BY <1>1, <1>6 DEF StopWorker, HostType, MaybeIds
  <2>2. CASE ~Listed(host[h].waits)
    BY <1>2, <1>6, <2>1, <2>2 DEF StopWorker
  <2>3. CASE Listed(host[h].waits)
    <3>1. job[host[h].waits].pid \in Requests
      BY <2>1, <2>3, ListedScript
    <3>2. \E c : Exit(job[host[h].waits].pid, "canceled", c)
      BY <1>6, <2>3 DEF StopWorker, Listed
    <3>3. \A q \in Requests : /\ runner[q].at # "none" => runner'[q].at # "none"
                              /\ runner'[q].term = runner[q].term
                              /\ q # job[host[h].waits].pid => runner'[q].child = runner[q].child
      BY <1>1, <3>1, <3>2 DEF Exit, RunnerType
    <3>4. QED
      BY <1>6, <2>1, <2>3, <3>3 DEF Kept, LeftBy
  <2>4. QED
    BY <2>2, <2>3
<1>7. ASSUME NEW h \in Hosts, Stops(h) \/ Closes(h) \/ Quit(h) \/ Die(h)
      PROVE  \A q \in Requests : Kept(q) /\ (runner'[q].child = "left" => LeftBy(q))
  <2>1. gen' = gen
    BY <1>7 DEF Stops, Closes, Quit, Die, RequestCancel, SignalWorker, TellStopped, Visit, StopWorker, Exited
  <2>2. \/ runner' = runner \/ StopWorker(h)
        \/ SignalWorker(h) /\ Listed(stop[h].id) /\ Signal(stop[h].id)
        \/ \E i \in Ids : Listed(i) /\ Signal(i)
    BY <1>7 DEF Stops, Closes, Quit, Die, RequestCancel, SignalWorker, TellStopped, Visit, Exited
  <2>3. SignalWorker(h) => stop[h].id \in Ids
    BY DEF MediaInv, Owners, SignalWorker
  <2>4. QED
    BY <1>2, <1>3, <1>6, <2>1, <2>2, <2>3
<1>8. CASE RestartEngine
  BY <1>1, <1>2, <1>8, RestartMoves DEF RestartEngine, GenSame
<1>9. CASE Start \/ UNCHANGED vars
  BY <1>2, <1>9 DEF Start, vars
<1>10. ASSUME NEW h \in Hosts, NEW i \in Ids, Stop(h, i)
       PROVE  \A q \in Requests : Kept(q) /\ (runner'[q].child = "left" => LeftBy(q))
  BY <1>2, <1>10 DEF Stop
<1>11. QED
  BY <1>4, <1>5, <1>7, <1>8, <1>9, <1>10, ScriptKept DEF Next, Done

(* The worker that a server waits for is the one it signalled.             *)
LEMMA WaitedIsSignalled ==
  ASSUME StrayInv, NEW h \in Hosts, host[h].waits \in Ids, Listed(host[h].waits)
  PROVE  runner[job[host[h].waits].pid].term
<1>1. host[h].waits # Nobody
  BY Sets
<1>2. PICK r \in Requests : Id(r) = host[h].waits /\ runner[r].at # "none" /\ runner[r].term
  BY <1>1 DEF StrayInv, Waited
<1>3. /\ job[host[h].waits].pid \in Requests /\ Id(job[host[h].waits].pid) = host[h].waits
      /\ Claimed(job[host[h].waits].pid)
  BY ListedScript DEF StrayInv
<1>4. Claimed(r)
  BY <1>2 DEF StrayInv, MediaInv, Scripts
<1>5. job[host[h].waits].pid = r
  BY <1>2, <1>3, <1>4 DEF StrayInv, MediaInv, Owners, Claiming
<1>6. QED
  BY <1>2, <1>5

LEMMA StrayNext == StrayInv /\ [Next]_vars => StrayInv'
<1> SUFFICES ASSUME StrayInv, [Next]_vars PROVE StrayInv'
  OBVIOUS
<1>1. MediaInv /\ MediaInv' /\ HostType
  BY MediaNext DEF StrayInv, MediaInv, Types
<1>2. \A q \in Requests : Kept(q) /\ (runner'[q].child = "left" => LeftBy(q))
  BY <1>1, NextKept
<1>3. Waited'
  <2> SUFFICES ASSUME NEW h \in Hosts, host'[h].waits # Nobody
               PROVE  \E r \in Requests : gen'[r].id = host'[h].waits /\ runner'[r].at # "none" /\ runner'[r].term
    BY DEF Waited, Id
  <2>1. CASE host'[h].waits = host[h].waits
    <3>1. PICK r \in Requests : gen[r].id = host[h].waits /\ runner[r].at # "none" /\ runner[r].term
      BY <2>1 DEF StrayInv, Waited, Id
    <3>2. QED
      BY <1>2, <2>1, <3>1 DEF Kept
  <2>2. CASE host'[h].waits # host[h].waits
    <3>1. PICK g \in Hosts : Closes(g) \/ Quit(g) \/ Die(g)
      <4>1. host' # host
        BY <2>2
      <4>2. ~Start
        <5>1. Start => host'[h].waits = host[h].waits
          BY <1>1, Sets DEF Start, HostType
        <5>2. QED
          BY <2>2, <5>1
      <4>3. \A r \in Requests : ~Generates(r) /\ ~Runs(r) /\ ~Loads(r) /\ ~Progress(r) /\ ~Unload(r)
        BY <4>1 DEF Generates, Runs, Loads, Progress, Unload, Claim, WriteToken, WriteSources, CheckPrepared,
           LeaseBegin, LeaseDenied, LeaseEnd, Run, Dropped, CheckDone, Judge, TakeLock, Boot, List, Look, Record,
           RunEnds, Terminate, Load, ChildEnds
      <4>4. /\ \A r \in Requests, g \in Hosts, i \in Ids : ~Admit(r, g, i)
            /\ \A g \in Hosts, i \in Ids : ~Stop(g, i)
        BY <4>1 DEF Admit, Stop
      <4>5. \A g \in Hosts : ~Stops(g)
        BY <4>1 DEF Stops, RequestCancel, SignalWorker, TellStopped
      <4>6. ~RestartEngine /\ ~Done /\ ~UNCHANGED vars
        BY <4>1 DEF RestartEngine, Done, vars
      <4>7. Next
        BY <4>6
      <4>8. (\E r \in Requests : Generates(r) \/ Runs(r) \/ Loads(r) \/ Progress(r) \/ Unload(r)) => FALSE
        BY <4>3
      <4>9. /\ ~\E r \in Requests, g \in Hosts, i \in Ids : Admit(r, g, i)
            /\ ~\E g \in Hosts, i \in Ids : Stop(g, i)
        BY <4>4
      <4>10. \E g \in Hosts : Stops(g) \/ Closes(g) \/ Quit(g) \/ Die(g)
        BY <4>2, <4>6, <4>7, <4>8, <4>9 DEF Next
      <4>11. QED
        BY <4>5, <4>10
    <3>2. PICK i \in Ids : Visit(g, i)
      <4>1. \A k \in Hosts : k # g => host'[k].waits = host[k].waits
        BY <1>1, <3>1 DEF Closes, Visit, StopWorker, Exited, Quit, Die, HostType
      <4>2. g = h
        BY <2>2, <4>1
      <4>3. StopWorker(g) \/ Die(g) => host'[g].waits = Nobody
        BY <1>1 DEF StopWorker, Die, HostType
      <4>4. Exited(g) \/ Quit(g) => host'[g].waits = host[g].waits
        BY <1>1 DEF Exited, Quit, HostType
      <4>5. QED
        BY <2>2, <3>1, <4>2, <4>3, <4>4 DEF Closes
    <3>3. h = g /\ Listed(i) /\ Signal(i) /\ host'[h].waits = i /\ gen' = gen
      <4>1. ~(runner' = runner /\ host' = [host EXCEPT ![g].todo = @ \ {i}])
        <5>1. host' = [host EXCEPT ![g].todo = @ \ {i}] => host'[h].waits = host[h].waits
          BY <1>1 DEF HostType
        <5>2. QED
          BY <2>2, <5>1
      <4>2. Listed(i) /\ Signal(i) /\ host' = [host EXCEPT ![g].waits = i] /\ gen' = gen
        BY <3>2, <4>1 DEF Visit
      <4>3. (h # g => host'[h].waits = host[h].waits) /\ host'[g].waits = i
        BY <1>1, <4>2 DEF HostType
      <4>4. QED
        BY <2>2, <4>2, <4>3
    <3>4. job[i].pid \in Requests /\ Id(job[i].pid) = i /\ runner[job[i].pid].at # "none"
      BY <1>1, <3>3, ListedScript
    <3>5. RunnerType
      BY <1>1 DEF MediaInv, Types
    <3>6. runner'[job[i].pid].term /\ runner'[job[i].pid].at # "none"
      BY <3>3, <3>4, <3>5 DEF Signal, RunnerType
    <3>7. QED
      BY <3>3, <3>4, <3>6 DEF Id
  <2>3. QED
    BY <2>1, <2>2
<1>4. \A r \in Requests : runner'[r].child = "left" => runner'[r].term
  <2> SUFFICES ASSUME NEW r \in Requests, runner'[r].child = "left" PROVE runner[r].term
    BY <1>2 DEF Kept
  <2>1. LeftBy(r)
    BY <1>2
  <2>2. QED
    BY <2>1, WaitedIsSignalled DEF LeftBy, StrayInv
<1>5. QED
  BY <1>1, <1>3, <1>4 DEF StrayInv

(* dstudio_image.c, dstudio_video.c, heavy-model-lock.py: of two models    *)
(* that are in memory one belongs to a video whose script is gone, or is   *)
(* the ComfyUI of an image whose worker was signalled to stop and is gone. *)
(* Nothing else gets past the lock.                                        *)
THEOREM OneModelLoadedAlways == Spec => []OneModelLoaded
<1>1. Init => StrayInv
  <2> SUFFICES ASSUME Init PROVE StrayInv
    OBVIOUS
  <2>1. \A h \in Hosts : host[h].waits = Nobody
    BY DEF Init
  <2>2. \A r \in Requests : runner[r].child # "left"
    BY DEF Init, NoRunner
  <2>3. QED
    BY <2>1, <2>2, MediaStarts DEF StrayInv, Waited
<1>2. ASSUME StrayInv PROVE OneModelLoaded
  <2>1. ASSUME NEW r \in Requests, InMemory(r), ~Strayed(r) PROVE lock = r
    <3>1. Locked(r) /\ (runner[r].child = "left" => runner[r].term)
      BY <1>2 DEF StrayInv, MediaInv, Locks
    <3>2. QED
      BY <2>1, <3>1 DEF Locked, InMemory, Strayed, Orphan, Live
  <2>2. QED
    BY <2>1 DEF OneModelLoaded
<1>3. QED
  BY <1>1, <1>2, StrayNext, PTL DEF Spec
-----------------------------------------------------------------------------
(* The leases of ds4-server: one that is held is held by a generator on    *)
(* its way through the run of its script.                                  *)
LeaseHeld == \A r \in Requests : gen[r].lease # "none" => gen[r].at \in {"check2", "drop", "wait"}
LeaseInv == MediaInv /\ LeaseHeld /\ LeaseCounts
Engines == [depth : Nat, stray : 0 .. MaxStray, early : Nat]

LEMMA HoldersFinite == IsFiniteSet(Holders) /\ Cardinality(Holders) \in Nat
<1>1. IsFiniteSet(Requests)
  BY MediaAssumption, FS_Interval DEF Requests
<1>2. Holders \subseteq Requests
  BY DEF Holders
<1>3. QED
  BY <1>1, <1>2, FS_Subset, FS_CardinalityType

LEMMA LeaseKeeps ==
  ASSUME LeaseInv, UNCHANGED engine, LeaseHeld', \A r \in Requests : gen'[r].lease = gen[r].lease
  PROVE  (LeaseHeld /\ LeaseCounts)'
<1>1. Holders' = Holders
  BY DEF Holders
<1>2. QED
  BY <1>1 DEF LeaseInv, LeaseCounts

(* What ds4-server does with a request, by its counters.                   *)
LEMMA EngineMoves ==
  ASSUME engine \in Engines
  PROVE  /\ engine' = [engine EXCEPT !.depth = @ + 1] =>
              engine'.depth = engine.depth + 1 /\ engine'.stray = engine.stray /\ engine'.early = engine.early
         /\ engine' = [engine EXCEPT !.depth = @ + 1, !.stray = @ + 1] =>
              engine'.depth = engine.depth + 1 /\ engine'.stray = engine.stray + 1 /\ engine'.early = engine.early
         /\ engine' = [engine EXCEPT !.stray = @ + 1] =>
              engine'.depth = engine.depth /\ engine'.stray = engine.stray + 1 /\ engine'.early = engine.early
         /\ engine' = Released(engine, 0) =>
              /\ engine'.depth = IF engine.depth = 0 THEN 0 ELSE engine.depth - 1
              /\ engine'.stray = engine.stray /\ engine'.early = engine.early
         /\ engine' = Released(engine, 1) =>
              /\ engine'.depth = IF engine.depth = 0 THEN 0 ELSE engine.depth - 1
              /\ engine'.stray = engine.stray
              /\ engine'.early = IF engine.depth = 0 THEN engine.early ELSE engine.early + 1
<1>1. /\ engine' = [engine EXCEPT !.depth = @ + 1] =>
           engine'.depth = engine.depth + 1 /\ engine'.stray = engine.stray /\ engine'.early = engine.early
      /\ engine' = [engine EXCEPT !.depth = @ + 1, !.stray = @ + 1] =>
           engine'.depth = engine.depth + 1 /\ engine'.stray = engine.stray + 1 /\ engine'.early = engine.early
      /\ engine' = [engine EXCEPT !.stray = @ + 1] =>
           engine'.depth = engine.depth /\ engine'.stray = engine.stray + 1 /\ engine'.early = engine.early
  BY DEF Engines
<1>2. CASE engine.depth = 0
  BY <1>1, <1>2 DEF Released
<1>3. CASE engine.depth # 0
  <2>1. ASSUME NEW n \in Nat, engine' = Released(engine, n)
        PROVE  engine'.depth = engine.depth - 1 /\ engine'.stray = engine.stray /\ engine'.early = engine.early + n
    BY <1>3, <2>1 DEF Engines, Released
  <2>2. 0 \in Nat /\ 1 \in Nat /\ engine.early + 0 = engine.early
    BY DEF Engines
  <2>3. /\ engine' = Released(engine, 0) =>
             engine'.depth = engine.depth - 1 /\ engine'.stray = engine.stray /\ engine'.early = engine.early
        /\ engine' = Released(engine, 1) =>
             engine'.depth = engine.depth - 1 /\ engine'.stray = engine.stray /\ engine'.early = engine.early + 1
    BY <2>1, <2>2
  <2>4. QED
    BY <1>1, <1>3, <2>3
<1>4. QED
  BY <1>2, <1>3

LEMMA BeginCounts ==
  ASSUME LeaseInv, NEW r \in Requests, LeaseBegin(r)
  PROVE  (LeaseHeld /\ LeaseCounts)'
<1>1. /\ gen[r].at = "lease" /\ GenType /\ engine \in Engines
      /\ {"check2", "denied"} \subseteq GenAts /\ {"none", "held"} \subseteq Leases
  BY Named DEF LeaseBegin, LeaseInv, MediaInv, Types, EngineType, Engines
<1>2. gen[r].lease = "none"
  BY <1>1 DEF LeaseInv, LeaseHeld
<1>3. r \notin Holders
  BY <1>2 DEF Holders
<1>4. IsFiniteSet(Holders) /\ Cardinality(Holders) \in Nat
  BY HoldersFinite
<1>5. Cardinality(Holders) <= engine.depth + engine.early /\ engine.depth <= Cardinality(Holders) + engine.stray
  BY DEF LeaseInv, LeaseCounts
<1>6. engine.depth \in Nat /\ engine.stray \in Nat /\ engine.early \in Nat
  BY <1>1, MediaAssumption DEF Engines
<1>7. CASE Holding(r, "held", "check2") /\ engine' = [engine EXCEPT !.depth = @ + 1]
  <2>1. /\ gen'[r].at = "check2" /\ gen'[r].lease = "held"
        /\ \A q \in Requests \ {r} : gen'[q].at = gen[q].at /\ gen'[q].lease = gen[q].lease
    BY <1>1, <1>7, HoldingMoves
  <2>2. LeaseHeld'
    BY <2>1 DEF LeaseInv, LeaseHeld
  <2>3. Holders' = Holders \cup {r}
    BY <2>1 DEF Holders
  <2>4. Cardinality(Holders') = Cardinality(Holders) + 1
    BY <1>3, <1>4, <2>3, FS_AddElement
  <2>5. engine'.depth = engine.depth + 1 /\ engine'.stray = engine.stray /\ engine'.early = engine.early
    BY <1>1, <1>7, EngineMoves
  <2>6. LeaseCounts'
    BY <1>4, <1>5, <1>6, <2>4, <2>5 DEF LeaseCounts
  <2>7. QED
    BY <2>2, <2>6
<1>8. CASE /\ Holding(r, "none", "check2") \/ At(r, "denied")
           /\ engine' = engine \/ engine' = [engine EXCEPT !.depth = @ + 1, !.stray = @ + 1]
  <2>1. gen'[r].at \in {"check2", "denied"}
    BY <1>1, <1>8, HoldingMoves, AtMoves
  <2>2. gen'[r].lease = "none" /\ \A q \in Requests \ {r} : gen'[q].at = gen[q].at /\ gen'[q].lease = gen[q].lease
    <3>1. CASE Holding(r, "none", "check2")
      BY <1>1, <3>1, HoldingMoves
    <3>2. CASE At(r, "denied")
      BY <1>1, <1>2, <3>2, AtMoves
    <3>3. QED
      BY <1>8, <3>1, <3>2
  <2>3. LeaseHeld'
    BY <2>2 DEF LeaseInv, LeaseHeld
  <2>4. Holders' = Holders
    BY <1>2, <2>2 DEF Holders
  <2>5. \/ engine' = engine
        \/ engine'.depth = engine.depth + 1 /\ engine'.stray = engine.stray + 1 /\ engine'.early = engine.early
    BY <1>1, <1>8, EngineMoves
  <2>6. LeaseCounts'
    BY <1>4, <1>5, <1>6, <2>4, <2>5 DEF LeaseCounts
  <2>7. QED
    BY <2>3, <2>6
<1>9. QED
  BY <1>7, <1>8 DEF LeaseBegin

LEMMA EndCounts ==
  ASSUME LeaseInv, NEW r \in Requests, LeaseEnd(r)
  PROVE  (LeaseHeld /\ LeaseCounts)'
<1>1. GenType /\ engine \in Engines
  BY DEF LeaseInv, MediaInv, Types, EngineType, Engines
<1>2. PICK a \in GenAts : Holding(r, "none", a)
  BY Named DEF LeaseEnd
<1>3. /\ gen'[r].lease = "none"
      /\ \A q \in Requests \ {r} : gen'[q].at = gen[q].at /\ gen'[q].lease = gen[q].lease
  BY <1>1, <1>2, HoldingMoves, Named
<1>4. LeaseHeld'
  BY <1>3 DEF LeaseInv, LeaseHeld
<1>5. Holders' = Holders \ {r}
  BY <1>3 DEF Holders
<1>6. /\ IsFiniteSet(Holders) /\ Cardinality(Holders) \in Nat
      /\ IsFiniteSet(Holders \ {r}) /\ Cardinality(Holders \ {r}) \in Nat
      /\ Cardinality(Holders') = IF r \in Holders THEN Cardinality(Holders) - 1 ELSE Cardinality(Holders)
  BY <1>5, HoldersFinite, FS_RemoveElement, FS_CardinalityType
<1>7. Cardinality(Holders) <= engine.depth + engine.early /\ engine.depth <= Cardinality(Holders) + engine.stray
  BY DEF LeaseInv, LeaseCounts
<1>8. engine.depth \in Nat /\ engine.stray \in Nat /\ engine.early \in Nat
  BY <1>1, MediaAssumption DEF Engines
<1>9. CASE gen[r].lease = "held"
  <2>1. r \in Holders /\ Cardinality(Holders') = Cardinality(Holders) - 1
    BY <1>6, <1>9 DEF Holders
  <2>2. engine' = Released(engine, 0) \/ engine' = [engine EXCEPT !.stray = @ + 1]
    BY <1>9 DEF LeaseEnd
  <2>3. \/ /\ engine'.depth = IF engine.depth = 0 THEN 0 ELSE engine.depth - 1
           /\ engine'.stray = engine.stray /\ engine'.early = engine.early
        \/ engine'.depth = engine.depth /\ engine'.stray = engine.stray + 1 /\ engine'.early = engine.early
    BY <1>1, <2>2, EngineMoves
  <2>4. Cardinality(Holders') \in Nat /\ Cardinality(Holders) >= 1
    BY <1>5, <1>6, <2>1
  <2> DEFINE n == Cardinality(Holders)
             m == Cardinality(Holders')
  <2>5. /\ n \in Nat /\ m = n - 1 /\ n >= 1
        /\ n <= engine.depth + engine.early /\ engine.depth <= n + engine.stray
    BY <1>6, <1>7, <2>1, <2>4
  <2> HIDE DEF n, m
  <2>6. m <= engine'.depth + engine'.early /\ engine'.depth <= m + engine'.stray
    <3>1. CASE engine'.depth = engine.depth /\ engine'.stray = engine.stray + 1 /\ engine'.early = engine.early
      BY <1>8, <2>5, <3>1
    <3>2. CASE engine.depth = 0 /\ engine'.depth = 0 /\ engine'.stray = engine.stray /\ engine'.early = engine.early
      BY <1>8, <2>5, <3>2
    <3>3. CASE engine.depth # 0 /\ engine'.depth = engine.depth - 1 /\ engine'.stray = engine.stray
               /\ engine'.early = engine.early
      BY <1>8, <2>5, <3>3
    <3>4. QED
      BY <2>3, <3>1, <3>2, <3>3
  <2>7. LeaseCounts'
    BY <2>6 DEF LeaseCounts, m
  <2>8. QED
    BY <1>4, <2>7
<1>10. CASE gen[r].lease # "held"
  <2>1. Cardinality(Holders') = Cardinality(Holders)
    BY <1>6, <1>10 DEF Holders
  <2>2. engine' = engine \/ engine' = Released(engine, 1)
    BY <1>10 DEF LeaseEnd
  <2>3. \/ engine' = engine
        \/ /\ engine'.depth = IF engine.depth = 0 THEN 0 ELSE engine.depth - 1
           /\ engine'.stray = engine.stray
           /\ engine'.early = IF engine.depth = 0 THEN engine.early ELSE engine.early + 1
    BY <1>1, <2>2, EngineMoves
  <2>4. LeaseCounts'
    BY <1>6, <1>7, <1>8, <2>1, <2>3 DEF LeaseCounts
  <2>5. QED
    BY <1>4, <2>4
<1>11. QED
  BY <1>9, <1>10

(* ds4-server is started again: nobody holds a lease of the new one.       *)
LEMMA RestartCounts ==
  ASSUME LeaseInv, RestartEngine
  PROVE  (LeaseHeld /\ LeaseCounts)'
<1>1. \A q \in Requests : /\ gen'[q].at = gen[q].at
                          /\ gen'[q].lease = IF gen[q].lease = "held" THEN "void" ELSE gen[q].lease
  BY RestartMoves DEF LeaseInv, MediaInv, Types
<1>2. LeaseHeld'
  BY <1>1 DEF LeaseInv, LeaseHeld
<1>3. Holders' = {}
  BY <1>1 DEF Holders
<1>4. Cardinality(Holders') = 0 /\ engine'.depth = 0 /\ engine'.stray = 0 /\ engine'.early = 0
  BY <1>3, FS_EmptySet DEF RestartEngine
<1>5. LeaseCounts'
  BY <1>4 DEF LeaseCounts
<1>6. QED
  BY <1>2, <1>5

(* ds4_engine_memory_pressure_end, media_memory_end: between two starts of *)
(* ds4-server the depth of its memory pressure exceeds the leases held by  *)
(* the requests that outlived their client or were lost, and falls short   *)
(* of them by the leases that were given before its start.                 *)
THEOREM LeaseCountsAlways == Spec => []LeaseCounts
<1>1. Init => LeaseInv
  <2> SUFFICES ASSUME Init PROVE LeaseInv
    OBVIOUS
  <2>1. \A r \in Requests : gen[r].lease = "none"
    BY DEF Init, NoGen
  <2>2. Holders = {} /\ engine.depth = 0 /\ engine.stray = 0 /\ engine.early = 0
    BY <2>1 DEF Holders, Init
  <2>3. QED
    BY <2>1, <2>2, MediaStarts, FS_EmptySet DEF LeaseInv, LeaseHeld, LeaseCounts
<1>2. LeaseInv /\ [Next]_vars => LeaseInv'
  <2> SUFFICES ASSUME LeaseInv, [Next]_vars PROVE LeaseInv'
    OBVIOUS
  <2>1. MediaInv'
    BY MediaNext DEF LeaseInv
  <2>2. GenType
    BY DEF LeaseInv, MediaInv, Types
  <2>3. ASSUME UNCHANGED <<gen, engine>> PROVE (LeaseHeld /\ LeaseCounts)'
    BY <2>3, LeaseKeeps DEF LeaseInv, LeaseHeld
  <2>4. ASSUME NEW r \in Requests, LeaseBegin(r) \/ LeaseEnd(r) PROVE (LeaseHeld /\ LeaseCounts)'
    BY <2>4, BeginCounts, EndCounts
  <2>5. ASSUME NEW r \in Requests, Generates(r), ~LeaseBegin(r), ~LeaseEnd(r) PROVE (LeaseHeld /\ LeaseCounts)'
    <3>1. /\ UNCHANGED engine /\ gen[r].at \notin {"drop", "wait"}
          /\ \/ gen[r].at = "check2" /\ (At(r, "drop") \/ At(r, "wait"))
             \/ gen[r].at # "check2" /\ \/ \E a \in Answers : Answer(r, a)
                                        \/ \E a \in GenAts : At(r, a)
      BY <2>5, Named DEF Generates, Claim, WriteToken, WriteSources, Prepared, BadSource, Unwritten, CheckPrepared,
         LeaseDenied, Run, Dropped, CheckDone, Judge, AnswerCancelled
    <3>2. /\ \A q \in Requests : gen'[q].lease = gen[q].lease
          /\ \A q \in Requests \ {r} : gen'[q].at = gen[q].at
      BY <2>2, <3>1, AtMoves, AnswerMoves, Named
    <3>3. gen[r].at = "check2" => gen'[r].at \in {"drop", "wait"}
      BY <2>2, <3>1, AtMoves, Named
    <3>4. LeaseHeld'
      BY <3>1, <3>2, <3>3 DEF LeaseInv, LeaseHeld
    <3>5. QED
      BY <3>1, <3>2, <3>4, LeaseKeeps
  <2>6. ASSUME NEW r \in Requests, NEW h \in Hosts, NEW i \in Ids, Admit(r, h, i) PROVE (LeaseHeld /\ LeaseCounts)'
    <3>1. UNCHANGED engine /\ gen[r].at = "idle" /\ gen' = [gen EXCEPT ![r] = [@ EXCEPT !.at = "claim", !.host = h, !.id = i]]
      BY <2>6 DEF Admit
    <3>2. /\ \A q \in Requests : gen'[q].lease = gen[q].lease
          /\ \A q \in Requests \ {r} : gen'[q].at = gen[q].at
      BY <2>2, <3>1 DEF GenType
    <3>3. LeaseHeld'
      BY <3>1, <3>2 DEF LeaseInv, LeaseHeld
    <3>4. QED
      BY <3>1, <3>2, <3>3, LeaseKeeps
  <2>7. (LeaseHeld /\ LeaseCounts)'
    <3>1. ASSUME NEW r \in Requests, Runs(r) \/ Loads(r) \/ Progress(r) \/ Unload(r) PROVE UNCHANGED <<gen, engine>>
      BY <3>1 DEF Unload, Runs, Loads, Progress, TakeLock, Boot, List, Look, Record, RunEnds, Terminate, Load, ChildEnds
    <3>2. ASSUME NEW h \in Hosts, Stops(h) \/ Closes(h) \/ Quit(h) \/ Die(h) PROVE UNCHANGED <<gen, engine>>
      BY <3>2 DEF Stops, Closes, Quit, Die, RequestCancel, SignalWorker, TellStopped, Visit, StopWorker, Exited
    <3>3. ASSUME NEW h \in Hosts, NEW i \in Ids, Stop(h, i) PROVE UNCHANGED <<gen, engine>>
      BY <3>3 DEF Stop
    <3>4. CASE Start \/ UNCHANGED vars
      BY <2>3, <3>4 DEF Start, vars
    <3>5. QED
      BY <2>3, <2>4, <2>5, <2>6, <3>1, <3>2, <3>3, <3>4, RestartCounts DEF Next, Done
  <2>8. QED
    BY <2>1, <2>7 DEF LeaseInv
<1>3. LeaseInv => LeaseCounts
  BY DEF LeaseInv
<1>4. QED
  BY <1>1, <1>2, <1>3, PTL DEF Spec
=============================================================================
