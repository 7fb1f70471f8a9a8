------------------------------ MODULE Checkout ------------------------------
(***************************************************************************)
(* The engine checkout as DStudio installs it, patches it, updates it and  *)
(* builds from it (dstudio_setup.c, dstudio_engine_install.c,              *)
(* dstudio_updates.c, run_build_jsonl and run_ext_script of dstudio.c,     *)
(* build-design.sh).                                                       *)
(*                                                                         *)
(* A job is the sequence of steps its function goes through, and a step is *)
(* one program run or one access to the checkout.  The host runs its jobs  *)
(* on its main thread, launch workers and the command line run theirs in   *)
(* processes of their own, and the user edits the same files: steps of all *)
(* of them interleave, every step may fail, which ends its job, and every  *)
(* process may die between two of them.  Only the two private builds take  *)
(* the build lock of the checkout.                                         *)
(*                                                                         *)
(* Left out: the engine that a setup stops and restarts (EngineHost), the  *)
(* receipt of a download, the model folder, the optional Qwen forks.       *)
(***************************************************************************)
EXTENDS Naturals, Sequences, SequencesExt

CONSTANTS
  Procs,     (* the host, a launch worker, the command line               *)
  Takes,     (* the jobs each of them runs                                *)
  Order,     (* the managed patches, in the order they are applied        *)
  Adapters,  (* those every launch applies by itself, in their order      *)
  Revs,      (* the revisions upstream offers, 0 .. n; 0 is the pin        *)
  Accepts,   (* the patches whose anchors a revision still has            *)
  Places,    (* where the user edits: "agent" for the Agent's sources,     *)
             (* "core" for a file the patches touch, a patch for its hunk *)
  MaxJobs, MaxEdits, (* bounds                                            *)
  Nobody, Orphan

Patches == ToSet(Order)

Jobs == {"setup", "latest", "verify", "chat", "agent", "design"}

ASSUME CheckoutAssumption ==
  /\ Takes \in [Procs -> SUBSET Jobs]
  /\ Order \in Seq(Patches) \ {<<>>} /\ IsInjective(Order) /\ Adapters \in Seq(Patches)
  /\ 0 \in Revs /\ Revs \subseteq Nat /\ Accepts \in [Revs -> SUBSET Patches]
  /\ Accepts[0] = Patches
  /\ Places \subseteq {"agent", "core"} \cup Patches
  /\ MaxJobs \in Nat /\ MaxEdits \in Nat
  /\ Nobody \notin Procs /\ Orphan \notin Procs \cup {Nobody}

VARIABLES
  dir,     (* what is at the path of the checkout                         *)
  src,     (* its sources: revision, patches applied, edits of the user    *)
  pair,    (* ds4-agent-jsonl, ds4-cowork and their version stamp         *)
  design,  (* ds4-design and its stamp                                    *)
  server,  (* ds4-server                                                  *)
  proc,    (* the processes                                               *)
  lock,    (* who holds .ds4ui-native-build.lock                          *)
  count    (* jobs started and edits made                                 *)

vars == <<dir, src, pair, design, server, proc, lock, count>>

(* What a build reads: of the Agent's sources, of everything else.         *)
AgentSource == <<src.rev, "agent" \in src.edits>>
CoreSource == <<src.rev, src.on, src.edits \ {"agent"}>>

None == [agent |-> <<>>, core |-> <<>>, job |-> 0, touched |-> {}]
NoDesign == [source |-> <<>>, job |-> 0]
NoServer == [on |-> {}, touched |-> FALSE]
Idle == [job |-> "none", id |-> 0, todo |-> <<>>, made |-> None,
         prepared |-> NoDesign, began |-> {}]

Init ==
  /\ dir \in {"absent", "empty", "foreign", "git"}
  /\ src = [rev |-> 0, on |-> {}, edits |-> {}]
  /\ pair = [agent |-> None, cowork |-> None, stamp |-> FALSE]
  /\ design = [binary |-> NoDesign, stamp |-> NoDesign]
  /\ server = NoServer
  /\ proc = [p \in Procs |-> Idle]
  /\ lock = Nobody
  /\ count = [jobs |-> 0, edits |-> 0]

Valid == dir \in {"git", "archive"}
-----------------------------------------------------------------------------
(* The jobs.                                                               *)

Apply(ps) == [i \in DOMAIN ps |-> <<"apply", ps[i]>>]
Adapt == Apply(Adapters)
Do(steps) == [i \in DOMAIN steps |-> <<steps[i], "none">>]

(* setup_restore_ds4_runtime_patches                                       *)
Restore == [i \in DOMAIN Order |-> <<"restore", Reverse(Order)[i]>>]

(* run_build_jsonl                                                         *)
BuildAgent ==
  Do(<<"lock">>) \o Adapt \o
  Do(<<"agent_fresh", "unstamp", "read", "compile", "link", "compare", "agent",
       "cowork", "stamp", "unlock">>)

(* run_ext_script of build-design.sh, and design_publish_stage             *)
BuildDesign ==
  Do(<<"lock", "snapshot", "design_fresh", "private", "same", "design",
       "receipt", "unlock">>)

(* api_setup_ds4, setup_install_engine of the main engine                  *)
Setup ==
  Do(<<"inspect", "download", "clear", "place">>) \o Apply(Order) \o Do(<<"make">>)
  \o BuildAgent \o BuildDesign
(* updates_run_patch_verify                                                *)
Verify == Apply(Order) \o Do(<<"anchors">>) \o BuildAgent \o BuildDesign
(* updates_run_ds4_latest                                                  *)
(* Faulty variant: the names of the changed files are proof enough.        *)
LatestOnNames ==
  Do(<<"status">>) \o Restore \o Do(<<"pull">>) \o Apply(Order)
  \o Do(<<"make">>) \o Verify
Latest ==
  Do(<<"status">>) \o Restore \o Do(<<"diff", "pull">>) \o Apply(Order)
  \o Do(<<"make">>) \o Verify
(* setup_ensure_server_metrics_runtime                                     *)
Chat == Adapt \o Do(<<"server_ready">>) \o Apply(Order) \o Do(<<"make_server", "ready">>)
Launch(j) == CASE j = "chat" -> Chat
               [] j = "agent" -> BuildAgent
               [] j = "design" -> Adapt \o BuildDesign
Steps(j) == CASE j = "setup" -> Setup
              [] j = "latest" -> Latest
              [] j = "verify" -> Verify
              [] OTHER -> Launch(j)

(* A process takes up a job; every one but a setup needs a valid checkout, *)
(* and updates a git one.                                                  *)
Start(p, j) ==
  /\ proc[p].todo = <<>> /\ j \in Takes[p] /\ count.jobs < MaxJobs
  /\ (j # "setup" => Valid) /\ (j = "latest" => dir = "git")
  /\ count' = [count EXCEPT !.jobs = @ + 1]
  /\ proc' = [proc EXCEPT ![p] = [Idle EXCEPT !.job = j, !.id = count'.jobs, !.todo = Steps(j),
                                  !.began = IF j = "latest" THEN src.edits ELSE {}]]
  /\ UNCHANGED <<dir, src, pair, design, server, lock>>

At(p, step) == proc[p].todo # <<>> /\ Head(proc[p].todo)[1] = step
Arg(p) == Head(proc[p].todo)[2]
(* The step is done, with what it left in its process.                     *)
Go(p, q) == proc' = [proc EXCEPT ![p] = IF q.todo = <<>> THEN Idle ELSE q]
Done(p) == Go(p, [proc[p] EXCEPT !.todo = Tail(@)])
Makes(p, b) == Go(p, [proc[p] EXCEPT !.todo = Tail(@), !.made = b])
Prepares(p, r) == Go(p, [proc[p] EXCEPT !.todo = Tail(@), !.prepared = r])
(* The steps up to the next one of this name are not needed.               *)
SkipTo(p, step) ==
  LET t == proc[p].todo
      n == CHOOSE i \in DOMAIN t : t[i][1] = step /\ \A k \in 1 .. i - 1 : t[k][1] # step
  IN  Go(p, [proc[p] EXCEPT !.todo = SubSeq(t, n, Len(t))])

(* Every failure ends the job; closing its descriptor gives the lock back. *)
(* Faulty variant: an early return forgets the descriptor.                 *)
GiveUpLocked(p) == proc' = [proc EXCEPT ![p] = Idle] /\ UNCHANGED lock
GiveUp(p) ==
  /\ proc' = [proc EXCEPT ![p] = Idle]
  /\ lock' = IF lock = p THEN Nobody ELSE lock
Fail(p) ==
  /\ proc[p].todo # <<>> /\ ~At(p, "unlock")
  /\ GiveUp(p)
  /\ UNCHANGED <<dir, src, pair, design, server, count>>
-----------------------------------------------------------------------------
(* The sources.                                                            *)

(* A file of the checkout is written: what was linked before is older than *)
(* it.  Times are compared in seconds; a link and a write of one second are *)
(* left out.                                                               *)
Older(b, parts) == IF b.job = 0 THEN b ELSE [b EXCEPT !.touched = @ \cup parts]
Written(parts, metal) ==
  /\ pair' = [pair EXCEPT !.agent = Older(@, parts), !.cowork = Older(@, parts)]
  /\ server' = [server EXCEPT !.touched = @ \/ (metal /\ server # NoServer)]
OlderMade(parts) == [q \in Procs |-> [proc[q] EXCEPT !.made = Older(@, parts)]]
(* The same for a step of p, which goes on.                                *)
DoneWriting(p, parts) ==
  proc' = [OlderMade(parts) EXCEPT
             ![p] = IF Len(@.todo) = 1 THEN Idle
                    ELSE [@ EXCEPT !.todo = Tail(proc[p].todo)]]

(* git apply checks the whole patch, in reverse and then forward, before it *)
(* writes: applied, applicable, or refused.                                *)
Applied(k) == k \in src.on /\ k \notin src.edits
Applicable(k) == k \notin src.on /\ k \in Accepts[src.rev] /\ k \notin src.edits

Unchanged(p) == Done(p) /\ UNCHANGED <<src, pair, server>>
ApplyStep(p) ==
  /\ At(p, "apply")
  /\ \/ Applied(Arg(p)) /\ Unchanged(p)
     \/ /\ Applicable(Arg(p))
        /\ src' = [src EXCEPT !.on = @ \cup {Arg(p)}]
        /\ Written({"core"}, Arg(p) \in ToSet(Adapters)) /\ DoneWriting(p, {"core"})
  /\ UNCHANGED <<dir, design, lock, count>>
RestoreStep(p) ==
  /\ At(p, "restore")
  /\ \/ Applicable(Arg(p)) /\ Unchanged(p)
     \/ /\ Applied(Arg(p))
        /\ src' = [src EXCEPT !.on = @ \ {Arg(p)}]
        /\ Written({"core"}, Arg(p) \in ToSet(Adapters)) /\ DoneWriting(p, {"core"})
  /\ UNCHANGED <<dir, design, lock, count>>

(* A setup looks at the path, and downloads unless it is a checkout; what  *)
(* is there and is not empty is the user's.                                *)
Inspect(p) ==
  /\ At(p, "inspect")
  /\ IF Valid THEN SkipTo(p, "apply") ELSE dir \in {"absent", "empty"} /\ Done(p)
  /\ UNCHANGED <<dir, src, pair, design, server, lock, count>>
Download(p) ==
  /\ At(p, "download") /\ Done(p)
  /\ UNCHANGED <<dir, src, pair, design, server, lock, count>>
(* setup_download_ds4_archive: an empty folder makes way, and the extracted *)
(* one is renamed into place, which the system refuses over files.          *)
Clear(p) ==
  /\ At(p, "clear") /\ dir \in {"absent", "empty"}
  /\ dir' = "absent" /\ Done(p)
  /\ UNCHANGED <<src, pair, design, server, lock, count>>
(* Faulty variant: whatever is there makes way.                            *)
PlaceAnyway(p) ==
  /\ At(p, "place") /\ dir' = "archive" /\ Done(p)
  /\ UNCHANGED <<src, pair, design, server, lock, count>>
Place(p) ==
  /\ At(p, "place") /\ dir \in {"absent", "empty"}
  /\ dir' = "archive" /\ Done(p)
  /\ UNCHANGED <<src, pair, design, server, lock, count>>

(* updates_ds4_dirty_is_only_managed looks at names, git diff at contents, *)
(* and the pull at upstream, which changes all the sources.                *)
Status(p) ==
  /\ At(p, "status") /\ "agent" \notin src.edits /\ Done(p)
  /\ UNCHANGED <<dir, src, pair, design, server, lock, count>>
Diff(p) ==
  /\ At(p, "diff") /\ src.edits = {} /\ src.on = {} /\ Done(p)
  /\ UNCHANGED <<dir, src, pair, design, server, lock, count>>
Pull(p) ==
  /\ At(p, "pull")
  /\ \/ Unchanged(p)
     \/ \E r \in Revs : /\ r > src.rev /\ src' = [src EXCEPT !.rev = r]
                       /\ Written({"agent", "core"}, TRUE)
                       /\ DoneWriting(p, {"agent", "core"})
  /\ UNCHANGED <<dir, design, lock, count>>

(* update_patch_anchor_failures: the Agent's own patches match its sources, *)
(* which only upstream and the user decide.                                *)
Anchors(p) ==
  /\ At(p, "anchors") /\ Done(p)
  /\ UNCHANGED <<dir, src, pair, design, server, lock, count>>
-----------------------------------------------------------------------------
(* ds4-server, built in place.                                             *)

(* setup_server_metrics_binary_ready looks for what the patches compile in. *)
ServerReady == Patches \subseteq server.on /\ ~server.touched
Made == server' = [on |-> src.on, touched |-> FALSE]

Make(p) ==
  /\ (At(p, "make") \/ At(p, "make_server")) /\ Made /\ Done(p)
  /\ UNCHANGED <<dir, src, pair, design, lock, count>>
CheckServer(p) ==
  /\ \/ At(p, "server_ready") /\ (IF ServerReady THEN Go(p, [proc[p] EXCEPT !.todo = <<>>])
                                  ELSE Done(p))
     \/ At(p, "ready") /\ ServerReady /\ Done(p)
  /\ UNCHANGED <<dir, src, pair, design, server, lock, count>>
-----------------------------------------------------------------------------
(* The private builds.                                                     *)

(* jsonl_build_lock: a busy checkout is not waited for.                    *)
TakeLock(p) ==
  /\ At(p, "lock") /\ lock = Nobody /\ lock' = p /\ Done(p)
  /\ UNCHANGED <<dir, src, pair, design, server, count>>
Unlock(p) ==
  /\ At(p, "unlock") /\ lock' = Nobody
  /\ Go(p, [proc[p] EXCEPT !.todo = Tail(@), !.made = None, !.prepared = NoDesign])
  /\ UNCHANGED <<dir, src, pair, design, server, count>>

(* Both binaries are newer than every source, and stamped with the version *)
(* of the patches.                                                         *)
AgentFresh ==
  /\ pair.stamp
  /\ \A b \in {pair.agent, pair.cowork} : b.job # 0 /\ b.touched = {}
LookAtPair(p) ==
  /\ At(p, "agent_fresh")
  /\ IF AgentFresh THEN SkipTo(p, "unlock") ELSE Done(p)
  /\ UNCHANGED <<dir, src, pair, design, server, lock, count>>
Unstamp(p) ==
  /\ At(p, "unstamp") /\ pair' = [pair EXCEPT !.stamp = FALSE] /\ Done(p)
  /\ UNCHANGED <<dir, src, design, server, lock, count>>
(* The Agent's sources are copied and patched; the rest is compiled where  *)
(* it is.                                                                  *)
Read(p) ==
  /\ At(p, "read") /\ Makes(p, [None EXCEPT !.agent = AgentSource])
  /\ UNCHANGED <<dir, src, pair, design, server, lock, count>>
Compile(p) ==
  /\ At(p, "compile") /\ Makes(p, [proc[p].made EXCEPT !.core = CoreSource])
  /\ UNCHANGED <<dir, src, pair, design, server, lock, count>>
Link(p) ==
  /\ At(p, "link") /\ Makes(p, [proc[p].made EXCEPT !.job = proc[p].id])
  /\ UNCHANGED <<dir, src, pair, design, server, lock, count>>
(* unified_source_unchanged, of the Agent's sources.                       *)
(* Faulty variant: what was read is trusted.                               *)
CompareNothing(p) ==
  /\ At(p, "compare") /\ Done(p)
  /\ UNCHANGED <<dir, src, pair, design, server, lock, count>>
Compare(p) ==
  /\ At(p, "compare") /\ proc[p].made.agent = AgentSource /\ Done(p)
  /\ UNCHANGED <<dir, src, pair, design, server, lock, count>>
Publish(p) ==
  /\ \/ At(p, "agent") /\ pair' = [pair EXCEPT !.agent = proc[p].made]
     \/ At(p, "cowork") /\ pair' = [pair EXCEPT !.cowork = proc[p].made]
     \/ At(p, "stamp") /\ pair' = [pair EXCEPT !.stamp = TRUE]
  /\ Done(p)
  /\ UNCHANGED <<dir, src, design, server, lock, count>>

(* build-design.sh works on a snapshot of all the sources and stamps their *)
(* digest and the digest of the binary; it looks at the sources again.     *)
Snapshot(p) ==
  /\ At(p, "snapshot") /\ Prepares(p, [source |-> src, job |-> 0])
  /\ UNCHANGED <<dir, src, pair, design, server, lock, count>>
(* binary_is_fresh                                                         *)
DesignFresh(s) ==
  /\ design.stamp.source = s
  /\ design.binary.job # 0 /\ design.stamp.job = design.binary.job
LookAtDesign(p) ==
  /\ At(p, "design_fresh")
  /\ IF DesignFresh(proc[p].prepared.source) THEN SkipTo(p, "unlock") ELSE Done(p)
  /\ UNCHANGED <<dir, src, pair, design, server, lock, count>>
Private(p) ==
  /\ At(p, "private")
  /\ Prepares(p, [proc[p].prepared EXCEPT !.job = proc[p].id])
  /\ UNCHANGED <<dir, src, pair, design, server, lock, count>>
Same(p) ==
  /\ At(p, "same") /\ proc[p].prepared.source = src /\ Done(p)
  /\ UNCHANGED <<dir, src, pair, design, server, lock, count>>
PublishDesign(p) ==
  /\ \/ At(p, "design") /\ design' = [design EXCEPT !.binary = proc[p].prepared]
     \/ At(p, "receipt") /\ design' = [design EXCEPT !.stamp = proc[p].prepared]
  /\ Done(p)
  /\ UNCHANGED <<dir, src, pair, server, lock, count>>
-----------------------------------------------------------------------------
(* What may happen at any time.                                            *)

(* A process dies.  What it started lives on, with the lock it inherited;  *)
(* what that still does stays in its private folder.                       *)
Die(p) ==
  /\ proc[p].todo # <<>>
  /\ proc' = [proc EXCEPT ![p] = Idle]
  /\ lock' \in (IF lock = p THEN {Nobody, Orphan} ELSE {lock})
  /\ UNCHANGED <<dir, src, pair, design, server, count>>
OrphanEnds ==
  /\ lock = Orphan /\ lock' = Nobody
  /\ UNCHANGED <<dir, src, pair, design, server, proc, count>>

Counted == count.edits < MaxEdits /\ count' = [count EXCEPT !.edits = @ + 1]
(* The user edits a source or takes an edit back, ...                      *)
Edit(x) ==
  LET parts == IF x = "agent" THEN {"agent"} ELSE {"core"}
      made == OlderMade(parts)
  IN  /\ Valid /\ Counted
      /\ IF x \in src.edits
         THEN /\ src' = [src EXCEPT !.edits = @ \ {x}]
              /\ proc' = [p \in Procs |-> [made[p] EXCEPT !.began = @ \ {x}]]
         ELSE src' = [src EXCEPT !.edits = @ \cup {x}] /\ proc' = made
      /\ Written(parts, FALSE)
      /\ UNCHANGED <<dir, design, lock>>
(* ... runs upstream's make, ...                                           *)
UserMakes ==
  /\ Valid /\ Counted /\ Made
  /\ UNCHANGED <<dir, src, pair, design, proc, lock>>
(* ... or puts files of his own where the checkout would go.               *)
UserFills ==
  /\ dir \in {"absent", "empty"} /\ Counted /\ dir' = "foreign"
  /\ UNCHANGED <<src, pair, design, server, proc, lock>>

Step(p) ==
  \/ ApplyStep(p) \/ RestoreStep(p)
  \/ Inspect(p) \/ Download(p) \/ Clear(p) \/ Place(p)
  \/ Status(p) \/ Diff(p) \/ Pull(p) \/ Anchors(p)
  \/ Make(p) \/ CheckServer(p)
  \/ TakeLock(p) \/ Unlock(p)
  \/ LookAtPair(p) \/ Unstamp(p) \/ Read(p) \/ Compile(p) \/ Link(p) \/ Compare(p)
  \/ Publish(p)
  \/ Snapshot(p) \/ LookAtDesign(p) \/ Private(p) \/ Same(p) \/ PublishDesign(p)

Next ==
  \/ \E p \in Procs : Step(p) \/ Fail(p) \/ Die(p) \/ \E j \in Jobs : Start(p, j)
  \/ OrphanEnds
  \/ (\E x \in Places : Edit(x)) \/ UserMakes \/ UserFills

Spec == Init /\ [][Next]_vars
(* Every program a job runs ends, with success or not.                     *)
Fairness == WF_vars(OrphanEnds) /\ \A p \in Procs : WF_vars(Step(p) \/ Fail(p))
FairSpec == Spec /\ Fairness
-----------------------------------------------------------------------------
(* A stamp vouches for a pair: ds4-agent-jsonl and ds4-cowork come from one *)
(* build, whatever died or failed between the two renames and whoever else *)
(* was building.  Hazard: run_build_jsonl_locked publishes in three steps.  *)
StampMeansPair == pair.stamp => pair.agent.job = pair.cowork.job

(* A pair that is found fresh was built from the Agent's sources as they   *)
(* are, although freshness is a comparison of times and sources may change *)
(* while they are compiled.  (Of the core sources this does not hold: they *)
(* are not looked at again after the build.)                               *)
AgentFreshIsCurrent ==
  AgentFresh => \A b \in {pair.agent, pair.cowork} : b.agent = AgentSource

(* A Design binary that is found fresh was built from the sources as they  *)
(* are, although binary and stamp are renamed one after the other and the  *)
(* sources may go back to what an older stamp says.                        *)
DesignFreshIsCurrent == DesignFresh(src) => design.binary.source = src

(* An update never pulls over an edit that was there when it began and     *)
(* still is: not over one in a file that the managed patches touch as well, *)
(* which the names of the changed files do not tell from a patch.          *)
PullsOverNothing ==
  [][src'.rev # src.rev => \A p \in Procs : At(p, "pull") => proc[p].began = {}]_vars

(* A setup never replaces what the user put at its path, however late.     *)
UserFilesStay == [][dir = "foreign" => dir' = "foreign"]_vars

(* The build lock is given back, whoever fails or dies: a later build is   *)
(* not refused for ever.                                                   *)
LockIsReleased == (lock # Nobody) ~> (lock = Nobody)
=============================================================================
