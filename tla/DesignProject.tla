--------------------------- MODULE DesignProject ---------------------------
(***************************************************************************)
(* The project of a Design session (ds4_design.c): its pages, the record   *)
(* the runtime keeps of them, and the tools the model calls.  The record   *)
(* is what the gates decide with: a page is registered as the artifact of  *)
(* the turn only with a finished plan, a clean check and a critique that   *)
(* passed.  The tools change the pages under it, and so does a shell job   *)
(* that a tool started and that outlives the call.                         *)
(*                                                                         *)
(* The model calls any tool at any time.  What a check, a render or a      *)
(* grader finds is free; the text of a page is its content, and a content  *)
(* shows the wording the user asked for or does not.                       *)
(***************************************************************************)
EXTENDS Naturals, FiniteSets

CONSTANTS
  Pages,     (* the HTML entries                                           *)
  Contents,  (* what a page may contain: a content stands for its hash     *)
  Worded,    (* the contents that show the exact wording                   *)
  None

ASSUME DesignAssumption ==
  /\ Worded \subseteq Contents
  /\ None \notin Pages \cup Contents

VARIABLES
  project,  (* the record: plan, phase, latest critique, cached verdict,   *)
            (* the page whose layout must be measured, required wording    *)
  files,    (* the pages on disk                                           *)
  shell,    (* whether a shell job was left running                        *)
  call,     (* the call that just succeeded, if the last step was one      *)
  owed,     (* pages with a geometric finding nobody has measured since    *)
  reviewed  (* what the critiques and the graders have said of the pages   *)
            (* as the tools last left them, kept beside the record         *)

projectVars == <<project, files, shell, call, owed, reviewed>>

Verdicts == {"good", "flawed", "broken"}

NoCritique == [of |-> None, pass |-> FALSE]
NoVerdict == [of |-> None, sha |-> None, grade |-> "good"]
NoCall == [tool |-> "none", page |-> None, owed |-> {}]

(* The pages that passed their last critique and were not written since;   *)
(* the pages whose render was graded with nothing changed since that it    *)
(* shows.                                                                  *)
NotReviewed == [passed |-> {}, graded |-> {}]
Rewritten(p) == [passed |-> reviewed.passed \ {p}, graded |-> reviewed.graded \ {p}]
Unrendered == [reviewed EXCEPT !.graded = {}]
Critiqued(p, pass) ==
  [reviewed EXCEPT !.passed = IF pass THEN @ \cup {p} ELSE @ \ {p}]
Graded(p) == [reviewed EXCEPT !.graded = @ \cup {p}]

(* planned: this run wrote a plan.                                         *)
EmptyProject ==
  [todos |-> "none", planned |-> FALSE, phase |-> "idle", stop |-> FALSE,
   critique |-> NoCritique, verdict |-> NoVerdict, evidence |-> None, copy |-> FALSE]

(* design_project_bootstrap: a new process knows nothing of the last one.  *)
ProjectInit ==
  /\ project = EmptyProject
  /\ files = [p \in Pages |-> None]
  /\ shell = "none" /\ call = NoCall /\ owed = {} /\ reviewed = NotReviewed
-----------------------------------------------------------------------------
(* A run.                                                                  *)

(* design_project_start_run: the plan of the run before is dropped, the    *)
(* wording of the message is added to the wording of the session.          *)
Started(literal) ==
  [project EXCEPT !.stop = FALSE, !.todos = "none", !.planned = FALSE,
                  !.phase = "building", !.copy = @ \/ literal]

(* design_project_finish_run                                               *)
Finished(p) ==
  [p EXCEPT !.phase = IF @ = "waiting_user" THEN @ ELSE "idle"]

(* /new: the plan and the wording go, what is known of the pages stays.    *)
Renewed == [project EXCEPT !.todos = "none", !.copy = FALSE]
-----------------------------------------------------------------------------
(* The gates of execute_tool_calls.                                        *)

Tools == {"read", "todo_write", "write", "edit", "support", "generate_image", "generate_video",
          "verify_artifact", "critique_write", "artifact", "question", "propose",
          "inspect_layout", "see_page", "bash", "bash_stop"}

(* design_todo_prerequisite_blocks_tool                                    *)
NeedsPlan == {"write", "edit", "support", "generate_image", "generate_video",
              "verify_artifact", "critique_write", "artifact"}

(* design_layout_evidence_blocks_tool                                      *)
NeedsMeasure == NeedsPlan \cup {"see_page", "bash"}

Blocked(t) ==
  \/ project.todos = "none" /\ t \in NeedsPlan
  \/ project.evidence # None /\ t \in NeedsMeasure

Returned(t, p) == [tool |-> t, page |-> p, owed |-> owed]
Succeeded == call.tool # "none"

(* A call that is refused, or that fails before it changes anything.       *)
Fails ==
  /\ call' = NoCall
  /\ UNCHANGED <<project, files, shell, owed, reviewed>>

Returns(t, p) == call' = Returned(t, p)
-----------------------------------------------------------------------------
(* The page tools.                                                         *)

(* read, more, search, list, the packs and the web tools change nothing    *)
(* the gates look at.                                                      *)
Read == Returns("read", None) /\ UNCHANGED <<project, files, shell, owed, reviewed>>

(* tool_todo_write: the list that is sent replaces the plan; an empty one  *)
(* is no plan.  A step in progress puts the phase back to building.        *)
TodoWrite(plan, busy) ==
  /\ busy => plan = "open"
  /\ project' = [project EXCEPT
       !.todos = plan, !.planned = TRUE,
       !.phase = IF busy THEN "building" ELSE @]
  /\ Returns("todo_write", None) /\ UNCHANGED <<files, shell, owed, reviewed>>

(* design_project_invalidate_critique                                      *)
(* Faulty variant: the critique survives the change it did not see.        *)
CritiqueSurvives(p) == project.critique
CritiqueAfter(p) ==
  IF project.critique.of = p THEN NoCritique ELSE project.critique

(* design_verify_after: a write or an edit drops the critique of the page  *)
(* and the verdict on its render.                                          *)
Changed(p) ==
  [project EXCEPT
     !.critique = CritiqueAfter(p),
     !.verdict = IF @.of = p THEN NoVerdict ELSE @]

(* tool_write: the file is replaced by a rename.                           *)
Write(p, c) ==
  /\ files' = [files EXCEPT ![p] = c]
  /\ project' = Changed(p) /\ reviewed' = Rewritten(p)
  /\ Returns("write", p) /\ UNCHANGED <<shell, owed>>

(* tool_edit: the anchored text must be in the file, once.                 *)
Edit(p, c) ==
  /\ files[p] # None
  /\ files' = [files EXCEPT ![p] = c]
  /\ project' = Changed(p) /\ reviewed' = Rewritten(p)
  /\ Returns("edit", p) /\ UNCHANGED <<shell, owed>>

(* A write to a file that is no page, a linked stylesheet, is not looked   *)
(* at: the critique and the verdict stay.                                  *)
WriteSupport == Returns("support", None) /\ UNCHANGED <<project, files, shell, owed, reviewed>>

(* Any page may show a new asset, so the verdict on a render goes.         *)
(* Faulty variant: the verdict stays.                                      *)
GeneratedSilently == project
Generated == [project EXCEPT !.verdict = NoVerdict]

GenerateImage ==
  /\ project' = Generated /\ reviewed' = Unrendered
  /\ Returns("generate_image", None) /\ UNCHANGED <<files, shell, owed>>

GenerateVideo ==
  /\ project' = Generated /\ reviewed' = Unrendered
  /\ Returns("generate_video", None) /\ UNCHANGED <<files, shell, owed>>
-----------------------------------------------------------------------------
(* Checks.                                                                 *)

(* design_artifact_check: the entry must exist and show every wording that *)
(* is required; the rest of the lint is free.                              *)
StaticErrors(p, lint) ==
  files[p] = None \/ (project.copy /\ files[p] \notin Worded) \/ lint

(* design_geometry_gate: nothing is rendered once there are errors.  A     *)
(* width that cannot be rendered is an error; one with a finding is too,   *)
(* unless it is only cramped, and asks for a measurement.                  *)
GeometryFindings(errors) ==
  IF errors THEN {[errors |-> TRUE, finding |-> FALSE]}
  ELSE {[errors |-> FALSE, finding |-> FALSE], [errors |-> TRUE, finding |-> FALSE],
        [errors |-> FALSE, finding |-> TRUE], [errors |-> TRUE, finding |-> TRUE]}

(* design_visual_gate: the verdict on this content is used again, else the *)
(* page is rendered and graded; the grader may be missing.                 *)
VerdictHits(p) ==
  /\ files[p] # None
  /\ project.verdict.of = p /\ project.verdict.sha = files[p]

(* design_visual_has_complete_grades: a verdict that leaves a criterion    *)
(* out replaces the last one and is never used again itself.               *)
Fresh(p, g, complete) ==
  IF complete THEN [of |-> p, sha |-> files[p], grade |-> g] ELSE NoVerdict

(* A grade given to a render made now, and what is kept of it; no render.  *)
Renders(p) ==
  {[verdict |-> Fresh(p, g, complete), grade |-> g, seen |-> TRUE] :
     g \in Verdicts, complete \in BOOLEAN}
Skipped == [verdict |-> project.verdict, grade |-> "good", seen |-> FALSE]

VerdictsOn(p) ==
  IF files[p] = None THEN {Skipped}
  ELSE IF VerdictHits(p)
       THEN {[verdict |-> project.verdict, grade |-> project.verdict.grade, seen |-> FALSE]}
       ELSE Renders(p) \cup {Skipped}

(* The three passes together: whether there are errors, whether a          *)
(* measurement is asked for, the verdict that is kept, and whether it is   *)
(* of a render made for this check.                                        *)
Reports(p) ==
  {[errors |-> geo.errors \/ vis.grade = "broken",
    finding |-> geo.finding \/ vis.grade # "good",
    verdict |-> vis.verdict, seen |-> vis.seen] :
     geo \in UNION {GeometryFindings(StaticErrors(p, lint)) : lint \in BOOLEAN},
     vis \in VerdictsOn(p)}

Checked(p, r) ==
  [project EXCEPT !.verdict = r.verdict,
                  !.evidence = IF r.finding THEN p ELSE @]

OwedAfter(p, r) == IF r.finding THEN owed \cup {p} ELSE owed
ReviewedAfter(p, r) == IF r.seen THEN Graded(p) ELSE reviewed

VerifyArtifact(p) ==
  \E r \in Reports(p) :
    /\ project' = Checked(p, r) /\ owed' = OwedAfter(p, r) /\ reviewed' = ReviewedAfter(p, r)
    /\ Returns("verify_artifact", p) /\ UNCHANGED <<files, shell>>

(* tool_critique_write: the page must exist; nothing else is asked.        *)
CritiqueWrite(p, pass) ==
  /\ files[p] # None
  /\ project' = [project EXCEPT !.critique = [of |-> p, pass |-> pass]]
  /\ reviewed' = Critiqued(p, pass)
  /\ Returns("critique_write", p) /\ UNCHANGED <<files, shell, owed>>

(* design_project_critique_passes                                          *)
CritiquePasses(p) == project.critique.of = p /\ project.critique.pass

(* tool_artifact: the plan is finished, the checks are clean, the critique *)
(* passed; the manifest is written and the turn is to stop.  What the      *)
(* checks learned stays when the page is refused.                          *)
Artifact(p) ==
  /\ files[p] # None /\ project.todos # "open"
  /\ \E r \in Reports(p), written \in BOOLEAN :
       LET ok == ~r.errors /\ CritiquePasses(p) /\ written
       IN /\ project' = [Checked(p, r) EXCEPT
               !.phase = IF ok THEN "artifact_ready" ELSE @, !.stop = ok]
          /\ owed' = OwedAfter(p, r) /\ reviewed' = ReviewedAfter(p, r)
          /\ call' = IF ok THEN Returned("artifact", p) ELSE NoCall
  /\ UNCHANGED <<files, shell>>

Waiting == [project EXCEPT !.phase = "waiting_user", !.stop = TRUE]

Question ==
  /\ project' = Waiting
  /\ Returns("question", None) /\ UNCHANGED <<files, shell, owed, reviewed>>

(* tool_propose: every direction it names must be a file.                  *)
Propose ==
  /\ \E p \in Pages : files[p] # None
  /\ project' = Waiting
  /\ Returns("propose", None) /\ UNCHANGED <<files, shell, owed, reviewed>>

(* design_tool_inspect_layout: a measurement of the page that was named,   *)
(* and of no other, opens the gate again.                                  *)
(* Faulty variant: a measurement of any page opens it.                     *)
MeasuredAnything(p) == None
EvidenceAfter(p) == IF project.evidence = p THEN None ELSE project.evidence

InspectLayout(p) ==
  /\ files[p] # None
  /\ project' = [project EXCEPT !.evidence = EvidenceAfter(p)]
  /\ owed' = owed \ {p}
  /\ Returns("inspect_layout", p) /\ UNCHANGED <<files, shell, reviewed>>

(* design_tool_see_page: always a fresh render, whose verdict is kept for  *)
(* the gates.                                                              *)
SeePage(p) ==
  /\ files[p] # None
  /\ \E vis \in Renders(p) :
       LET r == [verdict |-> vis.verdict, finding |-> vis.grade # "good"]
       IN project' = Checked(p, r) /\ owed' = OwedAfter(p, r)
  /\ reviewed' = Graded(p)
  /\ Returns("see_page", p) /\ UNCHANGED <<files, shell>>
-----------------------------------------------------------------------------
(* Shell jobs.                                                             *)

(* design_bash_start and the wait for it: the job writes what it likes,    *)
(* and is left running when the wait is over.                              *)
Bash(p, c) ==
  /\ files' = [files EXCEPT ![p] = c]
  /\ shell' \in {shell, "running"}
  /\ Returns("bash", None) /\ UNCHANGED <<project, owed, reviewed>>

(* bash_status, bash_stop: the job may have ended; a stopped one gets a     *)
(* second, then it is killed.  Another one may still run.                  *)
BashStop ==
  /\ shell' \in {shell, "none"}
  /\ Returns("bash_stop", None) /\ UNCHANGED <<project, files, owed, reviewed>>

(* A job that was left running goes on writing, whoever holds the turn.    *)
ShellWrites(p, c) ==
  /\ shell = "running"
  /\ files' = [files EXCEPT ![p] = c]
  /\ call' = NoCall /\ UNCHANGED <<project, shell, owed, reviewed>>

ShellEnds ==
  /\ shell = "running" /\ shell' = "none"
  /\ call' = NoCall /\ UNCHANGED <<project, files, owed, reviewed>>
-----------------------------------------------------------------------------
(* execute_tool_call: one call of the model.                               *)
Executes(t, p) ==
  \/ t = "read" /\ Read
  \/ t = "todo_write" /\ \E plan \in {"none", "open", "done"}, busy \in BOOLEAN : TodoWrite(plan, busy)
  \/ t = "write" /\ \E c \in Contents : Write(p, c)
  \/ t = "edit" /\ \E c \in Contents : Edit(p, c)
  \/ t = "support" /\ WriteSupport
  \/ t = "generate_image" /\ GenerateImage
  \/ t = "generate_video" /\ GenerateVideo
  \/ t = "verify_artifact" /\ VerifyArtifact(p)
  \/ t = "critique_write" /\ \E pass \in BOOLEAN : CritiqueWrite(p, pass)
  \/ t = "artifact" /\ Artifact(p)
  \/ t = "question" /\ Question
  \/ t = "propose" /\ Propose
  \/ t = "inspect_layout" /\ InspectLayout(p)
  \/ t = "see_page" /\ SeePage(p)
  \/ t = "bash" /\ \E c \in Contents : Bash(p, c)
  \/ t = "bash_stop" /\ BashStop

Called(t, p) ==
  /\ ~project.stop
  /\ IF Blocked(t) THEN Fails ELSE Executes(t, p) \/ Fails

StartRun(literal) ==
  /\ project' = Started(literal)
  /\ call' = NoCall /\ UNCHANGED <<files, shell, owed, reviewed>>

FinishRun ==
  /\ project' = Finished(project)
  /\ call' = NoCall /\ UNCHANGED <<files, shell, owed, reviewed>>

(* A new process: the pages stay, a shell job is killed with the old one.  *)
Reboot ==
  /\ project' = EmptyProject
  /\ shell' = "none" /\ call' = NoCall /\ owed' = {} /\ files' = files
  /\ reviewed' = NotReviewed

ProjectNext ==
  \/ \E literal \in BOOLEAN : StartRun(literal)
  \/ \E t \in Tools, p \in Pages : Called(t, p)
  \/ FinishRun
  \/ \E p \in Pages, c \in Contents : ShellWrites(p, c)
  \/ ShellEnds
  \/ Reboot

ProjectSpec == ProjectInit /\ [][ProjectNext]_projectVars
-----------------------------------------------------------------------------
ProjectTypeOK ==
  /\ project \in [todos : {"none", "open", "done"}, planned : BOOLEAN,
                  phase : {"idle", "building", "waiting_user", "artifact_ready"},
                  stop : BOOLEAN,
                  critique : [of : Pages \cup {None}, pass : BOOLEAN],
                  verdict : [of : Pages \cup {None}, sha : Contents \cup {None},
                             grade : Verdicts],
                  evidence : Pages \cup {None}, copy : BOOLEAN]
  /\ files \in [Pages -> Contents \cup {None}]
  /\ shell \in {"none", "running"}
  /\ call \in [tool : Tools \cup {"none"}, page : Pages \cup {None}, owed : SUBSET Pages]
  /\ owed \subseteq Pages
  /\ reviewed \in [passed : SUBSET Pages, graded : SUBSET Pages]

Registers == call.tool = "artifact"

(* What tool_artifact registers was planned in this very run, and passed   *)
(* the last critique that was written of it, with no write and no edit of  *)
(* it since: whatever pages were written, critiqued and checked between.   *)
RegisteredIsEarned ==
  Registers => project.planned /\ call.page \in reviewed.passed

(* After a geometric finding on a page no call changes a page, grades one  *)
(* or signs one off until inspect_layout has measured that page.           *)
MeasuredBeforeChanged ==
  call.tool \in NeedsMeasure => call.owed = {}

(* A verdict the gates would use again is of a render that nothing has     *)
(* changed since: neither write and edit the page, nor generate_image and  *)
(* generate_video an asset it may show.                                    *)
VerdictIsCurrent ==
  \A p \in Pages : VerdictHits(p) => p \in reviewed.graded
=============================================================================
