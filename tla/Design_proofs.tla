---------------------------- MODULE Design_proofs ----------------------------
(***************************************************************************)
(* The Design agent, for any context and transcript, any set of pages and  *)
(* contents and any number of conversations.                               *)
(*                                                                         *)
(*   - What a compaction keeps of a transcript (DesignContext).            *)
(*   - The gates of a project: what is registered was earned, a finding is *)
(*     measured before anything is changed, and no verdict is used again   *)
(*     after a change of what it is about (DesignProject).                 *)
(*   - The sessions of a process keep to their files, whatever the loops   *)
(*     and the tools do between them (DesignRun).                          *)
(***************************************************************************)
EXTENDS DesignRun, DesignContext, FiniteSetTheorems, WellFoundedInduction,
        SequenceTheorems, TLAPS

(* The share of the context that is kept is a positive number.             *)
LEMMA TailBudgetType == TailBudget \in Nat \ {0}
<1>1. Context \div TailDivisor \in Nat
  BY ContextAssumption
<1>2. Budget \in Nat
  BY <1>1, ContextAssumption DEF Budget, Least
<1> QED
  BY <1>2 DEF TailBudget

(* The share lies between the system prompt and the end of the transcript. *)
LEMMA TargetInTranscript ==
  ASSUME NEW bottom \in Nat, NEW sys \in Nat, sys <= bottom
  PROVE  /\ Target(bottom, sys) \in Nat
         /\ sys <= Target(bottom, sys)
         /\ Target(bottom, sys) <= bottom
         /\ bottom - Target(bottom, sys) <= TailBudget
<1>1. CASE bottom < sys + TailBudget
  BY <1>1, TailBudgetType DEF Target
<1>2. CASE ~(bottom < sys + TailBudget)
  BY <1>2, TailBudgetType DEF Target
<1> QED
  BY <1>1, <1>2

(* A set of natural numbers that is not empty has a least element: of the  *)
(* intervals 0 .. i, the one that is minimal under inclusion.              *)
LEMMA LeastElement ==
  ASSUME NEW S \in SUBSET Nat, S # {}
  PROVE  \E i \in S : \A j \in S : i <= j
<1> DEFINE R == StrictSubsetOrdering(Nat)
           Below == {0 .. i : i \in S}
<1>1. Below \subseteq FiniteSubsetsOf(Nat) /\ Below # {}
  <2>1. ASSUME NEW i \in S PROVE 0 .. i \in FiniteSubsetsOf(Nat)
    BY FS_Interval DEF FiniteSubsetsOf
  <2> QED
    BY <2>1
<1>2. IsWellFoundedOn(R, FiniteSubsetsOf(Nat))
  BY FS_StrictSubsetOrderingWellFounded
<1>3. PICK X \in Below : \A Y \in Below : <<Y, X>> \notin R
  <2> HIDE DEF R, Below
  <2> QED
    BY <1>1, <1>2, WFMin
<1>4. PICK i \in S : X = 0 .. i
  OBVIOUS
<1>5. ASSUME NEW j \in S, ~(i <= j)
      PROVE  FALSE
  <2>1. 0 .. j \subseteq X
    BY <1>4, <1>5
  <2>2. i \in X /\ i \notin 0 .. j
    BY <1>4, <1>5
  <2>3. <<0 .. j, X>> \in R
    BY <2>1, <2>2, <1>4 DEF StrictSubsetOrdering
  <2> QED
    BY <2>3, <1>3
<1> QED
  BY <1>5

(* TailStart is the target, or the first user message after it.            *)
LEMMA TailStartIsFirst ==
  ASSUME NEW Tokens, NEW transcript \in Seq(Tokens), NEW sys \in Nat, sys <= Len(transcript)
  PROVE  LET start == TailStart(transcript, sys)
             users == UserFrom(transcript, Target(Len(transcript), sys))
         IN IF users = {} THEN start = Target(Len(transcript), sys)
            ELSE start \in users /\ \A j \in users : start <= j
<1> DEFINE target == Target(Len(transcript), sys)
           users == UserFrom(transcript, target)
           IsFirst(i) == \A j \in users : i <= j
<1>1. CASE users = {}
  BY <1>1 DEF TailStart
<1>2. CASE users # {}
  <2>1. Len(transcript) \in Nat
    OBVIOUS
  <2>2. users \in SUBSET Nat
    BY <2>1, TargetInTranscript DEF UserFrom
  <2>3. \E i \in users : IsFirst(i)
    BY <1>2, <2>2, LeastElement
  <2>4. TailStart(transcript, sys) = CHOOSE i \in users : IsFirst(i)
    BY <1>2 DEF TailStart
  <2> HIDE DEF users, IsFirst
  <2>5. TailStart(transcript, sys) \in users /\ IsFirst(TailStart(transcript, sys))
    BY <2>3, <2>4
  <2> QED
    BY <1>2, <2>5 DEF users, IsFirst
<1> QED
  BY <1>1, <1>2

(* However long the transcript has become, a compaction keeps at most      *)
(* TailBudget tokens of it verbatim, all of them after the system prompt.  *)
THEOREM TailAlwaysBounded ==
  ASSUME NEW Tokens, NEW transcript \in Seq(Tokens), NEW sys \in Nat, sys <= Len(transcript)
  PROVE  TailIsBounded(transcript, sys)
<1> DEFINE target == Target(Len(transcript), sys)
           start == TailStart(transcript, sys)
           users == UserFrom(transcript, target)
<1>1. Len(transcript) \in Nat
  OBVIOUS
<1>2. target \in Nat /\ sys <= target /\ target <= Len(transcript)
      /\ Len(transcript) - target <= TailBudget
  BY <1>1, TargetInTranscript
<1>3. start \in target .. Len(transcript)
  <2>1. CASE users = {}
    BY <1>1, <1>2, <2>1, TailStartIsFirst
  <2>2. CASE users # {}
    <3>1. start \in users
      BY <2>2, TailStartIsFirst
    <3> QED
      BY <1>1, <1>2, <3>1 DEF UserFrom
  <2> QED
    BY <2>1, <2>2
<1> QED
  BY <1>1, <1>2, <1>3, TailBudgetType DEF TailIsBounded

(* A compaction never cuts a message of the user that begins within the    *)
(* share: the tail begins with the first of them, and if there is none     *)
(* with the share itself.                                                  *)
THEOREM TailAlwaysBeginsWithUser ==
  ASSUME NEW Tokens, NEW transcript \in Seq(Tokens), NEW sys \in Nat, sys <= Len(transcript)
  PROVE  TailBeginsWithUser(transcript, sys)
<1> DEFINE target == Target(Len(transcript), sys)
           start == TailStart(transcript, sys)
           users == UserFrom(transcript, target)
<1>1. Len(transcript) \in Nat /\ target \in Nat
  BY TargetInTranscript
<1>2. CASE users = {}
  <2>1. start = target
    BY <1>2, TailStartIsFirst
  <2>2. ~ \E i \in target .. Len(transcript) - 1 : transcript[i + 1] = User
    BY <1>2 DEF UserFrom
  <2> QED
    BY <2>1, <2>2 DEF TailBeginsWithUser
<1>3. CASE users # {}
  <2>1. start \in users /\ \A j \in users : start <= j
    BY <1>3, TailStartIsFirst
  <2>2. start \in target .. Len(transcript) - 1 /\ transcript[start + 1] = User
    BY <2>1 DEF UserFrom
  <2>3. ASSUME NEW i \in target .. start - 1
        PROVE  transcript[i + 1] # User
    <3>1. i \in target .. Len(transcript) - 1 /\ ~(start <= i)
      BY <1>1, <2>2
    <3>2. i \notin users
      BY <2>1, <3>1
    <3> QED
      BY <3>1, <3>2 DEF UserFrom
  <2> QED
    BY <2>2, <2>3 DEF TailBeginsWithUser
<1> QED
  BY <1>2, <1>3

(* A compaction bounds the transcript by the prompt, the summary, the share *)
(* of the context and the report of the jobs, whatever it was before.      *)
THEOREM CompactedAlwaysBounded ==
  ASSUME NEW Tokens, NEW transcript \in Seq(Tokens), NEW system \in Seq(Tokens),
         NEW summary \in Seq(Tokens), NEW jobs \in Seq(Tokens),
         ~NothingToCompact(transcript, system)
  PROVE  CompactedIsBounded(transcript, system, summary, jobs)
<1> DEFINE sys == Len(system)
           start == TailStart(transcript, sys)
           tail == KeptTail(transcript, sys)
<1>1. sys \in Nat /\ Len(transcript) \in Nat /\ sys <= Len(transcript)
  BY DEF NothingToCompact
<1>2. start \in sys .. Len(transcript) /\ Len(transcript) - start <= TailBudget
  BY <1>1, TailAlwaysBounded DEF TailIsBounded
<1>3. tail \in Seq(Tokens) /\ Len(tail) = Len(transcript) - start
  <2>1. start + 1 \in Nat /\ 1 <= start + 1 /\ start + 1 <= Len(transcript) + 1
    BY <1>1, <1>2
  <2>2. \A i \in start + 1 .. Len(transcript) : transcript[i] \in Tokens
    BY <2>1
  <2>3. tail = SubSeq(transcript, start + 1, Len(transcript))
    BY DEF KeptTail
  <2> HIDE DEF start, tail, sys
  <2>4. /\ tail \in Seq(Tokens)
        /\ Len(tail) = IF start + 1 <= Len(transcript) THEN Len(transcript) - (start + 1) + 1 ELSE 0
    BY <1>1, <2>1, <2>2, <2>3, SubSeqProperties
  <2> QED
    BY <1>1, <1>2, <2>4
<1>4. Len(system \o summary \o tail \o jobs) = Len(system) + Len(summary) + Len(tail) + Len(jobs)
  <2> HIDE DEF tail
  <2> QED
    BY <1>3
<1> QED
  BY <1>1, <1>2, <1>3, <1>4, TailBudgetType DEF CompactedIsBounded, Compacted
-----------------------------------------------------------------------------
(* A plan belongs to the run that wrote it; a critique that is on record   *)
(* as passed, and a verdict that is kept, still hold of their pages; the   *)
(* only page that can owe a measurement is the one the gate asks for.      *)
PlanIsOfThisRun == project.todos # "none" => project.planned
ReviewsHold ==
  /\ project.critique.pass => project.critique.of \in reviewed.passed
  /\ project.verdict.of # None => project.verdict.of \in reviewed.graded
OwedIsAsked == owed \subseteq {project.evidence} \ {None}

ProjectInv ==
  /\ ProjectTypeOK
  /\ PlanIsOfThisRun
  /\ ReviewsHold
  /\ OwedIsAsked

(* The parts of the state that a step which is no check leaves consistent. *)
Earned ==
  /\ RegisteredIsEarned
  /\ MeasuredBeforeChanged
-----------------------------------------------------------------------------
(* What a render leaves: a verdict on this page, or none.                  *)
LEMMA RendersType ==
  ASSUME ProjectTypeOK, NEW p \in Pages, NEW vis \in Renders(p)
  PROVE  /\ vis.verdict \in [of : Pages \cup {None}, sha : Contents \cup {None}, grade : Verdicts]
         /\ vis.verdict.of \in {p, None} /\ vis.grade \in Verdicts
<1>1. PICK g \in Verdicts, complete \in BOOLEAN :
        vis = [verdict |-> Fresh(p, g, complete), grade |-> g, seen |-> TRUE]
  BY DEF Renders
<1>2. /\ Fresh(p, g, complete) \in [of : Pages \cup {None}, sha : Contents \cup {None}, grade : Verdicts]
      /\ Fresh(p, g, complete).of \in {p, None}
  BY DEF Fresh, NoVerdict, Verdicts, ProjectTypeOK
<1> QED
  BY <1>1, <1>2

(* What the three passes of design_artifact_check may report.              *)
LEMMA ReportsType ==
  ASSUME ProjectTypeOK, NEW p \in Pages, NEW r \in Reports(p)
  PROVE  /\ r.errors \in BOOLEAN /\ r.finding \in BOOLEAN /\ r.seen \in BOOLEAN
         /\ r.verdict \in [of : Pages \cup {None}, sha : Contents \cup {None}, grade : Verdicts]
         /\ r.verdict = project.verdict \/ (r.seen /\ r.verdict.of \in {p, None})
<1>1. PICK geo \in UNION {GeometryFindings(StaticErrors(p, lint)) : lint \in BOOLEAN},
           vis \in VerdictsOn(p) :
           r = [errors |-> geo.errors \/ vis.grade = "broken",
                finding |-> geo.finding \/ vis.grade # "good",
                verdict |-> vis.verdict, seen |-> vis.seen]
  BY DEF Reports
<1>2. /\ r.errors \in BOOLEAN /\ r.finding \in BOOLEAN
      /\ r.verdict = vis.verdict /\ r.seen = vis.seen
  BY <1>1
<1>3. /\ vis.seen \in BOOLEAN
      /\ vis.verdict = project.verdict \/ (vis.seen /\ vis \in Renders(p))
  <2>1. \A v \in Renders(p) : v.seen = TRUE
    BY DEF Renders
  <2>2. Skipped.verdict = project.verdict /\ Skipped.seen \in BOOLEAN
    BY DEF Skipped
  <2>3. CASE vis = Skipped
    BY <2>2, <2>3
  <2>4. CASE vis # Skipped
    <3>1. vis \in Renders(p) \/
          vis = [verdict |-> project.verdict, grade |-> project.verdict.grade, seen |-> FALSE]
      BY <2>4 DEF VerdictsOn
    <3>2. CASE vis \in Renders(p)
      BY <2>1, <3>2
    <3>3. CASE vis = [verdict |-> project.verdict, grade |-> project.verdict.grade, seen |-> FALSE]
      BY <3>3
    <3> QED
      BY <3>1, <3>2, <3>3
  <2> QED
    BY <2>3, <2>4
<1>4. project.verdict \in [of : Pages \cup {None}, sha : Contents \cup {None}, grade : Verdicts]
  BY DEF ProjectTypeOK
<1> QED
  BY <1>2, <1>3, <1>4, RendersType

(* A check keeps the record well formed, and asks for the measurement of   *)
(* the page it found wanting when none was asked for before.               *)
LEMMA CheckedKeeps ==
  ASSUME ProjectInv, project.evidence = None, NEW p \in Pages,
         NEW v \in [of : Pages \cup {None}, sha : Contents \cup {None}, grade : Verdicts],
         NEW f \in BOOLEAN,
         NEW r, r.verdict = v, r.finding = f,
         project' = Checked(p, r), owed' = OwedAfter(p, r),
         reviewed' \in {reviewed, Graded(p)}, v.of # None => v.of \in reviewed'.graded,
         UNCHANGED <<files, shell>>, call' \in [tool : Tools \cup {"none"},
           page : Pages \cup {None}, owed : SUBSET Pages]
  PROVE  ProjectInv'
<1> USE DesignAssumption
<1>0. reviewed' \in [passed : SUBSET Pages, graded : SUBSET Pages]
  BY DEF ProjectInv, ProjectTypeOK, Graded
<1>1. ProjectTypeOK'
  <2>1. Checked(p, r) = [project EXCEPT !.verdict = v, !.evidence = IF f THEN p ELSE @]
    BY DEF Checked
  <2>2. project' \in [todos : {"none", "open", "done"}, planned : BOOLEAN,
                      phase : {"idle", "building", "waiting_user", "artifact_ready"},
                      stop : BOOLEAN,
                      critique : [of : Pages \cup {None}, pass : BOOLEAN],
                      verdict : [of : Pages \cup {None}, sha : Contents \cup {None}, grade : Verdicts],
                      evidence : Pages \cup {None}, copy : BOOLEAN]
    BY <2>1 DEF ProjectInv, ProjectTypeOK
  <2>3. owed' \subseteq Pages
    BY DEF ProjectInv, ProjectTypeOK, OwedAfter
  <2> QED
    BY <1>0, <2>2, <2>3 DEF ProjectInv, ProjectTypeOK
<1>2. PlanIsOfThisRun' /\ ReviewsHold'
  BY DEF ProjectInv, ProjectTypeOK, PlanIsOfThisRun, ReviewsHold, Checked, Graded
<1>3. OwedIsAsked'
  BY DEF ProjectInv, ProjectTypeOK, OwedIsAsked, Checked, OwedAfter
<1> QED
  BY <1>1, <1>2, <1>3 DEF ProjectInv

(* What a check adds to what is known of the pages.                        *)
LEMMA ReviewedAfterHolds ==
  ASSUME ProjectInv, NEW p \in Pages, NEW r \in Reports(p)
  PROVE  /\ ReviewedAfter(p, r) \in {reviewed, Graded(p)}
         /\ r.verdict.of # None => r.verdict.of \in ReviewedAfter(p, r).graded
<1>1. CASE r.seen
  <2>1. ReviewedAfter(p, r) = Graded(p) /\ Graded(p).graded = reviewed.graded \cup {p}
    BY <1>1 DEF ReviewedAfter, Graded, ProjectInv, ProjectTypeOK
  <2>2. r.verdict = project.verdict \/ r.verdict.of \in {p, None}
    BY ReportsType DEF ProjectInv
  <2> QED
    BY <2>1, <2>2 DEF ProjectInv, ReviewsHold
<1>2. CASE ~r.seen
  <2>1. ReviewedAfter(p, r) = reviewed /\ r.verdict = project.verdict
    BY <1>2, ReportsType DEF ReviewedAfter, ProjectInv
  <2> QED
    BY <2>1 DEF ProjectInv, ReviewsHold
<1> QED
  BY <1>1, <1>2
-----------------------------------------------------------------------------
(* design_verify_after drops what it is told of.                           *)
LEMMA ChangedType ==
  ASSUME ProjectInv, NEW p \in Pages
  PROVE  /\ Changed(p) \in [todos : {"none", "open", "done"}, planned : BOOLEAN,
                  phase : {"idle", "building", "waiting_user", "artifact_ready"},
                  stop : BOOLEAN,
                  critique : [of : Pages \cup {None}, pass : BOOLEAN],
                  verdict : [of : Pages \cup {None}, sha : Contents \cup {None}, grade : Verdicts],
                  evidence : Pages \cup {None}, copy : BOOLEAN]
         /\ Changed(p).critique.pass =>
              Changed(p).critique = project.critique /\ project.critique.of # p
         /\ Changed(p).verdict.of # None =>
              Changed(p).verdict = project.verdict /\ project.verdict.of # p
         /\ Changed(p).todos = project.todos /\ Changed(p).planned = project.planned
         /\ Changed(p).evidence = project.evidence
<1> DEFINE v == IF project.verdict.of = p THEN NoVerdict ELSE project.verdict
           k == CritiqueAfter(p)
<1>1. /\ k \in [of : Pages \cup {None}, pass : BOOLEAN]
      /\ k.pass => k = project.critique /\ project.critique.of # p
  BY DEF CritiqueAfter, NoCritique, ProjectInv, ProjectTypeOK
<1>2. /\ v \in [of : Pages \cup {None}, sha : Contents \cup {None}, grade : Verdicts]
      /\ v.of # None => v = project.verdict /\ project.verdict.of # p
  BY DEF NoVerdict, Verdicts, ProjectInv, ProjectTypeOK
<1>3. Changed(p) = [project EXCEPT !.critique = k, !.verdict = v]
  BY DEF Changed, ProjectInv, ProjectTypeOK
<1> HIDE DEF v, k
<1> QED
  BY <1>1, <1>2, <1>3 DEF ProjectInv, ProjectTypeOK

(* The tools that are no check.                                            *)
LEMMA PlainToolKeeps ==
  ASSUME ProjectInv, NEW p \in Pages,
         NEW t \in Tools \ {"verify_artifact", "artifact", "see_page"}, Executes(t, p)
  PROVE  ProjectInv'
<1>1. CASE t = "read"
  <2>1. Read
    BY <1>1 DEF Executes
  <2>2. ProjectTypeOK'
    BY <2>1, DesignAssumption DEF Read, ProjectInv, ProjectTypeOK, Returns, Returned, Tools
  <2>3. PlanIsOfThisRun' /\ ReviewsHold' /\ OwedIsAsked'
    BY <2>1, DesignAssumption DEF Read, ProjectInv, ProjectTypeOK,
       PlanIsOfThisRun, ReviewsHold, OwedIsAsked
  <2> QED
    BY <2>2, <2>3 DEF ProjectInv
<1>2. CASE t = "todo_write"
  <2>1. PICK plan \in {"none", "open", "done"}, busy \in BOOLEAN : TodoWrite(plan, busy)
    BY <1>2 DEF Executes
  <2>2. ProjectTypeOK'
    BY <2>1, DesignAssumption DEF TodoWrite, ProjectInv, ProjectTypeOK, Returns, Returned, Tools
  <2>3. PlanIsOfThisRun' /\ ReviewsHold' /\ OwedIsAsked'
    BY <2>1, DesignAssumption DEF TodoWrite, ProjectInv, ProjectTypeOK,
       PlanIsOfThisRun, ReviewsHold, OwedIsAsked
  <2> QED
    BY <2>2, <2>3 DEF ProjectInv
<1>3. CASE t = "write"
  <2>1. PICK c \in Contents : Write(p, c)
    BY <1>3 DEF Executes
  <2>2. project' = Changed(p)
    BY <2>1 DEF Write
  <2>3. ProjectTypeOK'
    BY <2>1, <2>2, ChangedType
       DEF Write, Rewritten, ProjectInv, ProjectTypeOK, Returns, Returned, Tools
  <2>4. PlanIsOfThisRun' /\ ReviewsHold' /\ OwedIsAsked'
    BY <2>1, <2>2, ChangedType
       DEF Write, Rewritten, ProjectInv, PlanIsOfThisRun, ReviewsHold, OwedIsAsked
  <2> QED
    BY <2>3, <2>4 DEF ProjectInv
<1>4. CASE t = "edit"
  <2>1. PICK c \in Contents : Edit(p, c)
    BY <1>4 DEF Executes
  <2>2. project' = Changed(p)
    BY <2>1 DEF Edit
  <2>3. ProjectTypeOK'
    BY <2>1, <2>2, ChangedType
       DEF Edit, Rewritten, ProjectInv, ProjectTypeOK, Returns, Returned, Tools
  <2>4. PlanIsOfThisRun' /\ ReviewsHold' /\ OwedIsAsked'
    BY <2>1, <2>2, ChangedType
       DEF Edit, Rewritten, ProjectInv, PlanIsOfThisRun, ReviewsHold, OwedIsAsked
  <2> QED
    BY <2>3, <2>4 DEF ProjectInv
<1>5. CASE t = "support"
  <2>1. WriteSupport
    BY <1>5 DEF Executes
  <2>2. ProjectTypeOK'
    BY <2>1, DesignAssumption DEF WriteSupport, ProjectInv, ProjectTypeOK, Returns, Returned, Tools
  <2>3. PlanIsOfThisRun' /\ ReviewsHold' /\ OwedIsAsked'
    BY <2>1, DesignAssumption DEF WriteSupport, ProjectInv, ProjectTypeOK,
       PlanIsOfThisRun, ReviewsHold, OwedIsAsked
  <2> QED
    BY <2>2, <2>3 DEF ProjectInv
<1>6. CASE t = "generate_image"
  <2>1. GenerateImage
    BY <1>6 DEF Executes
  <2>2. ProjectTypeOK'
    BY <2>1, DesignAssumption DEF GenerateImage, Generated, Unrendered, NoVerdict, Verdicts, ProjectInv, ProjectTypeOK, Returns, Returned, Tools
  <2>3. PlanIsOfThisRun' /\ ReviewsHold' /\ OwedIsAsked'
    BY <2>1, DesignAssumption DEF GenerateImage, Generated, Unrendered, NoVerdict, Verdicts, ProjectInv, ProjectTypeOK,
       PlanIsOfThisRun, ReviewsHold, OwedIsAsked
  <2> QED
    BY <2>2, <2>3 DEF ProjectInv
<1>7. CASE t = "generate_video"
  <2>1. GenerateVideo
    BY <1>7 DEF Executes
  <2>2. ProjectTypeOK'
    BY <2>1, DesignAssumption DEF GenerateVideo, Generated, Unrendered, NoVerdict, Verdicts, ProjectInv, ProjectTypeOK, Returns, Returned, Tools
  <2>3. PlanIsOfThisRun' /\ ReviewsHold' /\ OwedIsAsked'
    BY <2>1, DesignAssumption DEF GenerateVideo, Generated, Unrendered, NoVerdict, Verdicts, ProjectInv, ProjectTypeOK,
       PlanIsOfThisRun, ReviewsHold, OwedIsAsked
  <2> QED
    BY <2>2, <2>3 DEF ProjectInv
<1>8. CASE t = "critique_write"
  <2>1. PICK pass \in BOOLEAN : CritiqueWrite(p, pass)
    BY <1>8 DEF Executes
  <2>2. ProjectTypeOK'
    BY <2>1, DesignAssumption DEF CritiqueWrite, Critiqued, ProjectInv, ProjectTypeOK, Returns, Returned, Tools
  <2>3. PlanIsOfThisRun' /\ ReviewsHold' /\ OwedIsAsked'
    BY <2>1, DesignAssumption DEF CritiqueWrite, Critiqued, ProjectInv, ProjectTypeOK,
       PlanIsOfThisRun, ReviewsHold, OwedIsAsked
  <2> QED
    BY <2>2, <2>3 DEF ProjectInv
<1>9. CASE t = "question"
  <2>1. Question
    BY <1>9 DEF Executes
  <2>2. ProjectTypeOK'
    BY <2>1, DesignAssumption DEF Question, Waiting, ProjectInv, ProjectTypeOK, Returns, Returned, Tools
  <2>3. PlanIsOfThisRun' /\ ReviewsHold' /\ OwedIsAsked'
    BY <2>1, DesignAssumption DEF Question, Waiting, ProjectInv, ProjectTypeOK,
       PlanIsOfThisRun, ReviewsHold, OwedIsAsked
  <2> QED
    BY <2>2, <2>3 DEF ProjectInv
<1>10. CASE t = "propose"
  <2>1. Propose
    BY <1>10 DEF Executes
  <2>2. ProjectTypeOK'
    BY <2>1, DesignAssumption DEF Propose, Waiting, ProjectInv, ProjectTypeOK, Returns, Returned, Tools
  <2>3. PlanIsOfThisRun' /\ ReviewsHold' /\ OwedIsAsked'
    BY <2>1, DesignAssumption DEF Propose, Waiting, ProjectInv, ProjectTypeOK,
       PlanIsOfThisRun, ReviewsHold, OwedIsAsked
  <2> QED
    BY <2>2, <2>3 DEF ProjectInv
<1>11. CASE t = "inspect_layout"
  <2>1. InspectLayout(p)
    BY <1>11 DEF Executes
  <2>2. ProjectTypeOK'
    BY <2>1, DesignAssumption DEF InspectLayout, EvidenceAfter, ProjectInv, ProjectTypeOK, Returns, Returned, Tools
  <2>3. PlanIsOfThisRun' /\ ReviewsHold' /\ OwedIsAsked'
    BY <2>1, DesignAssumption DEF InspectLayout, EvidenceAfter, ProjectInv, ProjectTypeOK,
       PlanIsOfThisRun, ReviewsHold, OwedIsAsked
  <2> QED
    BY <2>2, <2>3 DEF ProjectInv
<1>12. CASE t = "bash"
  <2>1. PICK c \in Contents : Bash(p, c)
    BY <1>12 DEF Executes
  <2>2. ProjectTypeOK'
    BY <2>1, DesignAssumption DEF Bash, ProjectInv, ProjectTypeOK, Returns, Returned, Tools
  <2>3. PlanIsOfThisRun' /\ ReviewsHold' /\ OwedIsAsked'
    BY <2>1, DesignAssumption DEF Bash, ProjectInv, ProjectTypeOK,
       PlanIsOfThisRun, ReviewsHold, OwedIsAsked
  <2> QED
    BY <2>2, <2>3 DEF ProjectInv
<1>13. CASE t = "bash_stop"
  <2>1. BashStop
    BY <1>13 DEF Executes
  <2>2. ProjectTypeOK'
    BY <2>1, DesignAssumption DEF BashStop, ProjectInv, ProjectTypeOK, Returns, Returned, Tools
  <2>3. PlanIsOfThisRun' /\ ReviewsHold' /\ OwedIsAsked'
    BY <2>1, DesignAssumption DEF BashStop, ProjectInv, ProjectTypeOK,
       PlanIsOfThisRun, ReviewsHold, OwedIsAsked
  <2> QED
    BY <2>2, <2>3 DEF ProjectInv
<1> QED
  BY <1>1, <1>2, <1>3, <1>4, <1>5, <1>6, <1>7, <1>8, <1>9, <1>10, <1>11, <1>12, <1>13 DEF Tools

(* The tools that check a page; the gate was open when they ran.           *)
LEMMA CheckKeeps ==
  ASSUME ProjectInv, NEW p \in Pages,
         NEW t \in {"verify_artifact", "artifact", "see_page"},
         ~Blocked(t), Executes(t, p)
  PROVE  ProjectInv'
<1>0. project.evidence = None
  BY DEF Blocked, NeedsMeasure, NeedsPlan
<1>1. CASE t = "verify_artifact"
  <2>1. PICK r \in Reports(p) :
          /\ project' = Checked(p, r) /\ owed' = OwedAfter(p, r)
          /\ reviewed' = ReviewedAfter(p, r)
          /\ Returns("verify_artifact", p) /\ UNCHANGED <<files, shell>>
    BY <1>1 DEF Executes, VerifyArtifact
  <2>2. call' \in [tool : Tools \cup {"none"}, page : Pages \cup {None}, owed : SUBSET Pages]
    BY <2>1 DEF Returns, Returned, Tools, ProjectInv, ProjectTypeOK
  <2>3. r.finding \in BOOLEAN /\ r.verdict \in [of : Pages \cup {None}, sha : Contents \cup {None}, grade : Verdicts]
    BY ReportsType DEF ProjectInv
  <2>4. /\ reviewed' \in {reviewed, Graded(p)}
        /\ r.verdict.of # None => r.verdict.of \in reviewed'.graded
    BY <2>1, ReviewedAfterHolds
  <2> QED
    BY <1>0, <2>1, <2>2, <2>3, <2>4, CheckedKeeps
<1>2. CASE t = "see_page"
  <2>1. SeePage(p)
    BY <1>2 DEF Executes
  <2>2. PICK vis \in Renders(p) :
          LET r == [verdict |-> vis.verdict, finding |-> vis.grade # "good"]
          IN project' = Checked(p, r) /\ owed' = OwedAfter(p, r)
    BY <2>1 DEF SeePage
  <2> DEFINE r == [verdict |-> vis.verdict, finding |-> vis.grade # "good"]
  <2>3. /\ project' = Checked(p, r) /\ owed' = OwedAfter(p, r) /\ reviewed' = Graded(p)
        /\ Returns("see_page", p) /\ UNCHANGED <<files, shell>>
    BY <2>1, <2>2 DEF SeePage
  <2>4. call' \in [tool : Tools \cup {"none"}, page : Pages \cup {None}, owed : SUBSET Pages]
    BY <2>3 DEF Returns, Returned, Tools, ProjectInv, ProjectTypeOK
  <2>5. /\ r.finding \in BOOLEAN /\ r.verdict \in [of : Pages \cup {None}, sha : Contents \cup {None}, grade : Verdicts]
        /\ r.verdict.of \in {p, None}
    BY RendersType DEF ProjectInv
  <2>6. reviewed'.graded = reviewed.graded \cup {p}
    BY <2>3 DEF Graded, ProjectInv, ProjectTypeOK
  <2> HIDE DEF r
  <2> QED
    BY <1>0, <2>3, <2>4, <2>5, <2>6, CheckedKeeps
<1>3. CASE t = "artifact"
  <2>1. PICK r \in Reports(p), ok \in BOOLEAN :
          /\ project' = [Checked(p, r) EXCEPT
               !.phase = IF ok THEN "artifact_ready" ELSE @, !.stop = ok]
          /\ owed' = OwedAfter(p, r) /\ reviewed' = ReviewedAfter(p, r)
          /\ call' = IF ok THEN Returned("artifact", p) ELSE NoCall
          /\ UNCHANGED <<files, shell>>
    BY <1>3 DEF Executes, Artifact, CritiquePasses
  <2>2. r.finding \in BOOLEAN /\ r.verdict \in [of : Pages \cup {None}, sha : Contents \cup {None}, grade : Verdicts]
    BY ReportsType DEF ProjectInv
  <2>3. /\ reviewed' \in {reviewed, Graded(p)}
        /\ r.verdict.of # None => r.verdict.of \in reviewed'.graded
    BY <2>1, ReviewedAfterHolds
  <2>4. call' \in [tool : Tools \cup {"none"}, page : Pages \cup {None}, owed : SUBSET Pages]
    BY <2>1 DEF Returned, NoCall, Tools, ProjectInv, ProjectTypeOK
  <2>5. ProjectTypeOK'
    <3>1. reviewed' \in [passed : SUBSET Pages, graded : SUBSET Pages]
      BY <2>3 DEF ProjectInv, ProjectTypeOK, Graded
    <3> QED
      BY <2>1, <2>2, <2>4, <3>1 DEF ProjectInv, ProjectTypeOK, Checked, OwedAfter
  <2>6. PlanIsOfThisRun' /\ ReviewsHold'
    BY <2>1, <2>2, <2>3
       DEF ProjectInv, ProjectTypeOK, PlanIsOfThisRun, ReviewsHold, Checked, Graded
  <2>7. OwedIsAsked'
    BY <1>0, <2>1, <2>2, DesignAssumption
       DEF ProjectInv, ProjectTypeOK, OwedIsAsked, Checked, OwedAfter
  <2> QED
    BY <2>5, <2>6, <2>7 DEF ProjectInv
<1> QED
  BY <1>1, <1>2, <1>3

LEMMA InvInit == ProjectInit => ProjectInv
  BY DEF ProjectInit, EmptyProject, NoCritique, NoVerdict, NoCall, NotReviewed, ProjectInv, ProjectTypeOK,
         PlanIsOfThisRun, ReviewsHold, OwedIsAsked, Verdicts, Tools

LEMMA InvStep == ProjectInv /\ [ProjectNext]_projectVars => ProjectInv'
<1> SUFFICES ASSUME ProjectInv, [ProjectNext]_projectVars PROVE ProjectInv'
  OBVIOUS
<1> USE DEF ProjectInv, PlanIsOfThisRun, ReviewsHold, OwedIsAsked
<1>1. ASSUME NEW literal \in BOOLEAN, StartRun(literal) PROVE ProjectInv'
  BY <1>1 DEF StartRun, Started, NoCall, ProjectTypeOK
<1>2. ASSUME NEW t \in Tools, NEW p \in Pages, Called(t, p) PROVE ProjectInv'
  <2>1. CASE Fails
    BY <2>1 DEF Fails, NoCall, ProjectTypeOK
  <2>2. CASE ~Blocked(t) /\ Executes(t, p)
    BY <2>2, PlainToolKeeps, CheckKeeps
  <2> QED
    BY <1>2, <2>1, <2>2 DEF Called
<1>3. CASE FinishRun
  BY <1>3 DEF FinishRun, Finished, NoCall, ProjectTypeOK
<1>4. ASSUME NEW p \in Pages, NEW c \in Contents, ShellWrites(p, c) PROVE ProjectInv'
  BY <1>4 DEF ShellWrites, NoCall, ProjectTypeOK
<1>5. CASE ShellEnds
  BY <1>5 DEF ShellEnds, NoCall, ProjectTypeOK
<1>6. CASE Reboot
  BY <1>6 DEF Reboot, EmptyProject, NoCritique, NoVerdict, NotReviewed, NoCall, ProjectTypeOK, Verdicts
<1>7. CASE UNCHANGED projectVars
  BY <1>7 DEF projectVars, ProjectTypeOK
<1> QED
  BY <1>1, <1>2, <1>3, <1>4, <1>5, <1>6, <1>7 DEF ProjectNext

(* The record is well formed, its plan is of this run, the critique and    *)
(* the verdict it keeps still hold of their pages, and a page that owes a  *)
(* measurement is the one the gate asks for: design_project and the gates  *)
(* that read it.                                                           *)
THEOREM ProjectInvAlways == ProjectSpec => []ProjectInv
  BY InvInit, InvStep, PTL DEF ProjectSpec
-----------------------------------------------------------------------------
(* A call of artifact that succeeds leaves a page that was earned.         *)
LEMMA ArtifactIsEarned ==
  ASSUME ProjectInv, NEW p \in Pages, ~Blocked("artifact"), Artifact(p)
  PROVE  RegisteredIsEarned'
<1>1. SUFFICES ASSUME Registers'
               PROVE  project'.planned /\ call'.page \in reviewed'.passed
  BY DEF RegisteredIsEarned
<1>2. PICK r \in Reports(p), written \in BOOLEAN :
        LET ok == ~r.errors /\ CritiquePasses(p) /\ written
        IN /\ project' = [Checked(p, r) EXCEPT
                !.phase = IF ok THEN "artifact_ready" ELSE @, !.stop = ok]
           /\ reviewed' = ReviewedAfter(p, r)
           /\ call' = IF ok THEN Returned("artifact", p) ELSE NoCall
  BY DEF Artifact
<1>3. CritiquePasses(p) /\ call'.page = p
  BY <1>1, <1>2 DEF Registers, Returned, NoCall
<1>4. project.planned
  BY DEF Artifact, Blocked, NeedsPlan, ProjectInv, ProjectTypeOK, PlanIsOfThisRun
<1>5. project'.planned = project.planned
  BY <1>2 DEF Checked, ProjectInv, ProjectTypeOK
<1>6. reviewed'.passed = reviewed.passed
  BY <1>2 DEF ReviewedAfter, Graded, ProjectInv, ProjectTypeOK
<1> QED
  BY <1>3, <1>4, <1>5, <1>6 DEF CritiquePasses, ProjectInv, ReviewsHold

(* A call that succeeds is recorded with its own name and with what was    *)
(* owed before it; one that fails is not recorded.                         *)
LEMMA CallIsRecorded ==
  ASSUME ProjectInv, NEW t \in Tools, NEW p \in Pages, Called(t, p)
  PROVE  \/ call' = NoCall
         \/ call'.tool = t /\ call'.owed = owed /\ ~Blocked(t) /\ Executes(t, p)
<1>1. CASE Fails
  BY <1>1 DEF Fails
<1>2. CASE ~Blocked(t) /\ Executes(t, p)
  <2>0. SUFFICES call' = NoCall \/ (call'.tool = t /\ call'.owed = owed)
    BY <1>2
  <2>1. CASE t = "read"
    <3>1. Read
      BY <1>2, <2>1 DEF Executes
    <3> QED
      BY <2>1, <3>1 DEF Read, Returns, Returned
  <2>2. CASE t = "todo_write"
    <3>1. \E plan \in {"none", "open", "done"}, busy \in BOOLEAN : TodoWrite(plan, busy)
      BY <1>2, <2>2 DEF Executes
    <3> QED
      BY <2>2, <3>1 DEF TodoWrite, Returns, Returned
  <2>3. CASE t = "write"
    <3>1. \E c \in Contents : Write(p, c)
      BY <1>2, <2>3 DEF Executes
    <3> QED
      BY <2>3, <3>1 DEF Write, Returns, Returned
  <2>4. CASE t = "edit"
    <3>1. \E c \in Contents : Edit(p, c)
      BY <1>2, <2>4 DEF Executes
    <3> QED
      BY <2>4, <3>1 DEF Edit, Returns, Returned
  <2>5. CASE t = "support"
    <3>1. WriteSupport
      BY <1>2, <2>5 DEF Executes
    <3> QED
      BY <2>5, <3>1 DEF WriteSupport, Returns, Returned
  <2>6. CASE t = "generate_image"
    <3>1. GenerateImage
      BY <1>2, <2>6 DEF Executes
    <3> QED
      BY <2>6, <3>1 DEF GenerateImage, Returns, Returned
  <2>7. CASE t = "generate_video"
    <3>1. GenerateVideo
      BY <1>2, <2>7 DEF Executes
    <3> QED
      BY <2>7, <3>1 DEF GenerateVideo, Returns, Returned
  <2>8. CASE t = "critique_write"
    <3>1. \E pass \in BOOLEAN : CritiqueWrite(p, pass)
      BY <1>2, <2>8 DEF Executes
    <3> QED
      BY <2>8, <3>1 DEF CritiqueWrite, Returns, Returned
  <2>9. CASE t = "question"
    <3>1. Question
      BY <1>2, <2>9 DEF Executes
    <3> QED
      BY <2>9, <3>1 DEF Question, Returns, Returned
  <2>10. CASE t = "propose"
    <3>1. Propose
      BY <1>2, <2>10 DEF Executes
    <3> QED
      BY <2>10, <3>1 DEF Propose, Returns, Returned
  <2>11. CASE t = "inspect_layout"
    <3>1. InspectLayout(p)
      BY <1>2, <2>11 DEF Executes
    <3> QED
      BY <2>11, <3>1 DEF InspectLayout, Returns, Returned
  <2>12. CASE t = "bash"
    <3>1. \E c \in Contents : Bash(p, c)
      BY <1>2, <2>12 DEF Executes
    <3> QED
      BY <2>12, <3>1 DEF Bash, Returns, Returned
  <2>13. CASE t = "bash_stop"
    <3>1. BashStop
      BY <1>2, <2>13 DEF Executes
    <3> QED
      BY <2>13, <3>1 DEF BashStop, Returns, Returned
  <2>14. CASE t = "verify_artifact"
    <3>1. VerifyArtifact(p)
      BY <1>2, <2>14 DEF Executes
    <3> QED
      BY <2>14, <3>1 DEF VerifyArtifact, Returns, Returned
  <2>15. CASE t = "artifact"
    <3>1. Artifact(p)
      BY <1>2, <2>15 DEF Executes
    <3> QED
      BY <2>15, <3>1 DEF Artifact, Returns, Returned
  <2>16. CASE t = "see_page"
    <3>1. SeePage(p)
      BY <1>2, <2>16 DEF Executes
    <3> QED
      BY <2>16, <3>1 DEF SeePage, Returns, Returned
  <2> QED
    BY <2>1, <2>2, <2>3, <2>4, <2>5, <2>6, <2>7, <2>8, <2>9, <2>10, <2>11, <2>12, <2>13, <2>14, <2>15, <2>16 DEF Tools
<1> QED
  BY <1>1, <1>2 DEF Called

LEMMA EarnedStep == ProjectInv /\ Earned /\ [ProjectNext]_projectVars => Earned'
<1> SUFFICES ASSUME ProjectInv, Earned, [ProjectNext]_projectVars PROVE Earned'
  OBVIOUS
<1>1. ASSUME NEW t \in Tools, NEW p \in Pages, Called(t, p) PROVE Earned'
  <2>1. RegisteredIsEarned'
    <3>1. CASE Registers'
      <4>1. t = "artifact" /\ ~Blocked(t) /\ Executes(t, p)
        BY <1>1, <3>1, CallIsRecorded DEF Registers, NoCall
      <4>2. Artifact(p)
        BY <4>1 DEF Executes
      <4> QED
        BY <4>1, <4>2, ArtifactIsEarned
    <3> QED
      BY <3>1 DEF RegisteredIsEarned
  <2>2. MeasuredBeforeChanged'
    <3>1. SUFFICES ASSUME call'.tool \in NeedsMeasure PROVE call'.owed = {}
      BY DEF MeasuredBeforeChanged
    <3>2. call' # NoCall
      BY <3>1 DEF NoCall, NeedsMeasure, NeedsPlan
    <3>3. t \in NeedsMeasure /\ ~Blocked(t) /\ call'.owed = owed
      BY <1>1, <3>1, <3>2, CallIsRecorded
    <3>4. project.evidence = None
      BY <3>3 DEF Blocked
    <3> QED
      BY <3>3, <3>4 DEF ProjectInv, OwedIsAsked
  <2> QED
    BY <2>1, <2>2 DEF Earned
<1>2. CASE call' = NoCall
  BY <1>2 DEF NoCall, Earned, RegisteredIsEarned, MeasuredBeforeChanged, Registers,
              NeedsMeasure, NeedsPlan
<1>3. CASE UNCHANGED projectVars
  BY <1>3 DEF projectVars, Earned, RegisteredIsEarned, MeasuredBeforeChanged, Registers
<1> QED
  BY <1>1, <1>2, <1>3 DEF ProjectNext, StartRun, FinishRun, ShellWrites, ShellEnds, Reboot

LEMMA EarnedInit == ProjectInit => Earned
  BY DEF ProjectInit, NoCall, Earned, RegisteredIsEarned, MeasuredBeforeChanged, Registers,
         NeedsMeasure, NeedsPlan

(* tool_artifact: what it registers was planned in this run and passed its *)
(* last critique with no write and no edit of it since, however the tools  *)
(* are called and whatever a shell job writes in between.                  *)
THEOREM RegisteredIsEarnedAlways == ProjectSpec => []RegisteredIsEarned
<1>1. ProjectSpec => []Earned
  BY EarnedInit, EarnedStep, ProjectInvAlways, PTL DEF ProjectSpec
<1>2. Earned => RegisteredIsEarned
  BY DEF Earned
<1> QED
  BY <1>1, <1>2, PTL

(* design_layout_evidence_blocks_tool: after a geometric finding no page   *)
(* is changed, graded or signed off before that page was measured.         *)
THEOREM MeasuredBeforeChangedAlways == ProjectSpec => []MeasuredBeforeChanged
<1>1. ProjectSpec => []Earned
  BY EarnedInit, EarnedStep, ProjectInvAlways, PTL DEF ProjectSpec
<1>2. Earned => MeasuredBeforeChanged
  BY DEF Earned
<1> QED
  BY <1>1, <1>2, PTL

(* design_visual_gate: a verdict that would be used again is of a render   *)
(* that no tool has changed since, neither the page nor an asset.          *)
THEOREM VerdictIsCurrentAlways == ProjectSpec => []VerdictIsCurrent
<1>1. ProjectInv => VerdictIsCurrent
  BY DesignAssumption DEF ProjectInv, ReviewsHold, VerdictIsCurrent, VerdictHits
<1> QED
  BY <1>1, ProjectInvAlways, PTL
-----------------------------------------------------------------------------
(* A transcript that has an identity has its own, unless a /new that       *)
(* failed has left it the identity of the session before.                  *)
IdentityIsOwn == live.id = 0 \/ live.id = live.said \/ live.id \in live.botched

SessionInv ==
  /\ SessionTypeOK
  /\ IdentityIsOwn
  /\ OneConversationPerFile

(* What a step of the process may do to the sessions.                      *)
SessionStep ==
  \/ SameSession
  \/ live' = Named(live) /\ saved' = saved
  \/ Saves \/ SaveFails
  \/ Switches \/ Deletes
  \/ \E done \in BOOLEAN : Renews(done)
  \/ Boots
-----------------------------------------------------------------------------
LEMMA SessionInvInit == SessionInit => SessionInv
  BY SessionAssumption DEF SessionInit, SessionInv, SessionTypeOK, IdentityIsOwn,
     OneConversationPerFile, Conversations

(* A transcript that starts without a name.                                *)
LEMMA RenewedKeeps ==
  ASSUME SessionInv, live' = RenewedSession, saved' = saved, live.begun < MaxConversations
  PROVE  SessionInv'
<1> USE SessionAssumption DEF SessionInv, SessionTypeOK, IdentityIsOwn,
                              OneConversationPerFile, Conversations
<1>1. live' = [said |-> live.begun + 1, id |-> 0, begun |-> live.begun + 1,
               botched |-> live.botched]
  BY DEF RenewedSession, Unsaid
<1>2. SessionTypeOK'
  BY <1>1
<1>3. IdentityIsOwn' /\ OneConversationPerFile'
  BY <1>1
<1> QED
  BY <1>2, <1>3

LEMMA SessionInvStep == ASSUME SessionInv, SessionStep PROVE SessionInv'
<1> USE SessionAssumption DEF SessionInv, SessionTypeOK, IdentityIsOwn,
                              OneConversationPerFile, Conversations
<1>0. /\ Named(live) \in [said : Conversations, id : 0 .. MaxConversations,
                         begun : Conversations, botched : SUBSET Conversations]
      /\ Named(live).said = live.said /\ Named(live).botched = live.botched
      /\ Named(live).id # 0
      /\ Named(live).id = live.said \/ Named(live).id \in live.botched
  BY DEF Named
<1>1. CASE SameSession
  BY <1>1 DEF SameSession
<1>2. CASE live' = Named(live) /\ saved' = saved
  BY <1>0, <1>2
<1>3. CASE Saves
  BY <1>0, <1>3 DEF Saves
<1>4. CASE SaveFails
  BY <1>0, <1>4 DEF SaveFails
<1>5. CASE Switches
  <2>1. PICK i \in Conversations : saved[i] # 0 /\ live' \in {live, Switched(i)}
    BY <1>5 DEF Switches
  <2>2. saved' = saved
    BY <1>5 DEF Switches
  <2>3. CASE live' = live
    BY <2>2, <2>3
  <2>4. CASE live' = Switched(i)
    <3>1. live' = [said |-> saved[i], id |-> i, begun |-> live.begun,
                   botched |-> live.botched]
      BY <2>4 DEF Switched
    <3>2. saved[i] \in 1 .. MaxConversations
      BY <2>1
    <3>3. SessionTypeOK'
      BY <2>1, <2>2, <3>1, <3>2
    <3>4. IdentityIsOwn'
      BY <2>1, <3>1, <3>2
    <3>5. OneConversationPerFile'
      BY <2>2, <3>1
    <3> QED
      BY <3>3, <3>4, <3>5
  <2> QED
    BY <2>1, <2>3, <2>4
<1>6. CASE Deletes
  BY <1>6 DEF Deletes
<1>7. ASSUME NEW done \in BOOLEAN, Renews(done) PROVE SessionInv'
  <2>1. CASE done
    <3>1. live' = RenewedSession /\ saved' = saved /\ live.begun < MaxConversations
      BY <1>7, <2>1 DEF Renews
    <3> QED
      BY <3>1, RenewedKeeps
  <2>2. CASE ~done
    <3>1. live' = HalfRenewed /\ saved' = saved /\ live.begun < MaxConversations
      BY <1>7, <2>2 DEF Renews
    <3>2. live' = [said |-> live.begun + 1, id |-> live.id, begun |-> live.begun + 1,
                   botched |-> live.botched \cup ({live.id} \ {0})]
      BY <3>1 DEF HalfRenewed, Unsaid
    <3>3. SessionTypeOK'
      BY <3>1, <3>2
    <3>4. IdentityIsOwn'
      BY <3>2
    <3>5. OneConversationPerFile'
      BY <3>1, <3>2
    <3> QED
      BY <3>3, <3>4, <3>5
  <2> QED
    BY <2>1, <2>2
<1>8. CASE Boots
  BY <1>8, RenewedKeeps DEF Boots
<1> QED
  BY <1>1, <1>2, <1>3, <1>4, <1>5, <1>6, <1>7, <1>8 DEF SessionStep
-----------------------------------------------------------------------------
(* A turn that ends, breaks or goes on saves the session or leaves it.     *)
LEMMA EndsSaves == ASSUME NEW p, Ends(p) PROVE SessionStep
  BY DEF Ends, AfterSave, SessionStep

LEMMA BreaksKeeps == ASSUME NEW p, Breaks(p) PROVE SessionStep
  BY DEF Breaks, SessionStep

LEMMA AgainKeeps == ASSUME NEW t, Again(t) PROVE SessionStep
  BY DEF Again, SessionStep

LEMMA TurnStepSession == ASSUME TurnStep PROVE SessionStep
<1>1. CASE Begin
  BY <1>1 DEF Begin, At, SessionStep
<1>2. CASE Sample
  BY <1>2, BreaksKeeps DEF Sample, SessionStep
<1>3. CASE Interrupted
  BY <1>3, EndsSaves DEF Interrupted
<1>4. CASE Limited
  BY <1>4, EndsSaves, BreaksKeeps, AgainKeeps DEF Limited
<1>5. CASE Failed
  BY <1>5, EndsSaves, AgainKeeps DEF Failed
<1>6. CASE Answered
  BY <1>6, EndsSaves, AgainKeeps DEF Answered, Insists, Steered
<1>7. CASE Refused
  BY <1>7, EndsSaves DEF Refused
<1>8. CASE Dispatch
  BY <1>8 DEF Dispatch, SessionStep
<1>9. CASE CallTool
  BY <1>9 DEF CallTool, SessionStep
<1>10. CASE SkipTools
  BY <1>10 DEF SkipTools, SessionStep
<1>11. CASE Ran
  BY <1>11, EndsSaves, BreaksKeeps, AgainKeeps DEF Ran, LocalRan
<1> QED
  BY <1>1, <1>2, <1>3, <1>4, <1>5, <1>6, <1>7, <1>8, <1>9, <1>10, <1>11 DEF TurnStep

(* Every step of the process is one of the steps of its sessions.          *)
LEMMA RunStepSession == ASSUME [RunNext]_vars PROVE SessionStep
<1>1. ASSUME NEW literal \in BOOLEAN, Message(literal) PROVE SessionStep
  <2>1. CASE Breaks(project)
    BY <2>1, BreaksKeeps
  <2>2. CASE live' = (IF Local THEN Named(live) ELSE live) /\ saved' = saved
    BY <2>2 DEF SessionStep, SameSession
  <2> QED
    BY <1>1, <2>1, <2>2 DEF Message
<1>2. CASE MakeRoom
  BY <1>2 DEF MakeRoom, SessionStep
<1>3. CASE NewSession
  BY <1>3 DEF NewSession, SessionStep
<1>4. CASE SaveSession
  BY <1>4 DEF SaveSession, AfterSave, SessionStep
<1>5. CASE SwitchSession
  BY <1>5 DEF SwitchSession, SessionStep
<1>6. CASE DeleteSession
  BY <1>6 DEF DeleteSession, SessionStep
<1>7. CASE Leave
  BY <1>7, BreaksKeeps DEF Leave
<1>8. CASE Restart
  BY <1>8 DEF Restart, SessionStep
<1>9. CASE Signal
  BY <1>9 DEF Signal, SessionStep
<1>10. CASE Shell
  BY <1>10 DEF Shell, SessionStep
<1>11. CASE TurnStep
  BY <1>11, TurnStepSession
<1>12. CASE UNCHANGED vars
  BY <1>12 DEF vars, SessionStep, SameSession
<1> QED
  BY <1>1, <1>2, <1>3, <1>4, <1>5, <1>6, <1>7, <1>8, <1>9, <1>10, <1>11, <1>12 DEF RunNext

(* ds4_design.c: the file of a session never holds another conversation,   *)
(* whatever was saved, switched to, deleted and begun between; the session *)
(* that a failed /new left is the exception.                               *)
THEOREM OneConversationPerFileAlways == RunSpec => []OneConversationPerFile
<1>1. RunInit => SessionInv
  BY SessionInvInit DEF RunInit
<1>2. SessionInv /\ [RunNext]_vars => SessionInv'
  BY SessionInvStep, RunStepSession
<1>3. SessionInv => OneConversationPerFile
  BY DEF SessionInv
<1> QED
  BY <1>1, <1>2, <1>3, PTL DEF RunSpec
=============================================================================
