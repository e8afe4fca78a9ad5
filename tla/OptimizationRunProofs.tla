------------------------ MODULE OptimizationRunProofs ------------------------
(***************************************************************************)
(* For all sources, kinds and bounds: what an invocation returns, hands to *)
(* the exporter and raises.                                                *)
(*                                                                         *)
(* Every piece of evidence goes by the content it was computed from, and   *)
(* is kept under a key that names a content.  The argument is that the two *)
(* agree wherever evidence is kept or on its way, but for the contents in  *)
(* mixed, and that summary and report agree, but for those in unpaired:    *)
(* between the stage report and the state the directory still speaks of    *)
(* the invocation before, which a kill at that point makes last.           *)
(***************************************************************************)
EXTENDS OptimizationRun, TLAPS

Producing == {"produce", "stage"}
Planned == {"stage", "scaffold", "execute"}
InWorkflow == {"workflow", "revalidated", "run", "report", "summary", "written", "state"}
HasReport == {"report", "summary", "written", "state"}
Summarized == {"revalidated", "written", "state", "outer"}

\* What an invocation knows at each place
RunShape ==
  /\ run.pc = "idle" => run = Idle
  /\ run.pc \in Producing => run.key \in Inputs
  /\ run.pc \in Planned => run.plan \in Inputs
  /\ run.pc \in InWorkflow => run.wkey \in Keys
  /\ run.pc \in HasReport => run.of \in Sources
  /\ run.pc \in Summarized => run.summary \in Sources

\* Evidence of the content of may be found under a key of the content k
Agrees(of, k) == of = k \/ k \in mixed

\* A plan is kept under inputs it agrees with
StagesFit ==
  \A k \in Inputs : disk.stages[k] \in Inputs => Agrees(disk.stages[k].source, k.source)

\* So does what an invocation is about to keep, and what it will still compute
KeyFits ==
  /\ run.pc \in Producing => Agrees(source, run.key.source)
  /\ run.pc = "stage" => Agrees(run.plan.source, run.key.source)
  /\ run.pc \in InWorkflow => Agrees(source, run.wkey.source)
  /\ run.pc \in HasReport => Agrees(run.of, run.wkey.source)

\* The invocation does not rely on evidence of a mixed content
Trusted == run.force \/ source \notin mixed

\* While its inputs do not change, what an invocation has is of the source
StillThere ==
  ~run.moved =>
    /\ run.pc \in Producing => run.key.source = source
    /\ run.pc \in Planned /\ Trusted => run.plan.source = source
    /\ run.pc \in InWorkflow => run.wkey.source = source
    /\ run.pc \in HasReport /\ ~run.failed => run.of = source
    /\ run.pc = "outer" /\ ~run.failed /\ Trusted => run.summary = source

\* The summary on disk agrees with the key on disk, until a new one is written
StoredFits ==
  disk.wstate \in Keys /\ disk.wsummary \in Sources /\ run.pc # "written"
    => Agrees(disk.wsummary, disk.wstate.source)

\* The stage report goes with the summary, until a new one is written
StoredPairs ==
  /\ disk.wstate \in Keys /\ disk.wsummary \in Sources /\ disk.report \in Sources
  /\ run.pc # "summary"
  => disk.wsummary = disk.report \/ disk.wstate.source \in unpaired

\* What is being written
SummaryFits ==
  /\ run.pc \in {"summary", "written", "state"} => disk.report = run.of
  /\ run.pc \in {"written", "state"} => run.summary = run.of
  /\ run.pc = "written" => disk.wsummary \in {Torn, run.summary}
  /\ run.pc = "state" => disk.wsummary = run.summary
  /\ run.pc = "revalidated" =>
       /\ ~run.force /\ disk.wstate = run.wkey
       /\ Agrees(run.summary, run.wkey.source)
       /\ disk.report \in Sources =>
            run.summary = disk.report \/ run.wkey.source \in unpaired

\* As long as nothing failed and nobody was killed, a torn file is being written
TornIsOpen ==
  troubles = 0 =>
    /\ disk.request = Torn => run.pc = "plan"
    /\ \A k \in Inputs : disk.stages[k] = Torn => run.pc = "stage" /\ k = run.key
    /\ disk.scaffold = Torn => run.pc = "scaffold"
    /\ disk.report = Torn => run.pc = "report"
    /\ disk.wsummary = Torn => run.pc \in {"revalidated", "written"}
    /\ disk.wstate = Torn => run.pc = "state"

Properties == ReturnedIsOfInputs /\ SharedInPairs /\ ForcedRunRecovers /\ RaisesForCause

RunInv ==
  /\ TypeOK /\ RunShape /\ StagesFit /\ KeyFits /\ StillThere
  /\ StoredFits /\ StoredPairs /\ SummaryFits /\ TornIsOpen
  /\ Properties
-----------------------------------------------------------------------------
(* What a step does to the invocation and to the directory                 *)

\* The step leaves everything but the run, the directory and what they report
Frame == UNCHANGED <<kind, userVars>>

\* It reports nothing, and nothing goes wrong in it
Quiet == Frame /\ UNCHANGED <<result, troubles, shared, mixed, unpaired>>

RunBecomes(place, key, plan, wkey, of, summary) ==
  /\ run' \in Runs
  /\ run'.pc = place /\ run'.key = key /\ run'.plan = plan
  /\ run'.wkey = wkey /\ run'.of = of /\ run'.summary = summary
  /\ run'.force = run.force /\ run'.cmd = run.cmd
  /\ run'.moved = run.moved /\ run'.failed = run.failed

DiskBecomes(request, stages, scaffold, report, wsummary, wstate) ==
  /\ disk' \in Disks
  /\ disk'.request = request /\ disk'.stages = stages /\ disk'.scaffold = scaffold
  /\ disk'.report = report /\ disk'.wsummary = wsummary /\ disk'.wstate = wstate

SameDisk ==
  DiskBecomes(disk.request, disk.stages, disk.scaffold, disk.report, disk.wsummary, disk.wstate)

LEMMA Unwritten == ASSUME disk \in Disks, disk' = disk PROVE SameDisk
  BY DEF SameDisk, DiskBecomes

LEMMA Goto ==
  ASSUME run \in Runs, NEW place \in Places, run' = [run EXCEPT !.pc = place]
  PROVE  RunBecomes(place, run.key, run.plan, run.wkey, run.of, run.summary)
  BY DEF RunBecomes, Runs

\* The types of what a step puts together
LEMMA NowType == TypeOK => Now \in Inputs /\ Now.source = source
  BY DEF TypeOK, Now, Inputs

LEMMA Marks ==
  /\ Absent # Torn
  /\ Absent \notin Sources /\ Torn \notin Sources
  /\ Absent \notin Inputs /\ Torn \notin Inputs
  /\ Absent \notin Keys /\ Torn \notin Keys
  /\ "request" \notin {Absent, Torn} /\ "written" \notin {Absent, Torn}
  BY RunAssumption, MarkAssumption

\* A step that reports nothing keeps what is said of the reports
LEMMA SameReports ==
  ASSUME Properties, result' = result, troubles \in Nat,
         troubles' \in {troubles, troubles + 1}, mixed \subseteq mixed', SharedInPairs'
  PROVE  Properties'
<1>1. ReturnedIsOfInputs'
  BY DEF Properties, ReturnedIsOfInputs
<1>2. RaisesForCause'
  BY DEF Properties, RaisesForCause
<1>3. ForcedRunRecovers'
  BY DEF Properties, ForcedRunRecovers
<1>4. QED
  BY <1>1, <1>2, <1>3 DEF Properties

LEMMA QuietReports == ASSUME RunInv, Quiet PROVE Properties'
<1>1. SharedInPairs'
  BY DEF RunInv, Properties, SharedInPairs, Quiet
<1>2. troubles \in Nat
  BY RunAssumption DEF RunInv, TypeOK
<1>3. QED
  BY <1>1, <1>2, SameReports DEF RunInv, Quiet

-----------------------------------------------------------------------------
(* Planning *)

Early == {"idle", "request", "plan", "produce", "stage", "scaffold", "execute"}

\* Outside the workflow the evidence of the directory is left as it is
LEMMA EvidenceUntouched ==
  ASSUME RunInv, mixed' = mixed, unpaired' = unpaired, run.pc \in Early, run'.pc \in Early,
         disk'.report = disk.report, disk'.wsummary = disk.wsummary, disk'.wstate = disk.wstate
  PROVE  StoredFits' /\ StoredPairs' /\ SummaryFits'
<1> USE DEF RunInv, Early
<1>1. StoredFits'
  BY DEF StoredFits, Agrees
<1>2. StoredPairs'
  BY DEF StoredPairs
<1>3. SummaryFits'
  BY DEF SummaryFits
<1>4. QED
  BY <1>1, <1>2, <1>3

LEMMA StartKeeps ==
  ASSUME RunInv, NEW cmd \in {"optimize", "resume"}, NEW force \in BOOLEAN, Start(cmd, force)
  PROVE  RunInv'
<1> USE DEF RunInv
<1>1. Quiet /\ run.pc = "idle" /\ run = Idle /\ disk' = disk
  BY DEF Start, Quiet, Frame, At, RunShape
<1>2. run' = [Idle EXCEPT !.pc = "request", !.cmd = cmd, !.force = force]
  BY DEF Start
<1>3. Idle \in Runs
  BY DEF Idle, Runs, Places
<1>4. run' \in Runs /\ run'.pc = "request" /\ ~run'.moved
  BY <1>2, <1>3 DEF Idle, Runs, Places
<1>5. TypeOK'
  BY <1>1, <1>4 DEF TypeOK, Quiet, Frame, userVars
<1>6. RunShape' /\ KeyFits' /\ StillThere'
  BY <1>4 DEF RunShape, KeyFits, StillThere, Producing, Planned, InWorkflow, HasReport, Summarized
<1>7. StagesFit'
  BY <1>1 DEF StagesFit, Agrees, Quiet
<1>8. TornIsOpen'
  BY <1>1, <1>4 DEF TornIsOpen, Quiet
<1>9. Properties'
  BY <1>1, QuietReports
<1>10. QED
  BY <1>1, <1>4, <1>5, <1>6, <1>7, <1>8, <1>9, EvidenceUntouched DEF Early, Quiet

LEMMA WriteRequestKeeps == ASSUME RunInv, WriteRequest PROVE RunInv'
<1> USE DEF RunInv
<1>1. Quiet /\ run.pc \in {"request", "plan"}
  BY DEF WriteRequest, Goes, Quiet, Frame, At
<1>2. /\ \E r \in {"request", Torn} :
           DiskBecomes(r, disk.stages, disk.scaffold, disk.report, disk.wsummary, disk.wstate)
      /\ RunBecomes("plan", run.key, run.plan, run.wkey, run.of, run.summary)
  <2>1. CASE At("request") /\ disk' = [disk EXCEPT !.request = Torn] /\ Goes("plan")
    BY <2>1, Goto DEF DiskBecomes, TypeOK, Disks, File, Goes, Places, RunBecomes
  <2>2. CASE At("plan") /\ disk' = [disk EXCEPT !.request = "request"] /\ run' = run
    BY <2>2 DEF DiskBecomes, TypeOK, Disks, File, At, RunBecomes
  <2>3. QED
    BY <2>1, <2>2 DEF WriteRequest
<1> USE DEF DiskBecomes, RunBecomes
<1>3. TypeOK'
  BY <1>1, <1>2 DEF TypeOK, Quiet, Frame, userVars
<1>4. RunShape' /\ KeyFits' /\ StillThere'
  BY <1>1, <1>2 DEF RunShape, KeyFits, StillThere, Producing, Planned, InWorkflow, HasReport,
     Summarized
<1>5. StagesFit'
  BY <1>1, <1>2 DEF StagesFit, Agrees, Quiet
<1>6. TornIsOpen'
  BY <1>1, <1>2 DEF TornIsOpen, Quiet
<1>7. Properties'
  BY <1>1, QuietReports
<1>8. QED
  BY <1>1, <1>2, <1>3, <1>4, <1>5, <1>6, <1>7, EvidenceUntouched DEF Early, Quiet

\* A plan is found under the present inputs
LEMMA FindPlanKeeps == ASSUME RunInv, FindPlan, run'.pc # "idle" PROVE RunInv'
<1> USE DEF RunInv
<1>1. Quiet /\ disk' = disk /\ run.pc = "plan" /\ disk.request = "request"
  BY DEF FindPlan, Quiet, Frame, At, Raise, Ends, Idle
<1>2. Now \in Inputs /\ Now.source = source /\ disk.stages[Now] \in File(Inputs)
  BY NowType DEF TypeOK, Disks
<1>3. \/ /\ disk.stages[Now] \in Inputs
         /\ RunBecomes("scaffold", Now, disk.stages[Now], run.wkey, run.of, run.summary)
         /\ disk.scaffold # Torn /\ ~run.force
      \/ RunBecomes("produce", Now, run.plan, run.wkey, run.of, run.summary)
  <2>1. CASE /\ Reused(Now) /\ disk.stages[Now] # Torn /\ disk.scaffold # Torn
             /\ run' = [run EXCEPT !.pc = "scaffold", !.key = Now, !.plan = disk.stages[Now]]
    <3>1. disk.stages[Now] \in Inputs
      BY <1>2, <2>1 DEF Reused, Exists, File
    <3>2. RunBecomes("scaffold", Now, disk.stages[Now], run.wkey, run.of, run.summary)
      BY <1>2, <2>1, <3>1 DEF RunBecomes, TypeOK, Runs, Places
    <3>3. QED
      BY <2>1, <3>1, <3>2 DEF Reused
  <2>2. CASE run' = [run EXCEPT !.pc = "produce", !.key = Now]
    BY <1>2, <2>2 DEF RunBecomes, TypeOK, Runs, Places
  <2>3. QED
    BY <2>1, <2>2 DEF FindPlan, Raise, Ends, Idle
<1>4. disk.stages[Now] \in Inputs => Agrees(disk.stages[Now].source, source)
  BY <1>2 DEF StagesFit
<1> USE DEF RunBecomes
<1>5. TypeOK'
  BY <1>1, <1>3 DEF TypeOK, Quiet, Frame, userVars
<1>6. RunShape'
  BY <1>2, <1>3 DEF RunShape, Producing, Planned, InWorkflow, HasReport, Summarized
<1>7. KeyFits' /\ StillThere'
  BY <1>1, <1>2, <1>3, <1>4 DEF KeyFits, StillThere, Agrees, Trusted, Producing, Planned,
     InWorkflow, HasReport, Quiet, Frame, userVars
<1>8. StagesFit'
  BY <1>1 DEF StagesFit, Agrees, Quiet
<1>9. TornIsOpen'
  BY <1>1, <1>3, Marks DEF TornIsOpen, Quiet
<1>10. Properties'
  BY <1>1, QuietReports
<1>11. QED
  BY <1>1, <1>3, <1>5, <1>6, <1>7, <1>8, <1>9, <1>10, EvidenceUntouched DEF Early, Quiet

LEMMA BuildPlanKeeps == ASSUME RunInv, BuildPlan PROVE RunInv'
<1> USE DEF RunInv
<1>1. Quiet /\ run.pc = "produce" /\ disk.scaffold # Torn /\ run.key \in Inputs
  BY DEF BuildPlan, Quiet, Frame, At, RunShape, Producing
<1>2. Now \in Inputs /\ Now.source = source
  BY NowType
<1>3. RunBecomes("stage", run.key, Now, run.wkey, run.of, run.summary)
  BY <1>2 DEF BuildPlan, RunBecomes, TypeOK, Runs, Places
<1>4. DiskBecomes(disk.request, [disk.stages EXCEPT ![run.key] = Torn], disk.scaffold,
                  disk.report, disk.wsummary, disk.wstate)
  BY <1>1 DEF BuildPlan, DiskBecomes, TypeOK, Disks, File
<1>5. disk.stages \in [Inputs -> File(Inputs)]
  BY DEF TypeOK, Disks
<1> USE DEF RunBecomes, DiskBecomes
<1>6. TypeOK'
  BY <1>1, <1>3, <1>4 DEF TypeOK, Quiet, Frame, userVars
<1>7. RunShape'
  BY <1>1, <1>2, <1>3 DEF RunShape, Producing, Planned, InWorkflow, HasReport, Summarized
<1>8. KeyFits' /\ StillThere'
  BY <1>1, <1>2, <1>3 DEF KeyFits, StillThere, Agrees, Producing, Planned, InWorkflow, HasReport,
     Quiet, Frame, userVars
<1>9. StagesFit'
  BY <1>1, <1>4, <1>5, Marks DEF StagesFit, Agrees, Quiet
<1>10. TornIsOpen'
  BY <1>1, <1>3, <1>4, <1>5 DEF TornIsOpen, Quiet
<1>11. Properties'
  BY <1>1, QuietReports
<1>12. QED
  BY <1>1, <1>3, <1>4, <1>6, <1>7, <1>8, <1>9, <1>10, <1>11, EvidenceUntouched DEF Early, Quiet

\* The plan is kept under the key it was looked for with
LEMMA KeepPlanKeeps == ASSUME RunInv, KeepPlan PROVE RunInv'
<1> USE DEF RunInv
<1>1. /\ Quiet /\ run.pc = "stage" /\ run.key \in Inputs /\ run.plan \in Inputs
      /\ Agrees(run.plan.source, run.key.source)
  BY DEF KeepPlan, Goes, Quiet, Frame, At, RunShape, KeyFits, Producing, Planned
<1>2. RunBecomes("scaffold", run.key, run.plan, run.wkey, run.of, run.summary)
  BY Goto DEF KeepPlan, Goes, TypeOK, Places
<1>3. DiskBecomes(disk.request, [disk.stages EXCEPT ![run.key] = run.plan], disk.scaffold,
                  disk.report, disk.wsummary, disk.wstate)
  BY <1>1 DEF KeepPlan, DiskBecomes, TypeOK, Disks, File
<1>4. disk.stages \in [Inputs -> File(Inputs)]
  BY DEF TypeOK, Disks
<1> USE DEF RunBecomes, DiskBecomes
<1>5. TypeOK'
  BY <1>1, <1>2, <1>3 DEF TypeOK, Quiet, Frame, userVars
<1>6. RunShape'
  BY <1>1, <1>2 DEF RunShape, Producing, Planned, InWorkflow, HasReport, Summarized
<1>7. KeyFits' /\ StillThere'
  BY <1>1, <1>2 DEF KeyFits, StillThere, Trusted, Producing, Planned, InWorkflow, HasReport,
     Quiet, Frame, userVars
<1>8. StagesFit'
  BY <1>1, <1>3, <1>4 DEF StagesFit, Agrees, Quiet
<1>9. TornIsOpen'
  BY <1>1, <1>2, <1>3, <1>4, Marks DEF TornIsOpen, Quiet
<1>10. Properties'
  BY <1>1, QuietReports
<1>11. QED
  BY <1>1, <1>2, <1>3, <1>5, <1>6, <1>7, <1>8, <1>9, <1>10, EvidenceUntouched DEF Early, Quiet

LEMMA ScaffoldKeeps ==
  ASSUME RunInv, WriteScaffold \/ (Scaffolded /\ Goes("execute")) PROVE RunInv'
<1> USE DEF RunInv
<1>1. Quiet /\ run.pc = "scaffold"
  BY DEF WriteScaffold, Scaffolded, Goes, Quiet, Frame, At
<1>2. /\ \E place \in {"scaffold", "execute"}, s \in {"written", Torn} :
           /\ RunBecomes(place, run.key, run.plan, run.wkey, run.of, run.summary)
           /\ DiskBecomes(disk.request, disk.stages, s, disk.report, disk.wsummary, disk.wstate)
           /\ s = Torn => place = "scaffold"
  <2>1. CASE WriteScaffold
    <3>1. RunBecomes("scaffold", run.key, run.plan, run.wkey, run.of, run.summary)
      BY <1>1, <2>1 DEF WriteScaffold, RunBecomes, TypeOK
    <3>2. \E s \in {"written", Torn} :
            DiskBecomes(disk.request, disk.stages, s, disk.report, disk.wsummary, disk.wstate)
      BY <2>1 DEF WriteScaffold, DiskBecomes, TypeOK, Disks, File
    <3>3. QED
      BY <3>1, <3>2
  <2>2. CASE Scaffolded /\ Goes("execute")
    <3>1. RunBecomes("execute", run.key, run.plan, run.wkey, run.of, run.summary)
      BY <2>2, Goto DEF Goes, TypeOK, Places
    <3>2. DiskBecomes(disk.request, disk.stages, "written", disk.report, disk.wsummary, disk.wstate)
      BY <2>2 DEF Scaffolded, DiskBecomes, TypeOK
    <3>3. QED
      BY <3>1, <3>2, Marks
  <2>3. QED
    BY <2>1, <2>2
<1> USE DEF RunBecomes, DiskBecomes
<1>3. TypeOK'
  BY <1>1, <1>2 DEF TypeOK, Quiet, Frame, userVars
<1>4. RunShape'
  BY <1>1, <1>2 DEF RunShape, Producing, Planned, InWorkflow, HasReport, Summarized
<1>5. KeyFits' /\ StillThere'
  BY <1>1, <1>2 DEF KeyFits, StillThere, Trusted, Producing, Planned, InWorkflow, HasReport,
     Quiet, Frame, userVars
<1>6. StagesFit'
  BY <1>1, <1>2 DEF StagesFit, Agrees, Quiet
<1>7. TornIsOpen'
  BY <1>1, <1>2 DEF TornIsOpen, Quiet
<1>8. Properties'
  BY <1>1, QuietReports
<1>9. QED
  BY <1>1, <1>2, <1>3, <1>4, <1>5, <1>6, <1>7, <1>8, EvidenceUntouched DEF Early, Quiet

-----------------------------------------------------------------------------
(* execute_plan *)

\* What is handed over is given to the exporter with its own report
LEMMA Shares ==
  ASSUME NEW of \in Sources, NEW about \in Sources, Share(of, of, about)
  PROVE  shared' \in Handed /\ SharedInPairs'
  BY DEF Share, Handed, SharedInPairs

\* A summary the orchestrator makes itself is of the source
LEMMA ImportKeeps == ASSUME RunInv, PreflightBlocked \/ SearchPasses PROVE RunInv'
<1> USE DEF RunInv
<1>1. /\ Frame /\ UNCHANGED <<disk, result, troubles, mixed, unpaired>> /\ run.pc = "execute"
      /\ run.plan \in Inputs /\ run.plan.source \in Sources /\ source \in Sources
  BY DEF PreflightBlocked, SearchPasses, Frame, At, RunShape, Planned, Inputs, TypeOK
<1>2. PICK of \in {source, run.plan.source} :
        /\ run' = [run EXCEPT !.pc = "outer", !.summary = of]
        /\ Share(of, of, of)
  BY DEF PreflightBlocked, SearchPasses
<1>3. of \in Sources /\ shared' \in Handed /\ SharedInPairs'
  BY <1>1, <1>2, Shares
<1>4. RunBecomes("outer", run.key, run.plan, run.wkey, run.of, of)
  BY <1>2, <1>3 DEF RunBecomes, TypeOK, Runs, Places
<1>5. ~run.moved /\ Trusted => of = source
  BY <1>1 DEF StillThere, Planned
<1> USE DEF RunBecomes
<1>6. TypeOK'
  BY <1>1, <1>3, <1>4 DEF TypeOK, Frame, userVars
<1>7. RunShape' /\ KeyFits' /\ SummaryFits'
  BY <1>1, <1>3, <1>4 DEF RunShape, KeyFits, SummaryFits, Producing, Planned, InWorkflow,
     HasReport, Summarized
<1>8. StillThere'
  BY <1>1, <1>4, <1>5 DEF StillThere, Trusted, Producing, Planned, InWorkflow, HasReport,
     Frame, userVars
<1>9. StagesFit' /\ StoredFits' /\ StoredPairs'
  BY <1>1, <1>4 DEF StagesFit, StoredFits, StoredPairs, Agrees
<1>10. TornIsOpen'
  BY <1>1, <1>4 DEF TornIsOpen
<1>11. Properties'
  BY <1>1, <1>3, SameReports, RunAssumption DEF TypeOK
<1>12. QED
  BY <1>6, <1>7, <1>8, <1>9, <1>10, <1>11

\* The key of the workflow is that of the source as it is
LEMMA DelegateKeeps == ASSUME RunInv, Delegate PROVE RunInv'
<1> USE DEF RunInv
<1>1. /\ Quiet /\ disk' = disk /\ run.pc = "execute"
      /\ run.plan \in Inputs /\ source \in Sources
      /\ run' = [run EXCEPT !.pc = "workflow", !.wkey = Manifest]
  BY DEF Delegate, Quiet, Frame, At, RunShape, Planned, TypeOK
<1>2. Manifest \in Keys /\ Manifest.source = source
  BY <1>1 DEF Manifest, Keys, Inputs
<1>3. RunBecomes("workflow", run.key, run.plan, Manifest, run.of, run.summary)
  BY <1>1, <1>2 DEF RunBecomes, TypeOK, Runs, Places
<1> USE DEF RunBecomes
<1>4. TypeOK'
  BY <1>1, <1>3 DEF TypeOK, Quiet, Frame, userVars
<1>5. RunShape' /\ KeyFits' /\ StillThere' /\ SummaryFits'
  BY <1>1, <1>2, <1>3 DEF RunShape, KeyFits, StillThere, SummaryFits, Agrees, Quiet, Frame,
     userVars, Producing, Planned, InWorkflow, HasReport, Summarized
<1>6. StagesFit' /\ StoredFits' /\ StoredPairs'
  BY <1>1, <1>3 DEF StagesFit, StoredFits, StoredPairs, Agrees, Quiet
<1>7. TornIsOpen'
  BY <1>1, <1>3 DEF TornIsOpen, Quiet
<1>8. Properties'
  BY <1>1, QuietReports
<1>9. QED
  BY <1>4, <1>5, <1>6, <1>7, <1>8

-----------------------------------------------------------------------------
(* run_agent_workflow *)

\* The summary that is revalidated agrees with the key and goes with the report
LEMMA RevalidateKeeps == ASSUME RunInv, Revalidate PROVE RunInv'
<1> USE DEF RunInv
<1>1. /\ Frame /\ UNCHANGED <<result, troubles, mixed, unpaired>> /\ run.pc = "workflow"
      /\ run.wkey \in Keys /\ ~run.force
      /\ disk.wstate = run.wkey /\ disk.wsummary \notin {Absent, Torn} /\ disk.report # Torn
      /\ run' = [run EXCEPT !.pc = "revalidated", !.summary = disk.wsummary]
      /\ IF disk.report # Absent THEN Share(disk.wsummary, disk.report, run.wkey.source)
                                 ELSE UNCHANGED shared
  BY DEF Revalidate, Cached, Exists, Frame, At, RunShape, InWorkflow
<1>2. disk.wsummary \in Sources /\ disk.report \in Sources \cup {Absent}
  BY <1>1 DEF TypeOK, Disks, File
<1>3. RunBecomes("revalidated", run.key, run.plan, run.wkey, run.of, disk.wsummary)
  BY <1>1, <1>2 DEF RunBecomes, TypeOK, Runs, Places
<1>4. DiskBecomes(disk.request, disk.stages, disk.scaffold, disk.report, Torn, disk.wstate)
  BY DEF Revalidate, DiskBecomes, TypeOK, Disks, File
<1>5. Agrees(disk.wsummary, run.wkey.source)
  BY <1>1, <1>2 DEF StoredFits
<1>6. disk.report \in Sources => disk.wsummary = disk.report \/ run.wkey.source \in unpaired
  BY <1>1, <1>2 DEF StoredPairs
<1>7. shared' \in Handed \cup {Absent} /\ SharedInPairs'
  <2>1. CASE disk.report = Absent
    BY <1>1, <2>1 DEF TypeOK, Properties, SharedInPairs
  <2>2. CASE disk.report \in Sources
    <3>1. /\ shared' = [summary |-> disk.wsummary, report |-> disk.report,
                        about |-> run.wkey.source]
          /\ run.wkey.source \in Sources
      BY <1>1, <2>2, RunAssumption DEF Share, Keys
    <3>2. QED
      BY <1>1, <1>2, <1>6, <2>2, <3>1 DEF Handed, SharedInPairs
  <2>3. QED
    BY <1>2, <2>1, <2>2
<1> USE DEF RunBecomes, DiskBecomes
<1>8. TypeOK'
  BY <1>1, <1>3, <1>4, <1>7 DEF TypeOK, Frame, userVars
<1>9. RunShape' /\ KeyFits' /\ StillThere'
  BY <1>1, <1>2, <1>3 DEF RunShape, KeyFits, StillThere, Agrees, Frame, userVars, Producing,
     Planned, InWorkflow, HasReport, Summarized
<1>10. StagesFit' /\ StoredFits' /\ StoredPairs'
  BY <1>1, <1>4, Marks DEF StagesFit, StoredFits, StoredPairs, Agrees
<1>11. SummaryFits'
  BY <1>1, <1>3, <1>4, <1>5, <1>6 DEF SummaryFits, Agrees
<1>12. TornIsOpen'
  BY <1>1, <1>3, <1>4 DEF TornIsOpen
<1>13. Properties'
  BY <1>1, <1>7, SameReports, RunAssumption DEF TypeOK
<1>14. QED
  BY <1>8, <1>9, <1>10, <1>11, <1>12, <1>13

LEMMA KeepRevalidatedKeeps == ASSUME RunInv, KeepRevalidated PROVE RunInv'
<1> USE DEF RunInv
<1>1. /\ Quiet /\ run.pc = "revalidated" /\ run.wkey \in Keys /\ run.summary \in Sources
  BY DEF KeepRevalidated, Goes, Quiet, Frame, At, RunShape, InWorkflow, Summarized
<1>2. RunBecomes("outer", run.key, run.plan, run.wkey, run.of, run.summary)
  BY Goto DEF KeepRevalidated, Goes, TypeOK, Places
<1>3. DiskBecomes(disk.request, disk.stages, disk.scaffold, disk.report, run.summary, disk.wstate)
  BY <1>1 DEF KeepRevalidated, DiskBecomes, TypeOK, Disks, File
<1>4. /\ ~run.force /\ disk.wstate = run.wkey /\ Agrees(run.summary, run.wkey.source)
      /\ disk.report \in Sources => run.summary = disk.report \/ run.wkey.source \in unpaired
  BY <1>1 DEF SummaryFits
<1>5. ~run.moved /\ Trusted => run.summary = source
  BY <1>1, <1>4 DEF StillThere, InWorkflow, Agrees, Trusted
<1> USE DEF RunBecomes, DiskBecomes
<1>6. TypeOK'
  BY <1>1, <1>2, <1>3 DEF TypeOK, Quiet, Frame, userVars
<1>7. RunShape' /\ KeyFits' /\ SummaryFits'
  BY <1>1, <1>2 DEF RunShape, KeyFits, SummaryFits, Producing, Planned, InWorkflow, HasReport,
     Summarized
<1>8. StillThere'
  BY <1>1, <1>2, <1>5 DEF StillThere, Trusted, Quiet, Frame, userVars, Producing, Planned,
     InWorkflow, HasReport
<1>9. StagesFit' /\ StoredFits' /\ StoredPairs'
  BY <1>1, <1>3, <1>4 DEF StagesFit, StoredFits, StoredPairs, Agrees, Quiet
<1>10. TornIsOpen'
  BY <1>1, <1>2, <1>3, Marks DEF TornIsOpen, Quiet
<1>11. Properties'
  BY <1>1, QuietReports
<1>12. QED
  BY <1>6, <1>7, <1>8, <1>9, <1>10, <1>11

LEMMA RecomputeKeeps == ASSUME RunInv, Recompute PROVE RunInv'
<1> USE DEF RunInv
<1>1. Quiet /\ disk' = disk /\ run.pc = "workflow"
  BY DEF Recompute, Goes, Quiet, Frame, At
<1>2. RunBecomes("run", run.key, run.plan, run.wkey, run.of, run.summary)
  BY Goto DEF Recompute, Goes, TypeOK, Places
<1> USE DEF RunBecomes
<1>3. TypeOK'
  BY <1>1, <1>2 DEF TypeOK, Quiet, Frame, userVars
<1>4. RunShape' /\ KeyFits' /\ StillThere' /\ SummaryFits'
  BY <1>1, <1>2 DEF RunShape, KeyFits, StillThere, SummaryFits, Agrees, Quiet, Frame, userVars,
     Producing, Planned, InWorkflow, HasReport, Summarized
<1>5. StagesFit' /\ StoredFits' /\ StoredPairs'
  BY <1>1, <1>2 DEF StagesFit, StoredFits, StoredPairs, Agrees, Quiet
<1>6. TornIsOpen'
  BY <1>1, <1>2 DEF TornIsOpen, Quiet
<1>7. Properties'
  BY <1>1, QuietReports
<1>8. QED
  BY <1>3, <1>4, <1>5, <1>6, <1>7

\* The report is of the source as it is, which the key agrees with
LEMMA RunStageKeeps == ASSUME RunInv, RunStage PROVE RunInv'
<1> USE DEF RunInv
<1>1. /\ Quiet /\ run.pc = "run" /\ run.wkey \in Keys /\ source \in Sources
  BY DEF RunStage, Quiet, Frame, At, RunShape, InWorkflow, TypeOK
<1>2. RunBecomes("report", run.key, run.plan, run.wkey, source, run.summary)
  BY <1>1 DEF RunStage, RunBecomes, TypeOK, Runs, Places
<1>3. DiskBecomes(disk.request, disk.stages, disk.scaffold, Torn, disk.wsummary, disk.wstate)
  BY DEF RunStage, DiskBecomes, TypeOK, Disks, File
<1> USE DEF RunBecomes, DiskBecomes
<1>4. TypeOK'
  BY <1>1, <1>2, <1>3 DEF TypeOK, Quiet, Frame, userVars
<1>5. RunShape' /\ KeyFits' /\ StillThere' /\ SummaryFits'
  BY <1>1, <1>2 DEF RunShape, KeyFits, StillThere, SummaryFits, Agrees, Quiet, Frame, userVars,
     Producing, Planned, InWorkflow, HasReport, Summarized
<1>6. StagesFit' /\ StoredFits' /\ StoredPairs'
  BY <1>1, <1>2, <1>3, Marks DEF StagesFit, StoredFits, StoredPairs, Agrees, Quiet
<1>7. TornIsOpen'
  BY <1>1, <1>2, <1>3 DEF TornIsOpen, Quiet
<1>8. Properties'
  BY <1>1, QuietReports
<1>9. QED
  BY <1>4, <1>5, <1>6, <1>7, <1>8

LEMMA StageReportsKeeps == ASSUME RunInv, StageReports PROVE RunInv'
<1> USE DEF RunInv
<1>1. Quiet /\ run.pc = "report" /\ run.of \in Sources
  BY DEF StageReports, Goes, Quiet, Frame, At, RunShape, HasReport
<1>2. RunBecomes("summary", run.key, run.plan, run.wkey, run.of, run.summary)
  BY Goto DEF StageReports, Goes, TypeOK, Places
<1>3. DiskBecomes(disk.request, disk.stages, disk.scaffold, run.of, disk.wsummary, disk.wstate)
  BY <1>1 DEF StageReports, DiskBecomes, TypeOK, Disks, File
<1> USE DEF RunBecomes, DiskBecomes
<1>4. TypeOK'
  BY <1>1, <1>2, <1>3 DEF TypeOK, Quiet, Frame, userVars
<1>5. RunShape' /\ KeyFits' /\ StillThere' /\ SummaryFits'
  BY <1>1, <1>2, <1>3 DEF RunShape, KeyFits, StillThere, SummaryFits, Agrees, Quiet, Frame,
     userVars, Producing, Planned, InWorkflow, HasReport, Summarized
<1>6. StagesFit' /\ StoredFits' /\ StoredPairs'
  BY <1>1, <1>2, <1>3 DEF StagesFit, StoredFits, StoredPairs, Agrees, Quiet
<1>7. TornIsOpen'
  BY <1>1, <1>2, <1>3, Marks DEF TornIsOpen, Quiet
<1>8. Properties'
  BY <1>1, QuietReports
<1>9. QED
  BY <1>4, <1>5, <1>6, <1>7, <1>8

\* The stage of a C region may fail and leave an older report to be summarized,
\* which mixes the content up
LEMMA CStageFailsKeeps == ASSUME RunInv, StageFails, run'.pc # "idle" PROVE RunInv'
<1> USE DEF RunInv
<1>1. /\ Frame /\ UNCHANGED <<disk, result, shared, unpaired>> /\ run.pc = "run"
      /\ troubles < MaxTroubles /\ troubles' = troubles + 1
      /\ disk.report \in Sources /\ mixed' = mixed \cup {source}
      /\ run' = [run EXCEPT !.pc = "summary", !.of = disk.report, !.failed = TRUE]
  <2>1. Idle.pc = "idle"
    BY DEF Idle
  <2>2. ~Fail
    BY <2>1 DEF Fail
  <2>3. QED
    BY <2>2 DEF StageFails, Frame, At
<1>2. /\ run' \in Runs /\ run'.pc = "summary" /\ run'.key = run.key /\ run'.plan = run.plan
      /\ run'.wkey = run.wkey /\ run'.of = disk.report /\ run'.summary = run.summary
      /\ run'.force = run.force /\ run'.moved = run.moved /\ run'.failed
  BY <1>1 DEF TypeOK, Runs, Places
<1>3. troubles \in Nat /\ troubles' \in 0 .. MaxTroubles /\ troubles' > 0
  BY <1>1, RunAssumption DEF TypeOK
<1>4. TypeOK'
  BY <1>1, <1>2, <1>3 DEF TypeOK, Frame, userVars
<1>5. RunShape' /\ KeyFits' /\ StillThere' /\ SummaryFits'
  BY <1>1, <1>2 DEF RunShape, KeyFits, StillThere, SummaryFits, Agrees, Frame, userVars,
     Producing, Planned, InWorkflow, HasReport, Summarized
<1>6. StagesFit' /\ StoredFits' /\ StoredPairs'
  BY <1>1, <1>2 DEF StagesFit, StoredFits, StoredPairs, Agrees
<1>7. TornIsOpen'
  BY <1>3 DEF TornIsOpen
<1>8. SharedInPairs'
  BY <1>1 DEF SharedInPairs, Properties
<1>9. Properties'
  BY <1>1, <1>3, <1>8, SameReports
<1>10. QED
  BY <1>4, <1>5, <1>6, <1>7, <1>9

LEMMA SummarizeKeeps == ASSUME RunInv, Summarize PROVE RunInv'
<1> USE DEF RunInv
<1>1. /\ Frame /\ UNCHANGED <<result, troubles, mixed, unpaired>> /\ run.pc = "summary"
      /\ run.of \in Sources /\ run.wkey \in Keys
      /\ Share(run.of, run.of, run.wkey.source)
      /\ disk' = [disk EXCEPT !.wsummary = Torn]
      /\ run' = [run EXCEPT !.pc = "written", !.summary = run.of]
  BY DEF Summarize, Frame, At, RunShape, HasReport, InWorkflow
<1>2. run.wkey.source \in Sources
  BY <1>1 DEF Keys
<1>3. shared' \in Handed /\ SharedInPairs'
  BY <1>1, <1>2, Shares
<1>4. RunBecomes("written", run.key, run.plan, run.wkey, run.of, run.of)
  BY <1>1 DEF RunBecomes, TypeOK, Runs, Places
<1>5. DiskBecomes(disk.request, disk.stages, disk.scaffold, disk.report, Torn, disk.wstate)
  BY <1>1 DEF DiskBecomes, TypeOK, Disks, File
<1> USE DEF RunBecomes, DiskBecomes
<1>6. TypeOK'
  BY <1>1, <1>3, <1>4, <1>5 DEF TypeOK, Frame, userVars
<1>7. RunShape' /\ KeyFits' /\ StillThere' /\ SummaryFits'
  BY <1>1, <1>4, <1>5 DEF RunShape, KeyFits, StillThere, SummaryFits, Agrees, Frame, userVars,
     Producing, Planned, InWorkflow, HasReport, Summarized
<1>8. StagesFit' /\ StoredFits' /\ StoredPairs'
  BY <1>1, <1>4, <1>5, Marks DEF StagesFit, StoredFits, StoredPairs, Agrees
<1>9. TornIsOpen'
  BY <1>1, <1>4, <1>5 DEF TornIsOpen
<1>10. Properties'
  BY <1>1, <1>3, SameReports, RunAssumption DEF TypeOK
<1>11. QED
  BY <1>6, <1>7, <1>8, <1>9, <1>10

LEMMA KeepSummaryKeeps == ASSUME RunInv, KeepSummary PROVE RunInv'
<1> USE DEF RunInv
<1>1. /\ Quiet /\ run' = run /\ run.pc = "written"
      /\ run.summary \in Sources /\ run.summary = run.of /\ disk.report = run.of
  BY DEF KeepSummary, Quiet, Frame, At, RunShape, Summarized, SummaryFits
<1>2. DiskBecomes(disk.request, disk.stages, disk.scaffold, disk.report, run.summary, disk.wstate)
  BY <1>1 DEF KeepSummary, DiskBecomes, TypeOK, Disks, File
<1> USE DEF DiskBecomes
<1>3. TypeOK'
  BY <1>1, <1>2 DEF TypeOK, Quiet, Frame, userVars
<1>4. RunShape' /\ KeyFits' /\ StillThere' /\ SummaryFits'
  BY <1>1, <1>2 DEF RunShape, KeyFits, StillThere, SummaryFits, Trusted, Agrees, Quiet, Frame,
     userVars, Producing, Planned, InWorkflow, HasReport, Summarized
<1>5. StagesFit' /\ StoredFits' /\ StoredPairs'
  BY <1>1, <1>2 DEF StagesFit, StoredFits, StoredPairs, Agrees, Quiet
<1>6. TornIsOpen'
  BY <1>1, <1>2, Marks DEF TornIsOpen, Quiet
<1>7. Properties'
  BY <1>1, QuietReports
<1>8. QED
  BY <1>3, <1>4, <1>5, <1>6, <1>7

LEMMA OpenStateKeeps == ASSUME RunInv, OpenState PROVE RunInv'
<1> USE DEF RunInv
<1>1. Quiet /\ run.pc = "written" /\ disk.wsummary # Torn
  BY DEF OpenState, Goes, Quiet, Frame, At
<1>2. RunBecomes("state", run.key, run.plan, run.wkey, run.of, run.summary)
  BY Goto DEF OpenState, Goes, TypeOK, Places
<1>3. DiskBecomes(disk.request, disk.stages, disk.scaffold, disk.report, disk.wsummary, Torn)
  BY DEF OpenState, DiskBecomes, TypeOK, Disks, File
<1>4. disk.wsummary = run.summary /\ run.summary = run.of /\ disk.report = run.of
  BY <1>1 DEF SummaryFits
<1> USE DEF RunBecomes, DiskBecomes
<1>5. TypeOK'
  BY <1>1, <1>2, <1>3 DEF TypeOK, Quiet, Frame, userVars
<1>6. RunShape' /\ KeyFits' /\ StillThere' /\ SummaryFits'
  BY <1>1, <1>2, <1>3, <1>4 DEF RunShape, KeyFits, StillThere, SummaryFits, Agrees, Quiet, Frame,
     userVars, Producing, Planned, InWorkflow, HasReport, Summarized
<1>7. StagesFit' /\ StoredFits' /\ StoredPairs'
  BY <1>1, <1>3, Marks DEF StagesFit, StoredFits, StoredPairs, Agrees, Quiet
<1>8. TornIsOpen'
  BY <1>1, <1>2, <1>3, <1>4 DEF TornIsOpen, Quiet
<1>9. Properties'
  BY <1>1, QuietReports
<1>10. QED
  BY <1>5, <1>6, <1>7, <1>8, <1>9

\* From here on the directory speaks of the new key
LEMMA KeepStateKeeps == ASSUME RunInv, KeepState PROVE RunInv'
<1> USE DEF RunInv
<1>1. /\ Quiet /\ run.pc = "state" /\ run.wkey \in Keys /\ run.of \in Sources
      /\ Agrees(run.of, run.wkey.source)
      /\ disk.wsummary = run.summary /\ run.summary = run.of /\ disk.report = run.of
  BY DEF KeepState, Goes, Quiet, Frame, At, RunShape, InWorkflow, HasReport, SummaryFits, KeyFits
<1>2. RunBecomes("outer", run.key, run.plan, run.wkey, run.of, run.summary)
  BY Goto DEF KeepState, Goes, TypeOK, Places
<1>3. DiskBecomes(disk.request, disk.stages, disk.scaffold, disk.report, disk.wsummary, run.wkey)
  BY <1>1 DEF KeepState, DiskBecomes, TypeOK, Disks, File
<1>4. ~run.moved /\ ~run.failed => run.summary = source
  BY <1>1 DEF StillThere, HasReport
<1> USE DEF RunBecomes, DiskBecomes
<1>5. TypeOK'
  BY <1>1, <1>2, <1>3 DEF TypeOK, Quiet, Frame, userVars
<1>6. RunShape' /\ KeyFits' /\ SummaryFits'
  BY <1>1, <1>2 DEF RunShape, KeyFits, SummaryFits, Producing, Planned, InWorkflow, HasReport,
     Summarized
<1>7. StillThere'
  BY <1>1, <1>2, <1>4 DEF StillThere, Quiet, Frame, userVars, Producing, Planned, InWorkflow,
     HasReport
<1>8. StagesFit' /\ StoredFits' /\ StoredPairs'
  BY <1>1, <1>2, <1>3 DEF StagesFit, StoredFits, StoredPairs, Agrees, Quiet
<1>9. TornIsOpen'
  BY <1>1, <1>2, <1>3, Marks DEF TornIsOpen, Quiet
<1>10. Properties'
  BY <1>1, QuietReports
<1>11. QED
  BY <1>5, <1>6, <1>7, <1>8, <1>9, <1>10

-----------------------------------------------------------------------------
(* How an invocation ends *)

\* The end of an invocation keeps what the directory is for the next one.  Where it
\* leaves the state of the invocation before beside a newer summary, or its summary
\* beside a newer report, the content that state names is noted.
LEMMA EndKeeps ==
  ASSUME RunInv, Frame, SameDisk, run' = Idle, result' \in Results, shared' = shared,
         troubles' \in {troubles, troubles + 1}, troubles' \in 0 .. MaxTroubles,
         mixed' = mixed \cup Overtaken, unpaired' = unpaired \cup Unpaired,
         troubles' = 0 => \/ run.pc \in {"idle", "execute", "outer"}
                          \/ run.pc = "scaffold" /\ disk.scaffold # Torn,
         ReturnedIsOfInputs', ForcedRunRecovers', RaisesForCause'
  PROVE  RunInv'
<1> USE DEF RunInv
<1>1. Idle \in Runs /\ Idle.pc = "idle" /\ ~Idle.moved
  BY DEF Idle, Runs, Places
<1>2. troubles \in Nat
  BY RunAssumption DEF TypeOK
<1>3. Overtaken \subseteq Sources /\ Unpaired \subseteq Sources
  BY DEF Overtaken, Unpaired, Keys
<1> USE DEF SameDisk, DiskBecomes
<1>4. TypeOK'
  BY <1>1, <1>3 DEF TypeOK, Frame, userVars
<1>5. RunShape' /\ KeyFits' /\ StillThere' /\ SummaryFits'
  BY <1>1 DEF RunShape, KeyFits, StillThere, SummaryFits,
     Producing, Planned, InWorkflow, HasReport, Summarized
<1>6. StagesFit'
  BY DEF StagesFit, Agrees
<1>7. StoredFits'
  <2>1. CASE run.pc = "written"
    <3>1. disk.wstate \in Keys =>
            run.of = disk.wstate.source \/ disk.wstate.source \in mixed'
      BY <2>1 DEF Overtaken, At
    <3>2. disk.wsummary \in {Torn, run.of}
      BY <2>1 DEF SummaryFits, RunShape, Summarized
    <3>3. QED
      BY <3>1, <3>2, Marks DEF StoredFits, Agrees
  <2>2. CASE run.pc # "written"
    BY <2>2 DEF StoredFits, Agrees
  <2>3. QED
    BY <2>1, <2>2
<1>8. StoredPairs'
  <2>1. CASE run.pc = "summary"
    BY <2>1 DEF StoredPairs, SummaryFits, Unpaired, At
  <2>2. CASE run.pc # "summary"
    BY <2>2 DEF StoredPairs
  <2>3. QED
    BY <2>1, <2>2
<1>9. TornIsOpen'
  BY <1>1, <1>2 DEF TornIsOpen
<1>10. SharedInPairs'
  BY DEF Properties, SharedInPairs
<1>11. QED
  BY <1>4, <1>5, <1>6, <1>7, <1>8, <1>9, <1>10 DEF Properties

\* No step records what the next invocation will make of what it leaves but a kill
\* between two writes
Unmixed == mixed' = mixed /\ unpaired' = unpaired
Records == mixed' = mixed \cup Overtaken /\ unpaired' = unpaired \cup Unpaired

LEMMA NothingOvertaken ==
  ASSUME run.pc \notin {"summary", "written"}, Unmixed PROVE Records
  BY DEF Overtaken, Unpaired, Unmixed, Records, At

LEMMA OutcomeType ==
  ASSUME TypeOK, NEW failed \in BOOLEAN, NEW of \in Sources \cup {Absent},
         NEW end \in {"none", "disposition", "refused", "raised", "killed"}
  PROVE  /\ Outcome(end, of, failed) \in Results
         /\ Outcome(end, of, failed).end = end /\ Outcome(end, of, failed).of = of
         /\ Outcome(end, of, failed).failed = failed /\ Outcome(end, of, failed).at = source
         /\ Outcome(end, of, failed).moved = run.moved
         /\ Outcome(end, of, failed).force = run.force
         /\ Outcome(end, of, failed).cmd = run.cmd
         /\ Outcome(end, of, failed).torn = (disk.scaffold = Torn)
  BY DEF Outcome, Results, TypeOK, Runs

\* An end that returns no disposition and raises nothing, or not without a failure
LEMMA QuietEnd ==
  ASSUME TypeOK, NEW end \in {"none", "killed", "raised"},
         NEW failed \in BOOLEAN, end = "raised" => failed,
         result' = Outcome(end, Absent, failed)
  PROVE  result' \in Results /\ ReturnedIsOfInputs' /\ ForcedRunRecovers' /\ RaisesForCause'
<1>1. result' \in Results /\ result'.end = end /\ result'.failed = failed
  BY OutcomeType
<1>2. QED
  BY <1>1 DEF ReturnedIsOfInputs, ForcedRunRecovers, RaisesForCause

\* A torn file is met only after a crash; a forced run meets a scaffold only
LEMMA TornEnd ==
  ASSUME TypeOK, troubles > 0, troubles' = troubles, ~run.force \/ disk.scaffold = Torn, Raise
  PROVE  result' \in Results /\ ReturnedIsOfInputs' /\ ForcedRunRecovers' /\ RaisesForCause'
<1>1. run.failed \in BOOLEAN /\ result' = Outcome("raised", Absent, run.failed)
  BY DEF TypeOK, Runs, Raise, Ends
<1>2. /\ result' \in Results /\ result'.end = "raised" /\ result'.force = run.force
      /\ result'.torn = (disk.scaffold = Torn)
  BY <1>1, OutcomeType
<1>3. QED
  BY <1>2 DEF ReturnedIsOfInputs, ForcedRunRecovers, RaisesForCause

LEMMA ResumeRefusedKeeps ==
  ASSUME RunInv, NEW force \in BOOLEAN, ResumeRefused(force) PROVE RunInv'
<1> USE DEF RunInv
<1>1. /\ Frame /\ UNCHANGED <<disk, troubles, shared>> /\ run.pc = "idle" /\ run' = Idle
      /\ disk.request # "request" /\ Records
  BY NothingOvertaken DEF Unmixed, ResumeRefused, Frame, At
<1>2. /\ result' \in Results /\ result'.cmd = "resume"
      /\ result'.end = IF disk.request = Absent THEN "refused" ELSE "raised"
  BY DEF ResumeRefused, Results, TypeOK
<1>3. troubles = 0 => result'.end = "refused"
  BY <1>1, <1>2 DEF TornIsOpen, TypeOK, Disks, File
<1>4. troubles \in 0 .. MaxTroubles
  BY DEF TypeOK
<1>5. ReturnedIsOfInputs' /\ ForcedRunRecovers' /\ RaisesForCause'
  BY <1>1, <1>2, <1>3, <1>4 DEF ReturnedIsOfInputs, ForcedRunRecovers, RaisesForCause
<1>6. SameDisk
  BY <1>1, Unwritten DEF TypeOK
<1>7. QED
  BY <1>1, <1>2, <1>4, <1>5, <1>6, EndKeeps DEF Records

LEMMA FailKeeps ==
  ASSUME RunInv, SearchRaises \/ (StageFails /\ Fail) PROVE RunInv'
<1> USE DEF RunInv
<1>1. /\ Frame /\ UNCHANGED <<disk, shared>> /\ run.pc \in {"execute", "run"}
      /\ troubles < MaxTroubles /\ troubles' = troubles + 1
      /\ run' = Idle /\ result' = Outcome("raised", Absent, TRUE)
      /\ Unmixed
  <2>1. Fail => ~(run' = [run EXCEPT !.pc = "summary", !.of = disk.report, !.failed = TRUE])
    <3>1. run \in Runs /\ Idle.pc = "idle"
      BY DEF TypeOK, Idle
    <3>2. [run EXCEPT !.pc = "summary", !.of = disk.report, !.failed = TRUE].pc = "summary"
      BY <3>1 DEF Runs
    <3>3. QED
      BY <3>1, <3>2 DEF Fail
  <2>2. CASE SearchRaises
    BY <2>2 DEF SearchRaises, Fail, Unmixed, Frame, At
  <2>3. CASE StageFails /\ Fail
    BY <2>1, <2>3 DEF StageFails, Fail, Unmixed, Frame, At
  <2>4. QED
    BY <2>2, <2>3
<1>2. troubles' \in 0 .. MaxTroubles /\ troubles' > 0 /\ Records
  BY <1>1, RunAssumption, NothingOvertaken DEF TypeOK
<1>3. result' \in Results /\ ReturnedIsOfInputs' /\ ForcedRunRecovers' /\ RaisesForCause'
  BY <1>1, QuietEnd
<1>4. SameDisk
  BY <1>1, Unwritten DEF TypeOK
<1>5. QED
  BY <1>1, <1>2, <1>3, <1>4, EndKeeps DEF Records

LEMMA TornKeeps ==
  ASSUME RunInv, (FindPlan /\ Raise) \/ PlanRaises \/ RevalidateTorn PROVE RunInv'
<1> USE DEF RunInv
<1>1. /\ Frame /\ Unmixed /\ UNCHANGED <<disk, shared, troubles>> /\ run' = Idle /\ Raise
      /\ run.pc \in {"plan", "produce", "workflow"}
  BY DEF FindPlan, PlanRaises, RevalidateTorn, Raise, Ends, Unmixed, Frame, At
<1>2. troubles \in 0 .. MaxTroubles /\ troubles \in Nat /\ Records
  BY <1>1, RunAssumption, NothingOvertaken DEF TypeOK
<1>3. troubles > 0 /\ (~run.force \/ disk.scaffold = Torn)
  <2>1. CASE FindPlan /\ Raise
    <3>1. run'.pc = "idle"
      BY <1>1 DEF Idle
    <3>2. run \in Runs /\ run.pc = "plan"
      BY <2>1 DEF FindPlan, At, TypeOK
    <3>3. ~(run' = [run EXCEPT !.pc = "scaffold", !.key = Now, !.plan = disk.stages[Now]])
      BY <3>1, <3>2 DEF Runs
    <3>4. ~(run' = [run EXCEPT !.pc = "produce", !.key = Now])
      BY <3>1, <3>2 DEF Runs
    <3>5. Reused(Now) /\ disk.stages[Now] = Torn
      BY <2>1, <3>3, <3>4 DEF FindPlan
    <3>6. QED
      BY <1>2, <3>2, <3>5, NowType DEF TornIsOpen, Reused
  <2>2. CASE PlanRaises
    BY <1>2, <2>2 DEF PlanRaises, At, TornIsOpen
  <2>3. CASE RevalidateTorn
    BY <1>2, <2>3 DEF RevalidateTorn, At, Cached, TornIsOpen
  <2>4. QED
    BY <2>1, <2>2, <2>3
<1>4. result' \in Results /\ ReturnedIsOfInputs' /\ ForcedRunRecovers' /\ RaisesForCause'
  BY <1>1, <1>3, TornEnd
<1>5. SameDisk
  BY <1>1, Unwritten DEF TypeOK
<1>6. QED
  BY <1>1, <1>2, <1>3, <1>4, <1>5, EndKeeps DEF Records

LEMMA QuietKeeps ==
  ASSUME RunInv, (Scaffolded /\ Ends("none", Absent)) \/ Kill PROVE RunInv'
<1> USE DEF RunInv
<1>1. /\ Frame /\ UNCHANGED <<disk, shared>> /\ run' = Idle
      /\ \E end \in {"none", "killed"} : result' = Outcome(end, Absent, run.failed)
      /\ \/ /\ run.pc = "scaffold" /\ disk.scaffold = "written"
            /\ troubles' = troubles /\ Unmixed
         \/ /\ troubles < MaxTroubles /\ troubles' = troubles + 1
            /\ Records
  BY DEF Scaffolded, Kill, Ends, Unmixed, Records, Frame, At
<1>2. /\ troubles \in Nat /\ troubles' \in 0 .. MaxTroubles /\ run.failed \in BOOLEAN
      /\ troubles' = troubles \/ troubles' > 0
      /\ Records
  BY <1>1, RunAssumption, NothingOvertaken DEF TypeOK, Runs
<1>3. result' \in Results /\ ReturnedIsOfInputs' /\ ForcedRunRecovers' /\ RaisesForCause'
  BY <1>1, <1>2, QuietEnd
<1>4. SameDisk
  BY <1>1, Unwritten DEF TypeOK
<1>5. QED
  BY <1>1, <1>2, <1>3, <1>4, EndKeeps, Marks DEF Records

\* What is returned is of the source as it is
LEMMA DisposeKeeps == ASSUME RunInv, Dispose PROVE RunInv'
<1> USE DEF RunInv
<1>1. /\ Frame /\ UNCHANGED <<disk, shared, troubles>> /\ run' = Idle /\ run.pc = "outer"
      /\ result' = Outcome("disposition", run.summary, run.failed) /\ Unmixed
      /\ run.summary \in Sources
  BY DEF Dispose, Ends, Unmixed, Frame, At, RunShape, Summarized
<1>2. /\ run.failed \in BOOLEAN /\ troubles \in 0 .. MaxTroubles
      /\ Records
  BY <1>1, NothingOvertaken DEF TypeOK, Runs
<1>3. SameDisk
  BY <1>1, Unwritten DEF TypeOK
<1>4. /\ result' \in Results /\ result'.end = "disposition" /\ result'.of = run.summary
      /\ result'.at = source /\ result'.moved = run.moved /\ result'.failed = run.failed
      /\ result'.force = run.force
  BY <1>1, <1>2, OutcomeType
<1>5. ~run.moved /\ ~run.failed /\ Trusted => run.summary = source
  BY <1>1 DEF StillThere
<1>6. ReturnedIsOfInputs' /\ ForcedRunRecovers' /\ RaisesForCause'
  BY <1>1, <1>4, <1>5 DEF ReturnedIsOfInputs, ForcedRunRecovers, RaisesForCause, Trusted,
     Unmixed
<1>7. QED
  BY <1>1, <1>2, <1>3, <1>4, <1>6, EndKeeps DEF Records

-----------------------------------------------------------------------------
(* The user *)

\* A change of the inputs leaves the evidence as it is.  A content that is replaced
\* under an invocation is mixed up from now on.
LEMMA ChangeKeeps ==
  ASSUME RunInv, NEW src \in Sources, NEW bnd \in BOOLEAN, Change(src, bnd),
         NEW s \in {disk.scaffold, "written"},
         DiskBecomes(disk.request, disk.stages, s, disk.report, disk.wsummary, disk.wstate)
  PROVE  RunInv'
<1> USE DEF RunInv
<1>1. /\ UNCHANGED <<kind, result, troubles, shared>>
      /\ source' = src /\ bound' = bnd
      /\ edits < MaxEdits /\ edits' = edits + 1
      /\ mixed \subseteq mixed' /\ mixed' \subseteq Sources /\ unpaired' = unpaired
      /\ run.pc # "idle" => src = source \/ source \in mixed'
  BY DEF Change, At, TypeOK
<1>2. /\ run' \in Runs /\ run'.pc = run.pc /\ run'.key = run.key /\ run'.plan = run.plan
      /\ run'.wkey = run.wkey /\ run'.of = run.of /\ run'.summary = run.summary
      /\ run'.force = run.force /\ run'.moved = (run.pc # "idle")
  BY DEF Change, TypeOK, Runs, At
<1>3. run.pc = "idle" => run' = run
  <2>1. ASSUME run.pc = "idle" PROVE run' = run
    <3>1. run' = [run EXCEPT !.moved = FALSE] /\ run = Idle /\ run \in Runs
      BY <2>1 DEF Change, At, RunShape, TypeOK
    <3>2. run.moved = FALSE
      BY <3>1 DEF Idle
    <3>3. QED
      BY <3>1, <3>2 DEF Runs
  <2>2. QED
    BY <2>1
<1>4. edits' \in 0 .. MaxEdits
  BY <1>1, RunAssumption DEF TypeOK
<1> USE DEF DiskBecomes
<1>5. TypeOK'
  BY <1>1, <1>2, <1>4 DEF TypeOK
<1>6. RunShape'
  BY <1>1, <1>2, <1>3 DEF RunShape
<1>7. StagesFit'
  BY <1>1 DEF StagesFit, Agrees
<1>8. KeyFits'
  BY <1>1, <1>2 DEF KeyFits, Agrees, Producing, InWorkflow, HasReport
<1>9. StillThere'
  BY <1>2 DEF StillThere, Producing, Planned, InWorkflow, HasReport
<1>10. StoredFits' /\ StoredPairs'
  BY <1>1, <1>2 DEF StoredFits, StoredPairs, Agrees
<1>11. SummaryFits'
  BY <1>1, <1>2 DEF SummaryFits, Agrees
<1>12. TornIsOpen'
  BY <1>1, <1>2, Marks DEF TornIsOpen
<1>13. Properties'
  BY <1>1 DEF Properties, ReturnedIsOfInputs, SharedInPairs, ForcedRunRecovers, RaisesForCause
<1>14. QED
  BY <1>5, <1>6, <1>7, <1>8, <1>9, <1>10, <1>11, <1>12, <1>13

LEMMA UserKeeps == ASSUME RunInv, (\E src \in Sources : Edit(src)) \/ Bind PROVE RunInv'
<1> USE DEF RunInv
<1>1. ASSUME NEW src \in Sources, Edit(src) PROVE RunInv'
  <2>1. Change(src, bound) /\ bound \in BOOLEAN
    BY <1>1 DEF Edit, TypeOK
  <2>2. DiskBecomes(disk.request, disk.stages, disk.scaffold, disk.report, disk.wsummary,
                    disk.wstate)
    BY <1>1, Unwritten DEF Edit, TypeOK, SameDisk
  <2>3. QED
    BY <2>1, <2>2, ChangeKeeps
<1>2. CASE Bind
  <2>1. Change(source, TRUE) /\ source \in Sources
    BY <1>2 DEF Bind, TypeOK
  <2>2. DiskBecomes(disk.request, disk.stages, "written", disk.report, disk.wsummary,
                    disk.wstate)
    BY <1>2 DEF Bind, DiskBecomes, TypeOK, Disks, File
  <2>3. QED
    BY <2>1, <2>2, ChangeKeeps
<1>3. QED
  BY <1>1, <1>2

-----------------------------------------------------------------------------
LEMMA RunInit == Init => RunInv
<1> SUFFICES ASSUME Init PROVE RunInv
  OBVIOUS
<1>1. /\ run = Idle /\ source \in Sources /\ bound = FALSE /\ kind \in Kinds
      /\ edits = 0 /\ troubles = 0 /\ shared = Absent /\ mixed = {} /\ unpaired = {}
  BY DEF Init
<1>2. Idle \in Runs /\ Idle.pc = "idle" /\ Idle.moved = FALSE
  BY DEF Idle, Runs, Places
<1>3. /\ disk \in Disks /\ disk.request = Absent /\ disk.scaffold = Absent
      /\ disk.stages = [i \in Inputs |-> Absent] /\ disk.report = Absent
      /\ disk.wsummary = Absent /\ disk.wstate = Absent
  BY DEF Init, Disks, File
<1>4. result \in Results /\ result.end = "none"
  BY <1>1 DEF Init, Results
<1>5. TypeOK
  <2>1. edits \in 0 .. MaxEdits /\ troubles \in 0 .. MaxTroubles
    BY <1>1, RunAssumption
  <2>2. /\ shared \in Handed \cup {Absent} /\ bound \in BOOLEAN
        /\ mixed \subseteq Sources /\ unpaired \subseteq Sources
    BY <1>1
  <2>3. QED
    BY <1>1, <1>2, <1>3, <1>4, <2>1, <2>2 DEF TypeOK
<1>6. RunShape /\ StagesFit /\ KeyFits /\ StillThere
  BY <1>1, <1>2, <1>3, Marks DEF RunShape, StagesFit, KeyFits, StillThere, Producing,
     Planned, InWorkflow, HasReport, Summarized
<1>7. StoredFits /\ StoredPairs /\ SummaryFits
  BY <1>1, <1>2, <1>3, Marks DEF StoredFits, StoredPairs, SummaryFits
<1>8. TornIsOpen
  BY <1>1, <1>2, <1>3, Marks DEF TornIsOpen
<1>9. Properties
  BY <1>1, <1>4 DEF Properties, ReturnedIsOfInputs, SharedInPairs, ForcedRunRecovers,
     RaisesForCause
<1>10. QED
  BY <1>5, <1>6, <1>7, <1>8, <1>9 DEF RunInv

LEMMA RunNext == RunInv /\ [Next]_vars => RunInv'
<1> SUFFICES ASSUME RunInv, [Next]_vars PROVE RunInv'
  OBVIOUS
<1>1. CASE FindPlan
  <2>1. CASE run'.pc # "idle"
    BY <1>1, <2>1, FindPlanKeeps
  <2>2. CASE run'.pc = "idle"
    <3>1. run \in Runs
      BY DEF RunInv, TypeOK
    <3>2. ~(run' = [run EXCEPT !.pc = "scaffold", !.key = Now, !.plan = disk.stages[Now]])
      BY <3>1, <2>2 DEF Runs
    <3>3. ~(run' = [run EXCEPT !.pc = "produce", !.key = Now])
      BY <3>1, <2>2 DEF Runs
    <3>4. Raise
      BY <1>1, <3>2, <3>3 DEF FindPlan
    <3>5. QED
      BY <1>1, <3>4, TornKeeps
  <2>3. QED
    BY <2>1, <2>2
<1>2. CASE Scaffolded
  BY <1>2, ScaffoldKeeps, QuietKeeps DEF Scaffolded
<1>3. CASE StageFails
  <2>1. CASE Fail
    BY <1>3, <2>1, FailKeeps
  <2>2. CASE ~Fail
    <3>1. run' = [run EXCEPT !.pc = "summary", !.of = disk.report, !.failed = TRUE]
      BY <1>3, <2>2 DEF StageFails
    <3>2. run'.pc # "idle"
      BY <3>1 DEF RunInv, TypeOK, Runs
    <3>3. QED
      BY <1>3, <3>2, CStageFailsKeeps
  <2>3. QED
    BY <2>1, <2>2
<1>4. CASE UNCHANGED vars
  <2> USE <1>4 DEF RunInv, vars
  <2>1. TypeOK' /\ RunShape' /\ StagesFit' /\ KeyFits' /\ StillThere'
    BY DEF TypeOK, RunShape, StagesFit, KeyFits, StillThere, Agrees, Trusted
  <2>2. StoredFits' /\ StoredPairs' /\ SummaryFits' /\ TornIsOpen'
    BY DEF StoredFits, StoredPairs, SummaryFits, Agrees, TornIsOpen
  <2>3. Properties'
    BY DEF Properties, ReturnedIsOfInputs, SharedInPairs, ForcedRunRecovers, RaisesForCause
  <2>4. QED
    BY <2>1, <2>2, <2>3
<1>5. CASE \/ \E cmd \in {"optimize", "resume"}, force \in BOOLEAN : Start(cmd, force)
           \/ \E force \in BOOLEAN : ResumeRefused(force)
           \/ WriteRequest \/ BuildPlan \/ KeepPlan \/ PlanRaises \/ WriteScaffold
  BY <1>5, StartKeeps, ResumeRefusedKeeps, WriteRequestKeeps, BuildPlanKeeps, KeepPlanKeeps,
     TornKeeps, ScaffoldKeeps
<1>6. CASE PreflightBlocked \/ SearchPasses \/ SearchRaises \/ Delegate
  BY <1>6, ImportKeeps, FailKeeps, DelegateKeeps
<1>7. CASE \/ Revalidate \/ RevalidateTorn \/ KeepRevalidated \/ Recompute \/ RunStage
           \/ StageReports \/ Summarize \/ KeepSummary \/ OpenState \/ KeepState
  BY <1>7, RevalidateKeeps, TornKeeps, KeepRevalidatedKeeps, RecomputeKeeps, RunStageKeeps,
     StageReportsKeeps, SummarizeKeeps, KeepSummaryKeeps, OpenStateKeeps, KeepStateKeeps
<1>8. CASE Dispose \/ (\E src \in Sources : Edit(src)) \/ Bind \/ Kill
  BY <1>8, DisposeKeeps, UserKeeps, QuietKeeps
<1>9. QED
  BY <1>1, <1>2, <1>3, <1>4, <1>5, <1>6, <1>7, <1>8 DEF Next

LEMMA RunAlways == Spec => []RunInv
  BY RunInit, RunNext, PTL DEF Spec

\* The output directory and the invocation keep their types: every file is whole or
\* torn, and a summary names the evidence it was made from
THEOREM TypeCorrect == Spec => []TypeOK
<1>1. RunInv => TypeOK
  BY DEF RunInv
<1>2. QED
  BY <1>1, RunAlways, PTL

\* Whatever is reused, what an invocation returns was computed from the source it
\* was asked about, unless that changed under it, its own C stage failed unnoticed,
\* or it was not forced and evidence of another content was kept under this one
THEOREM ReturnsAreOfInputs == Spec => []ReturnedIsOfInputs
<1>1. RunInv => ReturnedIsOfInputs
  BY DEF RunInv, Properties
<1>2. QED
  BY <1>1, RunAlways, PTL

\* The exporter is given a summary with the stage report it was made from, unless
\* they are read back for a content that the state named while a run of another was
\* killed between its report and its summary
THEOREM SharesInPairs == Spec => []SharedInPairs
<1>1. RunInv => SharedInPairs
  BY DEF RunInv, Properties
<1>2. QED
  BY <1>1, RunAlways, PTL

\* A forced optimize raises only where one of its own stages failed or the scaffold
\* is torn, and no invocation raises unless something failed or was killed
THEOREM RaisesAreJustified == Spec => [](ForcedRunRecovers /\ RaisesForCause)
<1>1. RunInv => ForcedRunRecovers /\ RaisesForCause
  BY DEF RunInv, Properties
<1>2. QED
  BY <1>1, RunAlways, PTL
=============================================================================
