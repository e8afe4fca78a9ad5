--------------------------- MODULE OptimizationRun ---------------------------
(***************************************************************************)
(* One output directory of `vladder optimize` and `vladder resume`         *)
(* (vladder/orchestrator.py) with the agent workflow they delegate to      *)
(* (vladder/agent_workflow.py).  An invocation plans, keeps the plan as a  *)
(* content-addressed stage, writes the scaffolds the user may complete,    *)
(* takes one of four routes to a promotion summary, and writes it and the  *)
(* disposition, which no invocation reads back.  The agent workflow keeps  *)
(* its last summary and the key it was computed for, and returns it again  *)
(* while the key is unchanged.                                             *)
(*                                                                         *)
(* Every file is written in place (write_text), so that a process killed   *)
(* inside a write leaves it Torn.  Evidence (a stage report, a promotion   *)
(* summary) is represented by the content of the source it was computed    *)
(* from.                                                                   *)
(***************************************************************************)
EXTENDS Naturals, FiniteSets

CONSTANTS
  Sources,      \* contents the source file may have
  Closed,       \* the ones that pass the feasibility forecast
  Kinds,        \* the kinds of region
  MaxEdits,     \* bound on the user's edits
  MaxTroubles,  \* bound on crashes and failures
  Absent,       \* no such file, or nothing
  Torn          \* a file whose writer was killed

ASSUME RunAssumption ==
  /\ Kinds \subseteq {"c", "cpp", "rust", "unknown"}
  /\ Closed \subseteq Sources
  /\ MaxEdits \in Nat
  /\ MaxTroubles \in Nat
  /\ Absent \notin Sources \cup {Torn}
  /\ Torn \notin Sources

VARIABLES
  kind,      \* classify_region's answer, fixed by the file's name
  source,    \* the source file
  bound,     \* the user has completed project-evidence.yaml
  disk,      \* the output directory
  run,       \* the invocation under way
  result,    \* what the last invocation returned
  edits,     \* number of edits
  troubles,  \* number of crashes and failures
  shared,    \* history: what _finalize_training_contribution was last given
  mixed,     \* history: contents that evidence of another one may be kept under
  unpaired   \* history: contents whose summary was left with another's report

vars == <<kind, source, bound, disk, run, result, edits, troubles, shared, mixed, unpaired>>
userVars == <<source, bound, edits>>

\* What a plan depends on; the key of the plan's stage and of the workflow
Inputs == [source : Sources, bound : BOOLEAN]
Keys == [contract : Sources, action : {"optimize", "isolate"}, source : Sources]

File(contents) == contents \cup {Absent, Torn}
Disks ==
  [ request  : File({"request"}),         \* request.json
    stages   : [Inputs -> File(Inputs)],  \* .stages/plan-<key>.json
    scaffold : File({"written"}),         \* project-evidence.yaml and the like
    report   : File(Sources),             \* the stage report of the workflow
    wsummary : File(Sources),             \* workflow-out/promotion-summary.json
    wstate   : File(Keys) ]               \* workflow-out/workflow-state.json

\* A file that is missing or torn is none of the things a file may hold
ASSUME MarkAssumption ==
  {Absent, Torn} \cap (Inputs \cup Keys \cup {"request", "written"}) = {}

Places ==
  {"idle", "request", "plan", "produce", "stage", "scaffold", "execute",
   "workflow", "revalidated", "run", "report", "summary", "written", "state",
   "outer"}
Runs ==
  [ pc : Places, cmd : {"optimize", "resume"}, force : BOOLEAN,
    key : Inputs \cup {Absent},       \* stage_inputs
    plan : Inputs \cup {Absent},
    wkey : Keys \cup {Absent},        \* workflow_key
    of : Sources \cup {Absent},       \* the report in memory
    summary : Sources \cup {Absent},
    failed : BOOLEAN,                 \* a producer of this invocation failed
    moved : BOOLEAN ]                 \* the inputs changed while it ran
Results == [cmd : {"optimize", "resume"}, force : BOOLEAN,
            end : {"none", "disposition", "refused", "raised", "killed"},
            of : Sources \cup {Absent},
            at : Sources,         \* the source when it ended
            torn : BOOLEAN,       \* the scaffold was torn then
            failed : BOOLEAN, moved : BOOLEAN]

\* A summary and a stage report, and the content they were asked for
Handed == [summary : Sources, report : Sources, about : Sources]

Idle == [pc |-> "idle", cmd |-> "optimize", force |-> FALSE, key |-> Absent, plan |-> Absent,
         wkey |-> Absent, of |-> Absent, summary |-> Absent, failed |-> FALSE, moved |-> FALSE]

Now == [source |-> source, bound |-> bound]
At(place) == run.pc = place
Exists(file) == file # Absent

-----------------------------------------------------------------------------
\* How an invocation ends
Outcome(end, of, failed) ==
  [cmd |-> run.cmd, force |-> run.force, end |-> end, of |-> of, at |-> source,
   torn |-> disk.scaffold = Torn, failed |-> failed, moved |-> run.moved]

Ends(end, of) == run' = Idle /\ result' = Outcome(end, of, run.failed)

\* An exception that nothing catches
Raise == Ends("raised", Absent)

\* The same, of a producer
Fail == run' = Idle /\ result' = Outcome("raised", Absent, TRUE)

Goes(place) == run' = [run EXCEPT !.pc = place] /\ UNCHANGED result

Init ==
  /\ kind \in Kinds
  /\ source \in Sources
  /\ bound = FALSE
  /\ disk = [request |-> Absent, stages |-> [i \in Inputs |-> Absent], scaffold |-> Absent,
             report |-> Absent, wsummary |-> Absent, wstate |-> Absent]
  /\ run = Idle
  /\ result = [cmd |-> "optimize", force |-> FALSE, end |-> "none", of |-> Absent,
               at |-> source, torn |-> FALSE, failed |-> FALSE, moved |-> FALSE]
  /\ edits = 0
  /\ troubles = 0
  /\ shared = Absent
  /\ mixed = {}
  /\ unpaired = {}

-----------------------------------------------------------------------------
(* Planning *)

\* run_optimization, and resume_optimization, which needs a readable request
Start(cmd, force) ==
  /\ At("idle")
  /\ cmd = "resume" => disk.request = "request"
  /\ run' = [Idle EXCEPT !.pc = "request", !.cmd = cmd, !.force = force]
  /\ UNCHANGED <<kind, mixed, unpaired, userVars, disk, result, troubles, shared>>

ResumeRefused(force) ==
  /\ At("idle")
  /\ disk.request # "request"
  /\ run' = Idle
  /\ result' = [cmd |-> "resume", force |-> force, of |-> Absent,
                end |-> IF disk.request = Absent THEN "refused" ELSE "raised",
                at |-> source, torn |-> disk.scaffold = Torn, failed |-> FALSE,
                moved |-> FALSE]
  /\ UNCHANGED <<kind, mixed, unpaired, userVars, disk, troubles, shared>>

\* write_plan: request.json
WriteRequest ==
  /\ \/ At("request") /\ disk' = [disk EXCEPT !.request = Torn] /\ Goes("plan")
     \/ /\ At("plan")
        /\ disk.request = Torn
        /\ disk' = [disk EXCEPT !.request = "request"]
        /\ UNCHANGED <<run, result>>
  /\ UNCHANGED <<kind, mixed, unpaired, userVars, troubles, shared>>

\* Mutant: --force is not passed on
ReusedAnyway(key) == Exists(disk.stages[key])

\* _stage_record with the key of the inputs as they are now
Reused(key) == Exists(disk.stages[key]) /\ ~run.force

\* A scaffold that does not parse has a key of its own, under which no plan was
\* ever kept
FindPlan ==
  /\ At("plan")
  /\ disk.request = "request"
  /\ LET key == Now  kept == disk.stages[key] IN
       \/ /\ Reused(key) /\ kept # Torn /\ disk.scaffold # Torn
          /\ run' = [run EXCEPT !.pc = "scaffold", !.key = key, !.plan = kept]
          /\ UNCHANGED result
       \/ Reused(key) /\ kept = Torn /\ disk.scaffold # Torn /\ Raise
       \/ /\ ~Reused(key) \/ disk.scaffold = Torn
          /\ run' = [run EXCEPT !.pc = "produce", !.key = key]
          /\ UNCHANGED result
  /\ UNCHANGED <<kind, mixed, unpaired, userVars, disk, troubles, shared>>

\* build_plan reads the inputs once more
BuildPlan ==
  /\ At("produce")
  /\ disk.scaffold # Torn
  /\ run' = [run EXCEPT !.pc = "stage", !.plan = Now]
  /\ disk' = [disk EXCEPT !.stages[run.key] = Torn]
  /\ UNCHANGED <<kind, mixed, unpaired, userVars, result, troubles, shared>>

\* but does not expect a scaffold that does not parse
PlanRaises ==
  /\ At("produce")
  /\ disk.scaffold = Torn
  /\ Raise
  /\ UNCHANGED <<kind, mixed, unpaired, userVars, disk, troubles, shared>>

KeepPlan ==
  /\ At("stage")
  /\ disk' = [disk EXCEPT !.stages[run.key] = run.plan]
  /\ Goes("scaffold")
  /\ UNCHANGED <<kind, mixed, unpaired, userVars, troubles, shared>>

\* _scaffold_project_evidence writes what does not exist yet
WriteScaffold ==
  /\ At("scaffold")
  /\ \/ disk.scaffold = Absent /\ disk' = [disk EXCEPT !.scaffold = Torn]
     \/ disk.scaffold = Torn /\ disk' = [disk EXCEPT !.scaffold = "written"]
  /\ UNCHANGED <<kind, mixed, unpaired, userVars, run, result, troubles, shared>>

\* An invocation with plan_only ends here
Scaffolded ==
  /\ At("scaffold")
  /\ disk.scaffold = "written"
  /\ \/ Goes("execute")
     \/ run.cmd = "optimize" /\ Ends("none", Absent)
  /\ UNCHANGED <<kind, mixed, unpaired, userVars, disk, troubles, shared>>

-----------------------------------------------------------------------------
(* execute_plan *)

\* _finalize_training_contribution
Share(summary, report, about) ==
  shared' = [summary |-> summary, report |-> report, about |-> about]

\* The forecast finds the region closed to analysis, or nothing routes its kind
Blocked == run.plan.source \notin Closed \/ kind = "unknown"

PreflightBlocked ==
  /\ At("execute")
  /\ Blocked
  /\ run' = [run EXCEPT !.pc = "outer", !.summary = run.plan.source]
  /\ Share(run.plan.source, run.plan.source, run.plan.source)
  /\ UNCHANGED <<kind, mixed, unpaired, userVars, disk, result, troubles>>

\* `vladder optimize` runs the bounded C optimizer in its own process: it
\* writes perf.json or raises
ExecutesC == kind = "c" /\ run.cmd = "optimize"

\* The bounded C executor, or _run_executable_source_search with a status of
\* "pass": the report is of the source they read
SearchPasses ==
  /\ At("execute")
  /\ ~Blocked /\ kind \in {"c", "cpp"}
  /\ run' = [run EXCEPT !.pc = "outer", !.summary = source]
  /\ Share(source, source, source)
  /\ UNCHANGED <<kind, mixed, unpaired, userVars, disk, result, troubles>>

SearchRaises ==
  /\ At("execute")
  /\ ~Blocked /\ kind \in {"c", "cpp"}
  /\ troubles < MaxTroubles
  /\ troubles' = troubles + 1
  /\ Fail
  /\ UNCHANGED <<kind, mixed, unpaired, userVars, disk, shared>>

\* _workflow_manifest takes the contract and the action from the plan; the key
\* of run_agent_workflow is that of the manifest and of the source
Manifest ==
  [contract |-> run.plan.source,
   action |-> IF kind = "cpp" /\ ~run.plan.bound THEN "isolate" ELSE "optimize",
   source |-> source]

Delegate ==
  /\ At("execute")
  /\ ~Blocked /\ ~ExecutesC
  /\ run' = [run EXCEPT !.pc = "workflow", !.wkey = Manifest]
  /\ UNCHANGED <<kind, mixed, unpaired, userVars, disk, result, troubles, shared>>

-----------------------------------------------------------------------------
(* run_agent_workflow *)

Cached == ~run.force /\ Exists(disk.wstate) /\ Exists(disk.wsummary)

\* Mutant: the key of the state is not compared
RevalidateAny ==
  /\ At("workflow")
  /\ Cached /\ disk.wstate # Torn
  /\ disk.wsummary # Torn /\ disk.report # Torn
  /\ run' = [run EXCEPT !.pc = "revalidated", !.summary = disk.wsummary]
  /\ shared' = shared
  /\ disk' = [disk EXCEPT !.wsummary = Torn]
  /\ UNCHANGED <<kind, mixed, unpaired, userVars, result, troubles>>

\* The last summary, if the state names this key
Revalidate ==
  /\ At("workflow")
  /\ Cached /\ disk.wstate = run.wkey
  /\ disk.wsummary # Torn /\ disk.report # Torn
  /\ run' = [run EXCEPT !.pc = "revalidated", !.summary = disk.wsummary]
  /\ IF Exists(disk.report) THEN Share(disk.wsummary, disk.report, run.wkey.source)
                            ELSE UNCHANGED shared
  /\ disk' = [disk EXCEPT !.wsummary = Torn]
  /\ UNCHANGED <<kind, mixed, unpaired, userVars, result, troubles>>

\* json.loads of a torn file
RevalidateTorn ==
  /\ At("workflow")
  /\ Cached
  /\ \/ disk.wstate = Torn
     \/ disk.wstate = run.wkey /\ Torn \in {disk.wsummary, disk.report}
  /\ Raise
  /\ UNCHANGED <<kind, mixed, unpaired, userVars, disk, troubles, shared>>

\* Mutant: the write is not completed
KeepRevalidatedTorn ==
  /\ At("revalidated")
  /\ Goes("outer")
  /\ UNCHANGED <<kind, mixed, unpaired, userVars, disk, troubles, shared>>

KeepRevalidated ==
  /\ At("revalidated")
  /\ disk' = [disk EXCEPT !.wsummary = run.summary]
  /\ Goes("outer")
  /\ UNCHANGED <<kind, mixed, unpaired, userVars, troubles, shared>>

Recompute ==
  /\ At("workflow")
  /\ ~Cached \/ disk.wstate \notin {Torn, run.wkey}
  /\ Goes("run")
  /\ UNCHANGED <<kind, mixed, unpaired, userVars, disk, troubles, shared>>

\* The stage of the region's kind, which writes its report
RunStage ==
  /\ At("run")
  /\ disk' = [disk EXCEPT !.report = Torn]
  /\ run' = [run EXCEPT !.pc = "report", !.of = source]
  /\ UNCHANGED <<kind, mixed, unpaired, userVars, result, troubles, shared>>

StageReports ==
  /\ At("report")
  /\ disk' = [disk EXCEPT !.report = run.of]
  /\ Goes("summary")
  /\ UNCHANGED <<kind, mixed, unpaired, userVars, troubles, shared>>

\* Mutant: a missing report is not noticed
StageFailsUnnoticed ==
  /\ At("run")
  /\ troubles < MaxTroubles
  /\ troubles' = troubles + 1
  /\ run' = [run EXCEPT !.pc = "summary", !.of = disk.report, !.failed = TRUE]
  /\ mixed' = mixed \cup {source}
  /\ UNCHANGED <<kind, userVars, disk, result, shared, unpaired>>

\* A stage raises.  The C stage is another process, whose return code is looked
\* at only if there is no report: `vladder region optimize` writes none when it
\* raises and when the region is not supported
StageFails ==
  /\ At("run")
  /\ troubles < MaxTroubles
  /\ troubles' = troubles + 1
  /\ \/ /\ kind = "c" /\ disk.report \in Sources
        /\ run' = [run EXCEPT !.pc = "summary", !.of = disk.report, !.failed = TRUE]
        /\ mixed' = mixed \cup {source}
        /\ UNCHANGED result
     \/ ~(kind = "c" /\ disk.report \in Sources) /\ Fail /\ UNCHANGED mixed
  /\ UNCHANGED <<kind, userVars, disk, shared, unpaired>>

\* Mutant: a summary that exists is not written again
SummarizeOnce ==
  /\ At("summary")
  /\ run' = [run EXCEPT !.pc = "written", !.summary = run.of]
  /\ Share(run.of, run.of, run.wkey.source)
  /\ disk' = [disk EXCEPT !.wsummary = IF @ \in Sources THEN @ ELSE Torn]
  /\ UNCHANGED <<kind, mixed, unpaired, userVars, result, troubles>>

\* build_promotion_summary and _finalize_training_contribution, then the two
\* files, one after the other
Summarize ==
  /\ At("summary")
  /\ run' = [run EXCEPT !.pc = "written", !.summary = run.of]
  /\ Share(run.of, run.of, run.wkey.source)
  /\ disk' = [disk EXCEPT !.wsummary = Torn]
  /\ UNCHANGED <<kind, mixed, unpaired, userVars, result, troubles>>

KeepSummary ==
  /\ At("written")
  /\ disk.wsummary = Torn
  /\ disk' = [disk EXCEPT !.wsummary = run.summary]
  /\ UNCHANGED <<kind, mixed, unpaired, userVars, run, result, troubles, shared>>

OpenState ==
  /\ At("written")
  /\ disk.wsummary # Torn
  /\ disk' = [disk EXCEPT !.wstate = Torn]
  /\ Goes("state")
  /\ UNCHANGED <<kind, mixed, unpaired, userVars, troubles, shared>>

KeepState ==
  /\ At("state")
  /\ disk' = [disk EXCEPT !.wstate = run.wkey]
  /\ Goes("outer")
  /\ UNCHANGED <<kind, mixed, unpaired, userVars, troubles, shared>>

-----------------------------------------------------------------------------
\* The end of execute_plan: the summary beside the plan, and the disposition
Dispose ==
  /\ At("outer")
  /\ Ends("disposition", run.summary)
  /\ UNCHANGED <<kind, mixed, unpaired, userVars, disk, troubles, shared>>

-----------------------------------------------------------------------------
(* The user and the machine *)

\* The user changes the source, or completes project-evidence.yaml, at any time.
\* An invocation under way may keep evidence of the new content under a key of
\* the old one
Change(src, bnd) ==
  /\ source' = src /\ bound' = bnd
  /\ edits < MaxEdits /\ edits' = edits + 1
  /\ run' = [run EXCEPT !.moved = ~At("idle")]
  /\ mixed' = mixed \cup (IF At("idle") THEN {} ELSE {source} \ {src})
  /\ UNCHANGED <<kind, result, troubles, shared, unpaired>>

\* The new content may be an earlier one
Edit(src) ==
  /\ src # source
  /\ Change(src, bound)
  /\ UNCHANGED disk

Bind ==
  /\ ~bound
  /\ \/ At("idle") /\ Exists(disk.scaffold)
     \/ disk.scaffold = "written"
  /\ Change(source, TRUE)
  /\ disk' = [disk EXCEPT !.scaffold = "written"]

\* Between the summary and the state, the state still names the key of the
\* invocation before: its content gets the newer summary
Overtaken ==
  IF At("written") /\ disk.wstate \in Keys THEN {disk.wstate.source} \ {run.of} ELSE {}

\* Between the stage report and the summary, the older summary has the newer report
Unpaired ==
  IF At("summary") /\ disk.wstate \in Keys /\ disk.wsummary \in Sources \ {run.of}
    THEN {disk.wstate.source} ELSE {}

Kill ==
  /\ ~At("idle")
  /\ troubles < MaxTroubles
  /\ troubles' = troubles + 1
  /\ Ends("killed", Absent)
  /\ mixed' = mixed \cup Overtaken
  /\ unpaired' = unpaired \cup Unpaired
  /\ UNCHANGED <<kind, userVars, disk, shared>>

Next ==
  \/ \E cmd \in {"optimize", "resume"}, force \in BOOLEAN : Start(cmd, force)
  \/ \E force \in BOOLEAN : ResumeRefused(force)
  \/ WriteRequest
  \/ FindPlan
  \/ BuildPlan
  \/ KeepPlan
  \/ PlanRaises
  \/ WriteScaffold
  \/ Scaffolded
  \/ PreflightBlocked
  \/ SearchPasses
  \/ SearchRaises
  \/ Delegate
  \/ Revalidate
  \/ RevalidateTorn
  \/ KeepRevalidated
  \/ Recompute
  \/ RunStage
  \/ StageReports
  \/ StageFails
  \/ Summarize
  \/ KeepSummary
  \/ OpenState
  \/ KeepState
  \/ Dispose
  \/ \E src \in Sources : Edit(src)
  \/ Bind
  \/ Kill

Spec == Init /\ [][Next]_vars

-----------------------------------------------------------------------------
(* Properties *)

\* The output directory holds whole files or torn ones, and a summary that is
\* reported names the evidence it was made from.
TypeOK ==
  /\ kind \in Kinds
  /\ source \in Sources /\ bound \in BOOLEAN
  /\ disk \in Disks /\ run \in Runs /\ result \in Results
  /\ edits \in 0 .. MaxEdits /\ troubles \in 0 .. MaxTroubles
  /\ shared \in Handed \cup {Absent}
  /\ mixed \subseteq Sources /\ unpaired \subseteq Sources

\* A disposition is about the source as it is: whatever is reused (the plan's
\* stage, the workflow's last summary, a stage report) was computed from the
\* content the invocation was asked about.  The code breaks this where the inputs
\* changed while the invocation ran, where its own C stage failed beside an older
\* report, and, unless it was forced, for a content that is mixed: one that was
\* edited under an invocation, whose C stage failed before, or which the state
\* named while a run of another content was killed between its summary and its
\* state.  Put back, such a content gets the other one's summary.
ReturnedIsOfInputs ==
  /\ result.end = "disposition"
  /\ ~result.moved /\ ~result.failed
  /\ result.force \/ result.at \notin mixed
  => result.of = result.at

\* What is handed to the training exporter is a summary with the stage report it
\* was made from, also when both are read back from the directory after edits,
\* reverts, failures and kills: a report is overwritten long before the state names
\* its key.  One kill breaks this in the code: between the report and the summary of
\* a run, beside the state and the summary of another; read back for that one, its
\* summary comes with the report of the killed run.
SharedInPairs ==
  shared # Absent => shared.summary = shared.report \/ shared.about \in unpaired

\* Of what a killed process leaves behind, `vladder optimize --force` stops only at a
\* torn scaffold, which is taken for the user's and not written again.
ForcedRunRecovers ==
  result.end = "raised" /\ result.force /\ result.cmd = "optimize"
  => result.failed \/ result.torn

\* An invocation raises only because a stage failed or because some process was
\* killed: no order of edits, forced runs and resumes leaves a directory that
\* cannot be read.
RaisesForCause == result.end = "raised" => result.failed \/ troubles > 0

=============================================================================
