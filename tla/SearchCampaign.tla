---------------------------- MODULE SearchCampaign ----------------------------
(***************************************************************************)
(* A campaign of executable searches (vladder/executable_search.py):       *)
(* run_executable_search_manifest hands its roots to search_many, which    *)
(* searches them one after the other or in a pool of processes, takes the  *)
(* roots whose artifact is already there instead of searching them again,  *)
(* emits training packets, and compresses the artifacts of finished roots. *)
(* The machine may die at any step, the user may edit a source and start   *)
(* the campaign again.                                                     *)
(*                                                                         *)
(* The content of a root's source is a version; evidence is represented by *)
(* the version it was computed from.  executable-search.json, the packets  *)
(* and the progress file are written in place and are Torn when the writer *)
(* dies; the evidence cache and the .gz artifact are renamed into place.   *)
(***************************************************************************)
EXTENDS Naturals, FiniteSets

CONSTANTS
  NRoots,      \* number of roots, in the order of their identifiers
  Versions,    \* contents a source may have
  First,       \* the content every source has at first
  Blocked,     \* the ones whose contracts stay unresolved
  Retained,    \* full_artifact_identifiers
  Modes,       \* ways to run a campaign
  MaxEdits, MaxCrashes, MaxFails,
  None, Torn

Roots == 1 .. NRoots

ASSUME CampaignAssumption ==
  /\ NRoots \in Nat
  /\ First \in Versions /\ Blocked \subseteq Versions
  /\ Retained \subseteq Roots
  /\ Modes \subseteq [workers : {1, 2}, training : BOOLEAN, decisive : BOOLEAN]
  /\ MaxEdits \in Nat /\ MaxCrashes \in Nat /\ MaxFails \in Nat
  /\ None \notin Versions \cup {Torn}
  /\ Torn \notin Versions

VARIABLES
  mode,      \* options of the campaign
  source,    \* root -> content of its source
  plain,     \* root -> executable-search.json
  gz,        \* root -> executable-search.json.gz
  cache,     \* version -> its entry in the evidence cache
  bundles,   \* root -> version the packets were emitted from
  progress,  \* training-v3-progress.json
  campaign,  \* the parent process
  task,      \* root -> where its search or its collection stands
  records,   \* training_records of the parent
  end,       \* how the last campaign ended
  edits, crashes, fails,
  moved      \* history: roots edited while they were being worked on

fileVars == <<plain, gz, cache, bundles, progress>>
boundVars == <<edits, crashes, fails>>
vars == <<mode, source, fileVars, campaign, task, records, end, boundVars, moved>>

Statuses == {"pass", "incomplete", "contract_blocked"}
\* A result: the version it is of, the request fingerprint, the status
Results == [of : Versions, stamp : Versions, status : Statuses]
Records == [status : {"pass", "fail"}, stamp : Versions]
RecordSets == [Roots -> Records \cup {None}]

ASSUME NoneAssumption ==
  /\ None \notin Results \cup Records \cup RecordSets
  /\ Torn \notin Results \cup RecordSets

Working == {"search", "store", "storing", "evaluated", "write", "compact", "unlink"}
Collecting == {"emit", "emitting", "progress", "saving"}
Tasks ==
  [pc : {"none", "queued", "done", "raised", "unreadable", "collected"} \cup Working \cup Collecting,
   of : Versions \cup {None}, result : Results \cup {None}]

NoTask == [pc |-> "none", of |-> None, result |-> None]
NoRecords == [r \in Roots |-> None]

At(r, place) == task[r].pc = place
Moves(r, place) == task' = [task EXCEPT ![r].pc = place]

Init ==
  /\ mode \in Modes
  /\ source = [r \in Roots |-> First]
  /\ plain = [r \in Roots |-> None]
  /\ gz = [r \in Roots |-> None]
  /\ cache = [v \in Versions |-> None]
  /\ bundles = [r \in Roots |-> None]
  /\ progress = None
  /\ campaign = "idle"
  /\ task = [r \in Roots |-> NoTask]
  /\ records = NoRecords
  /\ end = [kind |-> "none"]
  /\ edits = 0 /\ crashes = 0 /\ fails = 0
  /\ moved = {}

-----------------------------------------------------------------------------
(* What is on disk *)

\* Mutant: the fingerprint is not compared
AcceptedUnstamped(r, file) == file \notin {None, Torn}

\* The tests of _load_completed_search on an artifact that was read
Accepted(r, file) == file \notin {None, Torn} /\ file.stamp = source[r]

\* _load_completed_search prefers the uncompressed artifact, whole or torn
Load(r) ==
  LET file == IF plain[r] # None THEN plain[r] ELSE gz[r]
  IN  IF Accepted(r, file) THEN file ELSE None

\* The training records of earlier campaigns that still match
Matching(r) ==
  /\ progress \notin {None, Torn}
  /\ progress[r] # None
  /\ progress[r].status = "pass" /\ progress[r].stamp = source[r]
Preloaded == [r \in Roots |-> IF Matching(r) THEN progress[r] ELSE None]

-----------------------------------------------------------------------------
(* Starting *)

\* Another campaign may be run with other options
Begin(m) ==
  /\ campaign = "idle"
  /\ mode' = m
  /\ campaign' = "running"
  /\ task' = [r \in Roots |-> [NoTask EXCEPT !.pc = "queued"]]
  /\ records' = IF m.training THEN Preloaded ELSE NoRecords
  /\ end' = [kind |-> "none"]
  /\ UNCHANGED <<source, fileVars, boundVars, moved>>

Active == {r \in Roots : task[r].pc \in Working}

\* A pool process takes any task while one is free; search_many with one
\* worker takes the next root when the one before is collected
Free(r) ==
  IF mode.workers = 1
    THEN campaign = "running" /\ \A q \in Roots : q < r => At(q, "collected")
    ELSE Cardinality(Active) < mode.workers

WorkerCompacts == mode.workers > 1 /\ ~mode.training
Compacts(r, result) == mode.decisive /\ r \notin Retained /\ result.status = "pass"

\* A root that has been searched or loaded
Returned(r, result) ==
  IF WorkerCompacts /\ Compacts(r, result) THEN "compact" ELSE "done"

\* _search_request_process: load, or capture the root and search it
Take(r) ==
  /\ At(r, "queued") /\ Free(r)
  /\ LET found == Load(r) IN
       task' = [task EXCEPT ![r] =
         IF found # None
           THEN [pc |-> Returned(r, found), of |-> None, result |-> found]
           ELSE [pc |-> IF source[r] \in Blocked THEN "evaluated" ELSE "search",
                 of |-> source[r], result |-> None]]
  /\ UNCHANGED <<mode, source, fileVars, campaign, records, end, boundVars, moved>>

-----------------------------------------------------------------------------
(* search *)

\* _realize_terminal: a cached evaluation, or a new one, which is kept unless
\* the compiler failed or did not run.  A cache entry that is no JSON raises
Evaluate(r) ==
  /\ At(r, "search")
  /\ LET cached == cache[task[r].of] IN
       \/ cached = None /\ (Moves(r, "store") \/ Moves(r, "evaluated"))
       \/ cached # None /\ Moves(r, IF cached = Torn THEN "unreadable" ELSE "evaluated")
  /\ UNCHANGED <<mode, source, fileVars, campaign, records, end, boundVars, moved>>

\* Mutant: the entry is written in place
StoreInPlace(r) ==
  /\ At(r, "store")
  /\ cache' = [cache EXCEPT ![task[r].of] = Torn]
  /\ Moves(r, "storing")
  /\ UNCHANGED <<mode, source, plain, gz, bundles, progress, campaign, records, end,
                 boundVars, moved>>

\* ContentAddressedEvidenceCache.store: unless the entry exists, a temporary
\* file of this process
Store(r) ==
  /\ At(r, "store")
  /\ Moves(r, IF cache[task[r].of] = None THEN "storing" ELSE "evaluated")
  /\ UNCHANGED <<mode, source, fileVars, campaign, records, end, boundVars, moved>>

\* that replaces it
Stored(r) ==
  /\ At(r, "storing")
  /\ cache' = [cache EXCEPT ![task[r].of] = task[r].of]
  /\ Moves(r, "evaluated")
  /\ UNCHANGED <<mode, source, plain, gz, bundles, progress, campaign, records, end,
                 boundVars, moved>>

SearchRaises(r) ==
  /\ At(r, "search")
  /\ fails < MaxFails /\ fails' = fails + 1
  /\ Moves(r, "raised")
  /\ UNCHANGED <<mode, source, fileVars, campaign, records, end, edits, crashes, moved>>

\* Mutant: the result has no fingerprint
FinishUnstamped(r, status) ==
  /\ At(r, "evaluated")
  /\ (status = "contract_blocked") <=> (task[r].of \in Blocked)
  /\ task' = [task EXCEPT ![r].pc = "write",
                          ![r].result = [of |-> task[r].of, stamp |-> None, status |-> status]]
  /\ plain' = [plain EXCEPT ![r] = Torn]
  /\ UNCHANGED <<mode, source, gz, cache, bundles, progress, campaign, records, end,
                 boundVars, moved>>

\* The result gets the fingerprint of the request as it is now
Finish(r, status) ==
  /\ At(r, "evaluated")
  /\ (status = "contract_blocked") <=> (task[r].of \in Blocked)
  /\ task' = [task EXCEPT ![r].pc = "write",
                          ![r].result = [of |-> task[r].of, stamp |-> source[r], status |-> status]]
  /\ plain' = [plain EXCEPT ![r] = Torn]
  /\ UNCHANGED <<mode, source, gz, cache, bundles, progress, campaign, records, end,
                 boundVars, moved>>

WriteArtifact(r) ==
  /\ At(r, "write")
  /\ plain' = [plain EXCEPT ![r] = task[r].result]
  /\ Moves(r, Returned(r, task[r].result))
  /\ UNCHANGED <<mode, source, gz, cache, bundles, progress, campaign, records, end,
                 boundVars, moved>>

-----------------------------------------------------------------------------
(* _compact_decisive_root_artifacts, in the worker or in the parent; the build  *)
(* products it removes first are read by nothing here                          *)

\* Mutant: the artifact is moved out of the way before it is compressed
CompressMoved(r) ==
  /\ At(r, "compact")
  /\ plain' = [plain EXCEPT ![r] = None]
  /\ Moves(r, "unlink")
  /\ UNCHANGED <<mode, source, gz, cache, bundles, progress, campaign, records, end,
                 boundVars, moved>>

\* The compressed copy is complete before it gets its name
Compress(r) ==
  /\ At(r, "compact")
  /\ gz' = [gz EXCEPT ![r] = IF plain[r] = None THEN @ ELSE plain[r]]
  /\ Moves(r, "unlink")
  /\ UNCHANGED <<mode, source, plain, cache, bundles, progress, campaign, records, end,
                 boundVars, moved>>

AfterCompaction ==
  IF WorkerCompacts THEN "done" ELSE IF mode.training THEN "progress" ELSE "collected"

Unlink(r) ==
  /\ At(r, "unlink")
  /\ plain' = [plain EXCEPT ![r] = None]
  /\ Moves(r, AfterCompaction)
  /\ UNCHANGED <<mode, source, gz, cache, bundles, progress, campaign, records, end,
                 boundVars, moved>>

-----------------------------------------------------------------------------
(* The parent collects the results, one at a time *)

\* What the parent does next with a result
Collected(r, result) ==
  IF mode.training THEN "emit"
  ELSE IF ~WorkerCompacts /\ Compacts(r, result) THEN "compact" ELSE "collected"

Busy ==
  \E r \in Roots :
    \/ task[r].pc \in Collecting
    \/ ~WorkerCompacts /\ task[r].pc \in {"compact", "unlink"}

\* Across the pipe comes the artifact's name, which is loaded once more when
\* training packets are wanted
Collect(r) ==
  /\ campaign = "running" /\ At(r, "done") /\ ~Busy
  /\ LET result == IF mode.workers > 1 /\ mode.training THEN Load(r) ELSE task[r].result IN
       \/ /\ result # None
          /\ task' = [task EXCEPT ![r].pc = Collected(r, result), ![r].result = result]
          /\ UNCHANGED campaign
       \/ result = None /\ campaign' = "failing" /\ UNCHANGED task
  /\ UNCHANGED <<mode, source, fileVars, records, end, boundVars, moved>>

\* future.result() raises what the search raised
CollectRaised(r) ==
  /\ campaign = "running" /\ task[r].pc \in {"raised", "unreadable"} /\ ~Busy
  /\ campaign' = "failing"
  /\ UNCHANGED <<mode, source, fileVars, task, records, end, boundVars, moved>>

\* Mutant: a root with a matching record is not emitted again
EmitMissing(r) ==
  /\ At(r, "emit")
  /\ IF records[r] # None THEN Moves(r, "progress") /\ UNCHANGED bundles
     ELSE bundles' = [bundles EXCEPT ![r] = Torn] /\ Moves(r, "emitting")
  /\ UNCHANGED <<mode, source, plain, gz, cache, progress, campaign, records, end,
                 boundVars, moved>>

\* _emit_training_v3_record writes the packets and catches what it raises
Emit(r) ==
  /\ At(r, "emit")
  /\ bundles' = [bundles EXCEPT ![r] = Torn]
  /\ Moves(r, "emitting")
  /\ UNCHANGED <<mode, source, plain, gz, cache, progress, campaign, records, end,
                 boundVars, moved>>

Emitted(r, status) ==
  /\ At(r, "emitting")
  /\ \/ status = "pass" /\ bundles' = [bundles EXCEPT ![r] = task[r].result.of] /\ UNCHANGED fails
     \/ status = "fail" /\ fails < MaxFails /\ fails' = fails + 1 /\ UNCHANGED bundles
  /\ records' = [records EXCEPT ![r] = [status |-> status, stamp |-> source[r]]]
  /\ Moves(r, IF Compacts(r, task[r].result) THEN "compact" ELSE "progress")
  /\ UNCHANGED <<mode, source, plain, gz, cache, progress, campaign, end,
                 edits, crashes, moved>>

\* training-v3-progress.json, written anew after every root
OpenProgress(r) ==
  /\ At(r, "progress")
  /\ progress' = Torn
  /\ Moves(r, "saving")
  /\ UNCHANGED <<mode, source, plain, gz, cache, bundles, campaign, records, end,
                 boundVars, moved>>

\* Mutant: the file is written until the emission has passed
SaveProgressUntilPass(r) ==
  /\ At(r, "saving")
  /\ progress' = records
  /\ Moves(r, IF records[r].status = "pass" THEN "collected" ELSE "progress")
  /\ UNCHANGED <<mode, source, plain, gz, cache, bundles, campaign, records, end,
                 boundVars, moved>>

SaveProgress(r) ==
  /\ At(r, "saving")
  /\ progress' = records
  /\ Moves(r, "collected")
  /\ UNCHANGED <<mode, source, plain, gz, cache, bundles, campaign, records, end,
                 boundVars, moved>>

-----------------------------------------------------------------------------
(* How a campaign ends *)

\* _training_v3_summary
TrainingStatus ==
  IF \E r \in Roots : records[r] # None /\ records[r].status = "fail" THEN "incomplete"
  ELSE IF \A r \in Roots : records[r] # None THEN "pass" ELSE "in_progress"

Stops(outcome) ==
  /\ campaign' = "idle"
  /\ task' = [r \in Roots |-> NoTask]
  /\ records' = NoRecords
  /\ end' = outcome

\* The report, with the rows in the order of the roots
Report ==
  /\ campaign = "running"
  /\ \A r \in Roots : At(r, "collected")
  /\ Stops([kind |-> "report", rows |-> [r \in Roots |-> task[r].result],
            training |-> IF mode.training THEN TrainingStatus ELSE "none",
            bundles |-> bundles, moved |-> moved])
  /\ UNCHANGED <<mode, source, fileVars, boundVars, moved>>

\* An exception leaves the pool, which waits for the tasks it was given
Raise ==
  /\ campaign = "failing"
  /\ mode.workers > 1 => \A r \in Roots : task[r].pc \notin Working \cup {"queued"}
  /\ Stops([kind |-> "raised", broke |-> \E r \in Roots : At(r, "raised"), moved |-> moved])
  /\ UNCHANGED <<mode, source, fileVars, boundVars, moved>>

\* The machine, or the process group, dies
Crash ==
  /\ campaign # "idle"
  /\ crashes < MaxCrashes /\ crashes' = crashes + 1
  /\ Stops([kind |-> "killed"])
  /\ UNCHANGED <<mode, source, fileVars, edits, fails, moved>>

\* The user edits a source
Edit(r, v) ==
  /\ v # source[r]
  /\ edits < MaxEdits /\ edits' = edits + 1
  /\ source' = [source EXCEPT ![r] = v]
  /\ moved' = IF task[r].pc \in {"none", "queued"} THEN moved ELSE moved \cup {r}
  /\ UNCHANGED <<mode, fileVars, campaign, task, records, end, crashes, fails>>

Step(r) ==
  \/ Take(r)
  \/ Evaluate(r)
  \/ Store(r)
  \/ Stored(r)
  \/ \E status \in Statuses : Finish(r, status)
  \/ WriteArtifact(r)
  \/ Compress(r)
  \/ Unlink(r)
  \/ Collect(r)
  \/ CollectRaised(r)
  \/ Emit(r)
  \/ \E status \in {"pass", "fail"} : Emitted(r, status)
  \/ OpenProgress(r)
  \/ SaveProgress(r)

Next ==
  \/ \E m \in Modes : Begin(m)
  \/ \E r \in Roots : Step(r) \/ SearchRaises(r)
  \/ Report
  \/ Raise
  \/ Crash
  \/ \E r \in Roots, v \in Versions : Edit(r, v)

\* A process that has work goes on with it
Fairness == WF_vars(\E r \in Roots : Step(r)) /\ WF_vars(Report) /\ WF_vars(Raise)

Spec == Init /\ [][Next]_vars
FairSpec == Spec /\ Fairness

-----------------------------------------------------------------------------
(* Properties *)

\* Every variable has its type.
TypeOK ==
  /\ mode \in Modes
  /\ source \in [Roots -> Versions]
  /\ plain \in [Roots -> Results \cup {None, Torn}]
  /\ gz \in [Roots -> Results \cup {None}]
  /\ cache \in [Versions -> Versions \cup {None}]
  /\ bundles \in [Roots -> Versions \cup {None, Torn}]
  /\ progress \in RecordSets \cup {None, Torn}
  /\ campaign \in {"idle", "running", "failing"}
  /\ task \in [Roots -> Tasks]
  /\ records \in RecordSets
  /\ end.kind \in {"none", "report", "raised", "killed"}
  /\ edits \in 0 .. MaxEdits /\ crashes \in 0 .. MaxCrashes /\ fails \in 0 .. MaxFails
  /\ moved \subseteq Roots

\* The rows of a report are of the sources as they were when the campaign took the
\* roots, searched or resumed ("rejecting stale or partial campaign artifacts",
\* docstring of _load_completed_search), if no source was edited while its root was
\* worked on: the fingerprint is taken at the end of a search.
RowsAreOfSources ==
  campaign = "running" =>
    \A r \in Roots \ moved : At(r, "collected") => task[r].result.of = source[r]

\* A root that a resumed campaign would take is not lost by any step, crashes and
\* compaction included, while its source stays ("Compressed roots remain
\* resumable", docs/lazy-executable-search.md), unless its source was edited while
\* the root was worked on: a search of an edit that is taken back while it runs
\* overwrites the artifact that is valid again.
Durable(r) == Load(r) # None
KeepsEvidence ==
  \A r \in Roots \ moved : Durable(r) /\ source'[r] = source[r] => Durable(r)'
EvidenceKept == [][KeepsEvidence]_vars

\* When the training emission of a report says pass, the packets of every root are
\* on disk, whole, and were emitted from the evidence in its row.
PacketsAreOfRows ==
  end.kind = "report" /\ end.training = "pass" =>
    \A r \in Roots : end.bundles[r] = end.rows[r].of

\* A campaign raises because a search of this campaign raised, for another reason than
\* the cache, or because a source was edited under some search: nothing that crashed
\* campaigns, failed emissions or torn files left behind makes it fail.
RaisesForCause == end.kind = "raised" => end.broke \/ end.moved # {}

\* Every campaign ends: no pool process and no result is waited for in vain.
CampaignEnds == campaign # "idle" ~> campaign = "idle"

=============================================================================
