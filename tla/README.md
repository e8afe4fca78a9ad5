# A TLA+ development for vLadder

vLadder searches semantically equivalent implementations of a source region, proves and measures
the candidates, and (if the user opted in) contributes what it learned to a shared service. Four
parts of it are hard to get right and hard to test: the **search engines**, whose word "complete"
becomes training labels and claims of exhaustiveness; the **contribution path**, in which
several processes of one user share files without locks and talk to a service over a network; the
**resumable drivers**, an orchestrator and a search campaign that reuse what earlier and perhaps
killed processes left on disk; and the **verifier of device protocols**, whose verdict is about
queues that run concurrently. This directory models those parts, checks them with TLC, and proves
every safety property that the runs check with TLAPS, for every size of instance.

* Modules `X.tla` model a component, `MCX.tla` give it small instances, `XProofs.tla` hold the
  theorems about it. `*.cfg` are TLC configurations.
* `PROJECT.json` lists the components, the runs, the source lines every definition stands for, the
  hazards that the properties are aimed at, and the theorems.

Run a configuration with `tlc -workers 2 -config Consent.cfg ConsentLedger`, check proofs with
`tlapm LazySearchProofs.tla`.

## 1. Inventory

State, operations, interactions and what makes each part correct. "Modelled" parts are described
in section 3; the others are in the plan (section 2) or out of reach (section 7).

| component | state | operations | talks to | hard because of | correct when |
|---|---|---|---|---|---|
| **Canonical search engine** `canonical_search.py` | transposition table (one record per canonical state, with first discovery path, depths, status), deque of work items, terminal ids, counters | `run`: seed, pop, dependency filter, POR, rank, `add_state`; budgets; resume | a grammar (callbacks `enabled_actions`, `apply_action`), a frontier policy, the checkpoint store | reductions whose choices at one state rely on choices at another; records changed while a work item holds old data | complete = True means exactly the reachable canonical terminals |
| **Production checkpoint cycle** `production_search.py` | checkpoint file, adaptive policy | load, run, save (temporary file and rename) | engine, disk | crash between steps, resume from a replayed path | nothing forgotten or explored twice, own checkpoints accepted |
| **Lazy path search** `lazy_search.py` | heap, `canonical_owner`, traces, terminals, budgets | `run`: enqueue, screen, merge verified siblings, ask policy, expand | grammar, expansion / frontier / proposal policies, `composition_native.py` reads the trace | first path owns a state, so a declined owner takes every later path with it | complete = True means no class of states left out; lineage closed |
| **External policy oracle** `lazy_search.py` | subprocess, pipes, `_registered_root` | register, exchange, time out, close, fail open | search (caller), oracle servers under `scripts/` | late, missing, half or malformed answers; process death | an answer is used only for its own question; every call returns |
| **Consent ledger** `consent.py` | one JSON file: decision per scope, policy version, next review date | `set_consent`, `record_review_request`, `require_consent`, `contribution_stage` | every vladder process of the user, the agent that asks | load-change-rename without a lock; policy versions of earlier releases | no opt-in invented, no decision lost, requests spaced |
| **Training outbox** `training_workflow.py`, `agent_workflow.py` | directory of bundles, quarantine, report in the promotion summary | enqueue, flush, quarantine, finalize | consent ledger, transport, other processes' flushes | two flushes over one directory, crash between acknowledgement and unlink, opt-out during a flush | no record lost, none stored twice, reports true |
| **Contribution transport** `contribution_transport.py` | credential file | register, submit, refresh once after a 401, health check | service over HTTP | lost answers, timeouts, revoked and replaced capabilities | every sendable record arrives |
| **Contribution service** `services/review-backend/convex` | capabilities, daily counters, stored submissions | authorize, consume, issue, store, revoke | transport | handlers are several transactions that interleave | idempotent storage, limits respected |
| **Terminal workflow cache** `agent_workflow.py` | `workflow-state.json`, `promotion-summary.json`, stage report | reuse by content key, run stage, summarise, write | orchestrator, outbox | killed inside or between two writes; a stage that fails leaves an older report | a summary is reused only for its own inputs |
| **Staged orchestration** `orchestrator.py` | `request.json`, content-addressed plan stages, scaffolds the user completes, disposition | optimize, resume, plan-only, force | all stages, the agent workflow | records written in place, source edited between and during runs | a disposition is about the source as it is; leftovers do not block |
| **Evidence cache** `executable_search.py` | content-addressed files | lookup, store (temporary file and rename) | campaign workers | concurrent writers, death of a writer | a hit equals recomputation |
| **Executable source search** `executable_search.py` | root artifacts (plain and `.gz`), training packets, progress file, worker pool | take or load a root, search, compact, collect, emit, report | cache, compilers, engines | pool and parent race; killed campaigns; edits | rows and packets are of the sources; finished roots stay resumable |
| **Protocol verifiers** `device_protocol.py` (also `protocol_*.py`, `state_protocol.py`) | none: a verdict on a manifest | build edges, closure, obligations | devices that run what passed | the verdict speaks of all schedules of several queues | a manifest that passes has no race, misuse or wait without end |
| Qualified reductions `search_reductions.py`, `bit_reduction.py` ... | e-graph, dominance sets | rewrite, dominate | engines | order of merges | no optimum removed |
| Training records `frontier_training.py`, `composition_native.py` ... | traces, labels | build trace, derive labels, filter | lazy engine, outbox, campaign | a truncated trace must not yield negative labels | labels follow from complete evidence |
| Review contribution `review_workflow.py` | review records, same credential file | submit, moderate | service | two scopes in one file | neither scope is cut off |
| Lifetime analysis, whole-build closure, heterogeneous planning, statistics, front ends, lowering, learned prior, model kernels, command line, site | mostly none of their own | analyses, translations, measurement | files, compilers, devices | not concurrency | see section 7 |

How they interact: `vladder optimize` plans a region and hands it to a search or to the agent
workflow; a campaign does so for many regions in a pool. A workflow runs a grammar through one of the two engines (the engine calls the
grammar, the frontier policy and, through pipes, the oracle), stores checkpoints and evidence, and
ends in a terminal promotion summary. If the consent ledger says so, the terminal step derives a
training bundle, enqueues it and flushes the outbox: each entry is checked against the consent
again, sent under a capability of the credential file, and unlinked when the service has
acknowledged it.

## 2. Plan

The order is by how much rests on a part, and how little a test can reach it.

1. **Canonical search and its checkpoint cycle** — `CanonicalSearch`, `MCCanonicalSearch`,
   `CanonicalSearchProofs`. *Done.*
2. **Consent ledger** — `ConsentLedger`, `ConsentLedgerProofs`. *Done.*
3. **Outbox, transport and service**, composed: `TrainingOutbox` extends `ContributionService`;
   `MCTrainingOutbox`, `TrainingOutboxProofs`. *Done for the training scope.*
4. **Policy oracle** — `PolicyOracle`, `PolicyOracleProofs`. *Done.*
5. **Lazy search**, shown to implement the abstract `GraphSearch` — `LazySearch`, `MCLazySearch`,
   `LazySearchProofs`. *Done.*
6. **Orchestrator and terminal workflow cache** over one output directory — `OptimizationRun`,
   `MCOptimizationRun`, `OptimizationRunProofs`. *Done for one invocation at a time.*
7. **Search campaign** with its worker pool, evidence cache, artifacts, packets and compaction —
   `SearchCampaign`, `MCSearchCampaign`, `SearchCampaignProofs`. *Done.*
8. **Queue verifier and the device** — `DeviceProtocol`, `MCDeviceProtocol`, `DeviceProtocolProofs`.
   *Done for queues.*
9. **Review submissions** on the credential file the outbox uses — actions of `TrainingOutbox`. *Done.*
10. *Open:* two invocations in one output directory (`run_portfolio` with repeated symbols);
    `build_composition_trace` and `derive_survival_labels` over the traces of `LazySearch`; dominance
    and the e-graph of `search_reductions` as operators against reference definitions.

Coverage is deep and narrow: the modules stand for about 4,000 source lines of a repository with
some 63,000 lines of Python in `vladder/` alone. Most of the rest are parsers, lowerings, kernels,
measurement, statistics and formatting (section 7): sequential translations of text and numbers
whose correctness is a matter of C, C++ and SMT semantics or of floating point, not of states and
interleavings. A model of them would be their transliteration.

## 3. The modules and the code

### CanonicalSearch — `CanonicalSearchEngine.run` and `ProductionCheckpointStore`

One sequential process; the state is the state of `run` (`table` = `TranspositionTable.records`,
`queue`, `cur`/`pending` = the item whose children are being added, `terminals`, `complete`, `built` =
the construction counter) and `disk`, the checkpoint file.

* `Start` seeds, `Pop` is one iteration (skip, terminal, or dependency filter + POR + construction +
  ranking), `AddState` is `add_state`/`intern` for one child, `EndExpansion` marks the record,
  `StopAtBudget`, `StopAtLimit`, `Finish` leave the loop, `Save` is the checkpoint cycle after the run,
  `Resume` is load, replay of every frontier path and the rebuilt deque. `Crash` may come anywhere.
* The grammar is external: its methods are constant operators with the grammar as first argument
  (`InitialStates`, `EnabledActions`, `ApplyAction`, `TerminalStates`), and so are the canonical identity
  `Canon`, the three orders on actions (enumeration `Rank`, `_json_action_key` `Key`, bytes `Text`) and the
  options of the search (`PorPolicy`, `NodeBudget`, `WorkBudget`, `Learned`) and the bounds `MaxStops`,
  `MaxCrashes`. `IsGrammar` is what the engine takes for
  granted.
* `Independent` is the verifier of POR with both orders applied; `PorChoices` is the cost gate, whose
  estimate may fall either way; `Learned` says whether a frontier policy may reorder siblings.
* `PathLess` keeps the byte order of serialized paths, in which a longer path precedes its own prefix:
  the order decides which discovery path a record keeps.
* A stop by the clock or by the memory ceiling is nondeterministic. Metrics, summaries and edge
  provenance are left out; nothing reads them back.

### LazySearch and GraphSearch — `LazySearchEngine.run`

`LazySearch` has the heap as a set (`queue`; scores are any numbers, so any node may come first),
`fresh` (children inside `enqueue`), `owner` (`canonical_owner`), `traces`, `terminals`, `complete`, `work`.
A node is the path of emitted states that leads to it, which is what `_node_id` hashes. `Screen` is the
deterministic part of `enqueue` in emission order, `Alias` a proposed and verified merge of siblings,
`Push` the rest; `PolicyPrunes`/`PolicyDefers`/`ReachTerminal`/`Expand` are the loop's four outcomes under
`ConservativePolicy`, `Stop` the budgets and the deadline. What a verifier proves is the partition into
`Classes`. The number of scores a frontier policy returns is taken to be right (a wrong one raises
`ValueError` at once). `traces` is a set, so the order of traces is abstracted; duplicates of one node
are a property (`Lineage`).

`GraphSearch` is the abstract promise: open and closed nodes, a flag that nothing was dropped, and an
answer that is "complete" only if nothing was. The refinement mapping takes a state to its class:
`closed` is the classes of expanded or terminal nodes, `open` the classes queued or fresh and not closed.

### PolicyOracle — the three JSON-lines clients

`Call`, `Ensure`, `Write`, `Select`, `Timeout`/`SlowTimeout`, `Line`... follow `_exchange` statement by
statement; `Registered`/`NotRegistered`/`Guided`/`Neutral`/`Rejected`/`Raise` are what the callers make of the
line; `FailOpen` is their `except` clause. The other side follows the two servers under `scripts/`, plus
what any process may do: die, hang, be slow, write a broken line, a null, or half a line. A request
may exceed the pipe's buffer (`FillPipe`). `propose` never registers its root, as in the code. Calls are
numbered modulo 4, which is more than can be under way.

### ConsentLedger

`LoadForSet`/`WriteSet`, `AskForReview`/`RequireForRecord`/`LoadForRecord`/`WriteRecord`: the load and the
rename of each operation are separate steps because nothing locks the file between them. `ledger` starts
as anything an earlier release may have left. `given`, `allowed`, `asks` and `serial` are history variables
(what the user decided, when they were asked, whether operations ever overlapped). A crash between load
and rename is the same as the process never writing, which every behaviour that stops includes.

### ContributionService and TrainingOutbox

The service's HTTP handlers run several transactions; `requests[c].stage` says which one is next, so
handlers interleave between `Authorize`, `ConsumeRegistration`/`ConsumeSubmission`, `Issue` and `StoreBundle`.
`TrainingOutbox` extends it with the client: `Enqueue`, `List`, `Sort`, `Quarantine`, `Submit`,
`UseCapability`, `RegisterCapability`, `Granted`, `Refused`, `Refresh`, `Unlink`, and the failures `Gone`,
`Unsendable`, `Unhealthy`, `TimeOut`, `Crash`. A client that gives up moves its request to an *abandoned
connection*, where the service may still serve it, at any later time, or not: that is the lost, the
late and the duplicated request in one. `EnqueueOther` is a workflow whose own record is not followed: it
only brings another flush, which keeps the state finite while flushes go on for ever. `Stop` is a flush
that ends with its remaining entries kept, `Fail` an exception that reaches the summary.
`LoadForReview`/`RegisterForReview`/`WriteForReview` are a review submission as far as the training scope
can notice it: it counts against the same registration limit, and it rewrites the whole credential file
from what it loaded earlier.

### OptimizationRun — `run_optimization`, `resume_optimization`, `run_agent_workflow`

One output directory (`disk`), the invocation under way (`run`, with its place in the code), the source
and the user's `project-evidence.yaml`. Evidence is represented by the content of the source it was
computed from, so "the summary of another source" is a comparison of two contents. Every file is written
with `write_text`, so each write is two steps and a process killed between them leaves the file `Torn`.
`Start` .. `Scaffolded` are planning (`write_plan`, `_stage_record`, `build_plan`, the scaffolds);
`PreflightBlocked`, `SearchPasses`, `SearchRaises`, `Delegate` are the routes of `execute_plan`;
`Revalidate` .. `KeepState` are `run_agent_workflow`; `Dispose` ends `execute_plan`. `Edit`, `Bind` and
`Kill` are the user and the machine, at any time and in any combination: a source may be put back after
a kill, changed under a run, and so on. Two history variables name the contents for which the code itself
mixes evidence up: `mixed` (the source was changed under an invocation, the C stage failed beside an older
report, or a run of another content was killed between its summary and its state while the state still
named this one, `Overtaken`) and `unpaired` (the same kill between report and summary, `Unpaired`).
The promotion summary and the disposition beside the plan are read by no invocation and are not files of
the model.

### SearchCampaign — `run_executable_search_manifest`, `search_many`

One task per root (`task[r].pc` is where its search, in the parent or in a pool process, or its
collection by the parent stands) and the files: artifacts `plain` and `gz`, evidence `cache`, packets `bundles`, `progress`. `Take` is `_search_request_process` up to the search,
`Evaluate`/`Store`/`Stored` one terminal and its cache entry, `Finish`/`WriteArtifact` the stamped result,
`Compress`/`Unlink` the compaction (in the worker or in the parent, as the code decides; it also removes build
products, which nothing here reads),
`Collect` .. `SaveProgress` the parent, `Report`/`Raise` the end. `Crash` ends every process of the campaign
and keeps the files; `Begin` starts another one, perhaps with other options.

### DeviceProtocol — `_verify_queue`

The first half is the verifier: execution edges from queue order, timeline and binary semaphores, their
closure, and the obligations `TimelineOK`, `BinaryOK`, `HazardsOK`, `OwnershipOK`. The second half is external:
a device whose queues run their operations in order and otherwise know of each other only through the
semaphores. It runs the manifests that passed; the properties say what a pass is worth.

## 4. The runs

| run | instance | distinct states | shows |
|---|---|---|---|
| `canonical` | 5,967 grammars over 3 features: any sibling order without interruption, or one stop, one crash and their resumes with ample and small budgets | 398,975 | `TerminalsExact`, `DependencyTerminalsExact`, `FrontierOwned`, `PathsLead`, `DepthIsDistance`, `ResumeAccepted`, `BudgetSpentForGood`, `RunEnds`, `TypeOK` |
| `canonical_alpha_por` | interchangeable identities with POR | violation | finding 1 |
| `consent` | 2 processes, 2 decisions, clock to 3, interval 2 | 4,965,196 | `NoInventedConsent`; `ReviewsSpaced` while operations do not overlap |
| `consent_lost` | the same | violation | finding 2 |
| `outbox_safe` | 2 processes, 2 records and a legacy entry, 1 fault or review, 1 opt-out | 4,802,121 | `NoRecordLost`, `StoredOnce`, `CompletedIsStored`, `OptOutStopsFlush`, `TypeOK` |
| `outbox_delivers` | 2 processes, 1 record (and others' flushes), 1 fault or review, 1 revocation, limit 1 | 1,029,496 | `EventuallyStored` |
| `oracle` | 2 roots, 3 clients, 3 faults of six kinds, large requests | 14,796 | `AnsweredInTurn`, `CallEnds`, `GuidedAgain` |
| `lazy_search` | 3,680 grammars over 6 emitted states, 3 modes | 655,869 | `GraphSpec`, `LazyExact`, `Lineage`, `ExhaustiveIsWhole`, `LazyEnds` |
| `optimization_run` | 3 contents (one closed to analysis), 4 kinds of region, 2 edits or reverts at any time, 1 kill or failure | 13,597,157 | `ReturnedIsOfInputs`, `SharedInPairs`, `ForcedRunRecovers`, `RaisesForCause`, `TypeOK` |
| `campaign` | 2 roots, serial and pool of 2, with and without packets, 1 edit, 1 crash, 1 failure | 718,701 | `RowsAreOfSources`, `PacketsAreOfRows`, `EvidenceKept`, `RaisesForCause`, `CampaignEnds`, `TypeOK` |
| `device_protocol` | every manifest of 3 operations on up to 3 queues that passes and is `Counted`, `Ordered` and has `OneProducer` | 570,935 | `HazardsOrdered`, `ReadsVisible`, `UsedOnTransfer`, `AllComplete` |
| `device_race` | the same without `OneProducer` | violation | finding 3 |

What the less obvious properties say:

* `FrontierOwned`: the records marked "queued" are exactly the ones in the deque plus the one in hand,
  each once, over any stops, crashes and resumes.
* `TerminalsExact`: a complete search found exactly the canonical terminals that action sequences reach
  (for grammars that declare no requirements); `DependencyTerminalsExact` is the same for histories in
  which every action finds its declared requirements, and none of its conflicts, before it.
* `PathsLead`: discovery paths replay to their record. `DepthIsDistance`: minimum depths are distances,
  if no limit stopped the search, or one did and POR is off (section 6).
* `BudgetSpentForGood`: counters come back with a checkpoint, so a budget that stopped a search is never
  followed by a complete result.
* `GraphSpec`: the refinement; `ExhaustiveIsWhole`: under complete = True the child counts and canonical
  owners that `_build_trace` exports are right.
* `AnsweredInTurn`: a late answer is never taken for the answer to a later call.
* `CallEnds`: every call returns, except in the three cases `Uncaught` names (section 6).
* `OptOutStopsFlush`: after an opt-out each process sends at most the record in hand.
* `ReturnedIsOfInputs`: whatever an invocation reuses (plan stage, last summary, stage report) was computed
  from the content it was asked about, also after a kill, a revert and both together, unless that content
  is `mixed` (and the run is not forced). `SharedInPairs`: the training exporter gets a summary together
  with the report it was made from, also after a reuse, unless it is asked about an `unpaired` content.
  Both exceptions are what the code does (section 6); what is left rests on the order of the three
  writes report, summary, state, on the key, and on nothing else being reused.
* `ForcedRunRecovers`: of what a killed process left, only a torn scaffold stops `--force` (section 6);
  `RaisesForCause`: no order of edits, forced runs and resumes alone leaves an unreadable directory.
* `RowsAreOfSources`: rows of a campaign are of the sources, searched or resumed, if no source is edited while
  its root is worked on. `EvidenceKept` (an action property): no step, crash or compaction loses a root that
  a resumed campaign would take, if that root was not edited while it was searched. `PacketsAreOfRows`: "training: pass" means whole packets of every row.
* `HazardsOrdered`, `ReadsVisible`, `UsedOnTransfer`, `AllComplete`: under every schedule of the device, a
  verified manifest has no race, no invisible read, no use by a family other than the declared owner before
  the resource is transferred to it, and no operation that waits for ever. Uses by the declared owner after
  it handed the resource over pass the verifier and are not spoken of (section 6).

**Bounds and why they are enough.** Three features give diamonds, cycles (an action that turns another
feature off), actions that enable or disable each other and two interchangeable identities; three
actions at a state are the least at which skips of POR can compose, and the least the adaptive gate
accepts. Both budgets are chosen so that some grammars exceed them and some do not. One stop plus one
crash gives resume after stop, restart without a checkpoint and resume after a crash in a resumed run. Two processes are enough for every read-change-write race on one file; a
third adds no new pair. One abandoned request, served at any time, covers loss, delay and duplication;
limits of 1 make every second submission meet the limit. Three faults let an oracle fail, be
restarted and fail again. Six emitted states contain duplicates by two actions, cycles, a merge of two
siblings that are both also reached elsewhere, and each deterministic status. Two edits of the source give
a new content twice or a content put back, before or after the kill, and any number of invocations runs
between and after them; one killed process already leaves each file torn in each state of the others. A pool of two with two roots has
every pair of concurrent steps of the campaign; one root is retained and one compacted. Three operations
have room for two signals and a wait that both reach, which is finding 3. Every bound
(`MaxStops`, `MaxCrashes`, `MaxTime`, `MaxDecisions`, `MaxFaults`, `MaxRevocations`, `MaxEdits`, `MaxTroubles`,
`MaxFails`) is a constant that occurs
in the guard it limits, and the theorems hold for all of them.

**Symmetry** is used in `outbox_safe` (processes, and records that are neither legacy nor oversized) and
in `optimization_run` (the two contents the forecast does not tell apart); neither checks a temporal
property.

**Deadlock** is not checked where the system may stop: the ledger when the clock and the decisions are
used up, the outbox when all records are sent or the user has opted out, the oracle after an uncaught
exception or in a blocked read or write, the lazy search when the call has returned, and the device when
all operations are complete. The canonical engine is checked for deadlock (`Ended` is its explicit last
step), and so are the orchestrator and the campaign, which can always be started again.

**Fairness.** Canonical engine: weak fairness of the loop's own steps (`Engine`) — one sequential process
that runs as long as it lives; nobody owes it a resume. Lazy search: weak fairness of the one call.
Oracle: weak fairness of the search's steps and of a process that does not hang; none on calls, none on
misbehaviour, and a healthy oracle may still be too slow as often as the fault bound allows. Outbox:
each step of a running flush, the service's steps on connections whose client waits, new days, and the
user who keeps running workflows (documented as the trigger of a replay); none on abandoned
connections, crashes, decisions or review submissions. Campaign: weak fairness of the tasks' steps taken
together, of the report and of the raise — the pool's processes and the parent run as long as they live;
none on starting a campaign, edits, crashes or searches that raise. Device: weak fairness of the device,
which goes on as long as some operation can start or complete. The orchestrator's run states no liveness.

## 5. The proofs

Each theorem holds for every value of the constants and follows the pattern "the initial states satisfy
an inductive invariant, every step keeps it, it implies the property". The invariants:

| module | theorems | inductive invariant and why it is needed |
|---|---|---|
| `CanonicalSearchProofs` | `TypeCorrect`, `FrontierCorrect` | `FrontierInv` adds that an item is in hand only while its children are added; without it `EndExpansion` could mark a record that the deque still holds |
| | `BudgetStaysSpent` | `SpentInv`: a search that goes on from a spent checkpoint is at the top of the loop with work left and a counter at its budget, so it can only stop. The checkpoint of a complete result has nothing queued, hence is not spent |
| | `PathsAreReplayed`, `OwnCheckpointsAccepted` | `PathInv`: the path of every record (also in the checkpoint) leads to its canonical state, and the path of a work item to the very state its record holds — the record may have got another path since. Assumes `Distinct`: the roots have distinct actions and, in searches that can be resumed, no two states share an identity; with interchangeable identities it is false (section 6) |
| | `CompleteIsExact` | `CoverInv` (records are reachable and under their own identity, roots have records, terminal ids are the marked records, for table and checkpoint) and `ReduceInv`, below. Assumes `Lossless`: POR leaves nothing out and equal states have equal successors, or no two states share an identity and roots have distinct actions. The case left out is finding 1 |
| | `DependenciesKept` | `HistoryInv`: for every assignment `H` of the declared actions taken to each identity, paths of records and items have taken what `H` says, and what an expanded record leads to under `H` has a record. Assumes `KeepsDependencies`: such an `H` exists and POR leaves nothing out, or nothing is declared and the grammar is `Lossless` |
| | `DepthsAreDistances` | `DepthInv`, below, on top of `CoverInv`, `ReduceInv` and `SpentInv`. Assumes `Lossless` |
| | `RunsAreFinite` | `FrontierInv`: an identity that is taken off the deque was queued and is marked, so it is not taken off again |
| `LazySearchProofs` | `CompleteSearchIsExact` (of `GraphSearch`) | `GraphInv`: what was seen is closed under successors up to the open nodes, while nothing was dropped |
| | `LazyImplementsGraph` | `LazyInv`: while the search may still be complete, an owned identity has a state of its class queued, fresh or explored (so a dropped duplicate is never the last of its class), and what an explored class leads to has been seen |
| | `CompleteLazySearchIsExact` | the refinement carries the abstract theorem over; `TerminalsExplored` relates the reported terminals to the explored nodes |
| | `LineageClosed`, `CompleteLineageIsWhole` | `LineageInv`: a node is in one place (heap, `enqueue`'s hands, or one trace); its parent is traced as expanded; every child of an expanded node is somewhere; owners are nodes that were emitted |
| | `LazyRunsAreFinite` | `FinitelyMany` and `LineageInv`: a node taken off the heap has not been traced before, so each one uses up a unit of the node budget |
| `ConsentLedgerProofs` | `ConsentNeverInvented` | `ConsentInv`: also every loaded copy is honest, and a decision about to be written was the user's — a stale copy becomes the ledger at the next rename |
| | `RequestsSpaced` | `SpacedInv`: while operations follow one another, what an operation loaded is still the ledger, and the last request is in the ledger or on its way there |
| `TrainingOutboxProofs` | `RecordsKept` | `OutboxInv`: an accepted request's record is stored (also on abandoned connections), the record in hand is the head of the list and the one sent, and no request carries a legacy record; `CopyTyped`: what a review submission will write back is a capability |
| | `TypeCorrect`, `OptOutIsKept` | `Rest` (the other types; a process with a record in hand has it in its list) and `LateFits`: what was sent since the opt-out is at most one record, which while it is on the way is the one in hand |
| `PolicyOracleProofs` | `NeverAStaleAnswer` | `OracleInv`: the pipes hold at most one message, which belongs to the current call, and are empty otherwise — this is why every failure has to close the process |
| | `CallsNeverWait`, `CallsAreFinite` | `CallInv`: at each place of a call, what is in the pipes and what the process still owes |
| `OptimizationRunProofs` | `TypeCorrect`, `ReturnsAreOfInputs`, `SharesInPairs`, `RaisesAreJustified` | `RunInv` says for each place of an invocation what it knows. Evidence agrees with the key it is kept under, but for contents in `mixed` (`StagesFit`, `KeyFits`, `StoredFits`); the stored summary goes with the stored report, but for `unpaired` (`StoredPairs`), and between two writes what is being written is that of the run (`SummaryFits`), so an interrupted run leaves nothing worse than the two histories say (`EndKeeps`). Without a kill or failure a torn file is one that is being written (`TornIsOpen`) |
| `SearchCampaignProofs` | `TypeCorrect`, `RowsCorrect`, `PacketsCorrect`, `RaisesCorrect` | `CampaignInv`, root by root: artifacts, results and what a task holds are of the stamped source unless that was edited meanwhile (`Sound`); what a task has at each place, and that its plain artifact is torn only while it writes it (`InStep`); packets follow from a passed record after the emission (`Emission`) |
| | `EvidenceIsKept` | an action property from the same invariant: each file that a step removes has been superseded by a whole one |
| | `CampaignsNeverStuck`, `CampaignsAdvance` | `WayInv`: every root of a campaign has a place, and packets are emitted only where they are wanted |
| `DeviceProtocolProofs` | `HazardsAreOrdered`, `ReadsAreVisible`, `UsesAreTransferred`, `NoDeadlock` | `DeviceInv`: every execution edge is respected (its second operation starts only when the first is complete); the timeline has the greatest value signalled, and the binary semaphore is raised by the signal not yet waited for; the owner is who took over last. Assumes manifests that are `Precise`; without one producer per wait it is finding 3 |

**Completeness with POR.** An action that POR leaves out at the end of a path is left to the other order
of the path's last two actions. That order may be left out in turn, at another record, and records keep
changing their paths. `ReduceInv` therefore says that there is an assignment `P` of a path to every expanded
record — the one its work item had when it was expanded, which no variable holds — such that these paths
form a tree, every path of a record or item goes on from one of them, and every successor of an
expanded record has a record or is `Postponed` by the path `P` gives. `NothingPostponed` closes the
argument when the deque is empty: of all missing successors take one whose action has the greatest
key, and of those one with the shortest path; the other order has an action of a greater key or a
shorter path, so it is not missing, and both orders end in the same canonical state. The step of a resume is
the delicate one: the restored item must have the same state before its last action as the one
that was lost (`RestoredDescends`).

**Dependencies.** The filter looks at the path of first discovery, and a resumed search at whatever path the
record has by then. That is harmless exactly if the identity records which declared actions were taken
(`RecordsHistory`): then all paths to a record agree on what may follow (`TakenAppend`, `BlockedByHistory`). The reference
definition counts the steps of a fixpoint; `GrowthEnds` shows that its bound is enough: the identities
reached grow with every step until they grow no more, and there are no more of them than steps.

**Depths.** `BreadthFirst(w)` says that no item of the deque is more than `1 + w` actions deeper than another, none
more than `w` deeper than a later one, and no expanded record more than `w` deeper than an item. Without a stop `w` is
0: children are the deepest of all, so a record found again is not found at a smaller depth. A resume after the first
stop sorts by digest a deque that is one action wide, so from then on `w` is 1: records may still be lowered, but
none that has been expanded, since a child is at least one action deeper than the shallowest item. Every
successor of an expanded record is then at most one action deeper or `Postponed`; `NothingFarther` follows what
was postponed as `NothingPostponed` does, where depths are the lengths of the paths (`Lengths`), so that both
orders cost the same. `DrainedDistances` concludes with a least number of actions whose reach is missed.

**Induction.** What recursive functions compute (`Replay` in `CanonicalSearch`) is proved by a least
counterexample: the naturals are well founded, and a definition that holds up to `n - 1` holds at `n`
(`ReplayExists`, `ReplayPrefix`; likewise the latest signal in `DeviceProtocolProofs`).

**Assumptions on constants.** `BudgetAssumption`, `GrammarAssumption` (the engine's expectations of a grammar,
`IsGrammar`), `NilAssumption`; `ServiceAssumption`, `OutboxAssumption` (the records followed are finitely many);
`ConsentAssumption`; `OracleAssumption`; `LazyAssumption`, `LazyGrammarAssumption` (states of one class end alike
and have the same classes of children: what the verifier of a merge proves); `RunAssumption` and
`MarkAssumption`, `CampaignAssumption` and `NoneAssumption` (absent and torn files are no content). TLC
evaluates each on the runs. `Distinct`, `Lossless` and `Precise` are not assumptions of a module but
hypotheses of the theorems that state them. Every grammar of `canonical` is `Lossless` and
`KeepsDependencies` and no native one of `canonical_alpha_por` is `Lossless`; the manifests of `device_protocol` are `Precise`, those of `device_race` need not be.

**Progress.** That something ends has two halves that need no fairness: it cannot go on for ever, and it is
never stuck before the end. The first is stated by measures. `StepsLeft` of the canonical engine counts the
identities that can still be taken off the deque, each at the price of its actions (`RunsAreFinite`); the
lazy search lowers the nodes it may still take, then the phases of the node in hand, then the children in
`enqueue`'s hands (`LazyRunsAreFinite`); a call of the oracle lowers `CallLeft` except when a fault happens,
which never raises it (`CallsAreFinite`); a root of a campaign only goes forward on its `Way`
(`CampaignsAdvance`). The second is stated by the guards of the steps, which stand for `ENABLED`:
`CallsNeverWait`, `CampaignsNeverStuck` and `NoDeadlock`. For a pool of processes it rests on the first queued root
of a serial campaign, or an empty pool, being free to go.

**Only model-checked.** Liveness itself (`RunEnds`, `EventuallyStored`, `CallEnds`, `GuidedAgain`, `LazyEnds`,
`CampaignEnds`, `AllComplete`): the step from the halves above to "eventually" needs fairness and `ENABLED`. The
second half is left to the deadlock check of its run for the canonical search, and to `LazyEnds` for the lazy
one, which has an action for every place but its last. Of the outbox neither half is proved: that a record
arrives is owed to workflows that are run again and again. `Oversized` records are empty in the runs; `RecordsKept` covers them.

The type invariants of the consent ledger, the oracle and the lazy search are part of their theorems and
are not checked by a run as well.

## 6. Disagreements found

Kept as runs (with the quoted lines in `PROJECT.json`):

1. `canonical_alpha_por` — POR together with interchangeable identities loses a reachable terminal and
   still reports complete: the order that was to represent a skipped action starts from a state that was
   merged into its symmetric twin, whose own representative order skips the action too.
2. `consent_lost` — a process that loaded the ledger before an opt-out was saved writes the older decision
   back. `NoInventedConsent` still holds: it can only restore a decision the user once made.
3. `device_race` — of several signals that reach the value of a timeline wait, `_verify_queue` takes the
   latest for the one the wait is ordered after (`device_protocol.py:285`); the wait is over at the earliest.
   Operation 1 signals 1, operation 2 on the same queue reads and signals 2, operation 3 on another queue
   waits for 1 and writes: the hazard between 2 and 3 is "proved", and they may overlap.

What a property leaves out because the code does not provide it, or what is visible in the modules
without a run of its own:

* With interchangeable identities, `intern` may replace a record's discovery path by one that leads to a
  symmetric raw state (`canonical_search.py:391`); a resumed search extends that path with actions of the
  other state, and the next resume refuses the checkpoint. `canonical` therefore stops symmetric searches
  only where they cannot be resumed.
* A schema-valid bundle over the size limit stays at the head of the outbox and every flush stops at it
  (`training_workflow.py:140`, `contribution_transport.py:327`).
* A lazy search stopped by its node budget names canonical owners that are not in its result
  (`lazy_search.py:867`).
* When the C stage of the workflow fails and an older `perf.json` is there, the older report is summarised
  and kept under the new key (`agent_workflow.py:209`). `ReturnedIsOfInputs` leaves out that invocation and,
  unless they are forced, later ones about that content.
* The workflow writes the summary and then the state (`agent_workflow.py:349`, `:357`). Say both are of
  s1, the source becomes s2, and the rerun is killed between the two writes. If the source is put back
  to s1, the key of the state matches (line 161) and the summary of s2 is returned for s1 as
  "revalidated", until the run is forced. `ReturnedIsOfInputs` leaves such a content out (`mixed`).
* If the same rerun is killed earlier, after the stage wrote its report and before line 349, the state and
  the summary are still those of s1, but the report they name is that of s2: after the revert lines
  161-178 hand the two to the training exporter together. `SharedInPairs` leaves such a content out
  (`unpaired`); the disposition itself is right.
* A source changed under an invocation may be kept under the key of the old content (the plan's stage,
  `orchestrator.py:1187`, and the workflow's summary): put back, the old content gets the evidence of the
  new one. `ReturnedIsOfInputs` leaves such contents out (`mixed`) and the invocation itself.
* A process killed inside the write of a scaffold leaves a file that is taken for the user's and never
  written again, so that planning raises, forced or not (`orchestrator.py:876-884`). A torn `request.json`
  makes `resume` raise until the next `optimize`.
* A search takes the fingerprint of its request at its end (`executable_search.py:2013`): a source edited
  while its root is worked on is stamped with the new content. `RowsAreOfSources` leaves those roots out.
* The artifacts of a passing root are compacted whether or not the emission of its packets passed.
* The queue verifier takes for granted that signals of one timeline, and uses of one binary semaphore, happen
  in the order of the manifest (`Ordered` in `DeviceProtocol`); without this its verdicts on semaphores are not
  about the device. It compares every use with the declared owner too (`device_protocol.py:380`), so that
  family may go on using a resource it has handed over; `UsedOnTransfer` speaks of the other families. It
  also accepts a timeline wait for 0, which no signal has to reach; `Counted` leaves those out.
* A resume sorts the deque by digest. A record taken before one of less depth hands its children a depth
  that is lowered later only at the record itself; after a second resume the search can end with a
  `depth_minimum` above the distance. After one stop what is left is of two neighbouring levels, which is
  harmless unless POR is on: a child queued with the longer of two paths and lowered through the shorter
  one is still expanded with the longer, POR leaves a successor to the order through that path, and this
  one gets its greater depth (four features are needed: `c`, `w`, `b` that turns `c` off, and `a` that needs two
  features). Nothing but reports reads the field, and no document says more of it; `DepthIsDistance` speaks
  of no stop, or of one stop with POR off.
* An unknown cache policy becomes the assumption False in `state_protocol.py:92`, so its obligation is
  proved of anything.
* `run_portfolio` may prepare two regions of one name in one directory (`orchestrator.py:1498`).
* `static_screen` and `verify` ignore declared requirements, so POR may skip an action whose other order
  the dependency filter blocks; and the filter looks at the first discovery path only, so in a grammar
  whose actions undo each other a requirement met, or a conflict avoided, on another path does not count. That is
  why the grammars with declared requirements and conflicts in `canonical` have POR off and no undoing
  actions, and what `KeepsDependencies` says in general.
* The canonical engine does not look at `deterministic_status`; `docs/canonical-state-search.md` lists
  contract impossibility first in its authority order.
* `record_review_request` does not test whether a request is due; two overlapping processes may both ask.
  `ReviewsSpaced` therefore speaks of operations that do not overlap.
* Of two flushes the second may find an entry already removed; its summary then says failed although
  the record is stored (`Gone`, `Sort` and the second half of `Unlink`).
* `_ensure_process` starts a new oracle process without forgetting `_registered_root`: the deciding client
  asks it about a root it was not told of and takes the error for a neutral decision, for good.
  `GuidedAgain` speaks of the ranking client, whose error path forgets the registration.
* Fail-open does not cover three cases (`Uncaught`): an answer that stops in the middle of a line, as
  `readline` has no timeout; a request larger than the pipe's buffer to a process that hangs, as `write`
  has none; and a null where a number or a list is expected, as `TypeError` is not caught.
  `docs/lazy-executable-search.md` says of timeout, crash and malformed output that they all fail open.

## 7. Not modelled, and why

* Parts of modelled components: how a bundle is derived from a summary (field-by-field filtering), the
  service's validators, reviews and moderation, probes, malformed ledgers (`load_consent` raises), cost
  estimates of the adaptive policy (any estimate), the coverage audit, decision contexts and counters.
* Of the orchestrator: `run_portfolio`, run state, signed remote results; of the campaign: what a search
  computes (grammars, compilers, solvers); of the protocol verifiers: DMA, presentation, finite resources and
  versioned caches, which compare declared flags or one fixed order of events; of reviews: everything but
  their use of the credential file and of the registration limit.
* Planned: step 10 of section 2.
* Not planned: front ends, lowering and proof generation (translation of text, no state of their own);
  benchmarks, statistics and the learned prior (floating point); model-specific kernels (generated code);
  heterogeneous planning (device facts that no source line defines); lifetime analysis and whole-build
  closure (sequential graph analyses around external compilers); command
  line, packaging, site and release scripts.
