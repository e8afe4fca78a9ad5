------------------------- MODULE SearchCampaignProofs -------------------------
(***************************************************************************)
(* What a campaign keeps for any number of roots, contents, modes, edits,  *)
(* crashes and failures.                                                   *)
(***************************************************************************)
EXTENDS SearchCampaign, TLAPS, FiniteSetTheorems, WellFoundedInduction

Fresh == {"none", "queued"}
Searching == {"search", "store", "storing", "evaluated"}
Compacting == {"compact", "unlink"}
Resulted == {"write", "done", "collected"} \cup Compacting \cup Collecting
Places == {"raised"} \cup Fresh \cup Searching \cup Resulted

Content(file) == file \notin {None, Torn}

\* What is on disk and in hand for a root is of the source that it claims, unless
\* the source was edited while the root was worked on
Sound(r) ==
  r \notin moved =>
    /\ Content(plain[r]) => plain[r].of = plain[r].stamp
    /\ Content(gz[r]) => gz[r].of = gz[r].stamp
    /\ task[r].of # None => task[r].of = source[r]
    /\ task[r].result # None => task[r].result.of = source[r] /\ task[r].result.stamp = source[r]
    /\ task[r].pc \in Searching => ~Durable(r)
    /\ At(r, "done") /\ mode.training => Durable(r)

\* What a task has and has written where it stands
InStep(r) ==
  /\ task[r].pc \in Fresh => task[r].of = None /\ task[r].result = None
  /\ task[r].pc \in Searching => task[r].of # None
  /\ task[r].pc \in Resulted => task[r].result # None
  /\ task[r].pc \in Resulted => (plain[r] = Torn <=> At(r, "write"))
  /\ At(r, "unlink") => plain[r] \in {None, gz[r]}
  /\ ~At(r, "unreadable")

\* After the emission, a record that passed has its packets
Emission(r) ==
  /\ mode.training
  /\ task[r].pc \in Compacting \cup {"progress", "saving", "collected"}
  /\ records[r] # None /\ records[r].status = "pass"
  => bundles[r] = task[r].result.of

RootInv(r) == Sound(r) /\ InStep(r) /\ Emission(r)

\* The parent fails for what a search of this campaign raised, or for an edit
FailsForCause == campaign = "failing" => (\E r \in Roots : At(r, "raised")) \/ moved # {}

CampaignInv ==
  /\ TypeOK
  /\ \A r \in Roots : RootInv(r)
  /\ campaign = "idle" => \A r \in Roots : task[r] = NoTask
  /\ FailsForCause
  /\ PacketsAreOfRows
  /\ RaisesForCause

\* A step on one root leaves the others and the sources alone
OnlyAt(r) ==
  /\ \A q \in Roots \ {r} :
       /\ task'[q] = task[q] /\ plain'[q] = plain[q] /\ gz'[q] = gz[q]
       /\ bundles'[q] = bundles[q] /\ records'[q] = records[q]
  /\ UNCHANGED <<mode, source, moved, end>>

-----------------------------------------------------------------------------
\* A task that goes on to another place keeps what it has.
LEMMA MoveTask ==
  ASSUME TypeOK, NEW r \in Roots, NEW place \in Places, Moves(r, place)
  PROVE  /\ task' \in [Roots -> Tasks]
         /\ task'[r].pc = place /\ task'[r].of = task[r].of /\ task'[r].result = task[r].result
         /\ \A q \in Roots \ {r} : task'[q] = task[q]
  BY DEF TypeOK, Moves, Tasks, Places, Fresh, Searching, Resulted, Compacting, Working, Collecting

\* A task that is replaced.
LEMMA SetTask ==
  ASSUME TypeOK, NEW r \in Roots, NEW t \in Tasks, task' = [task EXCEPT ![r] = t]
  PROVE  /\ task' \in [Roots -> Tasks] /\ task'[r] = t
         /\ \A q \in Roots \ {r} : task'[q] = task[q]
  BY DEF TypeOK

\* The other roots keep their part of the invariant.
LEMMA OthersKeep ==
  ASSUME TypeOK, NEW r \in Roots, NEW q \in Roots \ {r}, OnlyAt(r), RootInv(q)
  PROVE  RootInv(q)'
<1>1. /\ task'[q] = task[q] /\ plain'[q] = plain[q] /\ gz'[q] = gz[q]
      /\ bundles'[q] = bundles[q] /\ records'[q] = records[q]
      /\ UNCHANGED <<mode, source, moved>>
  BY DEF OnlyAt
<1>2. Durable(q)' <=> Durable(q)
  BY <1>1 DEF Durable, Load, Accepted
<1>3. Sound(q)'
  BY <1>1, <1>2 DEF RootInv, Sound, At
<1>4. InStep(q)'
  BY <1>1 DEF RootInv, InStep, At
<1>5. Emission(q)'
  BY <1>1 DEF RootInv, Emission
<1>. QED
  BY <1>3, <1>4, <1>5 DEF RootInv

\* A step on one root keeps the invariant if it keeps that root's part.
LEMMA RootStep ==
  ASSUME CampaignInv, NEW r \in Roots, task[r].pc # "none", OnlyAt(r), TypeOK', RootInv(r)',
         \/ campaign' = campaign
         \/ campaign' = "failing" /\ (At(r, "raised")' \/ moved # {}),
         At(r, "raised") => At(r, "raised")'
  PROVE  CampaignInv'
<1>1. \A q \in Roots : RootInv(q)'
  BY OthersKeep DEF CampaignInv
<1>2. campaign # "idle"
  BY DEF CampaignInv, NoTask
<1>3. FailsForCause'
  <2>1. ASSUME NEW q \in Roots, At(q, "raised") PROVE At(q, "raised")'
    BY <2>1 DEF OnlyAt, At
  <2>. QED
    BY <2>1 DEF OnlyAt, CampaignInv, FailsForCause
<1>4. PacketsAreOfRows' /\ RaisesForCause'
  BY DEF OnlyAt, CampaignInv, PacketsAreOfRows, RaisesForCause
<1>. QED
  BY <1>1, <1>2, <1>3, <1>4 DEF CampaignInv

\* An artifact that is accepted is whole and of the right type.
LEMMA Loaded ==
  ASSUME TypeOK, NEW r \in Roots, Load(r) # None
  PROVE  /\ Load(r) \in Results /\ Load(r).stamp = source[r] /\ plain[r] # Torn
         /\ Load(r) \in {plain[r], gz[r]}
  BY CampaignAssumption DEF TypeOK, Load, Accepted

\* Whether a root is durable depends on its artifacts and its source.
LEMMA DurableSame ==
  ASSUME NEW r \in Roots, plain'[r] = plain[r], gz'[r] = gz[r], source'[r] = source[r]
  PROVE  Durable(r)' <=> Durable(r)
  BY DEF Durable, Load, Accepted

-----------------------------------------------------------------------------
\* Taking a root: its artifact, or its source as it is now.
LEMMA TakeKeeps ==
  ASSUME CampaignInv, NEW r \in Roots, Take(r)
  PROVE  CampaignInv'
<1>. DEFINE found == Load(r)
            t == IF found # None
                   THEN [pc |-> Returned(r, found), of |-> None, result |-> found]
                   ELSE [pc |-> IF source[r] \in Blocked THEN "evaluated" ELSE "search",
                         of |-> source[r], result |-> None]
<1>1. TypeOK /\ RootInv(r) /\ At(r, "queued") /\ source[r] \in Versions
  BY DEF CampaignInv, Take, TypeOK
<1>2. task' = [task EXCEPT ![r] = t] /\ UNCHANGED <<mode, source, fileVars, campaign, records, end, boundVars, moved>>
  BY DEF Take
<1>3. t \in Tasks
  BY <1>1, Loaded DEF Tasks, Returned, Working
<1>4. \/ /\ t.pc \in {"compact", "done"} /\ t.of = None
         /\ t.result = found /\ found # None
      \/ /\ t.pc \in {"search", "evaluated"} /\ t.of = source[r]
         /\ t.result = None /\ found = None
  BY DEF Returned
<1>5. t.pc = "compact" => ~mode.training
  BY DEF Returned, WorkerCompacts
<1>. HIDE DEF t
<1>6. task' \in [Roots -> Tasks] /\ task'[r] = t /\ \A q \in Roots \ {r} : task'[q] = task[q]
  BY <1>1, <1>2, <1>3, SetTask
<1>7. TypeOK' /\ OnlyAt(r)
  BY <1>1, <1>2, <1>6 DEF TypeOK, OnlyAt, fileVars, boundVars
<1>8. Durable(r)' <=> Durable(r)
  BY <1>2, DurableSame DEF fileVars
<1>9. Sound(r)'
  <2>1. ASSUME found # None, r \notin moved PROVE found.of = source[r] /\ found.stamp = source[r]
    BY <1>1, <2>1, Loaded, NoneAssumption DEF RootInv, Sound, Content
  <2>2. Durable(r) <=> found # None
    BY DEF Durable
  <2>. HIDE DEF found
  <2>. QED
    BY <1>1, <1>2, <1>4, <1>6, <1>8, <2>1, <2>2 DEF RootInv, Sound, At, fileVars, Searching
<1>10. InStep(r)' /\ Emission(r)'
  BY <1>1, <1>2, <1>4, <1>5, <1>6, Loaded, CampaignAssumption
  DEF RootInv, InStep, Emission, At, fileVars, Fresh, Searching, Resulted, Compacting, Collecting, TypeOK
<1>. QED
  BY <1>1, <1>2, <1>7, <1>9, <1>10, RootStep DEF RootInv, At

\* The steps of a search before its end.
LEMMA SearchKeeps ==
  ASSUME CampaignInv, NEW r \in Roots, Evaluate(r) \/ Store(r) \/ Stored(r) \/ SearchRaises(r)
  PROVE  CampaignInv'
<1>1. TypeOK /\ RootInv(r) /\ task[r].pc \in Searching /\ task[r].of \in Versions
  <2>1. TypeOK /\ RootInv(r) /\ task[r].pc \in Searching
    BY DEF CampaignInv, Evaluate, Store, Stored, SearchRaises, At, Searching
  <2>. QED
    BY <2>1 DEF RootInv, InStep, TypeOK, Tasks
<1>2. cache[task[r].of] # Torn
  BY <1>1, CampaignAssumption DEF TypeOK
<1>3. PICK place \in Searching \cup {"raised"} : Moves(r, place)
  BY <1>2 DEF Evaluate, Store, Stored, SearchRaises, Searching
<1>4. /\ UNCHANGED <<mode, source, plain, gz, bundles, progress, campaign, records, end, edits, crashes, moved>>
      /\ cache' \in [Versions -> Versions \cup {None}]
      /\ fails' \in {fails, fails + 1} /\ fails' \in 0 .. MaxFails
  <2>1. CASE Evaluate(r) \/ Store(r)
    BY <1>1, <2>1 DEF Evaluate, Store, fileVars, boundVars, TypeOK
  <2>2. CASE Stored(r)
    BY <1>1, <2>2 DEF Stored, boundVars, TypeOK
  <2>3. CASE SearchRaises(r)
    BY <1>1, <2>3, CampaignAssumption DEF SearchRaises, fileVars, TypeOK
  <2>. QED
    BY <2>1, <2>2, <2>3
<1>5. /\ task' \in [Roots -> Tasks]
      /\ task'[r].pc = place /\ task'[r].of = task[r].of /\ task'[r].result = task[r].result
      /\ \A q \in Roots \ {r} : task'[q] = task[q]
  BY <1>1, <1>3, MoveTask DEF Places
<1>6. TypeOK' /\ OnlyAt(r)
  BY <1>1, <1>4, <1>5 DEF TypeOK, OnlyAt
<1>7. Durable(r)' <=> Durable(r)
  BY <1>4, DurableSame
<1>8. Sound(r)'
  BY <1>1, <1>4, <1>5, <1>7 DEF RootInv, Sound, At, Searching
<1>9. InStep(r)' /\ Emission(r)'
  BY <1>1, <1>3, <1>4, <1>5
  DEF RootInv, InStep, Emission, At, Fresh, Searching, Resulted, Compacting, Collecting
<1>. QED
  BY <1>1, <1>4, <1>6, <1>8, <1>9, RootStep DEF RootInv, At, Searching

\* The end of a search: the artifact is opened, and then written.
LEMMA WriteKeeps ==
  ASSUME CampaignInv, NEW r \in Roots,
         (\E status \in Statuses : Finish(r, status)) \/ WriteArtifact(r)
  PROVE  CampaignInv'
<1>1. TypeOK /\ RootInv(r)
  BY DEF CampaignInv
<1>2. CASE \E status \in Statuses : Finish(r, status)
  <2>1. PICK status \in Statuses : Finish(r, status)
    BY <1>2
  <2>. DEFINE result == [of |-> task[r].of, stamp |-> source[r], status |-> status]
  <2>2. task[r] \in Tasks /\ task[r].pc = "evaluated" /\ task[r].of \in Versions /\ source[r] \in Versions
    BY <1>1, <2>1 DEF Finish, At, RootInv, InStep, Searching, TypeOK, Tasks
  <2>3. task' = [task EXCEPT ![r].pc = "write", ![r].result = result]
    BY <2>1 DEF Finish
  <2>4. result \in Results
    BY <2>2 DEF Results
  <2>5. /\ task' \in [Roots -> Tasks]
        /\ task'[r].pc = "write" /\ task'[r].of = task[r].of /\ task'[r].result = result
        /\ \A q \in Roots \ {r} : task'[q] = task[q]
    BY <1>1, <2>2, <2>3, <2>4 DEF TypeOK, Tasks, Working
  <2>6. /\ plain' = [plain EXCEPT ![r] = Torn]
        /\ UNCHANGED <<mode, source, gz, cache, bundles, progress, campaign, records, end, boundVars, moved>>
    BY <1>1, <2>1 DEF Finish, TypeOK
  <2>7. TypeOK' /\ OnlyAt(r)
    BY <1>1, <2>5, <2>6 DEF TypeOK, OnlyAt, boundVars
  <2>8. plain'[r] = Torn
    BY <1>1, <2>6 DEF TypeOK
  <2>9. Sound(r)'
    BY <1>1, <2>2, <2>5, <2>6, <2>8, CampaignAssumption DEF RootInv, Sound, At, Searching, Content
  <2>10. result # None
    BY <2>4, NoneAssumption
  <2>11. InStep(r)' /\ Emission(r)'
    BY <1>1, <2>5, <2>8, <2>10
    DEF InStep, Emission, At, Fresh, Searching, Resulted, Compacting, Collecting
  <2>. QED
    BY <1>1, <2>2, <2>6, <2>7, <2>9, <2>11, RootStep DEF RootInv, At
<1>3. CASE WriteArtifact(r)
  <2>. DEFINE result == task[r].result
              place == Returned(r, result)
  <2>1. At(r, "write") /\ result \in Results /\ plain[r] = Torn
    BY <1>1, <1>3 DEF WriteArtifact, At, RootInv, InStep, Resulted, TypeOK, Tasks
  <2>2. place \in {"done", "compact"} /\ (place = "compact" => ~mode.training)
    BY DEF Returned, WorkerCompacts
  <2>3. /\ plain' = [plain EXCEPT ![r] = result] /\ Moves(r, place)
        /\ UNCHANGED <<mode, source, gz, cache, bundles, progress, campaign, records, end, boundVars, moved>>
    BY <1>3 DEF WriteArtifact
  <2>. HIDE DEF place
  <2>4. /\ task' \in [Roots -> Tasks]
        /\ task'[r].pc = place /\ task'[r].of = task[r].of /\ task'[r].result = task[r].result
        /\ \A q \in Roots \ {r} : task'[q] = task[q]
    BY <1>1, <2>2, <2>3, MoveTask DEF Places, Resulted, Compacting
  <2>5. TypeOK' /\ OnlyAt(r)
    BY <1>1, <2>1, <2>3, <2>4 DEF TypeOK, OnlyAt, boundVars
  <2>6. plain'[r] = result /\ result \notin {None, Torn}
    BY <1>1, <2>1, <2>3, NoneAssumption DEF TypeOK
  <2>7. r \notin moved => Durable(r)'
    BY <1>1, <2>1, <2>3, <2>6 DEF Durable, Load, Accepted, RootInv, Sound
  <2>8. Sound(r)'
    BY <1>1, <2>1, <2>2, <2>3, <2>4, <2>6, <2>7 DEF RootInv, Sound, At, Searching, Content
  <2>9. InStep(r)' /\ Emission(r)'
    BY <1>1, <2>1, <2>2, <2>3, <2>4, <2>6
    DEF InStep, Emission, At, Fresh, Searching, Resulted, Compacting, Collecting
  <2>. QED
    BY <1>1, <2>1, <2>3, <2>5, <2>8, <2>9, RootStep DEF RootInv, At
<1>. QED
  BY <1>2, <1>3

-----------------------------------------------------------------------------
\* The compaction of a root.
LEMMA CompactionKeeps ==
  ASSUME CampaignInv, NEW r \in Roots, Compress(r) \/ Unlink(r)
  PROVE  CampaignInv'
<1>1. TypeOK /\ RootInv(r) /\ task[r].pc \in Compacting /\ plain[r] \in Results \cup {None}
  BY DEF CampaignInv, Compress, Unlink, At, Compacting, RootInv, InStep, Resulted, TypeOK
<1>2. PICK place \in {"unlink", "done", "progress", "collected"} :
        /\ Moves(r, place)
        /\ place = "unlink" <=> At(r, "compact")
        /\ place = "done" => ~mode.training
  BY DEF Compress, Unlink, AfterCompaction, WorkerCompacts, At
<1>3. /\ task' \in [Roots -> Tasks]
      /\ task'[r].pc = place /\ task'[r].of = task[r].of /\ task'[r].result = task[r].result
      /\ \A q \in Roots \ {r} : task'[q] = task[q]
  BY <1>1, <1>2, MoveTask DEF Places, Resulted, Compacting, Collecting
<1>4. /\ plain' = IF At(r, "unlink") THEN [plain EXCEPT ![r] = None] ELSE plain
      /\ gz' = IF At(r, "compact") /\ plain[r] # None THEN [gz EXCEPT ![r] = plain[r]] ELSE gz
      /\ UNCHANGED <<mode, source, cache, bundles, progress, campaign, records, end, boundVars, moved>>
  <2>1. CASE Compress(r)
    BY <1>1, <2>1 DEF Compress, At, TypeOK
  <2>2. CASE Unlink(r)
    BY <1>1, <2>2 DEF Unlink, At, TypeOK
  <2>. QED
    BY <2>1, <2>2
<1>5. TypeOK' /\ OnlyAt(r)
  BY <1>1, <1>3, <1>4 DEF TypeOK, OnlyAt, boundVars
<1>6. /\ plain'[r] = IF At(r, "unlink") THEN None ELSE plain[r]
      /\ gz'[r] = IF At(r, "compact") /\ plain[r] # None THEN plain[r] ELSE gz[r]
  BY <1>1, <1>4 DEF TypeOK
<1>7. Sound(r)'
  BY <1>1, <1>2, <1>3, <1>4, <1>6 DEF RootInv, Sound, At, Searching, Content
<1>8. InStep(r)'
  BY <1>1, <1>2, <1>3, <1>4, <1>6, NoneAssumption, CampaignAssumption
  DEF RootInv, InStep, At, Fresh, Searching, Resulted, Compacting, Collecting
<1>9. Emission(r)'
  BY <1>1, <1>2, <1>3, <1>4 DEF RootInv, Emission, Compacting
<1>. QED
  BY <1>1, <1>4, <1>5, <1>7, <1>8, <1>9, RootStep DEF RootInv, At, Compacting

\* Taking a result from a worker, or what it raised.
LEMMA CollectKeeps ==
  ASSUME CampaignInv, NEW r \in Roots, Collect(r) \/ CollectRaised(r)
  PROVE  CampaignInv'
<1>1. TypeOK /\ RootInv(r) /\ task[r] \in Tasks
  BY DEF CampaignInv, TypeOK
<1>. DEFINE result == IF mode.workers > 1 /\ mode.training THEN Load(r) ELSE task[r].result
            place == Collected(r, result)
<1>2. UNCHANGED <<mode, source, fileVars, records, end, boundVars, moved>>
  BY DEF Collect, CollectRaised
<1>3. CASE At(r, "raised") /\ CollectRaised(r)
  <2>1. campaign' = "failing" /\ UNCHANGED task
    BY <1>3 DEF CollectRaised
  <2>2. TypeOK' /\ OnlyAt(r)
    BY <1>1, <1>2, <2>1 DEF TypeOK, OnlyAt, fileVars, boundVars
  <2>3. Durable(r)' <=> Durable(r)
    BY <1>2, DurableSame DEF fileVars
  <2>4. RootInv(r)'
    BY <1>1, <1>2, <2>1, <2>3 DEF RootInv, Sound, InStep, Emission, At, fileVars, boundVars
  <2>. QED
    BY <1>3, <2>1, <2>2, <2>4, RootStep DEF At
<1>4. CASE At(r, "done") /\ result = None /\ campaign' = "failing" /\ UNCHANGED task
  <2>1. task[r].result # None
    BY <1>1, <1>4 DEF RootInv, InStep, At, Resulted
  <2>2. mode.training /\ ~Durable(r)
    BY <1>4, <2>1 DEF Durable
  <2>3. r \in moved
    BY <1>1, <1>4, <2>2 DEF RootInv, Sound
  <2>4. TypeOK' /\ OnlyAt(r)
    BY <1>1, <1>2, <1>4 DEF TypeOK, OnlyAt, fileVars, boundVars
  <2>5. Durable(r)' <=> Durable(r)
    BY <1>2, DurableSame DEF fileVars
  <2>6. RootInv(r)'
    BY <1>1, <1>2, <1>4, <2>5 DEF RootInv, Sound, InStep, Emission, At, fileVars, boundVars
  <2>. QED
    BY <1>4, <2>3, <2>4, <2>6, RootStep DEF At
<1>5. CASE /\ At(r, "done") /\ result # None /\ UNCHANGED campaign
           /\ task' = [task EXCEPT ![r].pc = place, ![r].result = result]
  <2>1. result \in Results /\ (r \notin moved => result.of = source[r] /\ result.stamp = source[r])
    BY <1>1, <1>5, Loaded, NoneAssumption DEF RootInv, Sound, Tasks, Content
  <2>2. /\ place \in {"emit", "compact", "collected"}
        /\ mode.training <=> place = "emit"
    BY <1>1 DEF Collected, TypeOK
  <2>. HIDE DEF result, place
  <2>3. /\ task' \in [Roots -> Tasks]
        /\ task'[r].pc = place /\ task'[r].of = task[r].of /\ task'[r].result = result
        /\ \A q \in Roots \ {r} : task'[q] = task[q]
    BY <1>1, <1>5, <2>1, <2>2 DEF TypeOK, Tasks, Working, Collecting
  <2>4. TypeOK' /\ OnlyAt(r)
    BY <1>1, <1>2, <1>5, <2>3 DEF TypeOK, OnlyAt, fileVars, boundVars
  <2>5. Sound(r)'
    BY <1>1, <1>2, <2>1, <2>2, <2>3 DEF RootInv, Sound, At, Searching, fileVars
  <2>6. InStep(r)' /\ Emission(r)'
    BY <1>1, <1>2, <1>5, <2>2, <2>3
    DEF RootInv, InStep, Emission, At, Fresh, Searching, Resulted, Compacting, Collecting, fileVars
  <2>. QED
    BY <1>5, <2>4, <2>5, <2>6, RootStep DEF RootInv, At
<1>. QED
  BY <1>1, <1>3, <1>4, <1>5 DEF Collect, CollectRaised, RootInv, InStep, At

\* The emission of the training packets.
LEMMA EmitKeeps ==
  ASSUME CampaignInv, NEW r \in Roots,
         Emit(r) \/ \E status \in {"pass", "fail"} : Emitted(r, status)
  PROVE  CampaignInv'
<1>1. TypeOK /\ RootInv(r) /\ task[r] \in Tasks /\ source[r] \in Versions
  BY DEF CampaignInv, TypeOK
<1>2. CASE Emit(r)
  <2>1. /\ At(r, "emit") /\ Moves(r, "emitting") /\ bundles' = [bundles EXCEPT ![r] = Torn]
        /\ UNCHANGED <<mode, source, plain, gz, cache, progress, campaign, records, end, boundVars, moved>>
    BY <1>2 DEF Emit
  <2>2. /\ task' \in [Roots -> Tasks]
        /\ task'[r].pc = "emitting" /\ task'[r].of = task[r].of /\ task'[r].result = task[r].result
        /\ \A q \in Roots \ {r} : task'[q] = task[q]
    BY <1>1, <2>1, MoveTask DEF Places, Resulted, Collecting
  <2>3. TypeOK' /\ OnlyAt(r)
    BY <1>1, <2>1, <2>2 DEF TypeOK, OnlyAt, boundVars
  <2>4. RootInv(r)'
    BY <1>1, <2>1, <2>2
    DEF RootInv, Sound, InStep, Emission, At, Fresh, Searching, Resulted, Compacting, Collecting
  <2>. QED
    BY <2>1, <2>3, <2>4, RootStep DEF At
<1>3. ASSUME NEW status \in {"pass", "fail"}, Emitted(r, status)
      PROVE  CampaignInv'
  <2>. DEFINE place == IF Compacts(r, task[r].result) THEN "compact" ELSE "progress"
              record == [status |-> status, stamp |-> source[r]]
  <2>1. task[r].result \in Results /\ At(r, "emitting")
    BY <1>1, <1>3 DEF Emitted, At, RootInv, InStep, Resulted, Collecting, Tasks
  <2>2. /\ Moves(r, place) /\ records' = [records EXCEPT ![r] = record]
        /\ UNCHANGED <<mode, source, plain, gz, cache, progress, campaign, end, edits, crashes, moved>>
    BY <1>3 DEF Emitted
  <2>3. /\ bundles' \in [Roots -> Versions \cup {None, Torn}]
        /\ \A q \in Roots \ {r} : bundles'[q] = bundles[q]
        /\ status = "pass" => bundles'[r] = task[r].result.of
        /\ fails' \in {fails, fails + 1} /\ fails' \in 0 .. MaxFails
    BY <1>1, <1>3, <2>1, CampaignAssumption DEF Emitted, TypeOK, Results
  <2>4. record \in Records /\ record.status = status /\ place \in {"compact", "progress"}
    BY <1>1 DEF Records
  <2>. HIDE DEF place, record
  <2>5. /\ task' \in [Roots -> Tasks]
        /\ task'[r].pc = place /\ task'[r].of = task[r].of /\ task'[r].result = task[r].result
        /\ \A q \in Roots \ {r} : task'[q] = task[q]
    BY <1>1, <2>2, <2>4, MoveTask DEF Places, Resulted, Compacting, Collecting
  <2>6. /\ records' \in RecordSets /\ records'[r] = record
        /\ \A q \in Roots \ {r} : records'[q] = records[q]
    BY <1>1, <2>2, <2>4 DEF TypeOK, RecordSets
  <2>7. TypeOK' /\ OnlyAt(r)
    BY <1>1, <2>2, <2>3, <2>5, <2>6 DEF TypeOK, OnlyAt
  <2>8. Sound(r)'
    BY <1>1, <2>2, <2>4, <2>5 DEF RootInv, Sound, At, Searching
  <2>9. InStep(r)'
    BY <1>1, <2>1, <2>2, <2>4, <2>5
    DEF RootInv, InStep, At, Fresh, Searching, Resulted, Compacting, Collecting
  <2>10. Emission(r)'
    BY <2>3, <2>4, <2>5, <2>6 DEF Emission
  <2>. QED
    BY <2>1, <2>2, <2>7, <2>8, <2>9, <2>10, RootStep DEF RootInv, At
<1>. QED
  BY <1>2, <1>3

\* The progress file.
LEMMA ProgressKeeps ==
  ASSUME CampaignInv, NEW r \in Roots, OpenProgress(r) \/ SaveProgress(r)
  PROVE  CampaignInv'
<1>1. TypeOK /\ RootInv(r) /\ task[r].pc \in {"progress", "saving"}
  BY DEF CampaignInv, OpenProgress, SaveProgress, At
<1>2. PICK place \in {"saving", "collected"} : Moves(r, place)
  BY DEF OpenProgress, SaveProgress
<1>3. /\ task' \in [Roots -> Tasks]
      /\ task'[r].pc = place /\ task'[r].of = task[r].of /\ task'[r].result = task[r].result
      /\ \A q \in Roots \ {r} : task'[q] = task[q]
  BY <1>1, <1>2, MoveTask DEF Places, Resulted, Collecting
<1>4. /\ progress' \in RecordSets \cup {None, Torn}
      /\ UNCHANGED <<mode, source, plain, gz, cache, bundles, campaign, records, end, boundVars, moved>>
  BY <1>1 DEF OpenProgress, SaveProgress, TypeOK
<1>5. TypeOK' /\ OnlyAt(r)
  BY <1>1, <1>3, <1>4 DEF TypeOK, OnlyAt, boundVars
<1>6. RootInv(r)'
  BY <1>1, <1>3, <1>4
  DEF RootInv, Sound, InStep, Emission, At, Fresh, Searching, Resulted, Compacting, Collecting
<1>. QED
  BY <1>1, <1>4, <1>5, <1>6, RootStep DEF At

-----------------------------------------------------------------------------
\* Tasks that have nothing keep nothing but what is on disk.
LEMMA FreshTasks ==
  ASSUME CampaignInv, UNCHANGED <<source, plain, gz, moved>>,
         NEW place \in Fresh,
         task' = [r \in Roots |-> [pc |-> place, of |-> None, result |-> None]]
  PROVE  task' \in [Roots -> Tasks] /\ \A r \in Roots : RootInv(r)'
<1>1. task' \in [Roots -> Tasks]
  BY DEF Tasks, Fresh
<1>2. ASSUME NEW r \in Roots PROVE RootInv(r)'
  <2>1. task'[r].pc = place /\ task'[r].of = None /\ task'[r].result = None
    OBVIOUS
  <2>2. RootInv(r)
    BY DEF CampaignInv
  <2>. QED
    BY <2>1, <2>2
    DEF RootInv, Sound, InStep, Emission, At, Fresh, Searching, Resulted, Compacting, Collecting
<1>. QED
  BY <1>1, <1>2

\* A campaign starts.
LEMMA BeginKeeps ==
  ASSUME CampaignInv, NEW m \in Modes, Begin(m)
  PROVE  CampaignInv'
<1>1. /\ TypeOK /\ campaign' = "running" /\ mode' = m /\ end' = [kind |-> "none"]
      /\ UNCHANGED <<source, fileVars, boundVars, moved>>
      /\ task' = [r \in Roots |-> [pc |-> "queued", of |-> None, result |-> None]]
  BY DEF Begin, NoTask, CampaignInv
<1>2. records' \in RecordSets
  BY <1>1, NoneAssumption DEF Begin, Preloaded, Matching, NoRecords, TypeOK, RecordSets
<1>3. task' \in [Roots -> Tasks] /\ \A r \in Roots : RootInv(r)'
  BY <1>1, FreshTasks DEF fileVars, Fresh
<1>4. TypeOK'
  BY <1>1, <1>2, <1>3 DEF TypeOK, fileVars, boundVars
<1>5. PacketsAreOfRows' /\ RaisesForCause'
  BY <1>1 DEF PacketsAreOfRows, RaisesForCause
<1>. QED
  BY <1>1, <1>3, <1>4, <1>5 DEF CampaignInv, FailsForCause

\* A campaign ends, with a report, an exception or a crash.
LEMMA EndKeeps ==
  ASSUME CampaignInv, Report \/ Raise \/ Crash
  PROVE  CampaignInv'
<1>1. TypeOK /\ UNCHANGED <<mode, source, fileVars, edits, fails, moved>> /\ campaign' = "idle"
      /\ task' = [r \in Roots |-> NoTask] /\ records' = NoRecords
      /\ crashes' \in 0 .. MaxCrashes
  BY CampaignAssumption DEF CampaignInv, Report, Raise, Crash, Stops, boundVars, TypeOK
<1>2. task' \in [Roots -> Tasks] /\ \A r \in Roots : RootInv(r)'
  BY <1>1, FreshTasks DEF fileVars, Fresh, NoTask
<1>3. records' \in RecordSets
  BY <1>1 DEF NoRecords, RecordSets
<1>4. end'.kind \in {"report", "raised", "killed"} /\ PacketsAreOfRows' /\ RaisesForCause'
  <2>1. CASE Report
    <3>. DEFINE rows == [r \in Roots |-> task[r].result]
                status == IF mode.training THEN TrainingStatus ELSE "none"
    <3>1. end' = [kind |-> "report", rows |-> rows, training |-> status,
                  bundles |-> bundles, moved |-> moved]
      BY <2>1 DEF Report, Stops
    <3>2. ASSUME status = "pass", NEW r \in Roots
          PROVE  bundles[r] = rows[r].of
      <4>1. mode.training /\ records[r] # None /\ records[r].status # "fail"
        BY <3>2 DEF TrainingStatus
      <4>2. records[r].status = "pass"
        BY <1>1, <4>1 DEF TypeOK, RecordSets, Records
      <4>3. At(r, "collected") /\ Emission(r)
        BY <2>1 DEF Report, CampaignInv, RootInv
      <4>. QED
        BY <4>1, <4>2, <4>3 DEF Emission, At
    <3>. HIDE DEF rows, status
    <3>. QED
      BY <3>1, <3>2 DEF PacketsAreOfRows, RaisesForCause
  <2>2. CASE Raise
    BY <1>1, <2>2 DEF Raise, Stops, CampaignInv, FailsForCause, PacketsAreOfRows, RaisesForCause
  <2>3. CASE Crash
    BY <2>3 DEF Crash, Stops, PacketsAreOfRows, RaisesForCause
  <2>. QED
    BY <2>1, <2>2, <2>3
<1>5. TypeOK'
  BY <1>1, <1>2, <1>3, <1>4 DEF TypeOK, fileVars
<1>. QED
  BY <1>1, <1>2, <1>4, <1>5 DEF CampaignInv, FailsForCause

\* The user edits a source.
LEMMA EditKeeps ==
  ASSUME CampaignInv, NEW r \in Roots, NEW v \in Versions, Edit(r, v)
  PROVE  CampaignInv'
<1>1. /\ TypeOK /\ source' = [source EXCEPT ![r] = v] /\ edits' \in 0 .. MaxEdits
      /\ UNCHANGED <<mode, fileVars, campaign, task, records, end, crashes, fails>>
  BY CampaignAssumption DEF CampaignInv, Edit, TypeOK
<1>2. /\ moved \subseteq moved' /\ moved' \subseteq moved \cup {r}
      /\ task[r].pc \notin Fresh => r \in moved'
  BY DEF Edit, Fresh
<1>3. TypeOK'
  BY <1>1, <1>2 DEF TypeOK, fileVars
<1>4. ASSUME NEW q \in Roots PROVE RootInv(q)'
  <2>1. RootInv(q)
    BY DEF CampaignInv
  <2>2. InStep(q)' /\ Emission(q)'
    BY <1>1, <1>2, <2>1 DEF RootInv, InStep, Emission, At, fileVars
  <2>3. CASE q # r
    <3>1. source'[q] = source[q] /\ (q \in moved' <=> q \in moved)
      BY <1>1, <1>2, <2>3 DEF TypeOK
    <3>2. Durable(q)' <=> Durable(q)
      BY <1>1, <3>1, DurableSame DEF fileVars
    <3>. QED
      BY <1>1, <2>1, <2>2, <3>1, <3>2 DEF RootInv, Sound, At, fileVars
  <2>4. CASE q = r
    BY <1>1, <1>2, <2>1, <2>2, <2>4 DEF RootInv, Sound, InStep, At, fileVars, Fresh, Searching
  <2>. QED
    BY <2>3, <2>4
<1>5. PacketsAreOfRows' /\ RaisesForCause' /\ FailsForCause'
  BY <1>1, <1>2 DEF CampaignInv, PacketsAreOfRows, RaisesForCause, FailsForCause, At
<1>. QED
  BY <1>1, <1>3, <1>4, <1>5 DEF CampaignInv

-----------------------------------------------------------------------------
\* The invariant holds before the first campaign.
LEMMA InvInit == Init => CampaignInv
<1>. SUFFICES ASSUME Init PROVE CampaignInv
  OBVIOUS
<1>1. TypeOK
  BY CampaignAssumption DEF Init, TypeOK, NoTask, Tasks, NoRecords, RecordSets
<1>2. ASSUME NEW r \in Roots PROVE RootInv(r)
  BY DEF Init, NoTask, RootInv, Sound, InStep, Emission, At, Content, Fresh, Searching, Resulted,
         Compacting, Collecting
<1>. QED
  BY <1>1, <1>2 DEF Init, CampaignInv, FailsForCause, PacketsAreOfRows, RaisesForCause

\* Every step of the campaign, the machine and the user keeps it.
LEMMA InvNext == CampaignInv /\ [Next]_vars => CampaignInv'
<1>. SUFFICES ASSUME CampaignInv, [Next]_vars PROVE CampaignInv'
  OBVIOUS
<1>1. CASE UNCHANGED vars
  BY <1>1 DEF vars, fileVars, boundVars, CampaignInv, TypeOK, RootInv, Sound, InStep, Emission, At,
              Durable, Load, Accepted, FailsForCause, PacketsAreOfRows, RaisesForCause
<1>2. ASSUME NEW r \in Roots, Step(r) \/ SearchRaises(r) PROVE CampaignInv'
  BY <1>2, TakeKeeps, SearchKeeps, WriteKeeps, CompactionKeeps, CollectKeeps, EmitKeeps, ProgressKeeps
  DEF Step
<1>. QED
  BY <1>1, <1>2, BeginKeeps, EndKeeps, EditKeeps DEF Next

\* A campaign's state always has its types, for every number of roots and every
\* sequence of edits, crashes and failures.
THEOREM TypeCorrect == Spec => []TypeOK
<1>1. CampaignInv => TypeOK
  BY DEF CampaignInv
<1>. QED
  BY <1>1, InvInit, InvNext, PTL DEF Spec

\* The rows of a report are of the sources as the campaign found them: neither a
\* stale artifact nor another root's result gets into it (_load_completed_search).
THEOREM RowsCorrect == Spec => []RowsAreOfSources
<1>1. CampaignInv => RowsAreOfSources
  BY DEF CampaignInv, RowsAreOfSources, RootInv, Sound, InStep, Resulted, At
<1>. QED
  BY <1>1, InvInit, InvNext, PTL DEF Spec

\* When a training emission passes, the packets of every root are whole and of the
\* evidence in its row, also in a resumed campaign (_emit_training_v3_record).
THEOREM PacketsCorrect == Spec => []PacketsAreOfRows
<1>1. CampaignInv => PacketsAreOfRows
  BY DEF CampaignInv
<1>. QED
  BY <1>1, InvInit, InvNext, PTL DEF Spec

\* Nothing that earlier campaigns left behind, crashed in any step, makes a
\* campaign raise (ContentAddressedEvidenceCache.store, _load_completed_search).
THEOREM RaisesCorrect == Spec => []RaisesForCause
<1>1. CampaignInv => RaisesForCause
  BY DEF CampaignInv
<1>. QED
  BY <1>1, InvInit, InvNext, PTL DEF Spec

-----------------------------------------------------------------------------
\* No step loses the evidence of a root whose source stays.
LEMMA StepKeepsEvidence == CampaignInv /\ [Next]_vars => KeepsEvidence
<1>. SUFFICES ASSUME CampaignInv, [Next]_vars, NEW q \in Roots \ moved, Durable(q),
                     source'[q] = source[q]
              PROVE  Durable(q)'
  BY DEF KeepsEvidence
<1>1. TypeOK /\ RootInv(q)
  BY DEF CampaignInv
<1>2. ASSUME plain'[q] = plain[q], gz'[q] = gz[q] PROVE Durable(q)'
  BY <1>2, DurableSame
<1>3. ASSUME NEW r \in Roots, Step(r) \/ SearchRaises(r) PROVE Durable(q)'
  <2>1. CASE \E status \in Statuses : Finish(r, status)
    <3>1. plain' = [plain EXCEPT ![r] = Torn] /\ gz' = gz /\ At(r, "evaluated")
      BY <2>1 DEF Finish
    <3>2. r # q
      BY <1>1, <3>1 DEF RootInv, Sound, At, Searching
    <3>. QED
      BY <1>1, <1>2, <3>1, <3>2 DEF TypeOK
  <2>2. CASE WriteArtifact(r)
    <3>1. plain' = [plain EXCEPT ![r] = task[r].result] /\ gz' = gz /\ At(r, "write")
      BY <2>2 DEF WriteArtifact
    <3>2. r = q => plain[q] = Torn
      BY <1>1, <3>1 DEF RootInv, InStep, At, Resulted
    <3>3. r # q
      BY <3>2, CampaignAssumption DEF Durable, Load, Accepted
    <3>. QED
      BY <1>1, <1>2, <3>1, <3>3 DEF TypeOK
  <2>3. CASE Compress(r)
    <3>1. plain' = plain /\ gz' = [gz EXCEPT ![r] = IF plain[r] = None THEN @ ELSE plain[r]]
      BY <2>3 DEF Compress
    <3>2. CASE r # q \/ plain[r] = None
      BY <1>1, <1>2, <3>1, <3>2 DEF TypeOK
    <3>3. CASE r = q /\ plain[r] # None
      BY <3>1, <3>3 DEF Durable, Load, Accepted
    <3>. QED
      BY <3>2, <3>3
  <2>4. CASE Unlink(r)
    <3>1. plain' = [plain EXCEPT ![r] = None] /\ gz' = gz /\ At(r, "unlink")
      BY <2>4 DEF Unlink
    <3>2. CASE r # q
      BY <1>1, <1>2, <3>1, <3>2 DEF TypeOK
    <3>3. CASE r = q
      BY <1>1, <3>1, <3>3 DEF Durable, Load, Accepted, RootInv, InStep, TypeOK
    <3>. QED
      BY <3>2, <3>3
  <2>5. CASE Take(r) \/ Evaluate(r) \/ Collect(r) \/ CollectRaised(r) \/ Store(r) \/ SearchRaises(r)
    BY <1>2, <2>5 DEF Take, Evaluate, Collect, CollectRaised, Store, SearchRaises, fileVars
  <2>6. CASE \/ Stored(r) \/ Emit(r)
             \/ (\E status \in {"pass", "fail"} : Emitted(r, status))
             \/ OpenProgress(r) \/ SaveProgress(r)
    BY <1>2, <2>6 DEF Stored, Emit, Emitted, OpenProgress, SaveProgress
  <2>. QED
    BY <1>3, <2>1, <2>2, <2>3, <2>4, <2>5, <2>6 DEF Step
<1>4. ASSUME \/ (\E m \in Modes : Begin(m)) \/ Report \/ Raise \/ Crash
             \/ (\E r \in Roots, v \in Versions : Edit(r, v)) \/ UNCHANGED vars
      PROVE  Durable(q)'
  BY <1>2, <1>4 DEF Begin, Report, Raise, Crash, Edit, vars, fileVars
<1>. QED
  BY <1>3, <1>4 DEF Next

\* Finished searches are never lost: through crashes, compaction and resumed
\* campaigns, a root that could be resumed still can while its source stays
\* (_compact_decisive_root_artifacts).
THEOREM EvidenceIsKept == Spec => EvidenceKept
  BY InvInit, InvNext, StepKeepsEvidence, PTL DEF Spec, EvidenceKept

-----------------------------------------------------------------------------
(* Progress *)

\* The way of a root through a campaign, with the places that it may leave out.
Way ==
  IF WorkerCompacts
    THEN <<"queued", "search", "store", "storing", "evaluated", "write",
           "compact", "unlink", "done", "raised", "collected">>
    ELSE <<"queued", "search", "store", "storing", "evaluated", "write", "done",
           "emit", "emitting", "compact", "unlink", "progress", "saving",
           "raised", "collected">>

Ahead(here, there) ==
  \E i, j \in DOMAIN Way : i < j /\ Way[i] = here /\ Way[j] = there

\* The campaign goes on: one root goes forward and the others stay, or the parent
\* gives up, or the campaign is over, or it was a user's edit.
GoesOn ==
  campaign # "idle" =>
    \/ \E r \in Roots :
         /\ Ahead(task[r].pc, task'[r].pc)
         /\ \A q \in Roots \ {r} : task'[q] = task[q]
         /\ UNCHANGED <<mode, campaign, edits>>
    \/ campaign = "running" /\ campaign' = "failing" /\ UNCHANGED <<mode, task, edits>>
    \/ campaign' = "idle"
    \/ UNCHANGED <<mode, campaign, task>> /\ edits' = edits + 1

\* Guards: a root's next step, the report, the exception
CanStep(r) ==
  \/ At(r, "queued") /\ Free(r)
  \/ task[r].pc \in Working \cup Collecting
  \/ task[r].pc \in {"done", "raised", "unreadable"} /\ campaign = "running" /\ ~Busy
CanReport == campaign = "running" /\ \A r \in Roots : At(r, "collected")
CanRaise ==
  /\ campaign = "failing"
  /\ mode.workers > 1 => \A r \in Roots : task[r].pc \notin Working \cup {"queued"}

CanGoOn == campaign # "idle" => (\E r \in Roots : CanStep(r)) \/ CanReport \/ CanRaise

\* Every root of a campaign has a place, and packets are made when they are wanted.
WayInv ==
  /\ campaign # "idle" => \A r \in Roots : ~At(r, "none")
  /\ \A r \in Roots : task[r].pc \in Collecting => mode.training

\* The next places of a root.
Leg(here, there) ==
  \/ here = "queued" /\ there \in {"search", "evaluated", "done"}
  \/ here = "search" /\ there \in {"store", "evaluated", "raised"}
  \/ here = "store" /\ there \in {"storing", "evaluated"}
  \/ here = "storing" /\ there = "evaluated"
  \/ here = "evaluated" /\ there = "write"
  \/ here = "write" /\ there = "done"
  \/ WorkerCompacts /\ here \in {"queued", "write"} /\ there = "compact"
  \/ here = "compact" /\ there = "unlink"
  \/ here = "unlink" /\ there = IF WorkerCompacts THEN "done" ELSE "collected"
  \/ here = "done" /\ there = "collected"
  \/ ~WorkerCompacts /\ here = "done" /\ there = "compact"
  \/ /\ mode.training
     /\ \/ here = "done" /\ there = "emit"
        \/ here = "emit" /\ there = "emitting"
        \/ here = "emitting" /\ there \in {"compact", "progress"}
        \/ here = "unlink" /\ there = "progress"
        \/ here = "progress" /\ there = "saving"
        \/ here = "saving" /\ there = "collected"

\* They are ahead of it.
LEMMA LegsAhead ==
  ASSUME NEW here, NEW there, Leg(here, there)
  PROVE  Ahead(here, there)
<1>1. CASE WorkerCompacts
  <2>1. /\ Way[1] = "queued" /\ Way[2] = "search" /\ Way[3] = "store" /\ Way[4] = "storing"
        /\ Way[5] = "evaluated" /\ Way[6] = "write" /\ Way[7] = "compact" /\ Way[8] = "unlink"
        /\ Way[9] = "done" /\ Way[10] = "raised" /\ Way[11] = "collected"
        /\ DOMAIN Way = 1 .. 11
    BY <1>1 DEF Way
  <2>2. ~mode.training
    BY <1>1 DEF WorkerCompacts
  <2>. QED
    BY <1>1, <2>1, <2>2 DEF Leg, Ahead
<1>2. CASE ~WorkerCompacts
  <2>1. /\ Way[1] = "queued" /\ Way[2] = "search" /\ Way[3] = "store" /\ Way[4] = "storing"
        /\ Way[5] = "evaluated" /\ Way[6] = "write" /\ Way[7] = "done" /\ Way[8] = "emit"
        /\ Way[9] = "emitting" /\ Way[10] = "compact" /\ Way[11] = "unlink"
        /\ Way[12] = "progress" /\ Way[13] = "saving" /\ Way[14] = "raised" /\ Way[15] = "collected"
        /\ DOMAIN Way = 1 .. 15
    BY <1>2 DEF Way
  <2>. QED
    BY <1>2, <2>1 DEF Leg, Ahead
<1>. QED
  BY <1>1, <1>2

\* A root goes on along one leg, and nothing else happens to the campaign.
OneLeg(r) ==
  /\ Leg(task[r].pc, task'[r].pc) /\ task'[r].pc \in Places
  /\ \A q \in Roots \ {r} : task'[q] = task[q]
  /\ UNCHANGED <<mode, campaign, edits>>

LEMMA MoveIsLeg ==
  ASSUME TypeOK, NEW r \in Roots, NEW place \in Places, Moves(r, place), Leg(task[r].pc, place),
         UNCHANGED <<mode, campaign, edits>>
  PROVE  OneLeg(r)
<1>1. task'[r].pc = place /\ \A q \in Roots \ {r} : task'[q] = task[q]
  BY MoveTask
<1>. QED
  BY <1>1 DEF OneLeg

\* The steps of a search and the compaction.
LEMMA WorkerLeg ==
  ASSUME CampaignInv, WayInv, NEW r \in Roots,
         \/ Take(r) \/ Evaluate(r) \/ Store(r) \/ Stored(r) \/ SearchRaises(r)
         \/ (\E status \in Statuses : Finish(r, status)) \/ WriteArtifact(r)
         \/ Compress(r) \/ Unlink(r)
  PROVE  OneLeg(r)
<1>1. TypeOK
  BY DEF CampaignInv
<1>2. UNCHANGED <<mode, campaign, edits>>
  BY DEF Take, Evaluate, Store, Stored, SearchRaises, Finish, WriteArtifact,
         Compress, Unlink, boundVars
<1>3. CASE Take(r)
  <2>. DEFINE found == Load(r)
              t == IF found # None
                     THEN [pc |-> Returned(r, found), of |-> None, result |-> found]
                     ELSE [pc |-> IF source[r] \in Blocked THEN "evaluated" ELSE "search",
                           of |-> source[r], result |-> None]
  <2>1. task' = [task EXCEPT ![r] = t] /\ At(r, "queued")
    BY <1>3 DEF Take
  <2>2. t.pc \in {"search", "evaluated", "done"} \/ (WorkerCompacts /\ t.pc = "compact")
    BY DEF Returned
  <2>. HIDE DEF t
  <2>3. task'[r] = t /\ \A q \in Roots \ {r} : task'[q] = task[q]
    BY <1>1, <2>1 DEF TypeOK
  <2>4. Leg("queued", t.pc) /\ t.pc \in Places
    BY <2>2 DEF Leg, Places, Searching, Resulted, Compacting
  <2>. QED
    BY <1>2, <2>1, <2>3, <2>4 DEF OneLeg, At
<1>4. CASE Evaluate(r) \/ Store(r) \/ Stored(r) \/ SearchRaises(r)
  <2>1. At(r, "search") => cache[task[r].of] # Torn
    BY <1>1, CampaignAssumption DEF At, CampaignInv, RootInv, InStep, Searching, TypeOK, Tasks
  <2>2. PICK place \in Searching \cup {"raised"} : Moves(r, place) /\ Leg(task[r].pc, place)
    BY <1>4, <2>1 DEF Evaluate, Store, Stored, SearchRaises, Searching, At, Leg
  <2>. QED
    BY <1>1, <1>2, <2>2, MoveIsLeg DEF Places
<1>5. CASE \E status \in Statuses : Finish(r, status)
  <2>1. PICK status \in Statuses : Finish(r, status)
    BY <1>5
  <2>2. task[r] \in Tasks /\ At(r, "evaluated")
    BY <1>1, <2>1 DEF Finish, TypeOK
  <2>3. task'[r].pc = "write" /\ \A q \in Roots \ {r} : task'[q] = task[q]
    BY <1>1, <2>1, <2>2 DEF Finish, TypeOK, Tasks
  <2>. QED
    BY <1>2, <2>2, <2>3 DEF OneLeg, At, Leg, Places, Resulted
<1>6. CASE WriteArtifact(r)
  <2>1. PICK place \in {"done", "compact"} : Moves(r, place) /\ Leg(task[r].pc, place)
    BY <1>6 DEF WriteArtifact, Returned, At, Leg
  <2>. QED
    BY <1>1, <1>2, <2>1, MoveIsLeg DEF Places, Resulted, Compacting
<1>7. CASE Compress(r) \/ Unlink(r)
  <2>1. PICK place \in {"unlink", "done", "progress", "collected"} :
          Moves(r, place) /\ Leg(task[r].pc, place)
    BY <1>7 DEF Compress, Unlink, AfterCompaction, At, Leg
  <2>. QED
    BY <1>1, <1>2, <2>1, MoveIsLeg DEF Places, Resulted, Compacting, Collecting
<1>. QED
  BY <1>3, <1>4, <1>5, <1>6, <1>7

\* The steps of the parent.
LEMMA ParentLeg ==
  ASSUME CampaignInv, WayInv, NEW r \in Roots,
         \/ Collect(r) \/ CollectRaised(r) \/ Emit(r)
         \/ (\E status \in {"pass", "fail"} : Emitted(r, status))
         \/ OpenProgress(r) \/ SaveProgress(r)
  PROVE  \/ OneLeg(r)
         \/ campaign = "running" /\ campaign' = "failing" /\ UNCHANGED <<mode, task, edits>>
<1>1. TypeOK
  BY DEF CampaignInv
<1>2. UNCHANGED <<mode, edits>>
  BY DEF Collect, CollectRaised, Emit, Emitted, OpenProgress, SaveProgress, boundVars
<1>3. CASE CollectRaised(r)
  BY <1>2, <1>3 DEF CollectRaised
<1>4. CASE Collect(r)
  <2>. DEFINE result == IF mode.workers > 1 /\ mode.training THEN Load(r) ELSE task[r].result
              place == Collected(r, result)
  <2>1. CASE result = None
    BY <1>2, <1>4, <2>1 DEF Collect
  <2>2. CASE result # None
    <3>1. /\ task' = [task EXCEPT ![r].pc = place, ![r].result = result]
          /\ campaign' = campaign /\ At(r, "done")
      BY <1>4, <2>2 DEF Collect
    <3>2. Leg("done", place) /\ place \in Places
      BY DEF Collected, Leg, Places, Resulted, Compacting, Collecting
    <3>. HIDE DEF result, place
    <3>3. task'[r].pc = place /\ \A q \in Roots \ {r} : task'[q] = task[q]
      BY <1>1, <3>1 DEF TypeOK, Tasks
    <3>. QED
      BY <1>2, <3>1, <3>2, <3>3 DEF OneLeg, At
  <2>. QED
    BY <2>1, <2>2
<1>5. CASE \/ Emit(r) \/ (\E status \in {"pass", "fail"} : Emitted(r, status))
           \/ OpenProgress(r) \/ SaveProgress(r)
  <2>1. campaign' = campaign
    BY <1>5 DEF Emit, Emitted, OpenProgress, SaveProgress
  <2>2. mode.training
    BY <1>5 DEF WayInv, Collecting, At, Emit, Emitted, OpenProgress, SaveProgress
  <2>3. PICK place \in {"emitting", "compact", "progress", "saving", "collected"} :
          Moves(r, place) /\ Leg(task[r].pc, place)
    <3>1. CASE Emit(r)
      BY <2>2, <3>1 DEF Emit, At, Leg
    <3>2. CASE \E status \in {"pass", "fail"} : Emitted(r, status)
      BY <2>2, <3>2 DEF Emitted, At, Leg
    <3>3. CASE OpenProgress(r) \/ SaveProgress(r)
      BY <2>2, <3>3 DEF OpenProgress, SaveProgress, At, Leg
    <3>. QED
      BY <1>5, <3>1, <3>2, <3>3
  <2>. QED
    BY <1>1, <1>2, <2>1, <2>3, MoveIsLeg DEF Places, Resulted, Compacting, Collecting
<1>. QED
  BY <1>3, <1>4, <1>5

\* Every root's step is one of both.
LEMMA RootLeg ==
  ASSUME CampaignInv, WayInv, NEW r \in Roots, Step(r) \/ SearchRaises(r)
  PROVE  \/ OneLeg(r)
         \/ campaign = "running" /\ campaign' = "failing" /\ UNCHANGED <<mode, task, edits>>
  BY WorkerLeg, ParentLeg DEF Step

LEMMA WayKept == CampaignInv /\ WayInv /\ [Next]_vars => WayInv'
<1>. SUFFICES ASSUME CampaignInv, WayInv, [Next]_vars PROVE WayInv'
  OBVIOUS
<1>1. ASSUME NEW r \in Roots, Step(r) \/ SearchRaises(r) PROVE WayInv'
  <2>1. CASE OneLeg(r)
    <3>1. task'[r].pc # "none" /\ (task'[r].pc \in Collecting => mode.training)
      BY <2>1 DEF OneLeg, Leg, Collecting
    <3>. QED
      BY <2>1, <3>1 DEF OneLeg, WayInv, At
  <2>2. CASE campaign = "running" /\ campaign' = "failing" /\ UNCHANGED <<mode, task, edits>>
    BY <2>2 DEF WayInv, At
  <2>. QED
    BY <1>1, <2>1, <2>2, RootLeg
<1>2. CASE \E m \in Modes : Begin(m)
  BY <1>2 DEF Begin, WayInv, At, NoTask, Collecting
<1>3. CASE Report \/ Raise \/ Crash
  BY <1>3 DEF Report, Raise, Crash, Stops, WayInv, At, NoTask, Collecting
<1>4. CASE (\E r \in Roots, v \in Versions : Edit(r, v)) \/ UNCHANGED vars
  BY <1>4 DEF Edit, vars, WayInv, At
<1>. QED
  BY <1>1, <1>2, <1>3, <1>4 DEF Next

LEMMA WayInvariant == Spec => [](CampaignInv /\ WayInv)
<1>1. Init => WayInv
  BY DEF Init, WayInv, NoTask, Collecting
<1>. QED
  BY <1>1, InvInit, InvNext, WayKept, PTL DEF Spec

\* A campaign goes on a root at a time and each root only forward: it has at most
\* as many steps as its roots have places, and the edits.
THEOREM CampaignsAdvance == Spec => [][GoesOn]_vars
<1>1. CampaignInv /\ WayInv /\ [Next]_vars => [GoesOn]_vars
  <2>. SUFFICES ASSUME CampaignInv, WayInv, Next, campaign # "idle" PROVE GoesOn
    BY DEF GoesOn
  <2>1. ASSUME NEW r \in Roots, Step(r) \/ SearchRaises(r) PROVE GoesOn
    BY <2>1, RootLeg, LegsAhead DEF OneLeg, GoesOn
  <2>2. CASE \E m \in Modes : Begin(m)
    BY <2>2 DEF Begin
  <2>3. CASE Report \/ Raise \/ Crash
    BY <2>3 DEF Report, Raise, Crash, Stops, GoesOn
  <2>4. CASE \E r \in Roots, v \in Versions : Edit(r, v)
    BY <2>4 DEF Edit, GoesOn
  <2>. QED
    BY <2>1, <2>2, <2>3, <2>4 DEF Next
<1>. QED
  BY <1>1, WayInvariant, PTL DEF Spec

-----------------------------------------------------------------------------
\* Of the roots that satisfy something, one is the first.
LEMMA FirstRoot ==
  ASSUME NEW S \in SUBSET Nat, S # {}
  PROVE  \E n \in S : \A k \in S : n <= k
<1>. DEFINE R == OpToRel(<, Nat)
<1>1. \A k, n \in Nat : k < n => <<k, n>> \in R
  BY DEF OpToRel
<1>2. IsWellFoundedOn(R, Nat)
  BY NatLessThanWellFounded
<1>. HIDE DEF R
<1>3. PICK n \in S : \A k \in S : <<k, n>> \notin R
  BY <1>2, WFMin
<1>4. \A k \in S : ~(k < n)
  BY <1>1, <1>3
<1>. QED
  BY <1>4

\* While no task is being worked on and one is queued, one can be taken.
LEMMA QueuedIsFree ==
  ASSUME CampaignInv, NEW r \in Roots, At(r, "queued"), Active = {},
         mode.workers = 1 =>
           campaign = "running" /\ \A q \in Roots : At(q, "queued") \/ At(q, "collected")
  PROVE  \E q \in Roots : CanStep(q)
<1>1. mode.workers \in {1, 2}
  BY CampaignAssumption DEF CampaignInv, TypeOK
<1>2. CASE mode.workers = 1
  <2>. DEFINE S == {q \in Roots : At(q, "queued")}
  <2>1. PICK q \in S : \A k \in S : q <= k
    <3>1. S \in SUBSET Nat /\ S # {}
      BY CampaignAssumption DEF Roots
    <3>. QED
      BY <3>1, FirstRoot
  <2>2. \A k \in Roots : k < q => At(k, "collected")
    BY <1>2, <2>1, CampaignAssumption DEF Roots
  <2>. QED
    BY <1>2, <2>1, <2>2 DEF CanStep, Free
<1>3. CASE mode.workers = 2
  <2>1. Cardinality(Active) = 0
    BY FS_EmptySet
  <2>. QED
    BY <1>3, <2>1 DEF CanStep, Free
<1>. QED
  BY <1>1, <1>2, <1>3

\* A campaign is never stuck: whatever was torn, edited or raised, a worker has a
\* step, or the parent a result to take, a report to write or an exception to let
\* out. Neither a full pool nor the order in which results are taken blocks it.
THEOREM CampaignsNeverStuck == Spec => []CanGoOn
<1>1. CampaignInv /\ WayInv => CanGoOn
  <2>. SUFFICES ASSUME CampaignInv, WayInv, campaign # "idle",
                       \A r \in Roots : ~CanStep(r), ~CanReport
                PROVE  CanRaise
    BY DEF CanGoOn
  <2>1. \A r \in Roots : task[r].pc \in {"queued", "done", "raised", "collected"}
    BY DEF CanStep, WayInv, At, CampaignInv, RootInv, InStep, TypeOK, Tasks
  <2>2. Active = {} /\ ~Busy
    BY <2>1 DEF Active, Busy, Working, Collecting
  <2>3. CASE campaign = "running"
    <3>1. \A r \in Roots : At(r, "queued") \/ At(r, "collected")
      BY <2>1, <2>2, <2>3 DEF CanStep, At
    <3>2. PICK r \in Roots : At(r, "queued")
      BY <2>3, <3>1 DEF CanReport
    <3>. QED
      BY <2>2, <2>3, <3>1, <3>2, QueuedIsFree
  <2>4. CASE campaign = "failing"
    <3>1. ASSUME mode.workers > 1, NEW r \in Roots PROVE ~At(r, "queued")
      BY <2>2, <3>1, QueuedIsFree
    <3>. QED
      BY <2>1, <2>4, <3>1 DEF CanRaise, Working, At
  <2>. QED
    BY <2>3, <2>4 DEF CampaignInv, TypeOK
<1>. QED
  BY <1>1, WayInvariant, PTL

=============================================================================
