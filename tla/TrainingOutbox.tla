---------------------------- MODULE TrainingOutbox ----------------------------
(***************************************************************************)
(* vladder/training_workflow.py and contribution_transport.py: terminal    *)
(* workflows put their training record into the outbox directory and flush *)
(* it to the contribution service.  The directory, the credential file and *)
(* the consent ledger are shared by every vladder process of the user;     *)
(* nothing locks them.                                                     *)
(*                                                                         *)
(* An exception inside submit_training_bundle ends the flush with the      *)
(* remaining entries kept (Stop); one outside it goes up to                *)
(* _finalize_training_contribution, which reports a failure (Fail).        *)
(***************************************************************************)
EXTENDS ContributionService, FiniteSets, SequencesExt

CONSTANTS
  Legacy,        \* entries that an earlier release left in the outbox (v1, v2)
  Oversized,     \* schema-valid bundles over MAX_CONTRIBUTION_BYTES
  MaxDecisions   \* bound on the changes of the consent

ASSUME OutboxAssumption ==
  /\ IsFiniteSet(Bundles)
  /\ Legacy \subseteq Bundles
  /\ Oversized \subseteq Bundles \ Legacy
  /\ MaxDecisions \in Nat

VARIABLES
  consent,      \* the state of canonical_training_data in the ledger
  outbox,       \* the entries in the outbox directory
  arrived,      \* every entry there ever was, by modification time
  quarantined,  \* entries moved to the legacy quarantine
  credential,   \* the training:write capability in the credential file, or Nil
  fresh,        \* records that no workflow has produced yet
  pc, pending,  \* per process: where its flush is, and the entries it still has
  retried,      \* per process: the credential was refreshed for this record
  acknowledged, \* per process: the submissions of this flush
  report,       \* per process: what the promotion summary says of the contribution
  own,          \* per process: the record of its workflow, Nil when not tracked
  late,         \* history, per process: records it sent since the user opted out
  review,       \* a review submission: where it is, the training capability it loaded
  faults, decided, revocations

fileVars == <<consent, outbox, arrived, quarantined, credential>>
callVars == <<pc, pending, retried, acknowledged, report>>
outside == <<faults, decided, revocations, review>>
clientVars == <<fileVars, callVars, fresh, own, late, outside>>
vars == <<serviceVars, clientVars>>

-----------------------------------------------------------------------------
(***************************************************************************)
(* The end of a flush                                                      *)
(***************************************************************************)
\* Mutant of Reported: any submission of the flush counts
ReportedByFlush(p) == IF own[p] # Nil /\ acknowledged[p] # {} THEN "completed" ELSE "queued"

\* sync_promotion_summary looks for its own record among the submissions
Reported(p) == IF own[p] \in acknowledged[p] THEN "completed" ELSE "queued"

\* The local variables of the flush are gone
Return(p) ==
  /\ pc' = [pc EXCEPT ![p] = "idle"]
  /\ pending' = [pending EXCEPT ![p] = <<>>]
  /\ acknowledged' = [acknowledged EXCEPT ![p] = {}]
  /\ retried' = [retried EXCEPT ![p] = FALSE]

\* flush_training_outbox returns
Stop(p) == Return(p) /\ report' = [report EXCEPT ![p] = Reported(p)]

\* An exception leaves flush_training_outbox
Fail(p) == Return(p) /\ report' = [report EXCEPT ![p] = "failed"]

Goto(p, label) ==
  /\ pc' = [pc EXCEPT ![p] = label]
  /\ UNCHANGED <<pending, retried, acknowledged, report>>

Send(p, r) ==
  /\ requests' = [requests EXCEPT ![p] = r]
  /\ UNCHANGED serviceData
Hangup(p) == Send(p, Nil)

\* The record is on its way; whether the user has opted out by now
SendRecord(p, token) ==
  /\ Send(p, PostRequest(Head(pending[p]), token))
  /\ late' = [late EXCEPT ![p] = IF consent = "opt_out" THEN @ \cup {Head(pending[p])} ELSE @]

-----------------------------------------------------------------------------
(***************************************************************************)
(* The operations of a process                                             *)
(***************************************************************************)
\* _finalize_training_contribution starts on a terminal summary
StartWorkflow(p, record) ==
  /\ pc[p] = "idle"
  /\ consent = "opt_in"
  /\ own' = [own EXCEPT ![p] = record]
  /\ report' = [report EXCEPT ![p] = Nil]
  /\ pc' = [pc EXCEPT ![p] = "queued"]
  /\ UNCHANGED <<serviceVars, consent, quarantined, credential, pending, retried, acknowledged,
                 late, outside>>

\* create_training_bundle_from_promotion_summary and enqueue_training_bundle
Enqueue(p, b) ==
  /\ StartWorkflow(p, b)
  /\ b \in fresh
  /\ fresh' = fresh \ {b}
  /\ outbox' = outbox \cup {b}
  /\ arrived' = Append(arrived, b)

\* The same for a workflow whose record is not tracked: it is the newest entry,
\* so it follows every tracked one that is in the outbox
EnqueueOther(p) ==
  /\ outbox # {}
  /\ StartWorkflow(p, Nil)
  /\ UNCHANGED <<fresh, outbox, arrived>>

Before(a, b) == \E i, j \in DOMAIN arrived : i < j /\ arrived[i] = a /\ arrived[j] = b

\* The entries in the order flush_training_outbox sends them in, the oldest first
ByTime(entries) ==
  {s \in SetToSeqs(entries) : \A i, j \in DOMAIN s : i < j => Before(s[i], s[j])}

\* flush_training_outbox: require_consent and glob
List(p) ==
  /\ pc[p] = "queued"
  /\ IF consent = "opt_in"
     THEN /\ \E order \in ByTime(outbox) : pending' = [pending EXCEPT ![p] = order]
          /\ pc' = [pc EXCEPT ![p] = "listed"]
          /\ UNCHANGED <<retried, acknowledged, report>>
     ELSE Fail(p)
  /\ UNCHANGED <<serviceVars, fileVars, fresh, own, late, outside>>

\* flush_training_outbox: the sort by st_mtime_ns asks for every entry
Sort(p) ==
  /\ pc[p] = "listed"
  /\ IF Range(pending[p]) \subseteq outbox THEN Goto(p, "entry") ELSE Fail(p)
  /\ UNCHANGED <<serviceVars, fileVars, fresh, own, late, outside>>

\* The loop of flush_training_outbox: no entry is left
Finish(p) ==
  /\ pc[p] = "entry"
  /\ pending[p] = <<>>
  /\ Stop(p)
  /\ UNCHANGED <<serviceVars, fileVars, fresh, own, late, outside>>

AtEntry(p, entries) == pc[p] = "entry" /\ pending[p] # <<>> /\ Head(pending[p]) \in entries

\* The loop of flush_training_outbox: stat of an entry that is gone
Gone(p) ==
  /\ AtEntry(p, Bundles \ outbox)
  /\ Fail(p)
  /\ UNCHANGED <<serviceVars, fileVars, fresh, own, late, outside>>

\* The loop of flush_training_outbox: a v1 or v2 entry
Quarantine(p) ==
  /\ AtEntry(p, outbox \cap Legacy)
  /\ quarantined' = quarantined \cup {Head(pending[p])}
  /\ outbox' = outbox \ {Head(pending[p])}
  /\ pending' = [pending EXCEPT ![p] = Tail(@)]
  /\ UNCHANGED <<serviceVars, consent, arrived, credential, pc, retried, acknowledged, report,
                 fresh, own, late, outside>>

\* Mutant of Consented: the check at the start of the flush is enough
ConsentedAtStart(p) == TRUE

\* submit_training_bundle: require_consent
Consented(p) == consent = "opt_in"

\* The loop of flush_training_outbox: any other entry goes to submit_training_bundle
Submit(p) ==
  /\ AtEntry(p, outbox \ Legacy)
  /\ IF Consented(p) THEN Goto(p, "submit") ELSE Stop(p)
  /\ UNCHANGED <<serviceVars, fileVars, fresh, own, late, outside>>

Sendable(p) == Head(pending[p]) \in outbox \ Oversized

\* submit_validated_record: the payload cannot be read or is too large
Unsendable(p) ==
  /\ pc[p] = "submit"
  /\ ~Sendable(p)
  /\ Stop(p)
  /\ UNCHANGED <<serviceVars, fileVars, fresh, own, late, outside>>

\* submit_validated_record: the health check fails
Unhealthy(p) ==
  /\ pc[p] = "submit"
  /\ Sendable(p)
  /\ faults < MaxFaults
  /\ faults' = faults + 1
  /\ Stop(p)
  /\ UNCHANGED <<serviceVars, fileVars, fresh, own, late, decided, revocations, review>>

\* Mutant of UseCapability: an empty credential file is not noticed
UseAnyCapability(p) ==
  /\ pc[p] = "submit"
  /\ Sendable(p)
  /\ SendRecord(p, credential)
  /\ Goto(p, "posting")
  /\ UNCHANGED <<fileVars, fresh, own, outside>>

\* load_or_register_capability: the credential file has one
UseCapability(p) ==
  /\ pc[p] = "submit"
  /\ Sendable(p)
  /\ credential # Nil
  /\ SendRecord(p, credential)
  /\ Goto(p, "posting")
  /\ UNCHANGED <<fileVars, fresh, own, outside>>

\* load_or_register_capability: the credential file has none
RegisterCapability(p) ==
  /\ pc[p] = "submit"
  /\ Sendable(p)
  /\ credential = Nil
  /\ Send(p, RegisterRequest)
  /\ Goto(p, "registering")
  /\ UNCHANGED <<fileVars, fresh, own, late, outside>>

\* load_or_register_capability: the new capability is saved, the record sent
Granted(p) ==
  /\ pc[p] = "registering"
  /\ At(p, "granted")
  /\ credential' = requests[p].token
  /\ SendRecord(p, requests[p].token)
  /\ Goto(p, "posting")
  /\ UNCHANGED <<consent, outbox, arrived, quarantined, fresh, own, outside>>

\* A 429, or a 401 for a credential that was refreshed already
Refused(p) ==
  /\ pc[p] \in {"registering", "posting"}
  /\ At(p, "429") \/ (At(p, "401") /\ retried[p])
  /\ Hangup(p)
  /\ Stop(p)
  /\ UNCHANGED <<fileVars, fresh, own, late, outside>>

\* Mutant of Refresh: the refused capability stays in the credential file
RefreshFromFile(p) ==
  /\ pc[p] = "posting"
  /\ At(p, "401")
  /\ ~retried[p]
  /\ retried' = [retried EXCEPT ![p] = TRUE]
  /\ SendRecord(p, credential)
  /\ UNCHANGED <<fileVars, pc, pending, acknowledged, report, fresh, own, outside>>

\* submit_validated_record: a 401 removes the capability and registers another
Refresh(p) ==
  /\ pc[p] = "posting"
  /\ At(p, "401")
  /\ ~retried[p]
  /\ retried' = [retried EXCEPT ![p] = TRUE]
  /\ credential' = Nil
  /\ Send(p, RegisterRequest)
  /\ pc' = [pc EXCEPT ![p] = "registering"]
  /\ UNCHANGED <<consent, outbox, arrived, quarantined, pending, acknowledged, report, fresh, own,
                 late, outside>>

\* Mutant of Acknowledged: the answer of the service is not looked at
AnyAnswer(p) == \E a \in Answers : At(p, a)

\* submit_validated_record returns
Acknowledged(p) == At(p, "accepted")

\* flush_training_outbox: the submission is noted and the entry unlinked,
\* which fails when another process has done so
Unlink(p) ==
  /\ pc[p] = "posting"
  /\ Acknowledged(p)
  /\ Hangup(p)
  /\ IF Head(pending[p]) \in outbox
     THEN /\ outbox' = outbox \ {Head(pending[p])}
          /\ acknowledged' = [acknowledged EXCEPT ![p] = @ \cup {Head(pending[p])}]
          /\ pending' = [pending EXCEPT ![p] = Tail(@)]
          /\ retried' = [retried EXCEPT ![p] = FALSE]
          /\ pc' = [pc EXCEPT ![p] = "entry"]
          /\ UNCHANGED report
     ELSE Fail(p) /\ UNCHANGED outbox
  /\ UNCHANGED <<consent, arrived, quarantined, credential, fresh, own, late, outside>>

\* The service may still serve a request whose client has gone
Abandon(p) ==
  /\ faults < MaxFaults
  /\ faults' = faults + 1
  /\ requests' = [requests EXCEPT ![p] = Nil, ![faults + 1] = requests[p]]
  /\ UNCHANGED <<serviceData, fileVars, fresh, own, late, decided, revocations, review>>

\* urlopen times out or the connection breaks
TimeOut(p) == pc[p] \in {"registering", "posting"} /\ Abandon(p) /\ Stop(p)

\* The process dies: no summary is written
Crash(p) == pc[p] # "idle" /\ Abandon(p) /\ Return(p) /\ UNCHANGED report

Flush(p) ==
  \/ List(p) \/ Sort(p) \/ Finish(p) \/ Gone(p) \/ Quarantine(p) \/ Submit(p)
  \/ Unsendable(p) \/ UseCapability(p) \/ RegisterCapability(p)
  \/ Granted(p) \/ Refused(p) \/ Refresh(p) \/ Unlink(p)

-----------------------------------------------------------------------------
(***************************************************************************)
(* submit_review uses the same credential file for its own scope.          *)
(***************************************************************************)
\* load_or_register_capability, or remove_capability, loads both capabilities
LoadForReview ==
  /\ review.at = "idle"
  /\ faults < MaxFaults
  /\ faults' = faults + 1
  /\ review' = [at |-> "loaded", copy |-> credential]
  /\ UNCHANGED <<serviceVars, fileVars, callVars, fresh, own, late, decided, revocations>>

\* The registration of a review capability counts against the same daily limit
RegisterForReview ==
  /\ review.at = "loaded"
  /\ IF registrations < RegisterLimit
     THEN registrations' = registrations + 1 /\ review' = [review EXCEPT !.at = "granted"]
     ELSE UNCHANGED registrations /\ review' = [review EXCEPT !.at = "idle", !.copy = Nil]
  /\ UNCHANGED <<requests, used, revoked, stored, fileVars, callVars, fresh, own, late, faults,
                 decided, revocations>>

\* load_or_register_capability after its registration, or remove_capability,
\* writes back what it loaded of the training scope
WriteForReview ==
  /\ review.at \in {"loaded", "granted"}
  /\ credential' = review.copy
  /\ review' = [review EXCEPT !.at = "idle", !.copy = Nil]
  /\ UNCHANGED <<serviceVars, consent, outbox, arrived, quarantined, callVars, fresh, own, late,
                 faults, decided, revocations>>

-----------------------------------------------------------------------------
\* set_consent, by the user
Decide ==
  /\ decided < MaxDecisions
  /\ decided' = decided + 1
  /\ consent' = IF consent = "opt_in" THEN "opt_out" ELSE "opt_in"
  /\ late' = [p \in Procs |-> {}]
  /\ UNCHANGED <<serviceVars, outbox, arrived, quarantined, credential, callVars, fresh, own,
                 faults, revocations, review>>

RevokeSome ==
  /\ revocations < MaxRevocations
  /\ revocations' = revocations + 1
  /\ \E t \in Capabilities : Revoke(t)
  /\ UNCHANGED <<fileVars, callVars, fresh, own, late, faults, decided, review>>

ServiceStep(c) == Serve(c) /\ UNCHANGED clientVars

Init ==
  /\ ServiceInit
  /\ consent = "opt_in"
  /\ outbox = Legacy
  /\ arrived \in SetToSeqs(Legacy)
  /\ quarantined = {}
  /\ credential = Nil
  /\ fresh = Bundles \ Legacy
  /\ pc = [p \in Procs |-> "idle"]
  /\ pending = [p \in Procs |-> <<>>]
  /\ retried = [p \in Procs |-> FALSE]
  /\ acknowledged = [p \in Procs |-> {}]
  /\ own = [p \in Procs |-> Nil]
  /\ report = [p \in Procs |-> Nil]
  /\ late = [p \in Procs |-> {}]
  /\ review = [at |-> "idle", copy |-> Nil]
  /\ faults = 0 /\ decided = 0 /\ revocations = 0

Next ==
  \/ \E p \in Procs :
       \/ \E b \in fresh : Enqueue(p, b)
       \/ EnqueueOther(p) \/ Flush(p) \/ Unhealthy(p) \/ TimeOut(p) \/ Crash(p)
  \/ \E c \in Connections : ServiceStep(c)
  \/ Decide \/ RevokeSome
  \/ LoadForReview \/ RegisterForReview \/ WriteForReview
  \/ NewDay /\ UNCHANGED clientVars

\* A flush goes on until it ends, the service answers requests whose client
\* waits, days pass, and the user keeps running workflows
Fairness ==
  /\ \A p \in Procs : WF_vars(Flush(p)) /\ WF_vars(ServiceStep(p)) /\ WF_vars(EnqueueOther(p))
  /\ WF_vars(NewDay /\ UNCHANGED clientVars)

Spec == Init /\ [][Next]_vars
FairSpec == Spec /\ Fairness

-----------------------------------------------------------------------------
(***************************************************************************)
(* Properties.                                                             *)
(***************************************************************************)
\* Every variable has its type.
TypeOK ==
  /\ requests \in [Connections -> Requests \cup {Nil}]
  /\ used \in Seq(Nat)
  /\ registrations \in Nat
  /\ revoked \subseteq Capabilities
  /\ stored \in [Bundles -> Nat]
  /\ consent \in {"opt_in", "opt_out"}
  /\ outbox \subseteq Bundles
  /\ arrived \in Seq(Bundles)
  /\ quarantined \subseteq Bundles
  /\ credential \in Nat \cup {Nil}
  /\ fresh \subseteq Bundles
  /\ pc \in [Procs -> {"idle", "queued", "listed", "entry", "submit", "registering", "posting"}]
  /\ pending \in [Procs -> Seq(Bundles)]
  /\ retried \in [Procs -> BOOLEAN]
  /\ acknowledged \in [Procs -> SUBSET Bundles]
  /\ own \in [Procs -> Bundles \cup {Nil}]
  /\ report \in [Procs -> {Nil, "completed", "queued", "failed"}]
  /\ late \in [Procs -> SUBSET Bundles]
  /\ review \in [at : {"idle", "loaded", "granted"}, copy : Nat \cup {Nil}]
  /\ faults \in Nat /\ decided \in Nat /\ revocations \in Nat

\* A record that a workflow queued is in the outbox until the service has
\* stored it or the flush has quarantined it (flush_training_outbox: "retaining
\* every unacknowledged entry for a later run").
NoRecordLost ==
  \A b \in Bundles \ fresh : b \in outbox \cup quarantined \/ stored[b] > 0

\* However often a record is sent, and however late a request that was given
\* up is served, it has one row; and no legacy record has any (storeBundle,
\* the quarantine of flush_training_outbox).
StoredOnce ==
  \A b \in Bundles : stored[b] <= IF b \in Legacy THEN 0 ELSE 1

\* A summary that says the contribution was completed is right
\* (sync_promotion_summary: current_record_submitted).
CompletedIsStored ==
  \A p \in Procs : report[p] = "completed" => own[p] # Nil /\ stored[own[p]] > 0

\* After the user has opted out a process sends at most the record that it
\* has in hand (require_consent for each record in submit_training_bundle).
OptOutStopsFlush == \A p \in Procs : Cardinality(late[p]) <= 1

\* With the consent kept, every queued record is stored in the end, whatever
\* the other processes, the revocations and the rate limits do, and although a
\* review submission may put an older capability back.
EventuallyStored ==
  \A b \in Bundles \ Legacy : b \in outbox ~> b \notin outbox /\ stored[b] = 1

=============================================================================
