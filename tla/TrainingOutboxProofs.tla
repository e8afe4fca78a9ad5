------------------------- MODULE TrainingOutboxProofs -------------------------
(***************************************************************************)
(* What the outbox and the service keep for every number of processes,     *)
(* records, faults, revocations and decisions.                             *)
(***************************************************************************)
EXTENDS TrainingOutbox, SequenceTheorems, FiniteSetTheorems, TLAPS

ProcessInFlight == {"submit", "registering", "posting"}

\* The types the argument needs; pending is only known to be a function
Types ==
  /\ requests \in [Connections -> Requests \cup {Nil}]
  /\ used \in Seq(Nat)
  /\ stored \in [Bundles -> Nat]
  /\ outbox \subseteq Bundles
  /\ credential \in Nat \cup {Nil}
  /\ fresh \subseteq Bundles
  /\ pc \in [Procs -> {"idle", "queued", "listed", "entry"} \cup ProcessInFlight]
  /\ pending = [p \in Procs |-> pending[p]]
  /\ acknowledged \in [Procs -> SUBSET Bundles]
  /\ own \in [Procs -> Bundles \cup {Nil}]
  /\ report \in [Procs -> {Nil, "completed", "queued", "failed"}]
  /\ faults \in Nat

\* A request carries no legacy record, a request that stores carries one, and
\* an accepted one is stored
RequestsSound ==
  \A c \in Connections :
    requests[c] # Nil =>
      /\ requests[c].bundle \in (Bundles \ Legacy) \cup {Nil}
      /\ requests[c].stage \in {"authorize", "store", "accepted"} => requests[c].bundle # Nil
      /\ requests[c].stage = "issue" => requests[c].bundle = Nil
      /\ requests[c].stage = "accepted" => stored[requests[c].bundle] > 0

\* The record a process works on is the head of its list, and the one it has sent
InHand ==
  \A p \in Procs :
    /\ pc[p] \in ProcessInFlight => Head(pending[p]) \in Bundles \ Legacy
    /\ pc[p] = "posting" => requests[p] # Nil /\ requests[p].bundle = Head(pending[p])

AcknowledgedStored == \A p \in Procs : \A b \in acknowledged[p] : stored[b] > 0

OutboxInv ==
  /\ Types
  /\ RequestsSound
  /\ InHand
  /\ AcknowledgedStored
  /\ NoRecordLost
  /\ StoredOnce
  /\ CompletedIsStored

-----------------------------------------------------------------------------
\* The invariant holds in the initial states.
LEMMA InvInit == Init => OutboxInv
  BY ServiceAssumption, OutboxAssumption, NilAssumption
  DEF Init, ServiceInit, OutboxInv, Types, RequestsSound, InHand, AcknowledgedStored,
      NoRecordLost, StoredOnce, CompletedIsStored, ProcessInFlight, Requests

\* A request that moves to another stage keeps what the others have.
LEMMA AdvanceKeeps ==
  ASSUME OutboxInv, NEW c \in Connections, NEW s \in Stages, requests[c] # Nil,
         Advance(c, s), UNCHANGED clientVars, stored' \in [Bundles -> Nat], used' \in Seq(Nat),
         \A b \in Bundles : stored[b] > 0 => stored'[b] > 0,
         \A b \in Bundles : stored'[b] <= IF b \in Legacy THEN 0 ELSE 1,
         s \in {"authorize", "store", "accepted"} => requests[c].bundle # Nil,
         s = "issue" => requests[c].bundle = Nil,
         s = "accepted" => stored'[requests[c].bundle] > 0
  PROVE  OutboxInv'
<1>1. requests[c] \in Requests
  BY DEF OutboxInv, Types
<1>2. requests' = [requests EXCEPT ![c] = [bundle |-> requests[c].bundle, token |-> requests[c].token,
                                           stage |-> s]]
  BY <1>1 DEF Advance, Requests
<1>3. [bundle |-> requests[c].bundle, token |-> requests[c].token, stage |-> s] \in Requests
  BY <1>1 DEF Requests
<1>4. Types'
  BY <1>2, <1>3 DEF OutboxInv, Types, clientVars, fileVars, callVars, outside
<1>5. RequestsSound'
  BY <1>1, <1>2 DEF OutboxInv, Types, RequestsSound
<1>6. InHand'
  BY <1>2, <1>3, NilAssumption
  DEF OutboxInv, Types, InHand, clientVars, fileVars, callVars, Connections
<1>7. AcknowledgedStored' /\ NoRecordLost' /\ CompletedIsStored'
  BY DEF OutboxInv, Types, AcknowledgedStored, NoRecordLost, CompletedIsStored,
         clientVars, fileVars, callVars
<1>8. StoredOnce'
  BY DEF StoredOnce
<1>. QED
  BY <1>4, <1>5, <1>6, <1>7, <1>8 DEF OutboxInv

\* A step of a handler keeps the invariant.
LEMMA ServeKeeps ==
  ASSUME OutboxInv, NEW c \in Connections, Serve(c), UNCHANGED clientVars
  PROVE  OutboxInv'
<1>1. CASE Authorize(c)
  BY <1>1, AdvanceKeeps DEF Authorize, At, OutboxInv, Types, RequestsSound, StoredOnce, Stages,
                            Answers, serviceData
<1>2. CASE ConsumeRegistration(c)
  BY <1>2, AdvanceKeeps DEF ConsumeRegistration, At, Registering, OutboxInv, Types, StoredOnce, Stages, Answers
<1>3. CASE Issue(c)
  <2>. DEFINE r == [bundle |-> Nil, token |-> Len(used) + 1, stage |-> "granted"]
  <2>1. requests' = [requests EXCEPT ![c] = r] /\ used' = Append(used, 0) /\ UNCHANGED stored
    BY <1>3 DEF Issue
  <2>2. r \in Requests /\ r.bundle = Nil /\ r.stage = "granted"
    BY DEF OutboxInv, Types, Requests, Stages, Answers
  <2>3. c \in Procs => pc[c] # "posting"
    BY <1>3, ServiceAssumption DEF Issue, At, OutboxInv, InHand, RequestsSound, ProcessInFlight
  <2>. HIDE DEF r
  <2>4. Types'
    BY <2>1, <2>2 DEF OutboxInv, Types, clientVars, fileVars, callVars, outside
  <2>5. RequestsSound'
    BY <2>1, <2>2 DEF OutboxInv, Types, RequestsSound
  <2>6. InHand'
    BY <2>1, <2>3 DEF OutboxInv, Types, InHand, clientVars, fileVars, callVars
  <2>7. AcknowledgedStored' /\ NoRecordLost' /\ CompletedIsStored' /\ StoredOnce'
    BY <2>1 DEF OutboxInv, AcknowledgedStored, NoRecordLost, CompletedIsStored, StoredOnce,
                clientVars, fileVars, callVars
  <2>. QED
    BY <2>4, <2>5, <2>6, <2>7 DEF OutboxInv
<1>4. CASE ConsumeSubmission(c)
  <2>1. used' \in Seq(Nat)
    <3>. DEFINE t == requests[c].token
    <3>1. used \in Seq(Nat)
      BY DEF OutboxInv, Types
    <3>2. used' = used \/ used' = [used EXCEPT ![t] = @ + 1]
      BY <1>4 DEF ConsumeSubmission
    <3>. HIDE DEF t
    <3>3. [used EXCEPT ![t] = @ + 1] \in Seq(Nat)
      <4>1. Len(used) \in Nat /\ used \in [1..Len(used) -> Nat]
        BY <3>1
      <4>. DEFINE u == [used EXCEPT ![t] = @ + 1]
      <4>2. DOMAIN u = 1..Len(used) /\ u = [i \in DOMAIN u |-> u[i]]
        BY <4>1
      <4>3. \A i \in 1..Len(used) : u[i] = used[i] \/ u[i] = used[i] + 1
        BY <4>1
      <4>4. \A i \in 1..Len(used) : u[i] \in Nat
        BY <4>1, <4>3
      <4>5. u \in [1..Len(used) -> Nat]
        BY <4>2, <4>4
      <4>. QED
        BY <4>1, <4>5, SeqDef
    <3>. QED
      BY <3>1, <3>2, <3>3
  <2>. QED
    BY <1>4, <2>1, AdvanceKeeps DEF ConsumeSubmission, At, Registering, OutboxInv, Types, StoredOnce,
                                    Stages, Answers
<1>5. CASE StoreBundle(c)
  <2>1. requests[c].bundle \in Bundles \ Legacy /\ requests[c] # Nil
    BY <1>5 DEF StoreBundle, At, OutboxInv, RequestsSound
  <2>2. /\ stored' \in [Bundles -> Nat]
        /\ \A b \in Bundles : stored[b] > 0 => stored'[b] > 0
        /\ \A b \in Bundles : stored'[b] <= IF b \in Legacy THEN 0 ELSE 1
        /\ stored'[requests[c].bundle] > 0
    BY <1>5, <2>1 DEF StoreBundle, OutboxInv, Types, StoredOnce
  <2>3. Advance(c, "accepted") /\ used' \in Seq(Nat)
    BY <1>5 DEF StoreBundle, OutboxInv, Types
  <2>. QED
    BY <2>1, <2>2, <2>3, AdvanceKeeps, NilAssumption, ServiceAssumption DEF Stages, Answers
<1>. QED
  BY <1>1, <1>2, <1>3, <1>4, <1>5 DEF Serve

-----------------------------------------------------------------------------
Labels == {"idle", "queued", "listed", "entry"} \cup ProcessInFlight

\* What a process may do to the connections: its own and abandoned ones
OthersKept(p) ==
  /\ requests' \in [Connections -> Requests \cup {Nil}]
  /\ RequestsSound'
  /\ \A q \in Procs \ {p} : requests'[q] = requests[q]

\* A request that is well formed, or none, may be put on the own connection.
LEMMA SendKeeps ==
  ASSUME OutboxInv, NEW p \in Procs, NEW r \in Requests \cup {Nil}, Send(p, r),
         r # Nil => /\ r.bundle \in (Bundles \ Legacy) \cup {Nil}
                    /\ r.stage = "authorize" => r.bundle # Nil
                    /\ r.stage \in {"authorize", "limit"}
  PROVE  OthersKept(p) /\ requests'[p] = r /\ UNCHANGED <<stored, used>>
<1>1. p \in Connections
  BY DEF Connections
<1>2. requests' = [requests EXCEPT ![p] = r] /\ UNCHANGED <<stored, used>>
  BY DEF Send, serviceData
<1>3. requests' \in [Connections -> Requests \cup {Nil}]
  BY <1>1, <1>2 DEF OutboxInv, Types
<1>4. RequestsSound'
  BY <1>1, <1>2 DEF OutboxInv, Types, RequestsSound
<1>. QED
  BY <1>1, <1>2, <1>3, <1>4 DEF OutboxInv, Types, OthersKept, Connections

\* Leaving a connection alone is one case of OthersKept.
LEMMA NoSendKeeps ==
  ASSUME OutboxInv, NEW p \in Procs, UNCHANGED serviceVars
  PROVE  OthersKept(p) /\ UNCHANGED <<stored, used, requests>>
  BY DEF OutboxInv, Types, OthersKept, RequestsSound, serviceVars, serviceData

\* A timeout or a crash leaves the request behind.
LEMMA AbandonKeeps ==
  ASSUME OutboxInv, NEW p \in Procs, Abandon(p)
  PROVE  OthersKept(p) /\ UNCHANGED <<stored, used>>
<1>1. p \in Connections /\ faults + 1 \in Connections /\ \A q \in Procs : q # faults + 1
  BY ServiceAssumption DEF Abandon, Connections, OutboxInv, Types
<1>2. \A c \in Connections : requests'[c] \in {requests[c], requests[p], Nil}
  BY <1>1 DEF Abandon, OutboxInv, Types
<1>3. requests' \in [Connections -> Requests \cup {Nil}]
  BY <1>1 DEF Abandon, OutboxInv, Types
<1>4. UNCHANGED <<stored, used>>
  BY DEF Abandon, serviceData
<1>5. RequestsSound'
  BY <1>1, <1>2, <1>4 DEF OutboxInv, RequestsSound
<1>6. \A q \in Procs \ {p} : requests'[q] = requests[q]
  BY <1>1 DEF Abandon, OutboxInv, Types, Connections
<1>. QED
  BY <1>3, <1>4, <1>5, <1>6 DEF OthersKept

\* A flush that ends keeps the invariant, whatever it reports rightly.
LEMMA ReturnKeeps ==
  ASSUME OutboxInv, NEW p \in Procs, Return(p), OthersKept(p),
         report' = report \/ report' = [report EXCEPT ![p] = "failed"]
                          \/ report' = [report EXCEPT ![p] = Reported(p)],
         UNCHANGED <<stored, used, outbox, quarantined, credential, fresh, own>>, faults' \in Nat
  PROVE  OutboxInv'
<1>1. report'[p] = "completed" => report[p] = "completed" \/ own[p] \in acknowledged[p]
  BY DEF OutboxInv, Types, Reported
<1>2. Types'
  BY DEF OutboxInv, Types, OthersKept, Return, Reported
<1>3. InHand'
  BY DEF OutboxInv, Types, OthersKept, Return, InHand, ProcessInFlight
<1>4. AcknowledgedStored'
  BY DEF OutboxInv, Types, AcknowledgedStored, Return
<1>5. CompletedIsStored'
  BY <1>1, ServiceAssumption DEF OutboxInv, Types, CompletedIsStored, AcknowledgedStored
<1>6. NoRecordLost' /\ StoredOnce' /\ RequestsSound'
  BY DEF OutboxInv, NoRecordLost, StoredOnce, OthersKept
<1>. QED
  BY <1>2, <1>3, <1>4, <1>5, <1>6 DEF OutboxInv

\* A flush that goes on to another label keeps the invariant.
LEMMA GotoKeeps ==
  ASSUME OutboxInv, NEW p \in Procs, NEW l \in Labels, OthersKept(p),
         pc' = [pc EXCEPT ![p] = l],
         l \in ProcessInFlight => Head(pending[p]) \in Bundles \ Legacy,
         l = "posting" => requests'[p] # Nil /\ requests'[p].bundle = Head(pending[p]),
         UNCHANGED <<stored, used, pending, acknowledged, report, outbox, quarantined, fresh, own>>,
         credential' \in Nat \cup {Nil}, faults' \in Nat
  PROVE  OutboxInv'
<1>1. Types'
  BY DEF OutboxInv, Types, OthersKept, Labels
<1>2. InHand'
  BY DEF OutboxInv, Types, OthersKept, InHand
<1>3. AcknowledgedStored' /\ CompletedIsStored' /\ NoRecordLost' /\ StoredOnce' /\ RequestsSound'
  BY DEF OutboxInv, NoRecordLost, StoredOnce, OthersKept, AcknowledgedStored, CompletedIsStored
<1>. QED
  BY <1>1, <1>2, <1>3 DEF OutboxInv

-----------------------------------------------------------------------------
\* The steps that end a flush.
LEMMA EndKeeps ==
  ASSUME OutboxInv, NEW p \in Procs,
         Finish(p) \/ Gone(p) \/ Unsendable(p) \/ Unhealthy(p) \/ Refused(p) \/ TimeOut(p) \/ Crash(p)
  PROVE  OutboxInv'
<1>. USE DEF fileVars, outside, Stop, Fail
<1>0. faults \in Nat
  BY DEF OutboxInv, Types
<1>1. CASE Finish(p)
  BY <1>1, ReturnKeeps, NoSendKeeps DEF Finish, OutboxInv, Types
<1>2. CASE Gone(p)
  BY <1>2, ReturnKeeps, NoSendKeeps DEF Gone, OutboxInv, Types
<1>3. CASE Unsendable(p)
  BY <1>3, ReturnKeeps, NoSendKeeps DEF Unsendable, OutboxInv, Types
<1>4. CASE Unhealthy(p)
  <2>1. faults' \in Nat /\ Stop(p) /\ UNCHANGED <<outbox, quarantined, credential, fresh, own>>
    BY <1>0, <1>4 DEF Unhealthy
  <2>2. OthersKept(p) /\ UNCHANGED <<stored, used>>
    BY <1>4, NoSendKeeps DEF Unhealthy
  <2>. QED
    BY <2>1, <2>2, ReturnKeeps
<1>5. CASE Refused(p)
  BY <1>5, ReturnKeeps, SendKeeps DEF Refused, Hangup, OutboxInv, Types
<1>6. CASE TimeOut(p)
  <2>1. OthersKept(p) /\ UNCHANGED <<stored, used>>
    BY <1>6, AbandonKeeps DEF TimeOut
  <2>2. faults' \in Nat /\ Stop(p) /\ UNCHANGED <<outbox, quarantined, credential, fresh, own>>
    BY <1>0, <1>6 DEF TimeOut, Abandon
  <2>. QED
    BY <2>1, <2>2, ReturnKeeps
<1>7. CASE Crash(p)
  <2>1. OthersKept(p) /\ UNCHANGED <<stored, used>>
    BY <1>7, AbandonKeeps DEF Crash
  <2>. QED
    BY <1>0, <1>7, <2>1, ReturnKeeps DEF Crash, Abandon
<1>. QED
  BY <1>1, <1>2, <1>3, <1>4, <1>5, <1>6, <1>7

\* The steps that look at an entry and go on, or end the flush.
LEMMA EntryKeeps ==
  ASSUME OutboxInv, NEW p \in Procs, Sort(p) \/ Submit(p) \/ RegisterCapability(p)
  PROVE  OutboxInv'
<1>. USE DEF fileVars, outside, Stop, Fail, Goto, Labels, ProcessInFlight
<1>1. CASE Sort(p)
  BY <1>1, ReturnKeeps, GotoKeeps, NoSendKeeps DEF Sort, OutboxInv, Types
<1>2. CASE Submit(p)
  BY <1>2, ReturnKeeps, GotoKeeps, NoSendKeeps DEF Submit, AtEntry, OutboxInv, Types
<1>3. CASE RegisterCapability(p)
  <2>1. RegisterRequest \in Requests /\ RegisterRequest.bundle = Nil /\ RegisterRequest.stage = "limit"
    BY DEF RegisterRequest, Requests, Stages, Answers
  <2>2. OthersKept(p) /\ UNCHANGED <<stored, used>>
    BY <1>3, <2>1, SendKeeps DEF RegisterCapability
  <2>. QED
    BY <1>3, <2>2, GotoKeeps DEF RegisterCapability, OutboxInv, Types, InHand
<1>. QED
  BY <1>1, <1>2, <1>3

\* Sending the record in hand.
LEMMA PostKeeps ==
  ASSUME OutboxInv, NEW p \in Procs, NEW t \in Nat, pc[p] \in ProcessInFlight, SendRecord(p, t),
         Goto(p, "posting"), UNCHANGED <<outbox, quarantined, fresh, own, faults>>,
         credential' \in Nat \cup {Nil}
  PROVE  OutboxInv'
<1>. DEFINE r == PostRequest(Head(pending[p]), t)
<1>1. Head(pending[p]) \in Bundles \ Legacy
  BY DEF OutboxInv, InHand
<1>2. r \in Requests /\ r.bundle = Head(pending[p]) /\ r.stage = "authorize"
  BY <1>1 DEF PostRequest, Requests, Stages, Answers
<1>3. Send(p, r)
  BY DEF SendRecord
<1>. HIDE DEF r
<1>4. OthersKept(p) /\ requests'[p] = r /\ UNCHANGED <<stored, used>>
  BY <1>1, <1>2, <1>3, SendKeeps, ServiceAssumption
<1>. QED
  BY <1>1, <1>2, <1>4, GotoKeeps, NilAssumption DEF Goto, Labels, ProcessInFlight, OutboxInv, Types

\* The steps that send a record, or register before.
LEMMA TransportKeeps ==
  ASSUME OutboxInv, NEW p \in Procs, UseCapability(p) \/ Granted(p) \/ Refresh(p)
  PROVE  OutboxInv'
<1>. USE DEF fileVars, outside, ProcessInFlight
<1>1. CASE UseCapability(p)
  BY <1>1, PostKeeps DEF UseCapability, OutboxInv, Types
<1>2. CASE Granted(p)
  <2>1. requests[p].token \in Nat
    BY <1>2 DEF Granted, At, OutboxInv, Types, Connections, Requests
  <2>. QED
    BY <1>2, <2>1, PostKeeps DEF Granted
<1>3. CASE Refresh(p)
  <2>1. RegisterRequest \in Requests /\ RegisterRequest.bundle = Nil /\ RegisterRequest.stage = "limit"
    BY DEF RegisterRequest, Requests, Stages, Answers
  <2>2. OthersKept(p) /\ UNCHANGED <<stored, used>>
    BY <1>3, <2>1, SendKeeps DEF Refresh
  <2>. QED
    BY <1>3, <2>2, GotoKeeps DEF Refresh, Labels, OutboxInv, Types, InHand
<1>. QED
  BY <1>1, <1>2, <1>3

\* The steps that change the outbox.
LEMMA OutboxKeeps ==
  ASSUME OutboxInv, NEW p \in Procs, Quarantine(p) \/ Unlink(p)
  PROVE  OutboxInv'
<1>1. CASE Quarantine(p)
  <2>1. OthersKept(p) /\ UNCHANGED <<stored, used, requests>>
    BY <1>1, NoSendKeeps DEF Quarantine
  <2>2. Types'
    BY <1>1, <2>1 DEF Quarantine, AtEntry, OutboxInv, Types, OthersKept, outside
  <2>3. InHand'
    BY <1>1, <2>1 DEF Quarantine, AtEntry, OutboxInv, Types, InHand, ProcessInFlight
  <2>4. NoRecordLost'
    BY <1>1, <2>1 DEF Quarantine, OutboxInv, NoRecordLost
  <2>5. AcknowledgedStored' /\ CompletedIsStored' /\ StoredOnce' /\ RequestsSound'
    BY <1>1, <2>1 DEF Quarantine, OutboxInv, StoredOnce, OthersKept, AcknowledgedStored, CompletedIsStored
  <2>. QED
    BY <2>2, <2>3, <2>4, <2>5 DEF OutboxInv
<1>2. CASE Unlink(p)
  <2>. DEFINE b == Head(pending[p])
  <2>1. OthersKept(p) /\ UNCHANGED <<stored, used>>
    BY <1>2, SendKeeps DEF Unlink, Hangup
  <2>2. b \in Bundles /\ stored[b] > 0
    BY <1>2 DEF Unlink, Acknowledged, At, OutboxInv, InHand, RequestsSound, ProcessInFlight, Connections
  <2>3. CASE b \notin outbox
    BY <1>2, <2>1, <2>3, ReturnKeeps DEF Unlink, Fail, OutboxInv, Types, outside
  <2>4. CASE b \in outbox
    <3>1. /\ outbox' = outbox \ {b}
          /\ acknowledged' = [acknowledged EXCEPT ![p] = @ \cup {b}]
          /\ pending' = [pending EXCEPT ![p] = Tail(@)]
          /\ pc' = [pc EXCEPT ![p] = "entry"]
          /\ UNCHANGED <<quarantined, credential, fresh, own, report, faults>>
      BY <1>2, <2>4 DEF Unlink, outside
    <3>. HIDE DEF b
    <3>2. Types'
      BY <2>1, <2>2, <3>1 DEF OutboxInv, Types, OthersKept
    <3>3. InHand'
      BY <2>1, <3>1 DEF OutboxInv, Types, InHand, ProcessInFlight, OthersKept
    <3>4. NoRecordLost'
      BY <2>1, <2>2, <3>1 DEF OutboxInv, NoRecordLost
    <3>5. AcknowledgedStored'
      BY <2>1, <2>2, <3>1 DEF OutboxInv, Types, AcknowledgedStored
    <3>6. CompletedIsStored' /\ StoredOnce' /\ RequestsSound'
      BY <2>1, <3>1 DEF OutboxInv, StoredOnce, OthersKept, CompletedIsStored
    <3>. QED
      BY <3>2, <3>3, <3>4, <3>5, <3>6 DEF OutboxInv
  <2>. QED
    BY <2>3, <2>4
<1>. QED
  BY <1>1, <1>2

\* The steps of a new workflow.
LEMMA WorkflowKeeps ==
  ASSUME OutboxInv, NEW p \in Procs, (\E b \in fresh : Enqueue(p, b)) \/ EnqueueOther(p) \/ List(p)
  PROVE  OutboxInv'
<1>1. ASSUME NEW b \in Bundles \cup {Nil}, StartWorkflow(p, b),
             outbox' \subseteq Bundles, fresh' \subseteq Bundles, NoRecordLost'
      PROVE  OutboxInv'
  <2>1. OthersKept(p) /\ UNCHANGED <<stored, used, requests>>
    BY <1>1, NoSendKeeps DEF StartWorkflow
  <2>2. Types'
    BY <1>1, <2>1 DEF StartWorkflow, OutboxInv, Types, OthersKept, outside
  <2>3. InHand' /\ AcknowledgedStored' /\ StoredOnce' /\ RequestsSound'
    BY <1>1, <2>1 DEF StartWorkflow, OutboxInv, Types, InHand, ProcessInFlight, AcknowledgedStored,
                      StoredOnce, OthersKept
  <2>4. CompletedIsStored'
    BY <1>1, <2>1, NilAssumption DEF StartWorkflow, OutboxInv, Types, CompletedIsStored
  <2>. QED
    BY <1>1, <2>2, <2>3, <2>4 DEF OutboxInv
<1>2. CASE \E b \in fresh : Enqueue(p, b)
  <2>1. PICK b \in fresh : Enqueue(p, b)
    BY <1>2
  <2>2. b \in Bundles /\ outbox' \subseteq Bundles /\ fresh' \subseteq Bundles
    BY <2>1 DEF Enqueue, OutboxInv, Types
  <2>3. NoRecordLost'
    BY <2>1 DEF Enqueue, StartWorkflow, serviceVars, serviceData, OutboxInv, NoRecordLost
  <2>. QED
    BY <1>1, <2>1, <2>2, <2>3 DEF Enqueue
<1>3. CASE EnqueueOther(p)
  <2>1. NoRecordLost'
    BY <1>3 DEF EnqueueOther, StartWorkflow, serviceVars, serviceData, OutboxInv, NoRecordLost
  <2>. QED
    BY <1>1, <1>3, <2>1 DEF EnqueueOther, OutboxInv, Types
<1>4. CASE List(p)
  <2>1. OthersKept(p) /\ UNCHANGED <<stored, used, requests>>
    BY <1>4, NoSendKeeps DEF List
  <2>2. CASE consent # "opt_in"
    BY <1>4, <2>1, <2>2, ReturnKeeps DEF List, Fail, OutboxInv, Types, fileVars, outside
  <2>3. CASE consent = "opt_in"
    <3>1. PICK l :
            /\ pending' = [pending EXCEPT ![p] = l]
            /\ pc' = [pc EXCEPT ![p] = "listed"]
            /\ UNCHANGED <<acknowledged, report, outbox, quarantined, credential, fresh, own, faults>>
      BY <1>4, <2>3 DEF List, fileVars, outside
    <3>2. Types'
      BY <2>1, <3>1 DEF OutboxInv, Types, OthersKept
    <3>3. InHand'
      BY <2>1, <3>1 DEF OutboxInv, Types, InHand, ProcessInFlight
    <3>4. AcknowledgedStored' /\ CompletedIsStored' /\ StoredOnce' /\ RequestsSound' /\ NoRecordLost'
      BY <2>1, <3>1 DEF OutboxInv, StoredOnce, OthersKept, CompletedIsStored, AcknowledgedStored, NoRecordLost
    <3>. QED
      BY <3>2, <3>3, <3>4 DEF OutboxInv
  <2>. QED
    BY <2>2, <2>3
<1>. QED
  BY <1>2, <1>3, <1>4

-----------------------------------------------------------------------------
\* The training capability that a review submission will write back is one.
CopyTyped == review \in [at : {"idle", "loaded", "granted"}, copy : Nat \cup {Nil}]

\* Only the review submission's own steps change it.
LEMMA CopyNext == OutboxInv /\ CopyTyped /\ [Next]_vars => CopyTyped'
<1>. SUFFICES ASSUME OutboxInv, CopyTyped, [Next]_vars PROVE CopyTyped'
  OBVIOUS
<1>. USE DEF CopyTyped
<1>1. CASE LoadForReview
  BY <1>1 DEF LoadForReview, OutboxInv, Types
<1>2. CASE RegisterForReview \/ WriteForReview
  BY <1>2 DEF RegisterForReview, WriteForReview
<1>3. ASSUME NEW p \in Procs,
             (\E b \in fresh : Enqueue(p, b)) \/ EnqueueOther(p) \/ Unhealthy(p) \/ TimeOut(p) \/ Crash(p)
      PROVE  UNCHANGED review
  BY <1>3 DEF Enqueue, EnqueueOther, StartWorkflow, Unhealthy, TimeOut, Crash, Abandon, outside
<1>4. ASSUME NEW p \in Procs, Flush(p) PROVE UNCHANGED review
  BY <1>4 DEF Flush, List, Sort, Finish, Gone, Quarantine, Submit, Unsendable, UseCapability,
              RegisterCapability, Granted, Refused, Refresh, Unlink, outside
<1>5. ASSUME (\E c \in Connections : ServiceStep(c)) \/ Decide \/ RevokeSome
             \/ (NewDay /\ UNCHANGED clientVars) \/ UNCHANGED vars
      PROVE  UNCHANGED review
  BY <1>5 DEF ServiceStep, Decide, RevokeSome, clientVars, outside, vars
<1>. QED
  BY <1>1, <1>2, <1>3, <1>4, <1>5 DEF Next

\* Every step of the system keeps the invariant.
LEMMA InvNext == OutboxInv /\ CopyTyped /\ [Next]_vars => OutboxInv'
<1>. SUFFICES ASSUME OutboxInv, CopyTyped, [Next]_vars PROVE OutboxInv'
  OBVIOUS
<1>. USE DEF clientVars, fileVars, callVars, outside, serviceVars, serviceData
<1>1. ASSUME UNCHANGED <<requests, stored, outbox, quarantined, callVars, fresh, own>>,
             credential' \in Nat \cup {Nil}, faults' \in Nat, used' \in Seq(Nat)
      PROVE  OutboxInv'
  BY <1>1 DEF OutboxInv, Types, RequestsSound, InHand, AcknowledgedStored, NoRecordLost, StoredOnce,
              CompletedIsStored
<1>2. CASE UNCHANGED vars
  BY <1>1, <1>2 DEF vars, OutboxInv, Types
<1>3. ASSUME NEW p \in Procs,
             (\E b \in fresh : Enqueue(p, b)) \/ EnqueueOther(p) \/ Flush(p) \/ Unhealthy(p) \/ TimeOut(p) \/ Crash(p)
      PROVE  OutboxInv'
  BY <1>3, EndKeeps, EntryKeeps, TransportKeeps, OutboxKeeps, WorkflowKeeps DEF Flush
<1>4. ASSUME NEW c \in Connections, ServiceStep(c) PROVE OutboxInv'
  BY <1>4, ServeKeeps DEF ServiceStep
<1>5. CASE Decide
  BY <1>1, <1>5 DEF Decide, OutboxInv, Types
<1>6. CASE RevokeSome
  BY <1>1, <1>6 DEF RevokeSome, Revoke, OutboxInv, Types
<1>7. CASE NewDay /\ UNCHANGED clientVars
  <2>1. [t \in DOMAIN used |-> 0] \in Seq(Nat)
    BY SeqDef DEF OutboxInv, Types
  <2>. QED
    BY <1>1, <1>7, <2>1 DEF NewDay, Capabilities, OutboxInv, Types
<1>8. CASE LoadForReview \/ RegisterForReview \/ WriteForReview
  BY <1>1, <1>8 DEF LoadForReview, RegisterForReview, WriteForReview, OutboxInv, Types, CopyTyped
<1>. QED
  BY <1>2, <1>3, <1>4, <1>5, <1>6, <1>7, <1>8 DEF Next

\* For every installation and service: a queued record is in the outbox, in the
\* quarantine or stored; it is stored once; and a summary that says it was
\* submitted is right -- under concurrent flushes, timeouts, requests served
\* late, crashes, revoked capabilities, rate limits and review submissions
\* (flush_training_outbox, submit_validated_record, storeBundle).
THEOREM RecordsKept == Spec => [](NoRecordLost /\ StoredOnce /\ CompletedIsStored)
<1>1. Init => CopyTyped
  BY DEF Init, CopyTyped
<1>2. Spec => [](OutboxInv /\ CopyTyped)
  BY <1>1, InvInit, InvNext, CopyNext, PTL DEF Spec
<1>3. OutboxInv => NoRecordLost /\ StoredOnce /\ CompletedIsStored
  BY DEF OutboxInv
<1>. QED
  BY <1>2, <1>3, PTL

-----------------------------------------------------------------------------
(* The other types *)

\* With Types and CopyTyped, the type invariant; a process that has a record in hand
\* has it in its list
Rest ==
  /\ registrations \in Nat
  /\ revoked \subseteq Capabilities
  /\ consent \in {"opt_in", "opt_out"}
  /\ arrived \in Seq(Bundles)
  /\ quarantined \subseteq Bundles
  /\ pending \in [Procs -> Seq(Bundles)]
  /\ retried \in [Procs -> BOOLEAN]
  /\ late \in [Procs -> SUBSET Bundles]
  /\ decided \in Nat /\ revocations \in Nat
  /\ \A p \in Procs : pc[p] \in ProcessInFlight => pending[p] # <<>>

\* An ordering of a set of bundles is a sequence of bundles
LEMMA OrderType == ASSUME NEW S \in SUBSET Bundles, NEW s \in SetToSeqs(S) PROVE s \in Seq(Bundles)
<1>1. Cardinality(S) \in Nat
  BY OutboxAssumption, FS_Subset, FS_CardinalityType
<1>2. s \in [1 .. Cardinality(S) -> S]
  BY DEF SetToSeqs
<1>3. s \in [1 .. Cardinality(S) -> Bundles]
  BY <1>2
<1>4. QED
  BY <1>1, <1>3, SeqDef

\* A step of a process that leaves its list as it is, shortens it by the record in
\* hand, or clears it
LEMMA ListStep ==
  ASSUME OutboxInv, Rest, NEW p \in Procs, NEW l \in Labels, NEW s \in Seq(Bundles),
         pc' = [pc EXCEPT ![p] = l], pending' = [pending EXCEPT ![p] = s],
         l \in ProcessInFlight => s # <<>>,
         retried' = retried \/ \E b \in BOOLEAN : retried' = [retried EXCEPT ![p] = b],
         late' = late \/ \E S \in SUBSET Bundles : late' = [late EXCEPT ![p] = S],
         arrived' \in Seq(Bundles), quarantined' \subseteq Bundles,
         UNCHANGED <<registrations, revoked, used, consent, decided, revocations>>
  PROVE  Rest'
<1>. USE DEF Rest
<1>1. pending' \in [Procs -> Seq(Bundles)] /\ retried' \in [Procs -> BOOLEAN]
      /\ late' \in [Procs -> SUBSET Bundles]
  OBVIOUS
<1>2. \A q \in Procs : pc'[q] \in ProcessInFlight => pending'[q] # <<>>
  BY DEF OutboxInv, Types
<1>3. QED
  BY <1>1, <1>2 DEF Capabilities

\* The end of a flush
LEMMA ReturnStep ==
  ASSUME OutboxInv, Rest, NEW p \in Procs, Return(p),
         UNCHANGED <<registrations, revoked, used, consent, arrived, quarantined, late, decided,
                     revocations>>
  PROVE  Rest'
<1>1. <<>> \in Seq(Bundles) /\ "idle" \in Labels /\ "idle" \notin ProcessInFlight
  BY DEF Labels, ProcessInFlight
<1>2. arrived' \in Seq(Bundles) /\ quarantined' \subseteq Bundles
  BY DEF Rest
<1>3. QED
  BY <1>1, <1>2, ListStep DEF Return

\* A step that goes on to another label with the list as it is
LEMMA GotoStep ==
  ASSUME OutboxInv, Rest, NEW p \in Procs, NEW l \in Labels, pc' = [pc EXCEPT ![p] = l],
         l \in ProcessInFlight => pending[p] # <<>>,
         retried' = retried \/ \E b \in BOOLEAN : retried' = [retried EXCEPT ![p] = b],
         late' = late \/ \E S \in SUBSET Bundles : late' = [late EXCEPT ![p] = S],
         arrived' \in Seq(Bundles),
         UNCHANGED <<registrations, revoked, used, consent, pending, quarantined, decided,
                     revocations>>
  PROVE  Rest'
<1>1. pending[p] \in Seq(Bundles) /\ pending' = [pending EXCEPT ![p] = pending[p]]
  BY DEF Rest
<1>2. quarantined' \subseteq Bundles
  BY DEF Rest
<1>. HIDE DEF Rest
<1>3. QED
  BY <1>1, <1>2, ListStep

LEMMA ProcessStep ==
  ASSUME OutboxInv, Rest, NEW p \in Procs,
         (\E b \in fresh : Enqueue(p, b)) \/ EnqueueOther(p) \/ Flush(p) \/ Unhealthy(p)
           \/ TimeOut(p) \/ Crash(p)
  PROVE  Rest'
<1>. USE DEF fileVars, outside, serviceVars, serviceData, Labels, ProcessInFlight
<1>0. arrived \in Seq(Bundles) /\ fresh \subseteq Bundles
  BY DEF Rest, OutboxInv, Types
<1>1. CASE Finish(p) \/ Gone(p) \/ Unsendable(p) \/ Unhealthy(p)
  BY <1>1, ReturnStep DEF Finish, Gone, Unsendable, Unhealthy, Stop, Fail
<1>2. CASE Refused(p)
  BY <1>2, ReturnStep DEF Refused, Hangup, Send, Stop
<1>3. CASE TimeOut(p) \/ Crash(p)
  BY <1>3, ReturnStep DEF TimeOut, Crash, Abandon, Stop
<1>4. CASE \E b \in fresh : Enqueue(p, b)
  <2>1. PICK b \in fresh : Enqueue(p, b)
    BY <1>4
  <2>2. arrived' \in Seq(Bundles)
    BY <1>0, <2>1 DEF Enqueue
  <2>3. QED
    BY <2>1, <2>2, GotoStep DEF Enqueue, StartWorkflow
<1>5. CASE EnqueueOther(p)
  BY <1>0, <1>5, GotoStep DEF EnqueueOther, StartWorkflow
<1>6. CASE List(p)
  <2>1. CASE consent = "opt_in"
    <3>1. PICK s \in ByTime(outbox) : pending' = [pending EXCEPT ![p] = s]
      BY <1>6, <2>1 DEF List
    <3>2. s \in Seq(Bundles)
      BY OrderType DEF ByTime, OutboxInv, Types
    <3>3. quarantined' \subseteq Bundles
      BY <1>6 DEF List, Rest
    <3>4. QED
      BY <1>0, <1>6, <2>1, <3>1, <3>2, <3>3, ListStep DEF List
  <2>2. CASE consent # "opt_in"
    BY <1>6, <2>2, ReturnStep DEF List, Fail
  <2>3. QED
    BY <2>1, <2>2
<1>7. CASE Sort(p)
  BY <1>0, <1>7, GotoStep, ReturnStep DEF Sort, Goto, Fail
<1>8. CASE Submit(p)
  BY <1>0, <1>8, GotoStep, ReturnStep DEF Submit, AtEntry, Goto, Stop
<1>9. CASE Quarantine(p)
  <2>1. pending[p] \in Seq(Bundles) /\ pending[p] # <<>> /\ Head(pending[p]) \in outbox
    BY <1>9 DEF Quarantine, AtEntry, Rest
  <2>2. Tail(pending[p]) \in Seq(Bundles) /\ quarantined' \subseteq Bundles
    BY <1>9, <2>1 DEF Quarantine, Rest, OutboxInv, Types
  <2>3. pending' = [pending EXCEPT ![p] = Tail(pending[p])] /\ pc' = [pc EXCEPT ![p] = "entry"]
    BY <1>9 DEF Quarantine, AtEntry, OutboxInv, Types
  <2>4. QED
    BY <1>0, <1>9, <2>2, <2>3, ListStep DEF Quarantine
<1>10. CASE Unlink(p)
  <2>1. CASE Head(pending[p]) \in outbox
    <3>1. pending[p] \in Seq(Bundles) /\ pending[p] # <<>>
      BY <1>10 DEF Unlink, Rest
    <3>2. Tail(pending[p]) \in Seq(Bundles) /\ quarantined' \subseteq Bundles
      BY <1>10, <3>1 DEF Unlink, Rest
    <3>3. /\ pending' = [pending EXCEPT ![p] = Tail(pending[p])]
          /\ pc' = [pc EXCEPT ![p] = "entry"] /\ retried' = [retried EXCEPT ![p] = FALSE]
          /\ UNCHANGED <<registrations, revoked, used, consent, arrived, late, decided, revocations>>
      BY <1>10, <2>1 DEF Unlink, Hangup, Send
    <3>4. QED
      BY <1>0, <3>2, <3>3, ListStep
  <2>2. CASE Head(pending[p]) \notin outbox
    BY <1>10, <2>2, ReturnStep DEF Unlink, Hangup, Send, Fail
  <2>3. QED
    BY <2>1, <2>2
<1>11. CASE RegisterCapability(p)
  BY <1>0, <1>11, GotoStep DEF RegisterCapability, Goto, Send, Rest
<1>12. CASE Refresh(p)
  BY <1>0, <1>12, GotoStep DEF Refresh, Send, Rest
<1>13. ASSUME NEW t, SendRecord(p, t), pc[p] \in ProcessInFlight
       PROVE  /\ \E S \in SUBSET Bundles : late' = [late EXCEPT ![p] = S]
              /\ UNCHANGED <<registrations, revoked, used>> /\ pending[p] # <<>>
  <2>1. Head(pending[p]) \in Bundles /\ late[p] \in SUBSET Bundles
    BY <1>13 DEF OutboxInv, InHand, Rest
  <2>2. QED
    BY <1>13, <2>1 DEF SendRecord, Send, Rest
<1>14. CASE UseCapability(p)
  <2>1. SendRecord(p, credential) /\ pc[p] \in ProcessInFlight
    BY <1>14 DEF UseCapability
  <2>2. QED
    BY <1>0, <1>13, <1>14, <2>1, GotoStep DEF UseCapability, Goto
<1>15. CASE Granted(p)
  <2>1. SendRecord(p, requests[p].token) /\ pc[p] \in ProcessInFlight
    BY <1>15 DEF Granted
  <2>2. QED
    BY <1>0, <1>13, <1>15, <2>1, GotoStep DEF Granted, Goto
<1>16. QED
  BY <1>1, <1>2, <1>3, <1>4, <1>5, <1>6, <1>7, <1>8, <1>9, <1>10, <1>11, <1>12, <1>14, <1>15
  DEF Flush

\* The steps of the service keep the capabilities it has issued.
LEMMA ServiceStepTyped ==
  ASSUME OutboxInv, Rest,
         (\E c \in Connections : ServiceStep(c)) \/ RevokeSome \/ (NewDay /\ UNCHANGED clientVars)
  PROVE  Rest'
<1>. USE DEF clientVars, fileVars, callVars, outside
<1>1. used \in Seq(Nat) /\ DOMAIN used = 1 .. Len(used)
  BY DEF OutboxInv, Types
<1>2. CASE RevokeSome
  BY <1>2 DEF RevokeSome, Revoke, Rest, Capabilities
<1>3. CASE NewDay /\ UNCHANGED clientVars
  BY <1>3 DEF NewDay, Rest, Capabilities
<1>4. ASSUME NEW c \in Connections, ServiceStep(c) PROVE Rest'
  <2>1. Capabilities \subseteq Capabilities' /\ registrations' \in Nat /\ revoked' = revoked
    <3>1. CASE Authorize(c) \/ StoreBundle(c)
      BY <3>1 DEF Authorize, StoreBundle, serviceData, Rest, Capabilities
    <3>2. CASE ConsumeRegistration(c)
      BY <3>2 DEF ConsumeRegistration, Rest, Capabilities
    <3>3. CASE Issue(c)
      <4>1. used' = Append(used, 0) /\ UNCHANGED <<registrations, revoked>>
        BY <3>3 DEF Issue
      <4>2. DOMAIN used' = 1 .. Len(used) + 1
        BY <1>1, <4>1
      <4>3. QED
        BY <1>1, <4>1, <4>2 DEF Rest, Capabilities
    <3>4. CASE ConsumeSubmission(c)
      BY <3>4 DEF ConsumeSubmission, Rest, Capabilities
    <3>5. QED
      BY <1>4, <3>1, <3>2, <3>3, <3>4 DEF ServiceStep, Serve
  <2>2. QED
    BY <1>4, <2>1 DEF ServiceStep, Rest
<1>5. QED
  BY <1>2, <1>3, <1>4

LEMMA RestNext == OutboxInv /\ CopyTyped /\ Rest /\ [Next]_vars => Rest'
<1>. SUFFICES ASSUME OutboxInv, Rest, [Next]_vars PROVE Rest'
  OBVIOUS
<1>. USE DEF clientVars, fileVars, callVars, outside, serviceVars, serviceData
<1>1. CASE Decide
  BY <1>1 DEF Decide, Rest, Capabilities
<1>2. CASE LoadForReview \/ RegisterForReview \/ WriteForReview
  BY <1>2 DEF LoadForReview, RegisterForReview, WriteForReview, Rest, Capabilities
<1>3. CASE UNCHANGED vars
  BY <1>3 DEF vars, Rest, Capabilities
<1>4. QED
  BY <1>1, <1>2, <1>3, ProcessStep, ServiceStepTyped DEF Next

-----------------------------------------------------------------------------
(* Opting out *)

\* While the user takes part nothing is late.  Since he has opted out a process has
\* sent at most one record; while it is on the way, that is the one in hand, and
\* no other is taken up.
LateFits ==
  \A p \in Procs :
    /\ consent = "opt_in" => late[p] = {}
    /\ \E b \in Bundles \cup {Nil} : late[p] \subseteq {b}
    /\ pc[p] \in ProcessInFlight => late[p] \subseteq {Head(pending[p])}

\* A step of a process that sends nothing new, or sends the record in hand
LEMMA LateStep ==
  ASSUME OutboxInv, Rest, LateFits, NEW p \in Procs, consent' = consent,
         \A q \in Procs \ {p} : late'[q] = late[q] /\ pc'[q] = pc[q] /\ pending'[q] = pending[q],
         \/ late'[p] = late[p] /\ pc'[p] \notin ProcessInFlight
         \/ late'[p] = late[p] /\ consent = "opt_in"
         \/ /\ pc[p] \in ProcessInFlight /\ pending'[p] = pending[p]
            /\ \/ late'[p] = late[p]
               \/ consent = "opt_out" /\ late'[p] = late[p] \cup {Head(pending[p])}
  PROVE  LateFits'
<1>1. ASSUME NEW q \in Procs \ {p}
      PROVE  /\ consent' = "opt_in" => late'[q] = {}
             /\ \E b \in Bundles \cup {Nil} : late'[q] \subseteq {b}
             /\ pc'[q] \in ProcessInFlight => late'[q] \subseteq {Head(pending'[q])}
  BY <1>1 DEF LateFits
<1>2. /\ consent' = "opt_in" => late'[p] = {}
      /\ \E b \in Bundles \cup {Nil} : late'[p] \subseteq {b}
      /\ pc'[p] \in ProcessInFlight => late'[p] \subseteq {Head(pending'[p])}
  <2>1. CASE late'[p] = late[p] /\ pc'[p] \notin ProcessInFlight
    BY <2>1 DEF LateFits
  <2>2. CASE late'[p] = late[p] /\ consent = "opt_in"
    <3>1. late'[p] = {}
      BY <2>2 DEF LateFits
    <3>2. QED
      BY <3>1
  <2>3. CASE /\ pc[p] \in ProcessInFlight /\ pending'[p] = pending[p]
             /\ \/ late'[p] = late[p]
                \/ consent = "opt_out" /\ late'[p] = late[p] \cup {Head(pending[p])}
    <3>1. Head(pending[p]) \in Bundles /\ late[p] \subseteq {Head(pending[p])}
      BY <2>3 DEF OutboxInv, InHand, LateFits
    <3>2. late'[p] \subseteq {Head(pending[p])}
      BY <2>3, <3>1
    <3>3. consent' = "opt_in" => late'[p] = {}
      BY <2>3 DEF LateFits
    <3>4. QED
      BY <2>3, <3>1, <3>2, <3>3
  <2>4. QED
    BY <2>1, <2>2, <2>3
<1>3. QED
  BY <1>1, <1>2 DEF LateFits

LEMMA LateProcessStep ==
  ASSUME OutboxInv, Rest, LateFits, NEW p \in Procs,
         (\E b \in fresh : Enqueue(p, b)) \/ EnqueueOther(p) \/ Flush(p) \/ Unhealthy(p)
           \/ TimeOut(p) \/ Crash(p)
  PROVE  LateFits'
<1>. USE DEF fileVars, outside, ProcessInFlight
<1>0. /\ pc = [q \in Procs |-> pc[q]] /\ pending = [q \in Procs |-> pending[q]]
      /\ late = [q \in Procs |-> late[q]] /\ consent \in {"opt_in", "opt_out"}
  BY DEF OutboxInv, Types, Rest
<1>1. ASSUME Return(p), UNCHANGED <<late, consent>> PROVE LateFits'
  BY <1>0, <1>1, LateStep DEF Return
<1>2. ASSUME NEW l \in Labels \ ProcessInFlight, pc' = [pc EXCEPT ![p] = l],
             UNCHANGED <<late, consent>>,
             \A q \in Procs \ {p} : pending'[q] = pending[q]
      PROVE  LateFits'
  BY <1>0, <1>2, LateStep
<1>3. ASSUME NEW l \in ProcessInFlight, pc' = [pc EXCEPT ![p] = l], UNCHANGED <<consent, pending>>,
             \/ pc[p] \in ProcessInFlight
             \/ consent = "opt_in" /\ UNCHANGED late,
             \/ UNCHANGED late
             \/ late' = [late EXCEPT ![p] = IF consent = "opt_out" THEN @ \cup {Head(pending[p])} ELSE @]
      PROVE  LateFits'
  <2>1. \A q \in Procs \ {p} : late'[q] = late[q] /\ pc'[q] = pc[q] /\ pending'[q] = pending[q]
    BY <1>0, <1>3
  <2>2. \/ late'[p] = late[p]
        \/ consent = "opt_out" /\ late'[p] = late[p] \cup {Head(pending[p])}
    BY <1>0, <1>3
  <2>3. QED
    BY <1>3, <2>1, <2>2, LateStep
<1>4. CASE Finish(p) \/ Gone(p) \/ Unsendable(p) \/ Unhealthy(p) \/ Refused(p) \/ TimeOut(p) \/ Crash(p)
  BY <1>1, <1>4 DEF Finish, Gone, Unsendable, Unhealthy, Refused, TimeOut, Crash, Abandon,
     Stop, Fail
<1>5. CASE (\E b \in fresh : Enqueue(p, b)) \/ EnqueueOther(p)
  BY <1>2, <1>5 DEF Enqueue, EnqueueOther, StartWorkflow, Labels
<1>6. CASE List(p)
  <2>1. CASE consent = "opt_in"
    <3>1. PICK s : pending' = [pending EXCEPT ![p] = s]
      BY <1>6, <2>1 DEF List
    <3>2. \A q \in Procs \ {p} : pending'[q] = pending[q]
      BY <1>0, <3>1
    <3>3. QED
      BY <1>2, <1>6, <2>1, <3>2 DEF List, Labels
  <2>2. CASE consent # "opt_in"
    BY <1>1, <1>6, <2>2 DEF List, Fail
  <2>3. QED
    BY <2>1, <2>2
<1>7. CASE Sort(p)
  BY <1>1, <1>2, <1>7 DEF Sort, Goto, Fail, Labels
<1>8. CASE Submit(p)
  BY <1>1, <1>3, <1>8 DEF Submit, Consented, Goto, Stop
<1>9. CASE Quarantine(p)
  <2>1. pc' = [pc EXCEPT ![p] = "entry"] /\ UNCHANGED <<late, consent>>
    BY <1>0, <1>9 DEF Quarantine, AtEntry
  <2>2. \A q \in Procs \ {p} : pending'[q] = pending[q]
    BY <1>0, <1>9 DEF Quarantine
  <2>3. QED
    BY <1>2, <2>1, <2>2 DEF Labels
<1>10. CASE Unlink(p)
  <2>1. CASE Head(pending[p]) \in outbox
    <3>1. /\ pc' = [pc EXCEPT ![p] = "entry"] /\ UNCHANGED <<late, consent>>
          /\ \A q \in Procs \ {p} : pending'[q] = pending[q]
      BY <1>0, <1>10, <2>1 DEF Unlink
    <3>2. QED
      BY <1>2, <3>1 DEF Labels
  <2>2. CASE Head(pending[p]) \notin outbox
    BY <1>1, <1>10, <2>2 DEF Unlink, Fail
  <2>3. QED
    BY <2>1, <2>2
<1>11. CASE RegisterCapability(p) \/ Refresh(p)
  BY <1>3, <1>11 DEF RegisterCapability, Refresh, Goto
<1>12. CASE UseCapability(p) \/ Granted(p)
  BY <1>3, <1>12 DEF UseCapability, Granted, SendRecord, Goto
<1>13. QED
  BY <1>4, <1>5, <1>6, <1>7, <1>8, <1>9, <1>10, <1>11, <1>12 DEF Flush

LEMMA LateNext == OutboxInv /\ Rest /\ LateFits /\ [Next]_vars => LateFits'
<1>. SUFFICES ASSUME OutboxInv, Rest, LateFits, [Next]_vars PROVE LateFits'
  OBVIOUS
<1>1. CASE Decide
  <2>1. \A p \in Procs : late'[p] = {}
    BY <1>1 DEF Decide
  <2>2. QED
    BY <2>1 DEF LateFits
<1>2. ASSUME UNCHANGED <<consent, late, pc, pending>> PROVE LateFits'
  BY <1>2 DEF LateFits
<1>3. CASE \/ \E c \in Connections : ServiceStep(c)
           \/ RevokeSome \/ LoadForReview \/ RegisterForReview \/ WriteForReview
           \/ (NewDay /\ UNCHANGED clientVars) \/ UNCHANGED vars
  BY <1>2, <1>3 DEF ServiceStep, RevokeSome, LoadForReview, RegisterForReview, WriteForReview,
     clientVars, fileVars, callVars, vars
<1>4. QED
  BY <1>1, <1>3, LateProcessStep DEF Next

LEMMA OutboxAlways == Spec => [](OutboxInv /\ CopyTyped /\ Rest /\ LateFits)
<1>1. Init => CopyTyped
  BY DEF Init, CopyTyped
<1>2. Init => Rest
  <2>. SUFFICES ASSUME Init PROVE Rest
    OBVIOUS
  <2>1. arrived \in Seq(Bundles)
    BY OutboxAssumption, OrderType DEF Init
  <2>2. \A p \in Procs : pc[p] = "idle" /\ pending[p] = <<>>
    BY DEF Init
  <2>3. QED
    BY <2>1, <2>2 DEF Init, ServiceInit, Rest, ProcessInFlight
<1>3. Init => LateFits
  BY DEF Init, LateFits
<1>4. QED
  BY <1>1, <1>2, <1>3, InvInit, InvNext, CopyNext, RestNext, LateNext, PTL DEF Spec

\* Every variable of the client and of the service has its type.
THEOREM TypeCorrect == Spec => []TypeOK
<1>1. OutboxInv /\ CopyTyped /\ Rest => TypeOK
  BY DEF OutboxInv, Types, CopyTyped, Rest, TypeOK, ProcessInFlight
<1>2. QED
  BY <1>1, OutboxAlways, PTL

\* After the user has opted out a process sends at most the record it has in hand:
\* the consent is asked for again at every entry (submit_training_bundle).
THEOREM OptOutIsKept == Spec => []OptOutStopsFlush
<1>1. OutboxInv /\ Rest /\ LateFits => OptOutStopsFlush
  <2>. SUFFICES ASSUME LateFits, NEW p \in Procs PROVE Cardinality(late[p]) <= 1
    BY DEF OptOutStopsFlush
  <2>1. PICK b \in Bundles \cup {Nil} : late[p] \subseteq {b}
    BY DEF LateFits
  <2>2. late[p] = {} \/ late[p] = {b}
    BY <2>1
  <2>3. Cardinality({}) = 0 /\ Cardinality({b}) = 1
    BY FS_EmptySet, FS_Singleton
  <2>4. CASE late[p] = {}
    BY <2>3, <2>4
  <2>5. CASE late[p] = {b}
    BY <2>3, <2>5
  <2>6. QED
    BY <2>2, <2>4, <2>5
<1>2. QED
  BY <1>1, OutboxAlways, PTL
=============================================================================
