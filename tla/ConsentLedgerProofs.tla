------------------------- MODULE ConsentLedgerProofs -------------------------
(***************************************************************************)
(* No interleaving of any number of processes makes up an opt-in.          *)
(***************************************************************************)
EXTENDS ConsentLedger, TLAPS

\* A ledger shows an opt-in to training only when the user gave one
Honest(l) == State(l, Training) = "opt_in" => Training \in allowed

\* A set_consent in progress writes what the user chose
ChoiceGiven ==
  \A p \in Procs : pc[p] = "setting" /\ choice[p] = <<Training, "opt_in">> => Training \in allowed

ConsentInv == TypeOK /\ Honest(ledger) /\ (\A p \in Procs : Honest(copy[p])) /\ ChoiceGiven

\* The two scopes are different, and each has its own entry in a ledger.
LEMMA ScopesDiffer == Training # Review /\ Training \in Scopes /\ Review \in Scopes
  BY DEF Training, Review, Scopes

\* The payload of set_consent is a ledger that shows, for training, the new
\* decision or the one of the ledger it was made from.
LEMMA WithDecisionSound ==
  ASSUME NEW l \in Ledgers, NEW s \in Scopes, NEW d \in Decisions
  PROVE  /\ WithDecision(l, s, d) \in Ledgers
         /\ State(WithDecision(l, s, d), Training) = "opt_in" =>
              (s = Training /\ d = "opt_in") \/ State(l, Training) = "opt_in"
  BY ScopesDiffer, ConsentAssumption
  DEF WithDecision, Ledgers, DecisionRecords, Policies, State, DecisionIsCurrent, Decisions

\* The payload of record_review_request is a ledger with the same decisions.
LEMMA WithRequestSound ==
  ASSUME NEW l \in Ledgers, NEW n \in Nat
  PROVE  WithRequest(l, n) \in Ledgers /\ State(WithRequest(l, n), Training) = State(l, Training)
  BY DEF WithRequest, Ledgers, State, DecisionIsCurrent

\* Every initial ledger, whatever earlier releases left, shows no opt-in to training.
LEMMA ConsentInit == Init => ConsentInv
<1>. SUFFICES ASSUME Init PROVE ConsentInv
  OBVIOUS
<1>1. ledger \in Ledgers /\ State(ledger, Training) # "opt_in"
  BY ScopesDiffer, ConsentAssumption
  DEF Init, Ledgers, DecisionRecords, Policies, Decisions, State, DecisionIsCurrent
<1>2. TypeOK
  BY <1>1, ScopesDiffer DEF Init, TypeOK, Choices, Decisions
<1>. QED
  BY <1>1, <1>2 DEF Init, ConsentInv, Honest, ChoiceGiven

\* Every step keeps it.
LEMMA ConsentNext == ConsentInv /\ [Next]_vars => ConsentInv'
<1>. SUFFICES ASSUME ConsentInv, [Next]_vars PROVE ConsentInv'
  OBVIOUS
<1>. USE DEF ConsentInv, TypeOK, Honest, ChoiceGiven
<1>1. ASSUME NEW p \in Procs, LoadForSet(p) PROVE ConsentInv'
  <2>1. PICK c \in Choices :
          /\ choice' = [choice EXCEPT ![p] = c]
          /\ allowed' = IF c[2] = "opt_in" THEN allowed \cup {c[1]} ELSE allowed
    BY <1>1 DEF LoadForSet
  <2>2. c[1] \in Scopes /\ c = <<c[1], c[2]>> /\ allowed \subseteq allowed'
    BY <2>1 DEF Choices
  <2>3. TypeOK'
    BY <1>1, <2>1, <2>2 DEF LoadForSet, BeginOperation
  <2>4. Honest(ledger)' /\ \A q \in Procs : Honest(copy[q])'
    BY <1>1, <2>2 DEF LoadForSet, State, DecisionIsCurrent
  <2>5. ChoiceGiven'
    BY <1>1, <2>1, <2>2 DEF LoadForSet
  <2>. QED
    BY <2>3, <2>4, <2>5
<1>2. ASSUME NEW p \in Procs, WriteSet(p) PROVE ConsentInv'
  <2>. DEFINE s == choice[p][1]
              d == choice[p][2]
              l == WithDecision(copy[p], s, d)
  <2>1. s \in Scopes /\ d \in Decisions /\ choice[p] = <<s, d>> /\ copy[p] \in Ledgers
    BY DEF Choices
  <2>2. l \in Ledgers /\ (State(l, Training) = "opt_in" =>
                             (s = Training /\ d = "opt_in") \/ State(copy[p], Training) = "opt_in")
    BY <2>1, WithDecisionSound
  <2>3. State(l, Training) = "opt_in" => Training \in allowed
    BY <1>2, <2>1, <2>2 DEF WriteSet
  <2>4. /\ ledger' = l /\ given' = [given EXCEPT ![s] = d] /\ pc' = [pc EXCEPT ![p] = "idle"]
        /\ UNCHANGED <<now, copy, choice, stamp, allowed, asks, decided, serial>>
    BY <1>2 DEF WriteSet
  <2>. HIDE DEF l, s, d
  <2>5. TypeOK'
    BY <2>1, <2>2, <2>4
  <2>6. Honest(ledger)' /\ \A q \in Procs : Honest(copy[q])'
    BY <2>3, <2>4 DEF State, DecisionIsCurrent
  <2>7. ChoiceGiven'
    BY <2>4
  <2>. QED
    BY <2>5, <2>6, <2>7
<1>3. ASSUME NEW p \in Procs, AskForReview(p) PROVE ConsentInv'
  BY <1>3 DEF AskForReview, BeginOperation, State, DecisionIsCurrent
<1>4. ASSUME NEW p \in Procs, RequireForRecord(p) PROVE ConsentInv'
  BY <1>4 DEF RequireForRecord, State, DecisionIsCurrent
<1>5. ASSUME NEW p \in Procs, LoadForRecord(p) PROVE ConsentInv'
  BY <1>5, ConsentAssumption DEF LoadForRecord, State, DecisionIsCurrent
<1>6. ASSUME NEW p \in Procs, WriteRecord(p) PROVE ConsentInv'
  BY <1>6, WithRequestSound DEF WriteRecord
<1>7. CASE Tick
  BY <1>7 DEF Tick, State, DecisionIsCurrent
<1>8. CASE UNCHANGED vars
  BY <1>8 DEF vars, State, DecisionIsCurrent
<1>. QED
  BY <1>1, <1>2, <1>3, <1>4, <1>5, <1>6, <1>7, <1>8 DEF Next, Operation

\* For any number of processes and any ledger of an earlier release: no ledger
\* file and no loaded copy shows an opt-in to training data that the user did
\* not give under the current policy, and all state has its types (load_consent,
\* _decision_is_current).
THEOREM ConsentNeverInvented == Spec => [](TypeOK /\ NoInventedConsent)
<1>1. Spec => []ConsentInv
  BY ConsentInit, ConsentNext, PTL DEF Spec
<1>2. ConsentInv => TypeOK /\ NoInventedConsent
  BY DEF ConsentInv, Honest, NoInventedConsent
<1>. QED
  BY <1>1, <1>2, PTL

-----------------------------------------------------------------------------
(* The spacing of requests, while operations follow one another            *)

Asking == {"asked", "required", "recording"}

\* One operation at a time: the ledger does not change under it.
OneAtATime == \A p, q \in Procs : pc[p] # "idle" /\ pc[q] # "idle" => p = q
LoadedIsCurrent == \A p \in Procs : pc[p] \in {"setting", "recording"} => copy[p].next = ledger.next
AskedStillOptedIn == \A p \in Procs : pc[p] = "asked" => State(ledger, Review) = "opt_in"

\* A request that was made is in the ledger or on its way there.
RequestRecorded ==
  /\ asks.last <= now
  /\ \A p \in Procs : pc[p] = "recording" => stamp[p] >= asks.last + Interval
  /\ asks.count > 0 =>
       \/ \E p \in Procs : pc[p] \in Asking
       \/ ledger.next # Nil /\ ledger.next >= asks.last + Interval

SpacedInv ==
  serial => OneAtATime /\ LoadedIsCurrent /\ AskedStillOptedIn /\ RequestRecorded

LEMMA SpacedNext == ConsentInv /\ SpacedInv /\ [Next]_vars => SpacedInv'
<1>. SUFFICES ASSUME ConsentInv, SpacedInv, [Next]_vars, serial' PROVE SpacedInv'
  BY DEF SpacedInv
<1>t. TypeOK /\ Interval \in Nat
  BY ConsentAssumption DEF ConsentInv
<1>. USE DEF TypeOK, Asking
<1>1. ASSUME NEW p \in Procs, LoadForSet(p) PROVE SpacedInv'
  <2>1. serial /\ \A q \in Procs \ {p} : pc[q] = "idle"
    BY <1>1 DEF LoadForSet, BeginOperation
  <2>2. /\ pc[p] = "idle" /\ pc' = [pc EXCEPT ![p] = "setting"]
        /\ copy' = [copy EXCEPT ![p] = ledger]
        /\ UNCHANGED <<ledger, now, stamp, asks>>
    BY <1>1 DEF LoadForSet
  <2>3. OneAtATime' /\ LoadedIsCurrent' /\ AskedStillOptedIn'
    BY <1>t, <2>1, <2>2 DEF OneAtATime, LoadedIsCurrent, AskedStillOptedIn
  <2>4. RequestRecorded'
    BY <1>t, <2>1, <2>2 DEF SpacedInv, RequestRecorded
  <2>5. QED
    BY <2>3, <2>4 DEF SpacedInv
<1>2. ASSUME NEW p \in Procs, WriteSet(p) PROVE SpacedInv'
  <2>1. serial /\ \A q \in Procs \ {p} : pc[q] = "idle"
    BY <1>2 DEF WriteSet, SpacedInv, OneAtATime
  <2>2. /\ pc[p] = "setting" /\ pc' = [pc EXCEPT ![p] = "idle"]
        /\ ledger' = WithDecision(copy[p], choice[p][1], choice[p][2])
        /\ UNCHANGED <<now, copy, stamp, asks>>
    BY <1>2 DEF WriteSet
  <2>3. ledger'.next = ledger.next
    <3>1. copy[p].next = ledger.next
      BY <2>1, <2>2 DEF SpacedInv, LoadedIsCurrent
    <3>2. WithDecision(copy[p], choice[p][1], choice[p][2]).next = copy[p].next
      BY DEF WithDecision
    <3>3. QED
      BY <2>2, <3>1, <3>2
  <2>4. \A q \in Procs : pc'[q] = "idle"
    BY <1>t, <2>1, <2>2
  <2>5. RequestRecorded'
    BY <1>t, <2>1, <2>2, <2>3, <2>4 DEF SpacedInv, RequestRecorded
  <2>6. QED
    BY <2>4, <2>5 DEF SpacedInv, OneAtATime, LoadedIsCurrent, AskedStillOptedIn
<1>3. ASSUME NEW p \in Procs, AskForReview(p) PROVE SpacedInv'
  <2>1. serial /\ \A q \in Procs \ {p} : pc[q] = "idle"
    BY <1>3 DEF AskForReview, BeginOperation
  <2>2. /\ pc[p] = "idle" /\ pc' = [pc EXCEPT ![p] = "asked"] /\ State(ledger, Review) = "opt_in"
        /\ asks' = [count |-> asks.count + 1, last |-> now]
        /\ UNCHANGED <<ledger, now, stamp, copy>>
    BY <1>3 DEF AskForReview, ReviewDue
  <2>3. State(ledger, Review)' = State(ledger, Review)
    BY <2>2 DEF State, DecisionIsCurrent
  <2>4. OneAtATime' /\ LoadedIsCurrent' /\ AskedStillOptedIn'
    BY <1>t, <2>1, <2>2, <2>3 DEF OneAtATime, LoadedIsCurrent, AskedStillOptedIn
  <2>5. RequestRecorded'
    BY <1>t, <2>1, <2>2 DEF RequestRecorded
  <2>6. QED
    BY <2>4, <2>5 DEF SpacedInv
<1>4. ASSUME NEW p \in Procs, RequireForRecord(p) PROVE SpacedInv'
  <2>1. /\ serial /\ pc[p] = "asked" /\ UNCHANGED <<ledger, now, stamp, copy, asks>>
        /\ pc' = [pc EXCEPT ![p] = IF State(ledger, Review) = "opt_in" THEN "required" ELSE "idle"]
    BY <1>4 DEF RequireForRecord
  <2>2. State(ledger, Review) = "opt_in" /\ \A q \in Procs \ {p} : pc[q] = "idle"
    BY <2>1 DEF SpacedInv, AskedStillOptedIn, OneAtATime
  <2>3. pc' = [pc EXCEPT ![p] = "required"]
    BY <2>1, <2>2
  <2>4. OneAtATime' /\ LoadedIsCurrent' /\ AskedStillOptedIn'
    BY <1>t, <2>1, <2>2, <2>3 DEF OneAtATime, LoadedIsCurrent, AskedStillOptedIn
  <2>5. RequestRecorded'
    BY <1>t, <2>1, <2>2, <2>3 DEF SpacedInv, RequestRecorded
  <2>6. QED
    BY <2>4, <2>5 DEF SpacedInv
<1>5. ASSUME NEW p \in Procs, LoadForRecord(p) PROVE SpacedInv'
  <2>1. /\ serial /\ pc[p] = "required" /\ UNCHANGED <<ledger, now, asks>>
        /\ pc' = [pc EXCEPT ![p] = "recording"]
        /\ copy' = [copy EXCEPT ![p] = ledger] /\ stamp' = [stamp EXCEPT ![p] = now + Interval]
    BY <1>5 DEF LoadForRecord
  <2>2. \A q \in Procs \ {p} : pc[q] = "idle"
    BY <2>1 DEF SpacedInv, OneAtATime
  <2>3. OneAtATime' /\ LoadedIsCurrent' /\ AskedStillOptedIn'
    BY <1>t, <2>1, <2>2 DEF OneAtATime, LoadedIsCurrent, AskedStillOptedIn
  <2>4. RequestRecorded'
    BY <1>t, <2>1, <2>2 DEF SpacedInv, RequestRecorded
  <2>5. QED
    BY <2>3, <2>4 DEF SpacedInv
<1>6. ASSUME NEW p \in Procs, WriteRecord(p) PROVE SpacedInv'
  <2>1. /\ serial /\ pc[p] = "recording" /\ UNCHANGED <<now, copy, stamp, asks>>
        /\ pc' = [pc EXCEPT ![p] = "idle"] /\ ledger' = WithRequest(copy[p], stamp[p])
    BY <1>6 DEF WriteRecord
  <2>2. \A q \in Procs \ {p} : pc[q] = "idle"
    BY <2>1 DEF SpacedInv, OneAtATime
  <2>3. \A q \in Procs : pc'[q] = "idle"
    BY <1>t, <2>1, <2>2
  <2>4. ledger'.next = stamp[p] /\ stamp[p] \in Nat /\ stamp[p] # Nil
    BY <1>t, <2>1, ConsentAssumption DEF WithRequest
  <2>5. RequestRecorded'
    BY <1>t, <2>1, <2>3, <2>4 DEF SpacedInv, RequestRecorded
  <2>6. QED
    BY <2>3, <2>5 DEF SpacedInv, OneAtATime, LoadedIsCurrent, AskedStillOptedIn
<1>7. CASE Tick \/ UNCHANGED vars
  <2>0. UNCHANGED <<ledger, pc, copy, stamp, asks, serial>>
    BY <1>7 DEF Tick, vars
  <2>n. now \in Nat /\ (now' = now + 1 \/ now' = now)
    BY <1>t, <1>7 DEF Tick, vars
  <2>m. now' \in Nat /\ now' >= now
    BY <2>n
  <2>1. UNCHANGED <<ledger, pc, copy, stamp, asks, serial>> /\ now' \in Nat /\ now' >= now
    BY <2>0, <2>m, Zenon
  <2>2. State(ledger, Review)' = State(ledger, Review)
    BY <2>1 DEF State, DecisionIsCurrent
  <2>3. OneAtATime' /\ LoadedIsCurrent' /\ AskedStillOptedIn'
    BY <2>1, <2>2 DEF SpacedInv, OneAtATime, LoadedIsCurrent, AskedStillOptedIn
  <2>4. RequestRecorded'
    BY <1>t, <2>1 DEF SpacedInv, RequestRecorded
  <2>5. QED
    BY <2>3, <2>4 DEF SpacedInv
<1>8. QED
  BY <1>1, <1>2, <1>3, <1>4, <1>5, <1>6, <1>7 DEF Next, Operation

\* A request for a review that overlaps no operation comes at least the interval
\* after the one before it, in every order of requests, records and decisions of
\* any number of processes that follow one another (record_review_request).
THEOREM RequestsSpaced == Spec => ReviewsSpaced
<1>1. Init => SpacedInv
  BY DEF Init, SpacedInv, OneAtATime, LoadedIsCurrent, AskedStillOptedIn, RequestRecorded
<1>2. Spec => [](ConsentInv /\ SpacedInv)
  BY <1>1, ConsentInit, ConsentNext, SpacedNext, PTL DEF Spec
<1>3. ConsentInv /\ SpacedInv /\ [Next]_vars =>
        [serial' /\ asks'.count > asks.count /\ asks.count > 0
           => asks'.last >= asks.last + Interval]_vars
  <2>. SUFFICES ASSUME ConsentInv, SpacedInv, Next, serial', asks'.count > asks.count,
                       asks.count > 0
                PROVE  asks'.last >= asks.last + Interval
    OBVIOUS
  <2>t. TypeOK /\ Interval \in Nat
    BY ConsentAssumption DEF ConsentInv
  <2>1. asks.count \in Nat /\ ~(asks.count > asks.count)
    BY <2>t DEF TypeOK
  <2>2. asks' # asks
    BY <2>1
  <2>3. PICK p \in Procs : AskForReview(p)
    BY <2>2 DEF Next, Tick, Operation, LoadForSet, WriteSet, RequireForRecord, LoadForRecord,
       WriteRecord
  <2>4. /\ serial /\ \A q \in Procs \ {p} : pc[q] = "idle"
        /\ pc[p] = "idle" /\ asks'.last = now
        /\ ledger.next # Nil => now >= ledger.next
    BY <2>3 DEF AskForReview, BeginOperation, ReviewDue
  <2>5. ledger.next # Nil /\ ledger.next >= asks.last + Interval
    BY <2>4 DEF SpacedInv, RequestRecorded, Asking
  <2>6. ledger.next \in Nat /\ now \in Nat /\ asks.last \in Nat
    BY <2>t, <2>5 DEF TypeOK, Ledgers
  <2>7. QED
    BY <2>t, <2>4, <2>5, <2>6
<1>4. QED
  BY <1>2, <1>3, PTL DEF Spec, ReviewsSpaced

=============================================================================
