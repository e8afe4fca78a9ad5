---------------------------- MODULE ConsentLedger ----------------------------
(***************************************************************************)
(* vladder/consent.py: the durable consent ledger that every vladder       *)
(* process of a user shares.  An operation loads the file, changes its     *)
(* copy and renames a new file over the old one; nothing locks it between  *)
(* the two.                                                                *)
(*                                                                         *)
(* The agent that asks for a review (contribution_stage says "due", the    *)
(* agent asks, then records the request) is external to the repository.    *)
(***************************************************************************)
EXTENDS Naturals, FiniteSets

CONSTANTS
  Procs,         \* vladder processes of one user
  Interval,      \* REVIEW_REQUEST_INTERVAL_DAYS, in ticks
  MaxTime,       \* bound on the clock
  MaxDecisions,  \* bound on the decisions the user makes
  Nil

Training == "canonical_training_data"
Review == "agent_experience_review"
Scopes == {Training, Review}

ASSUME ConsentAssumption ==
  /\ Interval \in Nat \ {0}
  /\ MaxTime \in Nat
  /\ MaxDecisions \in Nat
  /\ Nil \notin Nat
  /\ Nil \notin {"opt_in", "opt_out"}
  /\ Nil \notin [decision : {"opt_in", "opt_out"}, policy : {"current", "legacy", "stale"}]

Decisions == {"opt_in", "opt_out"}
\* The policy version a decision was made under: the scope's own one of this
\* release, the earlier shared one (LEGACY_CONSENT_POLICY_VERSION), or another
\* one that load_consent still reads
Policies == {"current", "legacy", "stale"}
DecisionRecords == [decision : Decisions, policy : Policies]
Ledgers == [decisions : [Scopes -> DecisionRecords \cup {Nil}], next : Nat \cup {Nil}]

VARIABLES
  ledger,   \* the file
  now,      \* the clock
  pc,       \* what each process is doing
  copy,     \* the ledger each process loaded
  choice,   \* the decision each set_consent is to record
  stamp,    \* the next_eligible_at each record_review_request will write
  given,    \* history: the last decision per scope that set_consent saved
  allowed,  \* history: the scopes the user ever chose to opt in to
  asks,     \* history: how often and when the user was asked for a review
  decided,  \* number of decisions made
  serial    \* history: no two operations have overlapped

vars == <<ledger, now, pc, copy, choice, stamp, given, allowed, asks, decided, serial>>

Choices == Scopes \X Decisions

-----------------------------------------------------------------------------
\* _decision_is_current
DecisionIsCurrent(scope, record) ==
  /\ record # Nil
  /\ record.policy = "current" \/ (scope = Review /\ record.policy = "legacy")

\* load_consent: the states of the scopes
State(l, scope) ==
  IF DecisionIsCurrent(scope, l.decisions[scope])
  THEN l.decisions[scope].decision ELSE "unknown"

\* _review_request_state = "due"
ReviewDue(l) ==
  /\ State(l, Review) = "opt_in"
  /\ l.next # Nil => now >= l.next

\* Mutants of WithDecision: the activity is not kept; or the other
\* scope's decision is renewed under the current policy
WithDecisionOnly(l, scope, decision) ==
  [ decisions |-> [l.decisions EXCEPT ![scope] = [decision |-> decision, policy |-> "current"]],
    next |-> Nil ]

WithDecisionsRenewed(l, scope, decision) ==
  [ decisions |-> [s \in Scopes |->
      CASE s = scope -> [decision |-> decision, policy |-> "current"]
        [] l.decisions[s] = Nil -> Nil
        [] OTHER -> [decision |-> l.decisions[s].decision, policy |-> "current"]],
    next |-> l.next ]

\* The payload of set_consent
WithDecision(l, scope, decision) ==
  [ decisions |-> [l.decisions EXCEPT ![scope] = [decision |-> decision, policy |-> "current"]],
    next |-> l.next ]

\* The payload of record_review_request
WithRequest(l, next) == [decisions |-> l.decisions, next |-> next]

-----------------------------------------------------------------------------
BeginOperation(p) == serial' = (serial /\ \A q \in Procs \ {p} : pc[q] = "idle")

\* set_consent: load
LoadForSet(p) ==
  /\ pc[p] = "idle"
  /\ decided < MaxDecisions
  /\ decided' = decided + 1
  /\ \E c \in Choices :
       /\ choice' = [choice EXCEPT ![p] = c]
       /\ allowed' = IF c[2] = "opt_in" THEN allowed \cup {c[1]} ELSE allowed
  /\ copy' = [copy EXCEPT ![p] = ledger]
  /\ pc' = [pc EXCEPT ![p] = "setting"]
  /\ BeginOperation(p)
  /\ UNCHANGED <<ledger, now, stamp, given, asks>>

\* set_consent: _write_ledger, then it returns
WriteSet(p) ==
  /\ pc[p] = "setting"
  /\ ledger' = WithDecision(copy[p], choice[p][1], choice[p][2])
  /\ given' = [given EXCEPT ![choice[p][1]] = choice[p][2]]
  /\ pc' = [pc EXCEPT ![p] = "idle"]
  /\ UNCHANGED <<now, copy, choice, stamp, allowed, asks, decided, serial>>

\* contribution_stage: the agent asks the user when a review is due
AskForReview(p) ==
  /\ pc[p] = "idle"
  /\ ReviewDue(ledger)
  /\ asks' = [count |-> asks.count + 1, last |-> now]
  /\ pc' = [pc EXCEPT ![p] = "asked"]
  /\ BeginOperation(p)
  /\ UNCHANGED <<ledger, now, copy, choice, stamp, given, allowed, decided>>

\* record_review_request: require_consent, on a ledger of its own
RequireForRecord(p) ==
  /\ pc[p] = "asked"
  /\ pc' = [pc EXCEPT ![p] = IF State(ledger, Review) = "opt_in" THEN "required" ELSE "idle"]
  /\ UNCHANGED <<ledger, now, copy, choice, stamp, given, allowed, asks, decided, serial>>

\* record_review_request: load and take the time
LoadForRecord(p) ==
  /\ pc[p] = "required"
  /\ copy' = [copy EXCEPT ![p] = ledger]
  /\ stamp' = [stamp EXCEPT ![p] = now + Interval]
  /\ pc' = [pc EXCEPT ![p] = "recording"]
  /\ UNCHANGED <<ledger, now, choice, given, allowed, asks, decided, serial>>

\* record_review_request: _write_ledger
WriteRecord(p) ==
  /\ pc[p] = "recording"
  /\ ledger' = WithRequest(copy[p], stamp[p])
  /\ pc' = [pc EXCEPT ![p] = "idle"]
  /\ UNCHANGED <<now, copy, choice, stamp, given, allowed, asks, decided, serial>>

Tick ==
  /\ now < MaxTime
  /\ now' = now + 1
  /\ UNCHANGED <<ledger, pc, copy, choice, stamp, given, allowed, asks, decided, serial>>

-----------------------------------------------------------------------------
\* A ledger as an earlier release may have left it, or none
Init ==
  /\ ledger \in [decisions : [Scopes -> [decision : Decisions, policy : {"legacy", "stale"}] \cup {Nil}],
                next : {Nil, Interval}]
  /\ now = 0
  /\ pc = [p \in Procs |-> "idle"]
  /\ copy = [p \in Procs |-> ledger]
  /\ choice = [p \in Procs |-> <<Training, "opt_out">>]
  /\ stamp = [p \in Procs |-> 0]
  /\ given = [s \in Scopes |-> Nil]
  /\ allowed = {}
  /\ asks = [count |-> 0, last |-> 0]
  /\ decided = 0
  /\ serial = TRUE

Operation(p) ==
  \/ LoadForSet(p) \/ WriteSet(p)
  \/ AskForReview(p) \/ RequireForRecord(p) \/ LoadForRecord(p) \/ WriteRecord(p)

Next == Tick \/ \E p \in Procs : Operation(p)

Spec == Init /\ [][Next]_vars

-----------------------------------------------------------------------------
(***************************************************************************)
(* Properties.                                                             *)
(***************************************************************************)
\* The file, the copies and the clock have their types.
TypeOK ==
  /\ ledger \in Ledgers
  /\ now \in Nat
  /\ pc \in [Procs -> {"idle", "setting", "asked", "required", "recording"}]
  /\ copy \in [Procs -> Ledgers]
  /\ choice \in [Procs -> Choices]
  /\ stamp \in [Procs -> Nat]
  /\ given \in [Scopes -> Decisions \cup {Nil}]
  /\ allowed \in SUBSET Scopes
  /\ asks \in [count : Nat, last : Nat]
  /\ decided \in Nat
  /\ serial \in BOOLEAN

\* A decision that set_consent saved stays in force until the user makes
\* another one (require_consent, SCOPE_NOTICES "revocation").
DecisionKept == \A s \in Scopes : given[s] # Nil => State(ledger, s) = given[s]

\* No process ever finds an opt-in to training that the user did not give
\* under the current policy, however the operations of other processes and
\* the decisions of earlier releases interleave.
NoInventedConsent ==
  \A l \in {ledger} \cup {copy[p] : p \in Procs} :
    State(l, Training) = "opt_in" => Training \in allowed

\* While operations follow one another, two requests for a review are at least
\* the interval apart (REVIEW_REQUEST_INTERVAL_DAYS).
ReviewsSpaced ==
  [][serial' /\ asks'.count > asks.count /\ asks.count > 0 => asks'.last >= asks.last + Interval]_vars

=============================================================================
