------------------------- MODULE ContributionService -------------------------
(***************************************************************************)
(* services/review-backend/convex: the training routes of the contribution *)
(* service.  An HTTP handler runs several mutations, each a transaction of *)
(* its own, so the handlers of different requests interleave between them. *)
(* A request stays on its connection until its client takes the answer; a  *)
(* client that gives up leaves the request behind on an abandoned          *)
(* connection, where the service may still serve all of it, or none.       *)
(*                                                                         *)
(* The record validators (searchTrainingBounds), the review routes,        *)
(* validate_only requests, trusted ingestion and moderation are left out.  *)
(***************************************************************************)
EXTENDS Naturals, Sequences

CONSTANTS
  Procs,          \* vladder processes of one installation
  Bundles,        \* training bundles, each with its bundle_id and payload
  Limit,          \* DAILY_LIMITS.training
  RegisterLimit,  \* DAILY_LIMITS.credential
  MaxFaults,      \* bound on abandoned requests, crashes, failed health checks, reviews
  MaxRevocations, \* bound on the capabilities the moderator revokes
  Nil

ASSUME ServiceAssumption ==
  /\ Limit \in Nat \ {0}
  /\ RegisterLimit \in Nat \ {0}
  /\ MaxFaults \in Nat
  /\ MaxRevocations \in Nat
  /\ Procs \cap Nat = {}
  /\ Nil \notin Bundles

VARIABLES
  requests,       \* the request on each connection, with the stage its handler is at
  used,           \* submissionRateLimits: today's training submissions per capability
  registrations,  \* submissionRateLimits: today's registrations of this network address
  revoked,        \* contributorCapabilities with revoked = true
  stored          \* searchTrainingSubmissions: how many rows each bundle has

serviceData == <<used, registrations, revoked, stored>>
serviceVars == <<requests, serviceData>>

\* A process's own connection, and those left behind
Connections == Procs \cup (1..MaxFaults)

\* Capabilities are numbered in the order they are issued
Capabilities == DOMAIN used

Answers == {"granted", "accepted", "401", "429"}
Stages == {"authorize", "limit", "issue", "store"} \cup Answers
Requests == [bundle : Bundles \cup {Nil}, token : Nat, stage : Stages]

ASSUME NilAssumption == Nil \notin Requests /\ Nil # "completed"

\* _register_capability and perform: what the client sends
RegisterRequest == [bundle |-> Nil, token |-> 0, stage |-> "limit"]
PostRequest(bundle, token) == [bundle |-> bundle, token |-> token, stage |-> "authorize"]

At(c, stage) == requests[c] # Nil /\ requests[c].stage = stage
Registering(c) == requests[c].bundle = Nil

Advance(c, stage) ==
  requests' = [requests EXCEPT ![c] = [bundle |-> @.bundle, token |-> @.token, stage |-> stage]]

-----------------------------------------------------------------------------
\* contributors.authorize
Authorize(c) ==
  /\ At(c, "authorize")
  /\ Advance(c, IF requests[c].token \in Capabilities \ revoked THEN "limit" ELSE "401")
  /\ UNCHANGED serviceData

\* rateLimits.consume for a registration, keyed by the network address
ConsumeRegistration(c) ==
  /\ At(c, "limit") /\ Registering(c)
  /\ IF registrations < RegisterLimit
     THEN registrations' = registrations + 1 /\ Advance(c, "issue")
     ELSE UNCHANGED registrations /\ Advance(c, "429")
  /\ UNCHANGED <<used, revoked, stored>>

\* contributors.issue: a fresh random token
Issue(c) ==
  /\ At(c, "issue")
  /\ used' = Append(used, 0)
  /\ requests' = [requests EXCEPT ![c] = [bundle |-> Nil, token |-> Len(used) + 1, stage |-> "granted"]]
  /\ UNCHANGED <<registrations, revoked, stored>>

\* rateLimits.consume for a submission, keyed by the capability
ConsumeSubmission(c) ==
  /\ At(c, "limit") /\ ~Registering(c)
  /\ IF used[requests[c].token] < Limit
     THEN used' = [used EXCEPT ![requests[c].token] = @ + 1] /\ Advance(c, "store")
     ELSE UNCHANGED used /\ Advance(c, "429")
  /\ UNCHANGED <<registrations, revoked, stored>>

\* Mutant of StoreBundle: no lookup of the bundle id
StoreAnyway(c) ==
  /\ At(c, "store")
  /\ stored' = [stored EXCEPT ![requests[c].bundle] = @ + 1]
  /\ Advance(c, "accepted")
  /\ UNCHANGED <<used, registrations, revoked>>

\* searchTraining.storeBundle: a bundle id that is already there is a
\* duplicate; lookup and insertion are one transaction
StoreBundle(c) ==
  /\ At(c, "store")
  /\ stored' = [stored EXCEPT ![requests[c].bundle] = IF @ = 0 THEN 1 ELSE @]
  /\ Advance(c, "accepted")
  /\ UNCHANGED <<used, registrations, revoked>>

Serve(c) ==
  \/ Authorize(c) \/ ConsumeRegistration(c) \/ Issue(c)
  \/ ConsumeSubmission(c) \/ StoreBundle(c)

\* contributors.revoke, by the moderator
Revoke(t) ==
  /\ t \in Capabilities \ revoked
  /\ revoked' = revoked \cup {t}
  /\ UNCHANGED <<requests, used, registrations, stored>>

\* The day is the bucket the rate limits count in
NewDay ==
  /\ registrations > 0 \/ \E t \in Capabilities : used[t] > 0
  /\ registrations' = 0
  /\ used' = [t \in Capabilities |-> 0]
  /\ UNCHANGED <<requests, revoked, stored>>

ServiceInit ==
  /\ requests = [c \in Connections |-> Nil]
  /\ used = <<>>
  /\ registrations = 0
  /\ revoked = {}
  /\ stored = [b \in Bundles |-> 0]

=============================================================================
