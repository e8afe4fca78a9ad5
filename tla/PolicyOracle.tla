---------------------------- MODULE PolicyOracle ----------------------------
(***************************************************************************)
(* The JSON-lines oracle of vladder/lazy_search.py: a search process asks  *)
(* an external process to rank a frontier (JsonLineFrontierPolicy), to     *)
(* decide about a state (JsonLineExpansionPolicy) or to propose equivalent *)
(* siblings (JsonLineEquivalenceProposalPolicy), one request and one       *)
(* answer at a time over a pair of pipes.  The oracle may be slow, hang,   *)
(* die or write nonsense; every such failure is meant to "fail open", to a *)
(* neutral answer.  The oracle's side follows the two servers under        *)
(* scripts/.                                                               *)
(***************************************************************************)
EXTENDS Naturals, Sequences

CONSTANTS
  Roots,        \* semantic roots (root_context["semantic_hash"])
  Nil,          \* no root
  Clients,      \* which of "score", "decide" and "propose" the search uses
  Misbehaviour, \* what the oracle may do wrong, see Faults
  MaxFaults,    \* bound on misbehaviour
  Large         \* TRUE: a request may not fit into the pipe's buffer

Faults == {"die", "hang", "slow", "garbage", "null", "half"}

ASSUME OracleAssumption ==
  /\ Nil \notin Roots
  /\ Clients \subseteq {"score", "decide", "propose"}
  /\ Misbehaviour \subseteq Faults
  /\ MaxFaults \in Nat
  /\ Large \in BOOLEAN

VARIABLES
  client,     \* the policy object in use
  pc,         \* where the call of that object is
  root,       \* the root of the call
  call,       \* the number of the call, modulo Calls
  registered, \* _registered_root
  process,    \* _process: "none", "alive" or "dead" (poll() is not None)
  stuck,      \* the process neither reads nor writes any more
  known,      \* the roots the process has been told of
  requests,   \* the process's standard input
  answers,    \* the process's standard output
  outcome,    \* what the last call returned
  faults      \* misbehaviour so far

vars == <<client, pc, root, call, registered, process, stuck, known, requests,
          answers, outcome, faults>>
oracleVars == <<stuck, known, requests, answers>>

\* Calls are told apart modulo this number: more than the number of messages
\* that can be under way
Calls == 4

Requests == [kind : {"register_root", "query"}, root : Roots, call : 0 .. Calls - 1]
\* "ready" and "good" are the answers to the two kinds of requests, "error" is
\* the servers' answer to a request that raised; "garbage" is a line whose
\* rejection _exchange or the caller catches, "null" one whose value is null
\* where a number or a list is expected, "half" the beginning of a line
Answers == [kind : {"ready", "good", "error", "garbage", "null", "half"}, call : 0 .. Calls - 1]
Places == {"idle", "raised", "blocked"} \cup
          {"register", "register write", "register wait", "register read"} \cup
          {"query", "query write", "query wait", "query read"}
NoOutcome == [kind |-> "none", call |-> 0, answer |-> 0]
Outcomes == [kind : {"none", "guided", "open"}, call : 0 .. Calls - 1, answer : 0 .. Calls - 1]

Init ==
  /\ client \in Clients
  /\ pc = "idle"
  /\ root \in Roots
  /\ call = 0
  /\ registered = Nil
  /\ process = "none"
  /\ stuck = FALSE
  /\ known = {}
  /\ requests = <<>>
  /\ answers = <<>>
  /\ outcome = NoOutcome
  /\ faults = 0

-----------------------------------------------------------------------------
(* The search process *)

\* score, decide or propose is called.  propose has no registration.
Call ==
  /\ pc = "idle"
  /\ root' \in Roots
  /\ call' = (call + 1) % Calls
  /\ pc' = IF client # "propose" /\ registered # root' THEN "register" ELSE "query"
  /\ UNCHANGED <<client, registered, process, oracleVars, outcome, faults>>

\* Mutant of CloseProcess: the process is kept for the next call
KeepProcess == UNCHANGED <<process, oracleVars>>

\* JsonLineExpansionPolicy.close and JsonLineFrontierPolicy.close: the process
\* is terminated or killed, its pipes are gone
CloseProcess ==
  /\ process' = "none"
  /\ stuck' = FALSE
  /\ known' = {}
  /\ requests' = <<>>
  /\ answers' = <<>>

\* Mutant of FailOpen: the registration is not forgotten
FailOpenStillRegistered ==
  /\ pc' = "idle"
  /\ outcome' = [kind |-> "open", call |-> call, answer |-> call]
  /\ CloseProcess
  /\ UNCHANGED <<client, root, call, registered>>

\* The except clause of a call: close, forget the registration, answer neutrally
FailOpen ==
  /\ pc' = "idle"
  /\ registered' = Nil
  /\ outcome' = [kind |-> "open", call |-> call, answer |-> call]
  /\ CloseProcess
  /\ UNCHANGED <<client, root, call>>

\* _ensure_process: a new process with new pipes if there is none, or the one
\* there is has exited; nothing is done about _registered_root
EnsureProcess ==
  IF process # "alive"
  THEN process' = "alive" /\ stuck' = FALSE /\ known' = {} /\ requests' = <<>> /\ answers' = <<>>
  ELSE UNCHANGED <<process, stuck, known, requests, answers>>

Place(kind) == IF kind = "register_root" THEN "register" ELSE "query"
Writing(kind) == IF kind = "register_root" THEN "register write" ELSE "query write"
Waiting(kind) == IF kind = "register_root" THEN "register wait" ELSE "query wait"
Reading(kind) == IF kind = "register_root" THEN "register read" ELSE "query read"

\* _exchange up to _ensure_process
Ensure(kind) ==
  /\ pc = Place(kind)
  /\ EnsureProcess
  /\ pc' = Writing(kind)
  /\ UNCHANGED <<client, root, call, registered, outcome, faults>>

\* _exchange, write and flush
Write(kind) ==
  /\ pc = Writing(kind)
  /\ process = "alive"
  /\ requests' = Append(requests, [kind |-> kind, root |-> root, call |-> call])
  /\ pc' = Waiting(kind)
  /\ UNCHANGED <<client, root, call, registered, process, stuck, known, answers, outcome, faults>>

\* A request larger than the pipe's buffer is only written as the process reads
\* it: write waits for a process that hangs, and no timeout has started
FillPipe(kind) ==
  /\ Large
  /\ pc = Writing(kind)
  /\ process = "alive"
  /\ stuck
  /\ pc' = "blocked"
  /\ UNCHANGED <<client, root, call, registered, process, oracleVars, outcome, faults>>

\* write raises BrokenPipeError: the process died after poll
BrokenPipe(kind) ==
  /\ pc \in {Writing(kind), "blocked"}
  /\ process = "dead"
  /\ FailOpen
  /\ UNCHANGED faults

\* select returns because there is something to read, the end of the file included
Select(kind) ==
  /\ pc = Waiting(kind)
  /\ answers # <<>> \/ process = "dead"
  /\ pc' = Reading(kind)
  /\ UNCHANGED <<client, root, call, registered, process, oracleVars, outcome, faults>>

\* select returns empty
TimedOut(kind) ==
  /\ pc = Waiting(kind)
  /\ answers = <<>>
  /\ process = "alive"
  /\ FailOpen

\* Mutant of Timeout: select is called again
TimeoutWaitsOn(kind) ==
  /\ stuck
  /\ pc = Waiting(kind)
  /\ answers = <<>>
  /\ UNCHANGED vars

\* A process that hangs has written nothing within timeout_seconds
Timeout(kind) ==
  /\ stuck
  /\ TimedOut(kind)
  /\ UNCHANGED faults

\* One that works is only too slow
SlowTimeout(kind) ==
  /\ "slow" \in Misbehaviour
  /\ faults < MaxFaults
  /\ ~stuck
  /\ TimedOut(kind)
  /\ faults' = faults + 1

\* readline returns the line; it waits for the end of the line without a timeout
Line(kind) ==
  /\ pc = Reading(kind)
  /\ answers # <<>>
  /\ Head(answers).kind # "half"

\* readline returns an empty string, or the half of a line the process left
EndOfFile(kind) ==
  /\ pc = Reading(kind)
  /\ process = "dead"
  /\ answers # <<>> => Head(answers).kind = "half"
  /\ FailOpen
  /\ UNCHANGED faults

\* The answer to register_root is "ready"
Registered ==
  /\ Line("register_root")
  /\ Head(answers).kind = "ready"
  /\ answers' = Tail(answers)
  /\ registered' = root
  /\ pc' = "query"
  /\ UNCHANGED <<client, root, call, process, stuck, known, requests, outcome, faults>>

\* Any other answer to register_root: RuntimeError, or the line is no JSON object
NotRegistered ==
  /\ Line("register_root")
  /\ Head(answers).kind # "ready"
  /\ FailOpen
  /\ UNCHANGED faults

\* The answer to the query is what was asked for
Guided ==
  /\ Line("query")
  /\ Head(answers).kind = "good"
  /\ answers' = Tail(answers)
  /\ outcome' = [kind |-> "guided", call |-> call, answer |-> Head(answers).call]
  /\ pc' = "idle"
  /\ UNCHANGED <<client, root, call, registered, process, stuck, known, requests, faults>>

\* decide takes an answer without a decision for KEEP_UNCERTAIN and propose one
\* without pairs for none: neutral, and the process is kept
Neutral ==
  /\ Line("query")
  /\ Head(answers).kind \in {"ready", "error"}
  /\ client \in {"decide", "propose"}
  /\ answers' = Tail(answers)
  /\ outcome' = [kind |-> "open", call |-> call, answer |-> Head(answers).call]
  /\ pc' = "idle"
  /\ UNCHANGED <<client, root, call, registered, process, stuck, known, requests, faults>>

\* score wants one score for each state, and no caller takes a broken line
Rejected ==
  /\ Line("query")
  /\ \/ Head(answers).kind = "garbage"
     \/ Head(answers).kind \in {"ready", "error"} /\ client = "score"
  /\ FailOpen
  /\ UNCHANGED faults

\* float(None), int(None) and iterating over None raise TypeError, which the
\* except clauses do not list: the exception leaves the search
Raise ==
  /\ Line("query")
  /\ Head(answers).kind = "null"
  /\ answers' = Tail(answers)
  /\ pc' = "raised"
  /\ UNCHANGED <<client, root, call, registered, process, stuck, known, requests, outcome, faults>>

-----------------------------------------------------------------------------
(* The oracle process *)

Reply(kind) ==
  /\ requests' = Tail(requests)
  /\ answers' = Append(answers, [kind |-> kind, call |-> Head(requests).call])

Working == process = "alive" /\ ~stuck /\ requests # <<>>

ServeRegister ==
  /\ Working
  /\ Head(requests).kind = "register_root"
  /\ known' = known \cup {Head(requests).root}
  /\ Reply("ready")
  /\ UNCHANGED <<client, pc, root, call, registered, process, stuck, outcome, faults>>

\* A query about a root that was never registered raises KeyError in the server
ServeQuery ==
  /\ Working
  /\ Head(requests).kind = "query"
  /\ Reply(IF Head(requests).root \in known THEN "good" ELSE "error")
  /\ UNCHANGED <<client, pc, root, call, registered, process, stuck, known, outcome, faults>>

Fault(kind) ==
  /\ kind \in Misbehaviour
  /\ faults < MaxFaults
  /\ faults' = faults + 1
  /\ process = "alive"

Die ==
  /\ Fault("die")
  /\ process' = "dead"
  /\ UNCHANGED <<client, pc, root, call, registered, oracleVars, outcome>>

Hang ==
  /\ Fault("hang")
  /\ ~stuck
  /\ stuck' = TRUE
  /\ UNCHANGED <<client, pc, root, call, registered, process, known, requests, answers, outcome>>

WriteNonsense(kind) ==
  /\ Fault(kind)
  /\ Working
  /\ Reply(kind)
  /\ UNCHANGED <<client, pc, root, call, registered, process, stuck, known, outcome>>

\* The process stops in the middle of a line
StopMidLine ==
  /\ Fault("half")
  /\ Working
  /\ Reply("half")
  /\ stuck' = TRUE
  /\ UNCHANGED <<client, pc, root, call, registered, process, known, outcome>>

Exchange(kind) ==
  \/ Ensure(kind) \/ Write(kind) \/ FillPipe(kind) \/ BrokenPipe(kind) \/ Select(kind) \/ Timeout(kind) \/ EndOfFile(kind)

Search ==
  \/ \E kind \in {"register_root", "query"} : Exchange(kind)
  \/ Registered \/ NotRegistered \/ Guided \/ Neutral \/ Rejected \/ Raise

Serve == ServeRegister \/ ServeQuery

Misbehave ==
  \/ \E kind \in {"register_root", "query"} : SlowTimeout(kind)
  \/ Die \/ Hang \/ StopMidLine
  \/ \E kind \in {"garbage", "null"} : WriteNonsense(kind)

Next == Call \/ Search \/ Serve \/ Misbehave

Spec == Init /\ [][Next]_vars

\* The search process runs, and so does an oracle process that does not hang;
\* nobody owes a call
FairSpec == Spec /\ WF_vars(Search) /\ WF_vars(Serve)

-----------------------------------------------------------------------------
(* Properties *)

TypeOK ==
  /\ client \in Clients
  /\ pc \in Places
  /\ root \in Roots
  /\ call \in 0 .. Calls - 1
  /\ registered \in Roots \cup {Nil}
  /\ process \in {"none", "alive", "dead"}
  /\ stuck \in BOOLEAN
  /\ known \subseteq Roots
  /\ requests \in Seq(Requests)
  /\ answers \in Seq(Answers)
  /\ outcome \in Outcomes
  /\ faults \in 0 .. MaxFaults

\* A search never acts on the answer to an earlier question: what a call
\* returns was answered to that call, although timeouts leave answers behind
\* that arrive later
AnsweredInTurn == outcome.answer = outcome.call

\* The three cases that fail-open does not reach: a write to a full pipe, a
\* line that stays half written, and a null, which has ended the search
Uncaught ==
  \/ pc \in {"raised", "blocked"}
  \/ stuck /\ process = "alive" /\ answers # <<>> /\ Head(answers).kind = "half"

\* Every call returns, whatever else an oracle does that hangs or dies
CallEnds == (pc # "idle") ~> (pc = "idle" \/ Uncaught)

\* When an oracle that failed works again, a search that goes on asking it for
\* scores is guided by it again and stays so
GuidedAgain ==
  client = "score" /\ []<>(pc = "query") => <>[](pc = "idle" => outcome.kind = "guided")

=============================================================================
