------------------------- MODULE PolicyOracleProofs -------------------------
(***************************************************************************)
(* The proof that a search never takes the answer to an earlier call for   *)
(* its own, whatever the oracle does and however often it fails.           *)
(*                                                                         *)
(* AnsweredInTurn alone is not inductive: it says nothing of the answers   *)
(* that are under way.  OracleInv adds that the pipes are empty unless a   *)
(* request is out, and that then they hold at most one message, which      *)
(* belongs to the call.  Every failure closes the process and its pipes,   *)
(* which is what keeps this invariant when a late answer is under way.     *)
(*                                                                         *)
(* Then, that a call comes to an end: somebody always has a step, and only *)
(* finitely many are left.                                                 *)
(***************************************************************************)
EXTENDS PolicyOracle, TLAPS

\* A request is out: written, and its answer not read
Out == pc \in {"register wait", "register read", "query wait", "query read"}

\* What the pipes of the process hold
InFlight ==
  \/ requests = <<>> /\ answers = <<>>
  \/ /\ Out
     /\ answers = <<>>
     /\ \E q \in Requests : q.call = call /\ requests = <<q>>
  \/ /\ Out
     /\ requests = <<>>
     /\ \E a \in Answers : a.call = call /\ answers = <<a>>

OracleInv == TypeOK /\ InFlight /\ AnsweredInTurn

\* A pipe with one message
LEMMA OneElement ==
  ASSUME NEW S, NEW x \in S
  PROVE  /\ <<>> \in Seq(S) /\ <<x>> \in Seq(S) /\ <<x>> # <<>>
         /\ Head(<<x>>) = x /\ Tail(<<x>>) = <<>> /\ Append(<<>>, x) = <<x>>
  OBVIOUS

\* An empty pipe
LEMMA NoElement == ASSUME NEW S PROVE <<>> \in Seq(S)
  OBVIOUS

\* The pipes are empty, or a request of the call is in the one, or its answer
\* is in the other
LEMMA OneMessage ==
  ASSUME OracleInv
  PROVE  /\ requests # <<>> => /\ Out /\ answers = <<>> /\ Tail(requests) = <<>>
                               /\ Head(requests) \in Requests /\ Head(requests).call = call
         /\ answers # <<>> => /\ Out /\ requests = <<>> /\ Tail(answers) = <<>>
                              /\ Head(answers) \in Answers /\ Head(answers).call = call
  <1>1. CASE requests = <<>> /\ answers = <<>>
      BY <1>1
  <1>2. CASE /\ Out
             /\ answers = <<>>
             /\ \E q \in Requests : q.call = call /\ requests = <<q>>
    <2> PICK q \in Requests : q.call = call /\ requests = <<q>>
        BY <1>2
    <2> QED BY <1>2, OneElement
  <1>3. CASE /\ Out
             /\ requests = <<>>
             /\ \E a \in Answers : a.call = call /\ answers = <<a>>
    <2> PICK a \in Answers : a.call = call /\ answers = <<a>>
        BY <1>3
    <2> QED BY <1>3, OneElement
  <1> QED BY <1>1, <1>2, <1>3 DEF OracleInv, InFlight

\* The invariant holds at the start
LEMMA OracleInitially == Init => OracleInv
  <1> SUFFICES ASSUME Init PROVE OracleInv
      OBVIOUS
  <1>1. TypeOK
    <2>1. requests \in Seq(Requests) /\ answers \in Seq(Answers)
        BY NoElement DEF Init
    <2>2. outcome \in Outcomes /\ call \in 0 .. Calls - 1
        BY DEF Init, Calls, NoOutcome, Outcomes
    <2>3. faults \in 0 .. MaxFaults
        BY OracleAssumption DEF Init
    <2>4. /\ client \in Clients /\ pc \in Places /\ root \in Roots
          /\ registered \in Roots \cup {Nil} /\ process \in {"none", "alive", "dead"}
          /\ stuck \in BOOLEAN /\ known \subseteq Roots
        BY DEF Init, Places
    <2> QED BY <2>1, <2>2, <2>3, <2>4 DEF TypeOK
  <1>2. InFlight /\ AnsweredInTurn
      BY DEF Init, InFlight, AnsweredInTurn, NoOutcome
  <1> QED BY <1>1, <1>2 DEF OracleInv

\* A failed call leaves empty pipes and no outcome of another call
LEMMA FailOpenKeeps ==
  ASSUME OracleInv, FailOpen, faults' \in 0 .. MaxFaults
  PROVE  OracleInv'
  <1>1. TypeOK'
    <2>1. requests' \in Seq(Requests) /\ answers' \in Seq(Answers)
        BY NoElement DEF FailOpen, CloseProcess
    <2>2. outcome' \in Outcomes
        BY DEF OracleInv, TypeOK, FailOpen, Outcomes
    <2>3. pc' \in Places /\ process' \in {"none", "alive", "dead"} /\ stuck' \in BOOLEAN
        BY DEF FailOpen, CloseProcess, Places
    <2>4. registered' \in Roots \cup {Nil} /\ known' \subseteq Roots
        BY DEF FailOpen, CloseProcess
    <2>5. UNCHANGED <<client, root, call>>
        BY DEF FailOpen
    <2> QED BY <2>1, <2>2, <2>3, <2>4, <2>5 DEF OracleInv, TypeOK
  <1>2. InFlight' /\ AnsweredInTurn'
      BY DEF FailOpen, CloseProcess, InFlight, AnsweredInTurn
  <1> QED BY <1>1, <1>2 DEF OracleInv

\* A step of the exchange with the process keeps the invariant
LEMMA ExchangeKeeps ==
  ASSUME NEW kind \in {"register_root", "query"}, OracleInv, Exchange(kind) \/ SlowTimeout(kind)
  PROVE  OracleInv'
  <1> USE DEF Place, Writing, Waiting, Reading
  <1>1. CASE Ensure(kind)
    <2>1. requests = <<>> /\ answers = <<>>
        BY <1>1, OneMessage DEF Ensure, Out
    <2>2. requests' = <<>> /\ answers' = <<>>
        BY <1>1, <2>1 DEF Ensure, EnsureProcess
    <2>3. TypeOK'
      <3>1. requests' \in Seq(Requests) /\ answers' \in Seq(Answers)
          BY <2>2, NoElement
      <3>2. process' \in {"none", "alive", "dead"} /\ known' \subseteq Roots /\ stuck' \in BOOLEAN
          BY <1>1 DEF Ensure, EnsureProcess, OracleInv, TypeOK
      <3>3. pc' \in Places
          BY <1>1 DEF Ensure, Places
      <3>4. UNCHANGED <<client, root, call, registered, outcome, faults>>
          BY <1>1 DEF Ensure
      <3> QED BY <3>1, <3>2, <3>3, <3>4 DEF OracleInv, TypeOK
    <2>4. AnsweredInTurn'
        BY <1>1 DEF Ensure, OracleInv, AnsweredInTurn
    <2> QED BY <2>2, <2>3, <2>4 DEF OracleInv, InFlight
  <1>2. CASE Write(kind)
    <2> DEFINE q == [kind |-> kind, root |-> root, call |-> call]
    <2>1. requests = <<>> /\ answers = <<>>
        BY <1>2, OneMessage DEF Write, Out
    <2>2. q \in Requests
        BY DEF OracleInv, TypeOK, Requests
    <2>3. requests' = <<q>> /\ answers' = <<>> /\ q.call = call'
        BY <1>2, <2>1, <2>2, OneElement DEF Write
    <2>4. Out'
        BY <1>2 DEF Write, Out
    <2> HIDE DEF q
    <2>5. requests' \in Seq(Requests)
        BY <2>2, <2>3, OneElement
    <2>6. TypeOK'
        BY <1>2, <2>5 DEF Write, OracleInv, TypeOK, Places
    <2>7. InFlight'
        BY <2>2, <2>3, <2>4 DEF InFlight
    <2>8. AnsweredInTurn'
        BY <1>2 DEF Write, OracleInv, AnsweredInTurn
    <2> QED BY <2>6, <2>7, <2>8 DEF OracleInv
  <1>3. CASE BrokenPipe(kind)
      BY <1>3, FailOpenKeeps DEF BrokenPipe, OracleInv, TypeOK
  <1>4. CASE Select(kind)
    <2>1. TypeOK' /\ AnsweredInTurn'
        BY <1>4 DEF Select, oracleVars, OracleInv, TypeOK, AnsweredInTurn, Places
    <2>2. InFlight'
        BY <1>4 DEF Select, oracleVars, OracleInv, InFlight, Out
    <2> QED BY <2>1, <2>2 DEF OracleInv
  <1>5. CASE Timeout(kind)
      BY <1>5, FailOpenKeeps DEF Timeout, TimedOut, OracleInv, TypeOK
  <1>6. CASE EndOfFile(kind)
      BY <1>6, FailOpenKeeps DEF EndOfFile, OracleInv, TypeOK
  <1>7. CASE SlowTimeout(kind)
    <2>1. faults' \in 0 .. MaxFaults
        BY <1>7, OracleAssumption DEF SlowTimeout, OracleInv, TypeOK
    <2> QED BY <1>7, <2>1, FailOpenKeeps DEF SlowTimeout, TimedOut
  <1>8. CASE FillPipe(kind)
    <2>1. requests = <<>> /\ answers = <<>>
        BY <1>8, OneMessage DEF FillPipe, Out
    <2>2. TypeOK' /\ AnsweredInTurn'
        BY <1>8 DEF FillPipe, oracleVars, OracleInv, TypeOK, AnsweredInTurn, Places
    <2>3. InFlight'
        BY <1>8, <2>1 DEF FillPipe, oracleVars, InFlight
    <2> QED BY <2>2, <2>3 DEF OracleInv
  <1> QED BY <1>1, <1>2, <1>3, <1>4, <1>5, <1>6, <1>7, <1>8 DEF Exchange

\* A call that begins, and one that reads its answer, keep the invariant
LEMMA SearchKeeps ==
  ASSUME OracleInv,
         Call \/ Registered \/ NotRegistered \/ Guided \/ Neutral \/ Rejected \/ Raise
  PROVE  OracleInv'
  <1>1. CASE Call
    <2>1. requests = <<>> /\ answers = <<>>
        BY <1>1, OneMessage DEF Call, Out
    <2>2. call' \in 0 .. Calls - 1
        BY <1>1 DEF Call, OracleInv, TypeOK, Calls
    <2>3. TypeOK'
        BY <1>1, <2>2 DEF Call, oracleVars, OracleInv, TypeOK, Places
    <2>4. InFlight' /\ AnsweredInTurn'
        BY <1>1, <2>1 DEF Call, oracleVars, OracleInv, InFlight, AnsweredInTurn
    <2> QED BY <2>3, <2>4 DEF OracleInv
  <1>2. CASE Registered \/ Guided \/ Neutral \/ Raise
    <2>1. answers # <<>> /\ answers' = Tail(answers) /\ requests' = requests /\ call' = call
        BY <1>2 DEF Registered, Guided, Neutral, Raise, Line
    <2>2. requests' = <<>> /\ answers' = <<>> /\ Head(answers).call = call
        BY <2>1, OneMessage
    <2>3. outcome' \in Outcomes /\ AnsweredInTurn'
        BY <1>2, <2>2 DEF Registered, Guided, Neutral, Raise, OracleInv, TypeOK, AnsweredInTurn, Outcomes
    <2>4. pc' \in Places /\ registered' \in Roots \cup {Nil}
        BY <1>2 DEF Registered, Guided, Neutral, Raise, OracleInv, TypeOK, Places
    <2>5. UNCHANGED <<client, root, call, process, stuck, known, faults>>
        BY <1>2 DEF Registered, Guided, Neutral, Raise
    <2>6. TypeOK'
        BY <2>2, <2>3, <2>4, <2>5 DEF OracleInv, TypeOK
    <2> QED BY <2>2, <2>3, <2>6 DEF OracleInv, InFlight
  <1>3. CASE NotRegistered
      BY <1>3, FailOpenKeeps DEF NotRegistered, OracleInv, TypeOK
  <1>4. CASE Rejected
      BY <1>4, FailOpenKeeps DEF Rejected, OracleInv, TypeOK
  <1> QED BY <1>1, <1>2, <1>3, <1>4

\* An answer of the process takes the place of the request
LEMMA ReplyKeeps ==
  ASSUME OracleInv, requests # <<>>,
         NEW kind \in {"ready", "good", "error", "garbage", "null", "half"}, Reply(kind),
         UNCHANGED <<client, pc, root, call, registered, process, outcome>>,
         stuck' \in BOOLEAN, known' \subseteq Roots, faults' \in 0 .. MaxFaults
  PROVE  OracleInv'
  <1> DEFINE a == [kind |-> kind, call |-> Head(requests).call]
  <1>1. /\ Out /\ answers = <<>> /\ Tail(requests) = <<>>
        /\ Head(requests) \in Requests /\ Head(requests).call = call
      BY OneMessage
  <1>2. a \in Answers /\ a.call = call'
      BY <1>1 DEF Requests, Answers
  <1>3. requests' = <<>> /\ answers' = <<a>>
      BY <1>1, <1>2, OneElement DEF Reply
  <1> HIDE DEF a
  <1>4. answers' \in Seq(Answers) /\ requests' \in Seq(Requests)
      BY <1>2, <1>3, OneElement, NoElement
  <1>5. TypeOK'
      BY <1>4 DEF OracleInv, TypeOK
  <1>6. Out'
      BY <1>1 DEF Out
  <1>7. InFlight'
      BY <1>2, <1>3, <1>6 DEF InFlight
  <1>8. AnsweredInTurn'
      BY DEF OracleInv, AnsweredInTurn
  <1> QED BY <1>5, <1>7, <1>8 DEF OracleInv

\* A step of the oracle keeps the invariant
LEMMA OracleKeeps ==
  ASSUME OracleInv,
         Serve \/ Die \/ Hang \/ StopMidLine \/ \E kind \in {"garbage", "null"} : WriteNonsense(kind)
  PROVE  OracleInv'
  <1>0. \A kind \in Faults : Fault(kind) => faults' \in 0 .. MaxFaults
      BY OracleAssumption DEF Fault, OracleInv, TypeOK
  <1>1. CASE ServeRegister
    <2>1. Head(requests).root \in Roots
        BY <1>1, OneMessage DEF ServeRegister, Working, Requests
    <2>2. known' \subseteq Roots /\ stuck' \in BOOLEAN /\ faults' \in 0 .. MaxFaults
        BY <1>1, <2>1 DEF ServeRegister, OracleInv, TypeOK
    <2> QED BY <1>1, <2>2, ReplyKeeps DEF ServeRegister, Working
  <1>2. CASE ServeQuery
    <2>1. known' \subseteq Roots /\ stuck' \in BOOLEAN /\ faults' \in 0 .. MaxFaults
        BY <1>2 DEF ServeQuery, OracleInv, TypeOK
    <2>2. CASE Head(requests).root \in known
        BY <1>2, <2>1, <2>2, ReplyKeeps DEF ServeQuery, Working
    <2>3. CASE Head(requests).root \notin known
        BY <1>2, <2>1, <2>3, ReplyKeeps DEF ServeQuery, Working
    <2> QED BY <2>2, <2>3
  <1>3. CASE Die
    <2>1. faults' \in 0 .. MaxFaults
        BY <1>0, <1>3 DEF Die, Faults
    <2>2. TypeOK' /\ AnsweredInTurn' /\ InFlight'
        BY <1>3, <2>1 DEF Die, oracleVars, OracleInv, TypeOK, AnsweredInTurn, InFlight, Out
    <2> QED BY <2>2 DEF OracleInv
  <1>4. CASE Hang
    <2>1. faults' \in 0 .. MaxFaults
        BY <1>0, <1>4 DEF Hang, Faults
    <2>2. TypeOK' /\ AnsweredInTurn' /\ InFlight'
        BY <1>4, <2>1 DEF Hang, OracleInv, TypeOK, AnsweredInTurn, InFlight, Out
    <2> QED BY <2>2 DEF OracleInv
  <1>5. CASE StopMidLine
    <2>1. faults' \in 0 .. MaxFaults
        BY <1>0, <1>5 DEF StopMidLine, Faults
    <2>2. known' \subseteq Roots /\ stuck' \in BOOLEAN
        BY <1>5 DEF StopMidLine, OracleInv, TypeOK
    <2> QED BY <1>5, <2>1, <2>2, ReplyKeeps DEF StopMidLine, Working
  <1>6. ASSUME NEW kind \in {"garbage", "null"}, WriteNonsense(kind) PROVE OracleInv'
    <2>1. faults' \in 0 .. MaxFaults
        BY <1>0, <1>6 DEF WriteNonsense, Faults
    <2>2. known' \subseteq Roots /\ stuck' \in BOOLEAN
        BY <1>6 DEF WriteNonsense, OracleInv, TypeOK
    <2> QED BY <1>6, <2>1, <2>2, ReplyKeeps DEF WriteNonsense, Working
  <1> QED BY <1>1, <1>2, <1>3, <1>4, <1>5, <1>6 DEF Serve

\* Every step keeps the invariant
LEMMA OracleStep == OracleInv /\ [Next]_vars => OracleInv'
  <1> SUFFICES ASSUME OracleInv, [Next]_vars PROVE OracleInv'
      OBVIOUS
  <1>1. CASE UNCHANGED vars
      BY <1>1 DEF vars, OracleInv, TypeOK, InFlight, Out, AnsweredInTurn
  <1>2. CASE Next
    <2>1. CASE Call \/ Registered \/ NotRegistered \/ Guided \/ Neutral \/ Rejected \/ Raise
        BY <2>1, SearchKeeps
    <2>2. CASE \E kind \in {"register_root", "query"} : Exchange(kind) \/ SlowTimeout(kind)
        BY <2>2, ExchangeKeeps
    <2>3. CASE Serve \/ Die \/ Hang \/ StopMidLine \/ \E kind \in {"garbage", "null"} : WriteNonsense(kind)
        BY <2>3, OracleKeeps
    <2> QED BY <1>2, <2>1, <2>2, <2>3 DEF Next, Search, Misbehave
  <1> QED BY <1>1, <1>2

\* For every set of roots, every mixture of failures and any number of them: what
\* a call of score, decide or propose returns was answered to that very call
THEOREM NeverAStaleAnswer == Spec => [](TypeOK /\ AnsweredInTurn)
  <1>1. OracleInv => TypeOK /\ AnsweredInTurn
      BY DEF OracleInv
  <1> QED BY OracleInitially, OracleStep, <1>1, PTL DEF Spec

-----------------------------------------------------------------------------
(***************************************************************************)
(* What CallEnds rests on: in a call somebody can always go on, but for    *)
(* the three cases of Uncaught, and a call has only so many steps.         *)
(***************************************************************************)
Kinds == {"register_root", "query"}
Within == {"register write", "query write"} \cup
          {"register wait", "query wait"} \cup {"register read", "query read"}

\* There is a process from _ensure_process on; a message is under way while the
\* search waits; select returned for a reason; half a line means a process that hangs.
CallInv ==
  /\ pc \in Within => process # "none"
  /\ pc \in {"register wait", "query wait"} => requests # <<>> \/ answers # <<>>
  /\ pc \in {"register read", "query read"} => answers # <<>> \/ process = "dead"
  /\ answers # <<>> /\ Head(answers).kind = "half" /\ process = "alive" => stuck

\* A guard of the search or of the oracle holds: _exchange can go on, the line that
\* has been read is acted on, or the oracle serves the request.
CanGoOn ==
  \/ \E kind \in Kinds :
       \/ pc = Place(kind)
       \/ pc = Writing(kind) /\ process \in {"alive", "dead"}
       \/ pc = "blocked" /\ process = "dead"
       \/ pc = Waiting(kind) /\ (answers # <<>> \/ process = "dead" \/ (stuck /\ process = "alive"))
       \/ pc = Reading(kind) /\ process = "dead" /\ (answers # <<>> => Head(answers).kind = "half")
  \/ Line("register_root")
  \/ Line("query") /\ \/ Head(answers).kind \in {"good", "garbage", "null"}
                      \/ /\ Head(answers).kind \in {"ready", "error"}
                         /\ client \in {"score", "decide", "propose"}
  \/ Working /\ Head(requests).kind \in Kinds

\* No call waits for something that cannot come, except where fail-open does not reach.
CallGoesOn == pc # "idle" => CanGoOn \/ Uncaught

\* A call that failed is outside of _exchange and its pipes are gone.
LEMMA FailOpenClears == ASSUME FailOpen PROVE CallInv'
  BY DEF FailOpen, CloseProcess, CallInv, Within

\* Every step keeps CallInv: each place of a call is entered for a reason that stays.
LEMMA CallStep ==
  ASSUME OracleInv, CallInv, [Next]_vars
  PROVE  CallInv'
  <1> USE DEF Place, Writing, Waiting, Reading, Within, CallInv
  <1>1. CASE Call
    <2>1. answers = <<>>
        BY <1>1, OneMessage DEF Call, Out
    <2> QED BY <1>1, <2>1 DEF Call, oracleVars
  <1>2. ASSUME NEW kind \in Kinds, Exchange(kind) \/ SlowTimeout(kind) PROVE CallInv'
    <2>1. CASE Ensure(kind)
      <3>1. answers = <<>> /\ answers' = <<>>
          BY <2>1, OneMessage DEF Ensure, EnsureProcess, Out, Kinds
      <3> QED BY <2>1, <3>1 DEF Ensure, EnsureProcess, Kinds
    <2>2. CASE Write(kind)
      <3>1. requests' # <<>>
        <4>1. requests = <<>>
            BY <2>2, OneMessage DEF Write, Out, Kinds
        <4> DEFINE q == [kind |-> kind, root |-> root, call |-> call]
        <4>2. requests' = Append(<<>>, q)
            BY <2>2, <4>1 DEF Write
        <4> HIDE DEF q
        <4>3. q \in {q}
            OBVIOUS
        <4> QED BY <4>2, <4>3, OneElement
      <3> QED BY <2>2, <3>1 DEF Write, Kinds
    <2>3. CASE FillPipe(kind)
        BY <2>3 DEF FillPipe, oracleVars, Kinds
    <2>4. CASE BrokenPipe(kind) \/ Timeout(kind) \/ EndOfFile(kind) \/ SlowTimeout(kind)
      <3>1. FailOpen
          BY <2>4 DEF BrokenPipe, Timeout, SlowTimeout, TimedOut, EndOfFile
      <3> QED BY <3>1, FailOpenClears
    <2>5. CASE Select(kind)
        BY <2>5 DEF Select, oracleVars, Kinds
    <2> QED BY <1>2, <2>1, <2>2, <2>3, <2>4, <2>5 DEF Exchange
  <1>3. CASE NotRegistered \/ Rejected
    <2>1. FailOpen
        BY <1>3 DEF NotRegistered, Rejected
    <2> QED BY <2>1, FailOpenClears
  <1>4. CASE Registered \/ Guided \/ Neutral \/ Raise
    <2>1. answers' = <<>>
        BY <1>4, OneMessage DEF Registered, Guided, Neutral, Raise, Line
    <2>2. pc' \in {"idle", "query", "raised"}
        BY <1>4 DEF Registered, Guided, Neutral, Raise
    <2> QED BY <2>1, <2>2
  <1>5. ASSUME NEW kind, Reply(kind), requests # <<>>, pc' = pc, process' = process,
               kind = "half" => stuck'
        PROVE  CallInv'
    <2> DEFINE a == [kind |-> kind, call |-> Head(requests).call]
    <2>1. answers = <<>> /\ answers' = Append(answers, a)
        BY <1>5, OneMessage DEF Reply
    <2>2. a.kind = kind /\ a \in {a}
        OBVIOUS
    <2> HIDE DEF a
    <2>3. answers' # <<>> /\ Head(answers') = a
        BY <2>1, <2>2, OneElement
    <2> QED BY <1>5, <2>2, <2>3
  <1>6. CASE Serve
    <2>1. /\ requests # <<>> /\ pc' = pc /\ process' = process
          /\ Reply("ready") \/ Reply("good") \/ Reply("error")
        BY <1>6 DEF Serve, ServeRegister, ServeQuery, Working
    <2>2. "ready" # "half" /\ "good" # "half" /\ "error" # "half"
        OBVIOUS
    <2> QED BY <1>5, <2>1, <2>2
  <1>7. CASE StopMidLine \/ \E kind \in {"garbage", "null"} : WriteNonsense(kind)
    <2>1. CASE StopMidLine
        BY <1>5, <2>1 DEF StopMidLine, Working
    <2>2. ASSUME NEW kind \in {"garbage", "null"}, WriteNonsense(kind) PROVE CallInv'
        BY <1>5, <2>2 DEF WriteNonsense, Working
    <2> QED BY <1>7, <2>1, <2>2
  <1>8. CASE Die
      BY <1>8 DEF Die, oracleVars
  <1>9. CASE Hang
      BY <1>9 DEF Hang
  <1>10. CASE UNCHANGED vars
      BY <1>10 DEF vars
  <1> QED
      BY <1>1, <1>2, <1>3, <1>4, <1>6, <1>7, <1>8, <1>9, <1>10 DEF Next, Search, Misbehave, Kinds

\* In every place of a call a guard holds or the call is one of the three cases.
LEMMA GuardHolds ==
  ASSUME OracleInv, CallInv
  PROVE  CallGoesOn
  <1> USE DEF Place, Writing, Waiting, Reading, Kinds, Within, CallInv
  <1>1. /\ pc \in Places /\ process \in {"none", "alive", "dead"} /\ stuck \in BOOLEAN
        /\ client \in {"score", "decide", "propose"}
      BY OracleAssumption DEF OracleInv, TypeOK
  <1>2. requests # <<>> => Head(requests).kind \in Kinds
      BY OneMessage DEF Requests
  <1>3. answers # <<>> => Head(answers).kind \in {"ready", "good", "error", "garbage", "null", "half"}
      BY OneMessage DEF Answers
  <1>4. CASE pc \in {"register", "query"}
      BY <1>4 DEF CallGoesOn, CanGoOn
  <1>5. CASE pc \in {"register write", "query write"}
      BY <1>1, <1>5 DEF CallGoesOn, CanGoOn
  <1>6. CASE pc \in {"register wait", "query wait"}
    <2>1. CASE answers # <<>> \/ process = "dead" \/ (stuck /\ process = "alive")
        BY <1>6, <2>1 DEF CallGoesOn, CanGoOn
    <2>2. CASE answers = <<>> /\ process # "dead" /\ ~(stuck /\ process = "alive")
      <3>1. requests # <<>> /\ process = "alive" /\ ~stuck
          BY <1>1, <1>6, <2>2
      <3> QED BY <1>2, <3>1 DEF CallGoesOn, CanGoOn, Working
    <2> QED BY <2>1, <2>2
  <1>7. CASE pc \in {"register read", "query read"}
    <2>1. CASE process = "dead" /\ (answers # <<>> => Head(answers).kind = "half")
        BY <1>7, <2>1 DEF CallGoesOn, CanGoOn
    <2>2. CASE answers # <<>> /\ Head(answers).kind # "half"
        BY <1>1, <1>3, <1>7, <2>2 DEF CallGoesOn, CanGoOn, Line
    <2>3. CASE process # "dead" /\ answers # <<>> /\ Head(answers).kind = "half"
      <3>1. process = "alive" /\ stuck
          BY <1>1, <1>7, <2>3
      <3> QED BY <2>3, <3>1 DEF CallGoesOn, Uncaught
    <2> QED BY <1>7, <2>1, <2>2, <2>3
  <1>8. CASE pc \in {"raised", "blocked"}
      BY <1>8 DEF CallGoesOn, Uncaught
  <1> QED BY <1>1, <1>4, <1>5, <1>6, <1>7, <1>8 DEF Places, CallGoesOn

\* The places a call still goes through at most
PlacesLeft ==
  CASE pc = "register" -> 9
    [] pc = "register write" -> 8
    [] pc = "register wait" -> 7
    [] pc = "register read" -> 6
    [] pc = "query" -> 5
    [] pc = "query write" -> 4
    [] pc = "query wait" -> 3
    [] pc = "query read" -> 2
    [] pc = "blocked" -> 1
    [] OTHER -> 0

\* A place counts for two steps: a request is written in one and served in another.
CallLeft == 2 * PlacesLeft + Len(requests)

\* Within a call every step lowers CallLeft, or is a fault and does not raise it.
CallCountsDown ==
  pc # "idle" => \/ CallLeft' < CallLeft
                 \/ faults' = faults + 1 /\ CallLeft' <= CallLeft

\* The numbers, and what taking a message or closing the pipes does to them
LEMMA CallNumbers ==
  ASSUME TypeOK
  PROVE  /\ PlacesLeft \in Nat /\ Len(requests) \in Nat /\ CallLeft \in Nat
         /\ requests # <<>> => Len(Tail(requests)) = Len(requests) - 1
  <1>1. PlacesLeft \in Nat
      BY DEF PlacesLeft
  <1>2. Len(requests) \in Nat
      BY DEF TypeOK
  <1>3. requests # <<>> => Len(Tail(requests)) = Len(requests) - 1
      BY DEF TypeOK
  <1> QED BY <1>1, <1>2, <1>3 DEF CallLeft

\* Leaving a call for good
LEMMA CallLeaves ==
  ASSUME TypeOK, pc \in Places \ {"idle", "raised"}, pc' \in {"idle", "raised"},
         Len(requests') \in Nat, Len(requests') <= Len(requests)
  PROVE  CallLeft' < CallLeft
  <1>1. PlacesLeft' = 0
      BY DEF PlacesLeft
  <1>2. PlacesLeft \in 1 .. 9
    <2>1. PlacesLeft \in {1, 2, 3, 4, 5, 6, 7, 8, 9}
        BY DEF PlacesLeft, Places
    <2> QED BY <2>1
  <1> QED BY <1>1, <1>2, CallNumbers DEF CallLeft

\* One step of a call
LEMMA CallStepCounts ==
  ASSUME OracleInv, OracleInv', Next, pc # "idle"
  PROVE  CallLeft' < CallLeft \/ (faults' = faults + 1 /\ CallLeft' <= CallLeft)
  <1> USE DEF Place, Writing, Waiting, Reading
  <1>0. /\ PlacesLeft \in Nat /\ Len(requests) \in Nat /\ CallLeft = 2 * PlacesLeft + Len(requests)
        /\ PlacesLeft' \in Nat /\ Len(requests') \in Nat
        /\ CallLeft' = 2 * PlacesLeft' + Len(requests')
    <2>1. PlacesLeft' \in Nat
        BY DEF PlacesLeft
    <2>2. Len(requests') \in Nat
        BY DEF OracleInv, TypeOK
    <2> QED BY <2>1, <2>2, CallNumbers DEF OracleInv, CallLeft
  <1>1. ASSUME FailOpen, pc \in Places \ {"idle", "raised"} PROVE CallLeft' < CallLeft
    <2>1. pc' = "idle" /\ requests' = <<>>
        BY <1>1 DEF FailOpen, CloseProcess
    <2>2. Len(requests') <= Len(requests)
        BY <1>0, <2>1
    <2> QED BY <1>0, <1>1, <2>1, <2>2, CallLeaves DEF OracleInv
  <1>2. ASSUME NEW kind \in Kinds, Exchange(kind) \/ SlowTimeout(kind) PROVE CallLeft' < CallLeft
    <2>1. CASE Ensure(kind)
      <3>1. (PlacesLeft = 9 /\ PlacesLeft' = 8) \/ (PlacesLeft = 5 /\ PlacesLeft' = 4)
          BY <2>1 DEF Ensure, Kinds, PlacesLeft
      <3>2. Len(requests') <= Len(requests)
        <4>1. requests' = <<>> \/ requests' = requests
            BY <2>1 DEF Ensure, EnsureProcess
        <4> QED BY <1>0, <4>1
      <3> QED BY <1>0, <3>1, <3>2
    <2>2. CASE Write(kind)
      <3>1. (PlacesLeft = 8 /\ PlacesLeft' = 7) \/ (PlacesLeft = 4 /\ PlacesLeft' = 3)
          BY <2>2 DEF Write, Kinds, PlacesLeft
      <3>2. Len(requests') = Len(requests) + 1
        <4> DEFINE q == [kind |-> kind, root |-> root, call |-> call]
        <4>1. requests' = Append(requests, q) /\ requests \in Seq(Requests)
            BY <2>2 DEF Write, OracleInv, TypeOK
        <4>2. q \in Requests
            BY DEF OracleInv, TypeOK, Requests, Kinds
        <4> HIDE DEF q
        <4> QED BY <4>1, <4>2
      <3> QED BY <1>0, <3>1, <3>2
    <2>3. CASE FillPipe(kind)
      <3>1. PlacesLeft \in {8, 4} /\ PlacesLeft' = 1
          BY <2>3 DEF FillPipe, Kinds, PlacesLeft
      <3>2. requests' = requests
          BY <2>3 DEF FillPipe, oracleVars
      <3> QED BY <1>0, <3>1, <3>2
    <2>4. CASE BrokenPipe(kind) \/ Timeout(kind) \/ EndOfFile(kind) \/ SlowTimeout(kind)
      <3>1. FailOpen /\ pc \in Places \ {"idle", "raised"}
          BY <2>4 DEF BrokenPipe, Timeout, SlowTimeout, TimedOut, EndOfFile, Places, Kinds
      <3> QED BY <1>1, <3>1
    <2>5. CASE Select(kind)
      <3>1. (PlacesLeft = 7 /\ PlacesLeft' = 6) \/ (PlacesLeft = 3 /\ PlacesLeft' = 2)
          BY <2>5 DEF Select, Kinds, PlacesLeft
      <3>2. requests' = requests
          BY <2>5 DEF Select, oracleVars
      <3> QED BY <1>0, <3>1, <3>2
    <2> QED BY <1>2, <2>1, <2>2, <2>3, <2>4, <2>5 DEF Exchange
  <1>3. CASE NotRegistered \/ Rejected
    <2>1. FailOpen /\ pc \in Places \ {"idle", "raised"}
        BY <1>3 DEF NotRegistered, Rejected, Line, Places
    <2> QED BY <1>1, <2>1
  <1>4. CASE Registered
    <2>1. PlacesLeft = 6 /\ PlacesLeft' = 5 /\ requests' = requests
        BY <1>4 DEF Registered, Line, PlacesLeft
    <2> QED BY <1>0, <2>1
  <1>5. CASE Guided \/ Neutral \/ Raise
    <2>1. pc \in Places \ {"idle", "raised"} /\ pc' \in {"idle", "raised"} /\ requests' = requests
        BY <1>5 DEF Guided, Neutral, Raise, Line, Places
    <2> QED BY <1>0, <2>1, CallLeaves DEF OracleInv
  <1>6. CASE Serve \/ StopMidLine \/ \E kind \in {"garbage", "null"} : WriteNonsense(kind)
    <2>1. pc' = pc /\ requests # <<>> /\ requests' = Tail(requests)
        BY <1>6 DEF Serve, ServeRegister, ServeQuery, StopMidLine, WriteNonsense, Working, Reply
    <2>2. Len(requests') = Len(requests) - 1
        BY <2>1, CallNumbers DEF OracleInv
    <2>3. PlacesLeft' = PlacesLeft
        BY <2>1 DEF PlacesLeft
    <2> QED BY <1>0, <2>2, <2>3
  <1>7. CASE Die \/ Hang
    <2>1. faults' = faults + 1 /\ pc' = pc /\ requests' = requests
        BY <1>7 DEF Die, Hang, Fault, oracleVars
    <2>2. PlacesLeft' = PlacesLeft
        BY <2>1 DEF PlacesLeft
    <2> QED BY <1>0, <2>1, <2>2
  <1>8. ~Call
      BY DEF Call
  <1> QED BY <1>2, <1>3, <1>4, <1>5, <1>6, <1>7, <1>8 DEF Next, Search, Misbehave, Kinds

LEMMA CallInvariant == Spec => [](OracleInv /\ CallInv)
  <1>1. Init => CallInv
      BY DEF Init, CallInv, Within
  <1> QED BY <1>1, OracleInitially, OracleStep, CallStep, PTL DEF Spec

\* Wherever a call waits, what it waits for is there or is owed by somebody who can
\* still deliver it, unless the write fills the pipe of an oracle that hangs, the
\* oracle hangs in the middle of a line, or a null ended the search: the timeout of
\* select and the end of the pipe reach every other case.
THEOREM CallsNeverWait == Spec => []CallGoesOn
  <1>1. OracleInv /\ CallInv => CallGoesOn
      BY GuardHolds
  <1> QED BY <1>1, CallInvariant, PTL

\* A call has finitely many steps between one fault of the oracle and the next: no
\* answer, however wrong, makes it start over.
THEOREM CallsAreFinite == Spec => [](CallLeft \in Nat) /\ [][CallCountsDown]_vars
  <1>1. OracleInv => CallLeft \in Nat
      BY CallNumbers DEF OracleInv
  <1>2. OracleInv /\ OracleInv' /\ [Next]_vars => [CallCountsDown]_vars
      BY CallStepCounts DEF CallCountsDown
  <1> QED BY <1>1, <1>2, CallInvariant, PTL DEF Spec

=============================================================================
