------------------------- MODULE DeviceProtocolProofs -------------------------
(***************************************************************************)
(* What a device does with a manifest that verify_device_protocol passed,  *)
(* for manifests of any length, any number of queues and any values.  The  *)
(* manifests are Precise: DeviceRace shows that a manifest with two        *)
(* signals for one wait is passed and races.                               *)
(***************************************************************************)
EXTENDS DeviceProtocol, WellFoundedInduction, TLAPS

Signalled(k) == Op(k).signal.value

\* A dependency is respected when its second operation has begun (is in S) only
\* after its first one was complete (in D)
Respected(edges, S, D) == \A e \in edges : e[2] \in S => e[1] \in D

OrderingEdges(m) == QueueEdges(m) \cup TimelineEdges(m)

\* No wait that follows the signal s has begun
Pending(s) ==
  /\ Signals(manifest, s, "binary")
  /\ \A w \in started : Waits(manifest, w, "binary") => w <= s

DeviceInv ==
  /\ Precise(manifest) /\ QueueVerified(manifest)
  /\ started \subseteq Ops(manifest) /\ done \subseteq started
  /\ value \in Nat
  /\ Respected(ExecutionEdges(manifest), started, done)
  \* the timeline has the greatest value that was signalled
  /\ value = 0 \/ \E k \in done : Signals(manifest, k, "timeline") /\ Signalled(k) = value
  /\ \A k \in done : Signals(manifest, k, "timeline") => Signalled(k) <= value
  \* the binary semaphore is raised by a signal that is not waited for yet
  /\ raised <=> \E s \in done : Pending(s)
  /\ writer # 0 => writer \in done /\ Writes(Op(writer).mode)
  /\ owner = IF \E i \in started : TakesOver(i) THEN manifest.transfer.to ELSE manifest.owner

-----------------------------------------------------------------------------
\* A set of numbers has a least one.
LEMMA LeastNumber ==
  ASSUME NEW S \in SUBSET Nat, S # {}
  PROVE  \E n \in S : \A k \in S : n <= k
<1>. DEFINE R == OpToRel(<, Nat)
<1>1. \A k, n \in Nat : k < n => <<k, n>> \in R
  BY DEF OpToRel
<1>2. IsWellFoundedOn(R, Nat)
  BY NatLessThanWellFounded
<1>. HIDE DEF R
<1>3. PICK n \in S : \A k \in S : <<k, n>> \notin R
  BY <1>2, WFMin
<1>4. \A k \in S : ~(k < n)
  BY <1>1, <1>3
<1>. QED
  BY <1>4

\* With one producer, a timeline wait has the edge from it.
LEMMA LatestIsProducer ==
  ASSUME NEW m, Counted(m), OneProducer(m), NEW i \in Ops(m), Waits(m, i, "timeline"),
         Producers(m, i) # {}
  PROVE  Latest(Producers(m, i)) \in Producers(m, i)
<1>1. PICK p \in Producers(m, i) : \A j \in Producers(m, i) : j <= p
  BY DEF OneProducer, Counted, Producers
<1>. QED
  BY <1>1 DEF Latest

\* Before a wait of a verified manifest one signal is not consumed.
LEMMA OneOutstanding ==
  ASSUME NEW m, Counted(m), BinaryOK(m), NEW i \in Ops(m), Unconsumed(m, i) # {}
  PROVE  /\ Outstanding(m, i) \in Unconsumed(m, i)
         /\ \A s \in Unconsumed(m, i) : s = Outstanding(m, i)
<1>1. ASSUME NEW s \in Unconsumed(m, i), NEW t \in Unconsumed(m, i), s < t
      PROVE  FALSE
  <2>1. s \in Unconsumed(m, t) /\ ~Waits(m, t, "binary")
    BY <1>1 DEF Unconsumed, Counted
  <2>. QED
    BY <1>1, <2>1 DEF BinaryOK, Unconsumed
<1>2. \A s, t \in Unconsumed(m, i) : s = t
  BY <1>1 DEF Unconsumed, Counted
<1>3. \E s \in Unconsumed(m, i) : \A t \in Unconsumed(m, i) : s <= t
  BY <1>2 DEF Unconsumed, Counted
<1>. QED
  BY <1>2, <1>3 DEF Outstanding

\* Dependencies lead to a later operation.
LEMMA EdgesForward ==
  ASSUME NEW m, Precise(m), BinaryOK(m)
  PROVE  ExecutionEdges(m) \subseteq Forward(m)
<1>1. QueueEdges(m) \subseteq Forward(m)
  BY DEF QueueEdges, Forward
<1>2. ASSUME NEW i \in Ops(m), Waits(m, i, "timeline"), Producers(m, i) # {}
      PROVE  <<Latest(Producers(m, i)), i>> \in Forward(m)
  <2>1. Latest(Producers(m, i)) \in Producers(m, i)
    BY <1>2, LatestIsProducer DEF Precise
  <2>. QED
    BY <2>1 DEF Producers, Forward
<1>3. TimelineEdges(m) \subseteq Forward(m)
  BY <1>2 DEF TimelineEdges
<1>4. BinaryEdges(m) \subseteq Forward(m)
  BY OneOutstanding DEF BinaryEdges, Forward, Unconsumed, Precise
<1>. QED
  BY <1>1, <1>3, <1>4 DEF ExecutionEdges

\* When some dependencies are respected, so is all that follows from them.
LEMMA ClosureRespected ==
  ASSUME NEW m, Counted(m), NEW edges \in SUBSET Forward(m), NEW S, NEW D \in SUBSET S,
         Respected(edges, S, D)
  PROVE  Respected(Closure(m, edges), S, D)
<1>. DEFINE R == {e \in Forward(m) : e[2] \in S => e[1] \in D}
<1>1. edges \subseteq R
  BY DEF Respected
<1>2. Transitive(R)
  <2>. SUFFICES ASSUME NEW d \in R, NEW e \in R, d[2] = e[1] PROVE <<d[1], e[2]>> \in R
    BY DEF Transitive
  <2>1. <<d[1], e[2]>> \in Forward(m)
    BY DEF Forward, Counted
  <2>. QED
    BY <2>1
<1>. QED
  BY <1>1, <1>2 DEF Closure, Respected

\* When the queues and the timeline are respected, the signals and waits of a
\* semaphore happen in the order of the manifest.
LEMMA SemaphoreOrder ==
  ASSUME NEW m, Precise(m), BinaryOK(m), NEW S, NEW D \in SUBSET S,
         Respected(OrderingEdges(m), S, D),
         NEW i \in Ops(m), NEW j \in Ops(m), i < j, j \in S,
         \/ Signals(m, i, "timeline") /\ Signals(m, j, "timeline")
         \/ Uses(m, i, "binary") /\ Signals(m, j, "binary")
         \/ Waits(m, i, "binary") /\ Waits(m, j, "binary")
  PROVE  i \in D
<1>1. <<i, j>> \in Closure(m, OrderingEdges(m))
  BY DEF Precise, Ordered, OrderingEdges
<1>2. OrderingEdges(m) \subseteq Forward(m)
  BY EdgesForward DEF OrderingEdges, ExecutionEdges
<1>. QED
  BY <1>1, <1>2, ClosureRespected DEF Respected, Precise

-----------------------------------------------------------------------------
\* The invariant holds when a verified manifest is submitted.
LEMMA InvInit ==
  ASSUME \A m \in Manifests : Precise(m), Init
  PROVE  DeviceInv
<1>1. ~\E i \in started : TakesOver(i)
  BY DEF Init
<1>. QED
  BY <1>1 DEF Init, DeviceInv, Respected

\* An operation begins only after all it depends on in its queue.
LEMMA QueueRespected ==
  ASSUME DeviceInv, NEW i \in Ops(manifest), Startable(i),
         NEW e \in QueueEdges(manifest), e[2] = i
  PROVE  e[1] \in done
  BY DEF Startable, QueueEdges, Op

\* A timeline wait goes on only after its producer is complete.
LEMMA TimelineRespected ==
  ASSUME DeviceInv, NEW i \in Ops(manifest), Startable(i),
         NEW e \in TimelineEdges(manifest), e[2] = i
  PROVE  e[1] \in done
<1>. DEFINE p == Latest(Producers(manifest, i))
<1>1. Waits(manifest, i, "timeline") /\ Producers(manifest, i) # {} /\ e[1] = p
  BY DEF TimelineEdges
<1>2. p \in Producers(manifest, i)
  BY <1>1, LatestIsProducer DEF DeviceInv, Precise
<1>. HIDE DEF p
<1>3. value >= Op(i).wait.value /\ Op(i).wait.value \in Nat \ {0}
  BY <1>1 DEF Startable, Satisfied, DeviceInv, Precise, Counted, Op
<1>4. PICK k \in done : Signals(manifest, k, "timeline") /\ Signalled(k) = value
  BY <1>3 DEF DeviceInv
<1>5. i \notin started /\ k \in started /\ k \in Ops(manifest) /\ k # i
  BY DEF Startable, DeviceInv
<1>6. CASE k < i
  BY <1>1, <1>2, <1>3, <1>4, <1>5, <1>6 DEF Producers, DeviceInv, Precise, OneProducer, Signalled, Op
<1>7. CASE k > i
  <2>1. p \in Ops(manifest) /\ p < k /\ Signals(manifest, p, "timeline")
    BY <1>2, <1>5, <1>7 DEF Producers, DeviceInv, Precise, Counted
  <2>2. Respected(OrderingEdges(manifest), started, done)
    BY DEF DeviceInv, Respected, OrderingEdges, ExecutionEdges
  <2>. QED
    BY <1>1, <1>4, <1>5, <2>1, <2>2, SemaphoreOrder DEF DeviceInv, QueueVerified
<1>. QED
  BY <1>5, <1>6, <1>7 DEF DeviceInv, Precise, Counted

\* A binary wait goes on only after the signal that it consumes.
LEMMA BinaryRespected ==
  ASSUME DeviceInv, NEW i \in Ops(manifest), Startable(i),
         NEW e \in BinaryEdges(manifest), e[2] = i
  PROVE  e[1] \in done
<1>. DEFINE p == Outstanding(manifest, i)
<1>1. Waits(manifest, i, "binary") /\ Unconsumed(manifest, i) # {} /\ e[1] = p
  BY DEF BinaryEdges
<1>2. p \in Unconsumed(manifest, i) /\ \A s \in Unconsumed(manifest, i) : s = p
  BY <1>1, OneOutstanding DEF DeviceInv, Precise, QueueVerified
<1>. HIDE DEF p
<1>3. PICK s \in done : Pending(s)
  BY <1>1 DEF Startable, Satisfied, DeviceInv
<1>4. /\ p \in Ops(manifest) /\ p < i /\ Signals(manifest, p, "binary")
      /\ s \in Ops(manifest) /\ s \in started /\ s # i /\ Signals(manifest, s, "binary")
      /\ i \notin started
  BY <1>2, <1>3 DEF Unconsumed, Pending, DeviceInv, Startable
<1>5. Precise(manifest) /\ BinaryOK(manifest) /\ Ops(manifest) \subseteq Nat /\ done \subseteq started
  BY DEF DeviceInv, QueueVerified, Precise, Counted
<1>6. Respected(OrderingEdges(manifest), started, done)
  BY DEF DeviceInv, Respected, OrderingEdges, ExecutionEdges
<1>7. s < i
  BY <1>1, <1>4, <1>5, <1>6, SemaphoreOrder DEF Uses
<1>8. CASE p < s
  BY <1>1, <1>4, <1>5, <1>6, <1>8, SemaphoreOrder DEF Uses
<1>9. CASE s < p
  \* a wait between the two has consumed s, and is ordered before this one
  <2>1. PICK k \in Ops(manifest) : s < k /\ k < i /\ Waits(manifest, k, "binary")
    BY <1>2, <1>4, <1>5, <1>7, <1>9 DEF Unconsumed
  <2>2. Respected(OrderingEdges(manifest), started \cup {i}, done)
    BY <1>6, QueueRespected, TimelineRespected DEF Respected, OrderingEdges
  <2>3. k \in done
    BY <1>1, <1>5, <2>1, <2>2, SemaphoreOrder
  <2>. QED
    BY <1>3, <1>4, <1>5, <2>1, <2>3 DEF Pending
<1>. QED
  BY <1>1, <1>3, <1>4, <1>5, <1>8, <1>9

-----------------------------------------------------------------------------
\* In every state of the invariant the signals and waits of a semaphore happen in
\* the order of the manifest.
LEMMA InOrder ==
  ASSUME DeviceInv, NEW i \in Ops(manifest), NEW j \in Ops(manifest), i < j, j \in started,
         \/ Signals(manifest, i, "timeline") /\ Signals(manifest, j, "timeline")
         \/ Uses(manifest, i, "binary") /\ Signals(manifest, j, "binary")
         \/ Waits(manifest, i, "binary") /\ Waits(manifest, j, "binary")
  PROVE  i \in done
<1>1. Respected(OrderingEdges(manifest), started, done)
  BY DEF DeviceInv, Respected, OrderingEdges, ExecutionEdges
<1>. QED
  BY <1>1, SemaphoreOrder DEF DeviceInv, QueueVerified

\* An operation that begins keeps the invariant.
LEMMA StartKeeps ==
  ASSUME DeviceInv, NEW i \in Ops(manifest), Start(i)
  PROVE  DeviceInv'
<1>. USE DEF Start
<1>1. /\ started' = started \cup {i} /\ UNCHANGED <<manifest, done, value, writer>>
      /\ Startable(i) /\ i \notin started
      /\ Ops(manifest) \subseteq Nat
  BY DEF Startable, DeviceInv, Precise, Counted
<1>2. Respected(ExecutionEdges(manifest), started', done)
  BY <1>1, QueueRespected, TimelineRespected, BinaryRespected
  DEF DeviceInv, Respected, ExecutionEdges
<1>3. (raised <=> \E s \in done : Pending(s))'
  <2>1. CASE ~Waits(manifest, i, "binary")
    BY <1>1, <2>1 DEF DeviceInv, Pending
  <2>2. CASE Waits(manifest, i, "binary")
    <3>1. ASSUME NEW s \in done, Signals(manifest, s, "binary"), i <= s
          PROVE  FALSE
      BY <1>1, <2>2, <3>1, InOrder DEF DeviceInv, Uses
    <3>. QED
      BY <1>1, <2>2, <3>1 DEF Pending
  <2>. QED
    BY <2>1, <2>2
<1>4. (owner = IF \E k \in started : TakesOver(k) THEN manifest.transfer.to ELSE manifest.owner)'
  <2>1. (\E k \in started : TakesOver(k))' <=> TakesOver(i) \/ \E k \in started : TakesOver(k)
    BY <1>1 DEF TakesOver
  <2>. QED
    BY <1>1, <2>1 DEF DeviceInv
<1>. QED
  BY <1>1, <1>2, <1>3, <1>4 DEF DeviceInv, Signalled, Op

\* An operation that ends keeps the invariant.
LEMMA CompleteKeeps ==
  ASSUME DeviceInv, NEW i \in Ops(manifest), Complete(i)
  PROVE  DeviceInv'
<1>1. /\ done' = done \cup {i} /\ UNCHANGED <<manifest, started, owner>>
      /\ i \in started /\ i \notin done
      /\ Ops(manifest) \subseteq Nat
      /\ done \subseteq Ops(manifest) /\ done \subseteq started /\ started \subseteq Ops(manifest)
  BY DEF Complete, DeviceInv, Precise, Counted
<1>2. Respected(ExecutionEdges(manifest), started, done')
  BY <1>1 DEF DeviceInv, Respected
<1>3. /\ value' \in Nat
      /\ value' = 0 \/ \E k \in done' : Signals(manifest, k, "timeline") /\ Signalled(k) = value'
      /\ \A k \in done' : Signals(manifest, k, "timeline") => Signalled(k) <= value'
  <2>1. CASE ~Signals(manifest, i, "timeline")
    BY <1>1, <2>1 DEF Complete, DeviceInv
  <2>2. CASE Signals(manifest, i, "timeline")
    <3>1. value' = Signalled(i) /\ Signalled(i) \in Nat
      BY <2>2 DEF Complete, Signalled, Op, DeviceInv, Precise, Counted
    <3>2. ASSUME NEW k \in done, Signals(manifest, k, "timeline")
          PROVE  Signalled(k) \in Nat /\ Signalled(k) < Signalled(i)
      <4>1. k < i
        BY <1>1, <2>2, <3>2, InOrder
      <4>. QED
        BY <1>1, <2>2, <3>2, <4>1 DEF Signalled, Op, DeviceInv, Precise, Counted, QueueVerified, TimelineOK
    <3>. QED
      BY <1>1, <2>2, <3>1, <3>2
  <2>. QED
    BY <2>1, <2>2
<1>4. raised' <=> \E s \in done' : Pending(s)
  <2>1. CASE ~Signals(manifest, i, "binary")
    BY <1>1, <2>1 DEF Complete, DeviceInv, Pending
  <2>2. CASE Signals(manifest, i, "binary")
    \* a wait after i has its own signal, which is not complete before i is
    <3>1. ASSUME NEW w \in started, Waits(manifest, w, "binary"), i < w
          PROVE  FALSE
      <4>. DEFINE p == Outstanding(manifest, w)
      <4>1. Unconsumed(manifest, w) # {} /\ p \in Unconsumed(manifest, w)
        BY <1>1, <3>1, OneOutstanding DEF DeviceInv, Precise, QueueVerified, BinaryOK
      <4>2. <<p, w>> \in ExecutionEdges(manifest)
        BY <1>1, <3>1, <4>1 DEF BinaryEdges, ExecutionEdges
      <4>. HIDE DEF p
      <4>3. p \in done
        BY <4>2 DEF DeviceInv, Respected
      <4>4. /\ p \in Ops(manifest) /\ p < w /\ Signals(manifest, p, "binary")
            /\ \A k \in Ops(manifest) : p < k /\ k < w => ~Waits(manifest, k, "binary")
        BY <4>1 DEF Unconsumed
      <4>5. p < i
        <5>1. p \in started /\ p # i /\ Uses(manifest, i, "binary")
          BY <1>1, <2>2, <4>3 DEF Uses
        <5>2. ~(i < p)
          BY <1>1, <4>4, <5>1, InOrder
        <5>. QED
          BY <1>1, <4>4, <5>1, <5>2
      <4>6. \A k \in Ops(manifest) : p < k /\ k <= i => ~Waits(manifest, k, "binary")
        BY <1>1, <3>1, <4>4
      <4>7. p \in Unconsumed(manifest, i) /\ ~Waits(manifest, i, "binary")
        BY <1>1, <4>4, <4>5, <4>6 DEF Unconsumed
      <4>. QED
        BY <2>2, <4>7 DEF DeviceInv, QueueVerified, BinaryOK
    <3>2. Pending(i)
      BY <1>1, <2>2, <3>1 DEF Pending
    <3>3. raised'
      BY <2>2, Zenon DEF Complete
    <3>. QED
      BY <1>1, <3>2, <3>3 DEF Pending
  <2>. QED
    BY <2>1, <2>2
<1>5. writer' # 0 => writer' \in done' /\ Writes(Op(writer').mode)
  BY <1>1 DEF Complete, DeviceInv
<1>. QED
  BY <1>1, <1>2, <1>3, <1>4, <1>5 DEF DeviceInv, Signalled, Op, Pending, TakesOver

LEMMA InvNext == DeviceInv /\ [Next]_vars => DeviceInv'
<1>1. ASSUME DeviceInv, UNCHANGED vars PROVE DeviceInv'
  BY <1>1 DEF DeviceInv, vars, Signalled, Op, Pending, TakesOver
<1>. QED
  BY <1>1, StartKeeps, CompleteKeeps DEF Next

-----------------------------------------------------------------------------
\* A hazard of the manifest is a dependency that is respected.
LEMMA HazardRespected ==
  ASSUME DeviceInv, NEW i \in Ops(manifest), NEW j \in Ops(manifest), Hazard(manifest, i, j),
         j \in started
  PROVE  i \in done
<1>1. ExecutionEdges(manifest) \subseteq Forward(manifest)
  BY EdgesForward DEF DeviceInv, QueueVerified
<1>2. Respected(Closure(manifest, ExecutionEdges(manifest)), started, done)
  BY <1>1, ClosureRespected DEF DeviceInv, Precise
<1>. QED
  BY <1>2 DEF DeviceInv, QueueVerified, HazardsOK, Respected

\* Every precise manifest that verify_device_protocol passes runs with its
\* conflicting uses in order, on any number of queues and however they interleave
\* (queue.hazards.complete).
THEOREM HazardsAreOrdered ==
  ASSUME \A m \in Manifests : Precise(m)
  PROVE  Spec => []HazardsOrdered
<1>1. Init => DeviceInv
  BY InvInit
<1>2. DeviceInv => HazardsOrdered
  BY HazardRespected DEF HazardsOrdered
<1>. QED
  BY <1>1, <1>2, InvNext, PTL DEF Spec

\* What an operation reads was written by an operation whose writes the barriers or
\* the wait make visible to it (_scope_covers, _access_covers).
THEOREM ReadsAreVisible ==
  ASSUME \A m \in Manifests : Precise(m)
  PROVE  Spec => []ReadsVisible
<1>1. Init => DeviceInv
  BY InvInit
<1>2. ASSUME DeviceInv, NEW j \in started \ done, Reads(Op(j).mode), writer # 0
      PROVE  Visible(manifest, writer, j)
  <2>1. /\ j \in Ops(manifest) /\ writer \in Ops(manifest) /\ writer # j
        /\ writer \in started /\ Ops(manifest) \subseteq Nat /\ Writes(Op(writer).mode)
    BY <1>2 DEF DeviceInv, Precise, Counted
  <2>2. ~Hazard(manifest, j, writer)
    BY <1>2, <2>1, HazardRespected
  <2>3. Hazard(manifest, writer, j)
    BY <1>2, <2>1, <2>2 DEF Hazard, Reads, Writes, Op
  <2>. QED
    BY <1>2, <2>1, <2>3 DEF DeviceInv, QueueVerified, HazardsOK, Op
<1>3. DeviceInv => ReadsVisible
  BY <1>2 DEF ReadsVisible
<1>. QED
  BY <1>1, <1>3, InvNext, PTL DEF Spec

\* A family other than the declared owner runs on an exclusive resource only after
\* the transfer to it, however the queues interleave (queue.ownership).
THEOREM UsesAreTransferred ==
  ASSUME \A m \in Manifests : Precise(m)
  PROVE  Spec => []UsedOnTransfer
<1>1. Init => DeviceInv
  BY InvInit
<1>2. ASSUME DeviceInv, NEW i \in started \ done, Op(i).mode # "none",
             Op(i).queue # manifest.owner
      PROVE  owner \in {"shared", Op(i).queue}
  <2>. DEFINE dst == manifest.transfer.dst
  <2>1. i \in Ops(manifest) /\ done \subseteq started
    BY <1>2 DEF DeviceInv
  <2>2. Respected(Closure(manifest, ExecutionEdges(manifest)), started, done)
    BY <1>2, EdgesForward, ClosureRespected DEF DeviceInv, QueueVerified, Precise
  <2>3. CASE manifest.owner = "shared"
    BY <1>2, <2>3 DEF DeviceInv, TakesOver
  <2>4. CASE manifest.owner # "shared"
    <3>1. /\ manifest.transfer # None /\ manifest.transfer.to = Op(i).queue
          /\ dst = i \/ <<dst, i>> \in Closure(manifest, ExecutionEdges(manifest))
      BY <1>2, <2>1, <2>4 DEF DeviceInv, QueueVerified, OwnershipOK, Op
    <3>2. dst \in started
      BY <2>1, <2>2, <3>1 DEF Respected
    <3>. QED
      BY <1>2, <2>4, <3>1, <3>2 DEF DeviceInv, TakesOver
  <2>. QED
    BY <2>3, <2>4
<1>3. DeviceInv => UsedOnTransfer
  BY <1>2 DEF UsedOnTransfer
<1>. QED
  BY <1>1, <1>3, InvNext, PTL DEF Spec

-----------------------------------------------------------------------------
\* While an operation is not complete, some operation can begin or is running.
NeverStuck ==
  done # Ops(manifest) => \E i \in Ops(manifest) : Startable(i) \/ i \in started \ done

\* Every precise manifest that verify_device_protocol passes never deadlocks: the
\* first operation that is not complete always has the signal that it waits for
\* (queue.timeline, queue.binary.wait).
THEOREM NoDeadlock ==
  ASSUME \A m \in Manifests : Precise(m)
  PROVE  Spec => []NeverStuck
<1>1. Init => DeviceInv
  BY InvInit
<1>2. ASSUME DeviceInv, done # Ops(manifest)
      PROVE  \E i \in Ops(manifest) : Startable(i) \/ i \in started \ done
  <2>1. Ops(manifest) \subseteq Nat /\ done \subseteq Ops(manifest) /\ done \subseteq started
    BY <1>2 DEF DeviceInv, Precise, Counted
  <2>2. PICK i \in Ops(manifest) \ done : \A k \in Ops(manifest) \ done : i <= k
    BY <1>2, <2>1, LeastNumber
  <2>3. \A k \in Ops(manifest) : k < i => k \in done
    BY <2>1, <2>2
  <2>4. CASE i \in started
    BY <2>2, <2>4
  <2>5. CASE i \notin started
    <3>1. Waits(manifest, i, "timeline") => value >= Op(i).wait.value
      <4>. SUFFICES ASSUME Waits(manifest, i, "timeline") PROVE value >= Op(i).wait.value
        OBVIOUS
      <4>1. PICK p \in Producers(manifest, i) : TRUE
        BY <1>2 DEF DeviceInv, QueueVerified, TimelineOK
      <4>2. /\ p \in Ops(manifest) /\ p < i /\ Signals(manifest, p, "timeline")
            /\ Signalled(p) >= Op(i).wait.value
        BY DEF Producers, Signalled, Op
      <4>3. Signalled(p) <= value
        BY <1>2, <2>3, <4>2 DEF DeviceInv
      <4>. QED
        BY <1>2, <4>2, <4>3 DEF DeviceInv, Precise, Counted, Signalled, Op
    <3>2. Waits(manifest, i, "binary") => raised
      <4>. SUFFICES ASSUME Waits(manifest, i, "binary") PROVE raised
        OBVIOUS
      <4>1. PICK p \in Unconsumed(manifest, i) : TRUE
        BY <1>2 DEF DeviceInv, QueueVerified, BinaryOK
      <4>2. /\ p \in done /\ p \in Ops(manifest) /\ p < i /\ Signals(manifest, p, "binary")
            /\ \A k \in Ops(manifest) : p < k /\ k < i => ~Waits(manifest, k, "binary")
        BY <2>3 DEF Unconsumed
      <4>3. ASSUME NEW w \in started, Waits(manifest, w, "binary")
            PROVE  w <= p
        <5>1. w \in Ops(manifest) /\ w # i
          BY <1>2, <2>5 DEF DeviceInv
        <5>2. ~(i < w)
          BY <1>2, <2>2, <4>3, <5>1, InOrder
        <5>. QED
          BY <2>1, <2>2, <4>2, <4>3, <5>1, <5>2
      <4>. QED
        BY <1>2, <4>2, <4>3 DEF DeviceInv, Pending
    <3>. QED
      BY <2>2, <2>3, <2>5, <3>1, <3>2 DEF Startable, Satisfied
  <2>. QED
    BY <2>4, <2>5
<1>3. DeviceInv => NeverStuck
  BY <1>2 DEF NeverStuck
<1>. QED
  BY <1>1, <1>3, InvNext, PTL DEF Spec

=============================================================================
