---------------------------- MODULE DeviceProtocol ----------------------------
(***************************************************************************)
(* The queue protocols of verify_device_protocol                           *)
(* (vladder/device_protocol.py) and the device its verdict is about.  A    *)
(* manifest declares operations submitted to queues, with the semaphores   *)
(* they wait for and signal and the barriers between them.  The first part *)
(* is what the verifier computes from a manifest.  The second part lets a  *)
(* device run a manifest that passed: a queue runs its operations in their *)
(* order, a wait goes on when its semaphore has the value, and queues know *)
(* nothing else of each other.                                             *)
(*                                                                         *)
(* One resource stands for the declared ones, one timeline semaphore and   *)
(* one binary one for those of their type; an operation waits for and      *)
(* signals at most one semaphore, and a queue is a family of its own.      *)
(***************************************************************************)
EXTENDS Naturals, Sequences, FiniteSets

CONSTANTS
  Manifests,   \* [ops, barrier, owner, transfer]
  None         \* no wait, no signal, no transfer

VARIABLES
  manifest,  \* a manifest that passed
  started,   \* operations that have begun
  done,      \* operations that are complete
  value,     \* the timeline semaphore
  raised,    \* the binary semaphore is signalled
  owner,     \* the queue family that owns the resource
  writer     \* the last operation that wrote the resource, 0 for none

vars == <<manifest, started, done, value, raised, owner, writer>>

\* A mode is "none", "read", "write" or "readwrite"
Reads(mode) == mode \in {"read", "readwrite"}
Writes(mode) == mode \in {"write", "readwrite"}

-----------------------------------------------------------------------------
(* _verify_queue.  An operation is [queue, mode, wait, signal]; a wait is      *)
(* [type, value, covers], a signal [type, value]                               *)

Ops(m) == DOMAIN m.ops
Waits(m, i, type) == m.ops[i].wait # None /\ m.ops[i].wait.type = type
Signals(m, i, type) == m.ops[i].signal # None /\ m.ops[i].signal.type = type

\* Consecutive operations of a queue
QueueEdges(m) ==
  {e \in Ops(m) \X Ops(m) :
     /\ e[1] < e[2] /\ m.ops[e[1]].queue = m.ops[e[2]].queue
     /\ ~\E k \in Ops(m) : e[1] < k /\ k < e[2] /\ m.ops[k].queue = m.ops[e[1]].queue}

\* Earlier signals that reach the value a timeline wait asks for
Producers(m, i) ==
  {j \in Ops(m) : j < i /\ Signals(m, j, "timeline")
                  /\ m.ops[j].signal.value >= m.ops[i].wait.value}
Latest(S) == CHOOSE x \in S : \A y \in S : y <= x

TimelineEdges(m) ==
  {<<Latest(Producers(m, i)), i>> :
     i \in {k \in Ops(m) : Waits(m, k, "timeline") /\ Producers(m, k) # {}}}

\* Mutant: a wait need not have a signal
TimelineOKSignals(m) ==
  \A i, j \in Ops(m) :
    i < j /\ Signals(m, i, "timeline") /\ Signals(m, j, "timeline") =>
      m.ops[i].signal.value < m.ops[j].signal.value

\* Signalled values rise, and a wait has an earlier signal that reaches its value
TimelineOK(m) ==
  /\ \A i, j \in Ops(m) :
       i < j /\ Signals(m, i, "timeline") /\ Signals(m, j, "timeline") =>
         m.ops[i].signal.value < m.ops[j].signal.value
  /\ \A i \in Ops(m) : Waits(m, i, "timeline") => Producers(m, i) # {}

\* Signals of the binary semaphore before operation i that no wait has consumed
Unconsumed(m, i) ==
  {s \in Ops(m) : s < i /\ Signals(m, s, "binary")
                  /\ ~\E k \in Ops(m) : s < k /\ k < i /\ Waits(m, k, "binary")}

\* binary_state before operation i: a signal too many does not replace the first one
Outstanding(m, i) == CHOOSE s \in Unconsumed(m, i) : \A t \in Unconsumed(m, i) : s <= t

BinaryEdges(m) ==
  {<<Outstanding(m, i), i>> :
     i \in {k \in Ops(m) : Waits(m, k, "binary") /\ Unconsumed(m, k) # {}}}

\* A wait finds a signal to consume, and a signal finds the last one consumed
BinaryOK(m) ==
  \A i \in Ops(m) :
    /\ Waits(m, i, "binary") => Unconsumed(m, i) # {}
    /\ Signals(m, i, "binary") => Unconsumed(m, i) = {} \/ Waits(m, i, "binary")

ExecutionEdges(m) == QueueEdges(m) \cup TimelineEdges(m) \cup BinaryEdges(m)

\* _transitive_closure of edges, which all lead to a later operation
Forward(m) == {e \in Ops(m) \X Ops(m) : e[1] < e[2]}
Transitive(R) == \A d, e \in R : d[2] = e[1] => <<d[1], e[2]>> \in R
Closure(m, edges) ==
  {p \in Forward(m) : \A R \in SUBSET Forward(m) : edges \subseteq R /\ Transitive(R) => p \in R}

\* RAW, WAR and WAW pairs
Hazard(m, i, j) ==
  /\ i < j
  /\ m.ops[i].mode # "none" /\ m.ops[j].mode # "none"
  /\ Writes(m.ops[i].mode) \/ Writes(m.ops[j].mode)

\* A barrier between the two whose stages and accesses cover theirs
\* (_scope_covers, _access_covers), or the resource named by the wait
Visible(m, i, j) ==
  \/ m.barrier = "scoped"
  \/ <<i, j>> \in TimelineEdges(m) \cup BinaryEdges(m) /\ m.ops[j].wait.covers

\* Mutant: only a read after a write needs a dependency
HazardsOKReads(m) ==
  LET closure == Closure(m, ExecutionEdges(m)) IN
    \A i, j \in Ops(m) :
      Hazard(m, i, j) /\ Writes(m.ops[i].mode) /\ Reads(m.ops[j].mode) =>
        <<i, j>> \in closure /\ Visible(m, i, j)

\* Mutant: an execution dependency is enough
HazardsOKOrdered(m) ==
  LET closure == Closure(m, ExecutionEdges(m)) IN
    \A i, j \in Ops(m) : Hazard(m, i, j) => <<i, j>> \in closure

\* A hazard has an execution dependency, and a read after a write visibility too
HazardsOK(m) ==
  LET closure == Closure(m, ExecutionEdges(m)) IN
    \A i, j \in Ops(m) :
      Hazard(m, i, j) =>
        /\ <<i, j>> \in closure
        /\ Writes(m.ops[i].mode) /\ Reads(m.ops[j].mode) => Visible(m, i, j)

\* Mutant: a transfer that comes later is good enough
OwnershipOfAny(m) ==
  \A i \in Ops(m) : m.ops[i].mode # "none" =>
    m.owner \in {"shared", m.ops[i].queue} \/ m.transfer # None

\* A use by another family follows a transfer to that family
OwnershipOK(m) ==
  LET closure == Closure(m, ExecutionEdges(m)) IN
    \A i \in Ops(m) : m.ops[i].mode # "none" =>
      \/ m.owner \in {"shared", m.ops[i].queue}
      \/ /\ m.transfer # None /\ m.transfer.to = m.ops[i].queue
         /\ m.transfer.dst = i \/ <<m.transfer.dst, i>> \in closure

\* The status of verify_device_protocol is PASS
QueueVerified(m) == TimelineOK(m) /\ BinaryOK(m) /\ HazardsOK(m) /\ OwnershipOK(m)

-----------------------------------------------------------------------------
(* What the verifier takes for granted of the manifests that it passes *)

\* Values count up from 0, which a timeline semaphore has to begin with, so a wait
\* is for more
Counted(m) ==
  /\ Ops(m) \subseteq Nat \ {0}
  /\ \A i \in Ops(m) :
       /\ Signals(m, i, "timeline") => m.ops[i].signal.value \in Nat
       /\ Waits(m, i, "timeline") => m.ops[i].wait.value \in Nat \ {0}

\* The signals of a timeline, and the uses of a binary semaphore, are ordered by
\* more than the manifest
Uses(m, i, type) == Waits(m, i, type) \/ Signals(m, i, type)
Ordered(m) ==
  \A i, j \in Ops(m) :
    /\ i < j
    /\ \/ Signals(m, i, "timeline") /\ Signals(m, j, "timeline")
       \/ Uses(m, i, "binary") /\ Signals(m, j, "binary")
       \/ Waits(m, i, "binary") /\ Waits(m, j, "binary")
    => <<i, j>> \in Closure(m, QueueEdges(m) \cup TimelineEdges(m))

\* A timeline wait is reached by one signal only
OneProducer(m) ==
  \A i \in Ops(m) : Waits(m, i, "timeline") => \A j, k \in Producers(m, i) : j = k

Precise(m) == Counted(m) /\ Ordered(m) /\ OneProducer(m)

-----------------------------------------------------------------------------
(* The device *)

Init ==
  /\ manifest \in {m \in Manifests : QueueVerified(m)}
  /\ started = {} /\ done = {}
  /\ value = 0 /\ raised = FALSE
  /\ owner = manifest.owner
  /\ writer = 0

Op(i) == manifest.ops[i]

\* The wait of an operation is satisfied
Satisfied(i) ==
  /\ Waits(manifest, i, "timeline") => value >= Op(i).wait.value
  /\ Waits(manifest, i, "binary") => raised

\* The next operation of a queue
Startable(i) ==
  /\ i \in Ops(manifest) \ started
  /\ \A j \in Ops(manifest) : j < i /\ Op(j).queue = Op(i).queue => j \in done
  /\ Satisfied(i)

\* The operation that takes the resource over, unless the families share it
TakesOver(i) ==
  manifest.owner # "shared" /\ manifest.transfer # None /\ manifest.transfer.dst = i

\* An operation begins, which consumes a binary signal; the ownership transfer of
\* its barrier happens before it
Start(i) ==
  /\ Startable(i)
  /\ started' = started \cup {i}
  /\ raised' = (raised /\ ~Waits(manifest, i, "binary"))
  /\ owner' = IF TakesOver(i) THEN manifest.transfer.to ELSE owner
  /\ UNCHANGED <<manifest, done, value, writer>>

\* An operation ends: its writes are made and its semaphore is signalled
Complete(i) ==
  /\ i \in started \ done
  /\ done' = done \cup {i}
  /\ writer' = IF Writes(Op(i).mode) THEN i ELSE writer
  /\ value' = IF Signals(manifest, i, "timeline") THEN Op(i).signal.value ELSE value
  /\ raised' = (raised \/ Signals(manifest, i, "binary"))
  /\ UNCHANGED <<manifest, started, owner>>

Next == \E i \in Ops(manifest) : Start(i) \/ Complete(i)

Spec == Init /\ [][Next]_vars /\ WF_vars(Next)

-----------------------------------------------------------------------------
(* Properties *)

\* Conflicting uses of a resource happen in the order of the manifest and do not
\* overlap: "all declared resource hazards have sufficient dependencies"
\* (device_protocol.py, queue.hazards.complete).
HazardsOrdered ==
  \A i, j \in Ops(manifest) : Hazard(manifest, i, j) /\ j \in started => i \in done

\* What a running operation reads was made visible to it by its writer.
ReadsVisible ==
  \A j \in started \ done :
      Reads(Op(j).mode) /\ writer # 0 => Visible(manifest, writer, j)

\* A family other than the declared owner uses the resource only while it owns it:
\* a transfer to that family has come, on the schedule the device has taken.  Of the
\* declared owner nothing is said: the verifier lets its uses pass unlooked at, also
\* those that come after the transfer (device_protocol.py:380).
UsedOnTransfer ==
  \A i \in started \ done :
    Op(i).mode # "none" /\ Op(i).queue # manifest.owner => owner \in {"shared", Op(i).queue}

\* No operation of a verified manifest waits for ever.
AllComplete == <>(done = Ops(manifest))

=============================================================================
