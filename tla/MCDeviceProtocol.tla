--------------------------- MODULE MCDeviceProtocol ---------------------------
(***************************************************************************)
(* Manifests for DeviceProtocol: three operations on up to three queues.   *)
(***************************************************************************)
EXTENDS DeviceProtocol

Timeline(v) == [type |-> "timeline", value |-> v]
Binary == [type |-> "binary", value |-> 1]
MCSignals == {None, Timeline(1), Timeline(2), Binary}
MCWaits ==
  {None} \cup {[type |-> s.type, value |-> s.value, covers |-> c] :
                 s \in MCSignals \ {None}, c \in BOOLEAN}

Operation(queues, modes, waits, signals) ==
  [queue : queues, mode : modes, wait : waits, signal : signals]

Submissions ==
  {<<a, b, c>> :
     a \in Operation({"q1"}, {"none", "read", "write"}, {None}, MCSignals),
     b \in Operation({"q1", "q2"}, {"none", "read", "write"}, MCWaits, MCSignals),
     c \in Operation({"q1", "q2", "q3"}, {"none", "readwrite", "write"}, MCWaits, {None})}

Transfers == {[to |-> "q2", dst |-> 2], [to |-> "q2", dst |-> 3]}
OwnershipManifests ==
  [ops : Submissions, barrier : {"scoped"}, owner : {"q1"}, transfer : {None} \cup Transfers]
SharedManifests ==
  [ops : Submissions, barrier : {"narrow", "scoped"}, owner : {"shared"}, transfer : {None}]

PreciseManifests == {m \in SharedManifests \cup OwnershipManifests : Precise(m)}
OrderedManifests == {m \in SharedManifests : Ordered(m)}

=============================================================================
