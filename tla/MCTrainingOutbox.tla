--------------------------- MODULE MCTrainingOutbox ---------------------------
(***************************************************************************)
(* TrainingOutbox for TLC.  Processes are interchangeable, and so are the  *)
(* records an installation produces; the safety runs use it.               *)
(***************************************************************************)
EXTENDS TrainingOutbox

Symmetry ==
  Permutations(Procs) \cup Permutations(Bundles \ (Legacy \cup Oversized))

=============================================================================
