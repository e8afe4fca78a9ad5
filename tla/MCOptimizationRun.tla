-------------------------- MODULE MCOptimizationRun --------------------------
(***************************************************************************)
(* The contents OptimizationRun is checked with.                           *)
(***************************************************************************)
EXTENDS OptimizationRun, TLC

CONSTANTS s1, s2, s3

MCSources == {s1, s2, s3}
\* The forecast finds s3 closed to analysis
MCClosed == {s1, s2}

\* s1 and s2 are alike
MCSymmetry == Permutations({s1, s2})
=============================================================================
