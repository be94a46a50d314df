--------------------------- MODULE MCAnalysisRun ---------------------------
(***************************************************************************)
(* Small instances of AnalysisRun for TLC.                                 *)
(***************************************************************************)
EXTENDS AnalysisRun, TLC

CONSTANTS r1, r2, q1, q2, w1, w2

Symmetry == Permutations({r1, r2}) \cup Permutations({q1, q2})
              \cup Permutations({w1, w2})

Bounds(crash, slow, backlog, overlap) ==
  [crash |-> crash, slow |-> slow, backlog |-> backlog, overlap |-> overlap]

CrashSlowOverlap == Bounds(1, 1, 0, 1)
CrashBacklog == Bounds(1, 0, 1, 0)
OneCrash == Bounds(1, 0, 0, 0)
OneSlow == Bounds(0, 1, 0, 0)
=============================================================================
