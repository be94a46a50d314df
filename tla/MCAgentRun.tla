---------------------------- MODULE MCAgentRun ----------------------------
(***************************************************************************)
(* Small instances of AgentRun for TLC.  The plans have two steps.         *)
(***************************************************************************)
EXTENDS AgentRun, TLC

CONSTANTS a1, a2, w1, w2, b1

\* Two start requests are alike, and so are two workers.
Symmetry == Permutations({a1, a2}) \cup Permutations({w1, w2})

SafeThenManual == (0 :> "safe") @@ (1 :> "manual")

NoStep == {}
LastStep == {1}

Bounds(workerCrash, otherCrash, expiry, context, retry) ==
  [workerCrash |-> workerCrash, otherCrash |-> otherCrash,
   expiry |-> expiry, context |-> context, retry |-> retry]

\* One crash of each kind, two expiries under a live worker, a context that
\* changes and changes back, one retry.
AllHazards == Bounds(1, 1, 2, 2, 1)
CrashAndExpiry == Bounds(1, 1, 1, 1, 0)
OneRetry == Bounds(0, 0, 0, 0, 1)
OneWorkerCrash == Bounds(1, 0, 0, 0, 0)
ContextAndBack == Bounds(0, 0, 0, 2, 0)
=============================================================================
