------------------------- MODULE MCExtensionSession -------------------------
(***************************************************************************)
(* Small instances of ExtensionSession for TLC.                            *)
(***************************************************************************)
EXTENDS ExtensionSession, TLC

CONSTANTS c1, c2, d1, d2, t1, t2, t3

Bounds(network, body, overlap, slow, restart) ==
  [network |-> network, body |-> body, overlap |-> overlap, slow |-> slow,
   restart |-> restart]

OneOfEach == Bounds(1, 1, 1, 1, 1)
Symmetry == Permutations({c1, c2}) \cup Permutations({d1, d2})
              \cup Permutations({t1, t2, t3})
=============================================================================
