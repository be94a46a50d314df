--------------------------- MODULE MCPageCapture ---------------------------
(***************************************************************************)
(* Small instances of PageCapture for TLC.                                 *)
(***************************************************************************)
EXTENDS PageCapture, TLC

CONSTANTS g1, g2

\* Time passes twice: for the arm, then for the driver. The page may grow
\* and shrink again.
FewOfEach == [h \in Hazards |-> IF h \in {"time", "layout"} THEN 2 ELSE 1]
=============================================================================
