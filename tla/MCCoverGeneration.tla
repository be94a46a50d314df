-------------------------- MODULE MCCoverGeneration --------------------------
(* Two workers, one manual retry, a message under way at a time, and at     *)
(* most two kinds of hazards, each met once, with a conflict and an overlap *)
(* that they cause.                                                         *)
EXTENDS CoverGeneration

CONSTANTS w1, w2

Once == [h \in Hazards |-> 1]
=============================================================================
