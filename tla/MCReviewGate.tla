-------------------------- MODULE MCReviewGate -----------------------------
(* One pane, whose slot is closed, reused and renamed reviewer; one branch and *)
(* one merge, as merges meet in the base only, which BaseMoves moves for them. *)
EXTENDS ReviewGate
CONSTANTS p1, b1, m1
============================================================================
