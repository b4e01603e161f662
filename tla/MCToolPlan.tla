---------------------------- MODULE MCToolPlan ------------------------------
(* Two launches and one settings row are the fewest that can cross.          *)
EXTENDS ToolPlan
CONSTANTS l1, l2, r1
============================================================================
