---------------------------- MODULE MCPaneRoles ----------------------------
(* Two slots, and one role between them.                                     *)
EXTENDS PaneRoles, TLC

Sym == Permutations(Slot)
============================================================================
