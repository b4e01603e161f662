-------------------------- MODULE MCPaneSessions --------------------------
(* Two pane ids, so that a reused id and an untouched one are both there.    *)
EXTENDS PaneSessions, TLC

Sym == Permutations(Pane) \cup Permutations(Host)
============================================================================
