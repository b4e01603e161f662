---------------------------- MODULE MCPaneRelay ----------------------------
(* One pane id that is opened, closed and reused.                            *)
EXTENDS PaneRelay, TLC
============================================================================
