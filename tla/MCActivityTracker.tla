------------------------ MODULE MCActivityTracker --------------------------
(* Three subagents: the last to land is told from the others.                  *)
EXTENDS ActivityTracker, TLC
============================================================================
