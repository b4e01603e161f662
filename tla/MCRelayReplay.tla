--------------------------- MODULE MCRelayReplay ---------------------------
(* Three daemons and four losses around one painted pane.                      *)
EXTENDS RelayReplay, TLC
============================================================================
