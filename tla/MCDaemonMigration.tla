------------------------- MODULE MCDaemonMigration --------------------------
(* Two panes that hold a shell, an agent here or an agent on a remote machine. *)
EXTENDS DaemonMigration
CONSTANTS p1, p2
=============================================================================
