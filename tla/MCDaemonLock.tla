--------------------------- MODULE MCDaemonLock ---------------------------
(* Small instances of DaemonLock: three boots, so that two contenders can    *)
(* race over the lock of a third that is dead.                               *)
EXTENDS DaemonLock, TLC

Sym == Permutations(Boot)
============================================================================
