---------------------------- MODULE PaneArchive ----------------------------
(***************************************************************************)
(* What the user is promised of the panes of a daemon that may stop, crash *)
(* and be started again, by SessionManager (src/pty-daemon/session.ts) and *)
(* SessionStore (src/backend/features/workspace/session-store.ts): a save  *)
(* leaves on disk what is open, all of it and nothing else, whichever      *)
(* saves failed before it; a graceful stop saves; a crash, or a stop whose *)
(* save fails, costs no more than what has happened since the last save    *)
(* that did not fail; and a daemon that starts brings back panes that are  *)
(* on disk, as they are there, and no others.                              *)
(*                                                                         *)
(* There is no timer, no mark and no generation here: how the manager      *)
(* knows what to write is its own affair.  The promise has one hole.  If a *)
(* killed pty still prints (`late`), the row of a pane that is not open    *)
(* may be left as it was by the saves of that daemon.                      *)
(***************************************************************************)
CONSTANTS
    Pane,
    Row,      \* what is kept of a pane
    None      \* nothing: it is not open, or has no row

VARIABLES
    running,  \* the daemon runs
    open,     \* what each open pane is
    disk,     \* what is on disk of each
    clean,    \* the last daemon to end stopped gracefully, and saved
    late      \* a killed pty of this daemon, or the last, has printed

vars == <<running, open, disk, clean, late>>

Nothing == [p \in Pane |-> None]

Init == ~running /\ open = Nothing /\ disk = Nothing /\ ~clean /\ ~late

\* A pane opens, changes, moves to another host or closes.
Happens(p) ==
    /\ running
    /\ \E row \in Row \cup {None} : open' = [open EXCEPT ![p] = row]
    /\ UNCHANGED <<running, disk, clean, late>>

Lingers == running /\ late' /\ UNCHANGED <<running, open, disk, clean>>

\* What is open is written.
Written ==
    \E kept \in SUBSET Pane :
        /\ \A p \in kept : late /\ open[p] = None
        /\ disk' = [p \in Pane |-> IF p \in kept THEN disk[p] ELSE open[p]]

Save == running /\ Written /\ UNCHANGED <<running, open, clean, late>>

Ends == running /\ ~running' /\ open' = Nothing /\ UNCHANGED late

Stop == Ends /\ Written /\ clean'

Crash == Ends /\ ~clean' /\ UNCHANGED disk

\* A row whose shell cannot be spawned is not opened, and stays until the first save.
Start ==
    /\ ~running /\ running'
    /\ \E failed \in SUBSET Pane : open' = [p \in Pane |-> IF p \in failed THEN None ELSE disk[p]]
    /\ ~late' /\ UNCHANGED <<disk, clean>>

Next == (\E p \in Pane : Happens(p)) \/ Lingers \/ Save \/ Stop \/ Crash \/ Start

Spec == Init /\ [][Next]_vars
============================================================================
