--------------------------- MODULE ConfigRegister ---------------------------
(***************************************************************************)
(* What the writers of one shared provider config file are promised by     *)
(* ConfigMutationCoordinator                                               *)
(* (src/backend/core/config-files/mutation-coordinator.ts), "never land a  *)
(* transform based on stale bytes": the file is a register of independent  *)
(* parts, and a write changes the part of its writer and no other.         *)
(*                                                                         *)
(* The promise has two holes, and this specification says how big they     *)
(* are.  A CLI that rewrites its own config is not in the coordinator's    *)
(* queue: one write that overtakes it costs it its edit (`racing`).  And a *)
(* launch that undoes its own write puts the whole file back as it was     *)
(* (`putBack` counts those).                                               *)
(***************************************************************************)
EXTENDS Naturals

CONSTANTS
    Part,      \* the parts of a config that have different owners
    Outside    \* the part that belongs to the CLI itself

VARIABLES
    doc,       \* what each part says
    racing,    \* the CLI has written since the file was last compared
    putBack    \* how often a write was undone over an edit of someone else's

vars == <<doc, racing, putBack>>

Init == doc = [p \in Part |-> 0] /\ ~racing /\ putBack = 0

\* Nothing changes but the parts in S.
Changes(S) == doc' \in [Part -> Nat] /\ \A p \in Part \ S : doc'[p] = doc[p]

\* A writer of the coordinator's edits its own part.
Edit(p) == p # Outside /\ ~racing /\ Changes({p}) /\ UNCHANGED <<racing, putBack>>

\* The CLI edits its own, at any time.
EditOutside == Changes({Outside}) /\ (racing => racing') /\ UNCHANGED putBack

\* The write that was already past its last comparison takes the CLI's edit with it.
Overtake(p) ==
    /\ p # Outside /\ racing
    /\ Changes({p, Outside})
    /\ ~racing' /\ UNCHANGED putBack

\* It fails instead, or was to change nothing.
GiveUp == ~racing' /\ UNCHANGED <<doc, putBack>>

\* A write is undone by restoring all that was there before it.
PutBack ==
    /\ doc' \in [Part -> Nat]
    /\ ~racing'
    /\ putBack' = putBack + 1

Next == (\E p \in Part : Edit(p) \/ Overtake(p)) \/ EditOutside \/ GiveUp \/ PutBack

Spec == Init /\ [][Next]_vars
============================================================================
