--------------------------- MODULE PaneSessions ---------------------------
(***************************************************************************)
(* The session manager of the pty daemon and the store it persists to:     *)
(* class SessionManager and the pty callbacks of class PaneSession in      *)
(* src/pty-daemon/session.ts, over SessionStore in                         *)
(* src/backend/features/workspace/session-store.ts.                        *)
(*                                                                         *)
(* A session is named by its generation.  Pane ids are reused, a killed    *)
(* pty dies asynchronously, and the store is written by a coalescing timer *)
(* that, after one full save, writes the difference only; the daemon may   *)
(* crash or shut down at any point and the next boot restores the rows.    *)
(* A session's content is all that its row holds: scrollback, grid, cwd    *)
(* and launch intent.  Roles and claims, which die with the pane in the    *)
(* same handlers, are in modules PaneRoles and ClaimLedger.                *)
(***************************************************************************)
EXTENDS Naturals, FiniteSets, Functions

CONSTANTS
    Pane,        \* pane ids
    Host,        \* where a pane's shell runs: the identity matchesRemote compares
    MaxGen,      \* bound on the generations one daemon mints
    MaxContent,  \* bound on the changes of one session's content
    None         \* no session, no row

ASSUME SizeAssumption ==
    IsFiniteSet(Pane) /\ MaxGen \in Nat /\ MaxContent \in Nat

VARIABLES
    up,       \* the daemon runs
    nextGen,  \* the next generation to mint
    panes,    \* the map of live panes: the generation each id names, 0 for none
    sess,     \* every session of this daemon, by generation
    dirty,    \* dirtyPanes: ids whose row is stale
    removed,  \* removedPanes: ids whose row has to go
    synced,   \* storeSynced: the first, full save was made
    timer,    \* a persist is scheduled
    store,    \* the rows on disk, by pane id
    \* history
    lastStop, \* what was open at the last graceful stop, None after a crash or a failed flush
    late,     \* whether a killed pty of this daemon has printed before it exited
    failed    \* the last save failed, and none has been scheduled since

memory == <<nextGen, panes, sess, dirty, removed, synced, timer>>
vars   == <<up, memory, store, lastStop, late, failed>>

Gen     == 1 .. MaxGen
Life    == {"live", "killed"}   \* of a session's pty; a dead one's session is forgotten
Session == [pane : Pane, host : Host, life : Life, content : 0 .. MaxContent]
Row     == [host : Host, content : 0 .. MaxContent]
Stop    == [open : SUBSET Pane]

ASSUME NoneAssumption == None \notin Session \cup Row \cup Stop

Open       == {p \in Pane : panes[p] # 0}

Snapshot(p) == [host |-> sess[panes[p]].host, content |-> sess[panes[p]].content]

\* What a full save of the current panes leaves on disk.
FullSave == [p \in Pane |-> IF p \in Open THEN Snapshot(p) ELSE None]

TypeOK ==
    /\ up \in BOOLEAN
    /\ nextGen \in 1 .. MaxGen + 1
    /\ panes \in [Pane -> 0 .. MaxGen]
    /\ sess \in [Gen -> Session \cup {None}]
    /\ dirty \subseteq Pane
    /\ removed \subseteq Pane
    /\ synced \in BOOLEAN
    /\ timer \in BOOLEAN
    /\ store \in [Pane -> Row \cup {None}]
    /\ lastStop \in Stop \cup {None}
    /\ late \in BOOLEAN
    /\ failed \in BOOLEAN

Init ==
    /\ up = FALSE
    /\ nextGen = 1
    /\ panes = [p \in Pane |-> 0]
    /\ sess = [g \in Gen |-> None]
    /\ dirty = {}
    /\ removed = {}
    /\ synced = FALSE
    /\ timer = FALSE
    /\ store = [p \in Pane |-> None]
    /\ lastStop = None
    /\ late = FALSE
    /\ failed = FALSE

----------------------------------------------------------------------------
\* Mutant: the removal is not marked.
MutMarkRemoved(p) == removed' = removed /\ dirty' = dirty \ {p}

MarkDirty(p)   == dirty' = dirty \cup {p} /\ removed' = removed \ {p}
MarkRemoved(p) == removed' = removed \cup {p} /\ dirty' = dirty \ {p}

SchedulePersist == timer' = TRUE /\ failed' = FALSE

Exists(g) == sess[g] # None
\* Nothing reads the content of a killed session again.
Dead(s)   == [pane |-> s.pane, host |-> s.host, life |-> "killed", content |-> 0]
Killed(g) == [sess EXCEPT ![g] = Dead(@)]
Fresh(p, h) == [pane |-> p, host |-> h, life |-> "live", content |-> 0]

\* ensure() on an id that names no session: mint one.  A constructor that throws
\* has used its generation up and changes nothing else.
Create(p, h) ==
    /\ up /\ panes[p] = 0 /\ nextGen \in Gen
    /\ nextGen' = nextGen + 1
    /\ \/ /\ sess' = [sess EXCEPT ![nextGen] = Fresh(p, h)]
          /\ panes' = [panes EXCEPT ![p] = nextGen]
          /\ MarkDirty(p) /\ SchedulePersist
       \/ UNCHANGED <<sess, panes, dirty, removed, timer, failed>>
    /\ UNCHANGED <<up, synced, store, lastStop, late>>

\* ensure() on an id whose session runs on another host: the session is removed
\* first, and stays removed when the constructor of the new one throws.
Replace(p, h) ==
    /\ up /\ p \in Open /\ sess[panes[p]].host # h /\ nextGen \in Gen
    /\ nextGen' = nextGen + 1
    /\ \/ /\ sess' = [Killed(panes[p]) EXCEPT ![nextGen] = Fresh(p, h)]
          /\ panes' = [panes EXCEPT ![p] = nextGen]
          /\ MarkDirty(p)
       \/ /\ sess' = Killed(panes[p])
          /\ panes' = [panes EXCEPT ![p] = 0]
          /\ MarkRemoved(p)
    /\ SchedulePersist
    /\ UNCHANGED <<up, synced, store, lastStop, late>>

\* A session's content changes: its pty prints, its cwd moves, an attach or a
\* client resizes it, its launch intent is declared.  onChange and onCwdChange
\* mark the ID, whatever session it names by now: a killed pty's last output
\* marks the id of a pane that is gone.
Change(g) ==
    /\ up /\ Exists(g)
    /\ \/ sess[g].life = "live" /\ sess[g].content < MaxContent
       \/ sess[g].life = "killed"
    /\ late' = (late \/ sess[g].life = "killed")
    /\ sess' = IF sess[g].life = "live" THEN [sess EXCEPT ![g].content = @ + 1]
                                        ELSE sess
    /\ MarkDirty(sess[g].pane) /\ SchedulePersist
    /\ UNCHANGED <<up, nextGen, panes, synced, store, lastStop>>

\* Mutant: the exit is not guarded by identity.
MutExit(g) ==
    /\ up /\ Exists(g)
    /\ sess' = [sess EXCEPT ![g] = None]
    /\ panes' = [panes EXCEPT ![sess[g].pane] = 0]
    /\ MarkRemoved(sess[g].pane) /\ SchedulePersist
    /\ UNCHANGED <<up, nextGen, synced, store, lastStop, late>>

\* The pty's exit event, of a live pane or, late, of a killed one.
Exit(g) ==
    /\ up /\ Exists(g)
    /\ sess' = [sess EXCEPT ![g] = None]
    /\ LET p == sess[g].pane
       IN IF panes[p] = g
          THEN panes' = [panes EXCEPT ![p] = 0] /\ MarkRemoved(p)
          ELSE UNCHANGED <<panes, dirty, removed>>
    /\ SchedulePersist
    /\ UNCHANGED <<up, nextGen, synced, store, lastStop, late>>

\* remove(): the pane closes.  Its session is out of the map at once.
Remove(p) ==
    /\ up /\ p \in Open
    /\ sess' = Killed(panes[p])
    /\ panes' = [panes EXCEPT ![p] = 0]
    /\ MarkRemoved(p) /\ SchedulePersist
    /\ UNCHANGED <<up, nextGen, synced, store, lastStop, late>>

----------------------------------------------------------------------------
\* What persist() leaves on disk: everything the first time, then the
\* difference.  A dirty id without a pane is skipped, its row untouched.
Saved ==
    IF ~synced THEN FullSave
    ELSE [p \in Pane |-> IF p \in dirty \cap Open THEN Snapshot(p)
                         ELSE IF p \in removed THEN None
                         ELSE store[p]]

\* Mutant: the difference is written from the first save on.
MutPersist ==
    /\ store' = [p \in Pane |-> IF p \in dirty \cap Open THEN Snapshot(p)
                                ELSE IF p \in removed THEN None ELSE store[p]]
    /\ synced' = TRUE /\ dirty' = {} /\ removed' = {}

\* persist(): one transaction, and the marks go once it has committed.
Persist ==
    /\ store' = Saved
    /\ synced' = TRUE
    /\ dirty' = {}
    /\ removed' = {}

\* The timer is cleared before persist() is called.  A save that throws leaves the rows
\* and the marks as they were; it is logged, and no other save is scheduled for it.
PersistDue ==
    /\ up /\ timer
    /\ timer' = FALSE
    /\ \/ Persist /\ failed' = FALSE
       \/ failed' = TRUE /\ UNCHANGED <<store, synced, dirty, removed>>
    /\ UNCHANGED <<up, nextGen, panes, sess, lastStop, late>>

\* All that a daemon holds in memory goes with it.
Forget ==
    /\ up' = FALSE
    /\ nextGen' = 1
    /\ panes' = [p \in Pane |-> 0]
    /\ sess' = [g \in Gen |-> None]
    /\ dirty' = {}
    /\ removed' = {}
    /\ synced' = FALSE
    /\ timer' = FALSE
    /\ failed' = FALSE

\* Mutant: a shutdown that does not flush.
MutShutdown == up /\ Forget /\ store' = store /\ lastStop' = [open |-> Open] /\ late' = late

\* The graceful shutdown flushes (persistNow), then kills every pane.  A flush that
\* throws is caught, and leaves on disk what a crash would.
Shutdown ==
    /\ up /\ Forget /\ late' = late
    /\ \/ store' = Saved /\ lastStop' = [open |-> Open]
       \/ store' = store /\ lastStop' = None

Crash == up /\ Forget /\ store' = store /\ lastStop' = None /\ late' = late

\* The next boot restores a session for every row whose process can be spawned;
\* the row of one that cannot stays until the first save.
Boot ==
    /\ ~up
    /\ up' = TRUE
    /\ LET rows == {p \in Pane : store[p] # None}
       IN \E num \in Bijection(rows, 1 .. Cardinality(rows)), ok \in SUBSET rows :
            /\ Cardinality(rows) <= MaxGen
            /\ nextGen' = Cardinality(rows) + 1
            /\ panes' = [p \in Pane |-> IF p \in ok THEN num[p] ELSE 0]
            /\ sess' = [g \in Gen |->
                 IF \E p \in ok : num[p] = g
                 THEN LET p == CHOOSE q \in ok : num[q] = g
                      IN [pane |-> p, host |-> store[p].host, life |-> "live",
                          content |-> store[p].content]
                 ELSE None]
    /\ late' = FALSE
    /\ UNCHANGED <<dirty, removed, synced, timer, store, lastStop, failed>>

Next ==
    \/ \E p \in Pane : Remove(p) \/ \E h \in Host : Create(p, h) \/ Replace(p, h)
    \/ \E g \in Gen : Change(g) \/ Exit(g)
    \/ PersistDue \/ Shutdown \/ Crash \/ Boot

Spec == Init /\ [][Next]_vars

\* A timer that is due fires.
FairSpec == Spec /\ WF_vars(PersistDue)

----------------------------------------------------------------------------
\* The pane map and the ptys agree both ways: every running pty that nobody
\* killed is the session its id names, and every id names a running session of
\* its own.  A late exit must not orphan the session that reuses its id.
MapMatchesPtys ==
    /\ \A g \in Gen : Exists(g) /\ sess[g].life = "live" => panes[sess[g].pane] = g
    /\ \A p \in Open : /\ Exists(panes[p])
                       /\ sess[panes[p]].pane = p
                       /\ sess[panes[p]].life = "live"

\* The promise of PaneArchive is kept, whatever is marked and whenever it is written: the
\* rows that a save leaves are those of the open panes, the incremental save being as good
\* as a full one; only a row that is no pane's may outlive it, once a killed pty has printed.
Archive == INSTANCE PaneArchive WITH
    running <- up,
    open    <- FullSave,
    disk    <- store,
    clean   <- lastStop # None

PanesAreArchived == Archive!Spec

\* A pane closed before a graceful stop that could flush does not come back at the next
\* boot, and one that was open does have a row to come back from.
StopLeavesOpenPanes ==
    ~up /\ lastStop # None => {p \in Pane : store[p] # None} = lastStop.open

\* So it is as long as no killed pty of that daemon has printed, whatever saves failed
\* before the last.
StopKeepsOpenPanes == ~late => StopLeavesOpenPanes

\* Whatever is on disk for a pane that is gone leaves the disk once a save is due, unless
\* that save fails, the pane opens again, a killed pty prints or the daemon ends first.
\* A failed save leaves its marks, so the next one that is scheduled, by whichever pane,
\* owes the same.
ClosedRowsGo ==
    \A p \in Pane : (up /\ timer /\ p \notin Open /\ store[p] # None)
                        ~> (store[p] = None \/ p \in Open \/ late \/ failed \/ ~up)
============================================================================
