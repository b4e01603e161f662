-------------------------- MODULE DaemonMigration --------------------------
(***************************************************************************)
(* The hand-off from one daemon protocol to the next                       *)
(* (src/main/daemon-migrate.ts, and startDaemonBackend of daemon-relay.ts  *)
(* and boot.ts, which call it): an application of a new release captures   *)
(* the panes of the older daemon over its wire, has it shut down, seeds a  *)
(* session store with them, and only then has its own daemon started.      *)
(*                                                                         *)
(* One application runs at a time (the single-instance lock), the new one  *)
(* or the old one.  Meanwhile the old daemon's panes print and exit, its   *)
(* store lags behind, and it, or the application, may die.                 *)
(*                                                                         *)
(* A pane holds an occupant: a plain shell, an agent here, or an agent on  *)
(* a remote machine.  Each remote occupant has a host of its own name.     *)
(***************************************************************************)
EXTENDS Naturals

CONSTANTS
    Pane,
    Local, Remote,  \* the occupants of panes, here and on remote machines
    Plain,          \* those without a label: no agent and no command
    None,           \* no occupant, no row, no file
    MaxText,        \* bound on what a pane prints
    MaxOps,         \* bound on what happens to the old daemon's panes
    MaxAccident     \* bound on crashes, lost frames and failed reads and writes

Occupant == Local \cup Remote
ASSUME OccupantAssumption ==
    /\ Plain \subseteq Local /\ Local \cap Remote = {} /\ None \notin Occupant
    /\ "here" \notin Remote
ASSUME BoundAssumption == MaxText \in Nat /\ MaxOps \in Nat /\ MaxAccident \in Nat

VARIABLES
    keeps,      \* the old protocol's store records SSH identity (version 7 and later)
    old,        \* the old daemon
    corpse,     \* it died, its endpoint file is there, and a stranger has its pid
    running,    \* its panes
    shown,      \* what each has printed
    db,         \* its session store
    order,      \* a shutdown frame is on its way to it
    stage,      \* where the application is
    confirmed,  \* hosts confirmed in Settings as POSIX
    persisted,  \* the rows of the old store, as the application has them
    list,       \* the panes the old daemon has listed
    captured,   \* what it has answered of their text
    rows,       \* the rows to seed
    target,     \* the new session store: no file, or its rows
    newUp, new, \* the new daemon, and what it has restored
    ops, accidents,
    \* history
    owed,       \* what its panes showed when they were listed, but for those that have exited
    torn,       \* the new store was made and not filled
    unread,     \* rows were used that were not the old store's last
    hearsay,    \* plain shells seeded with a command that only a row has for them
    downgraded  \* the old release was started again after the new one's store was made

daemon  == <<old, corpse, running, shown, db, order>>
working == <<persisted, list, captured, rows>>
fresh   == <<target, newUp, new>>
history == <<owed, torn, unread, hearsay, downgraded>>
vars    == <<keeps, confirmed, daemon, stage, working, fresh, ops, accidents, history>>

Place(o)   == IF o \in Remote THEN o ELSE "here"
Title(o)   == IF o \in Plain THEN None ELSE o
Row        == [place : {"here"} \cup Remote, cmd : Occupant \cup {None}, text : 0 .. MaxText]
Rows       == [Pane -> Row \cup {None}]
Empty      == [p \in Pane |-> None]
ASSUME NoneAssumption == None \notin Rows /\ None \notin Row /\ None \notin Nat
Text       == 0 .. MaxText
Stage      == {"off", "connect", "list", "capture", "retire", "create", "save", "boot", "served", "deferred"}

TypeOK ==
    /\ keeps \in BOOLEAN /\ corpse \in BOOLEAN /\ order \in BOOLEAN
    /\ old \in {"alive", "exiting", "dead"}
    /\ running \in [Pane -> Occupant \cup {None}] /\ shown \in [Pane -> Text]
    /\ db \in Rows
    /\ stage \in Stage
    /\ confirmed \subseteq Remote
    /\ persisted \in Rows /\ rows \in Rows
    /\ list \in [Pane -> Occupant \cup {None}]
    /\ captured \in [Pane -> Text \cup {None}]
    /\ target \in Rows \cup {None} /\ newUp \in BOOLEAN /\ new \in Rows
    /\ ops \in 0 .. MaxOps /\ accidents \in 0 .. MaxAccident
    /\ owed \in [Pane -> Text \cup {None}]
    /\ torn \in BOOLEAN /\ unread \in BOOLEAN /\ downgraded \in BOOLEAN
    /\ hearsay \subseteq Pane

----------------------------------------------------------------------------
\* What the old daemon writes of its panes (PaneSession.snapshot).
Snapshot ==
    [p \in Pane |->
        IF running[p] = None THEN None
        ELSE [place |-> IF keeps THEN Place(running[p]) ELSE "here",
              cmd   |-> Title(running[p]), text |-> shown[p]]]

Init ==
    /\ keeps \in BOOLEAN
    /\ old = "alive" /\ corpse = FALSE /\ order = FALSE
    /\ running \in [Pane -> Occupant \cup {None}]
    /\ shown = [p \in Pane |-> 0]
    /\ db = Snapshot
    /\ stage = "off"
    /\ confirmed \in SUBSET Remote
    /\ persisted = Empty /\ list = Empty /\ captured = Empty /\ rows = Empty
    /\ target = None /\ newUp = FALSE /\ new = Empty
    /\ ops = 0 /\ accidents = 0
    /\ owed = Empty /\ torn = FALSE /\ unread = FALSE /\ downgraded = FALSE /\ hearsay = {}

Op       == ops < MaxOps /\ ops' = ops + 1
Accident == accidents < MaxAccident /\ accidents' = accidents + 1
Smooth   == UNCHANGED accidents

----------------------------------------------------------------------------
\* The old daemon's panes; only its own application opens any.
Open(p, o) ==
    /\ Op
    /\ stage = "off" /\ old = "alive" /\ running[p] = None
    /\ running' = [running EXCEPT ![p] = o]
    /\ shown' = [shown EXCEPT ![p] = 0]
    /\ UNCHANGED <<keeps, confirmed, old, corpse, db, order, stage, working, fresh, accidents, history>>

Closes(p) ==
    /\ Op
    /\ running[p] # None
    /\ running' = [running EXCEPT ![p] = None] /\ owed' = [owed EXCEPT ![p] = None]
    /\ UNCHANGED <<keeps, confirmed, old, corpse, shown, db, order, stage, working, fresh, accidents, torn, unread, hearsay, downgraded>>

Prints(p) ==
    /\ Op
    /\ running[p] # None /\ shown[p] < MaxText
    /\ shown' = [shown EXCEPT ![p] = @ + 1]
    /\ UNCHANGED <<keeps, confirmed, old, corpse, running, db, order, stage, working, fresh, accidents, history>>

\* Its writes are coalesced, up to two seconds late.
Persist ==
    /\ old = "alive" /\ db # Snapshot
    /\ db' = Snapshot
    /\ UNCHANGED <<keeps, confirmed, old, corpse, running, shown, order, stage, working, fresh, ops, accidents, history>>

\* It obeys a shutdown frame: it writes its store, removes its endpoint and exits.
Obey ==
    /\ order /\ old = "alive"
    /\ old' = "exiting" /\ db' = Snapshot
    /\ running' = Empty /\ order' = FALSE
    /\ UNCHANGED <<keeps, confirmed, corpse, shown, stage, working, fresh, ops, accidents, history>>

Exit ==
    /\ old = "exiting" /\ old' = "dead"
    /\ UNCHANGED <<keeps, confirmed, corpse, running, shown, db, order, stage, working, fresh, ops, accidents, history>>

\* It dies as it stands: its store is the best state that exists.  A row of the occupant
\* that a listed pane had before, on another machine, owes it no text.
OldDies ==
    /\ Accident
    /\ old = "alive" /\ old' = "dead"
    /\ corpse' \in BOOLEAN
    /\ running' = Empty /\ order' = FALSE
    /\ owed' = [p \in Pane |->
                  IF running[p] = None \/ db[p] = None THEN None
                  ELSE IF stage \in {"capture", "retire"} /\ db[p].place # Place(running[p]) THEN 0
                  ELSE IF stage \in {"capture", "retire"} /\ owed[p] < db[p].text THEN owed[p]
                  ELSE db[p].text]
    /\ UNCHANGED <<keeps, confirmed, shown, db, stage, working, fresh, ops, torn, unread, hearsay, downgraded>>

\* The old release is started again; its daemon restores its store.
OldLaunch ==
    /\ Op
    /\ stage = "off" /\ old = "dead"
    /\ old' = "alive" /\ corpse' = FALSE
    /\ \E o \in Plain :
         running' = [p \in Pane |-> IF db[p] = None THEN None ELSE IF db[p].cmd = None THEN o ELSE db[p].cmd]
    /\ shown' = [p \in Pane |-> IF db[p] = None THEN 0 ELSE db[p].text]
    /\ owed' = Empty
    /\ downgraded' = (downgraded \/ target # None)
    /\ UNCHANGED <<keeps, confirmed, db, order, stage, working, fresh, accidents, torn, unread, hearsay>>

----------------------------------------------------------------------------
\* The rows of the old store; [] if it cannot be read.
ReadsStore ==
    \/ persisted' = db /\ Smooth /\ UNCHANGED unread
    \/ persisted' = Empty /\ Accident /\ unread' = TRUE

\* A remote pane can be made again only from a row that names its host.
Matched(p, held) == list[p] \in Remote /\ held[p] # None /\ held[p].place = list[p]
Restorable(held) == \A p \in Pane : list[p] \in Remote => Matched(p, held)

\* addConfirmedRemoteIdentities()
WithConfirmed(held) ==
    [p \in Pane |->
        IF list[p] \in confirmed /\ ~Matched(p, held)
        THEN [place |-> list[p], cmd |-> Title(list[p]), text |-> IF held[p] = None THEN 0 ELSE held[p].text]
        ELSE held[p]]

\* Mutant: a local pane keeps the row of a remote one that was there before.
MutMerge(held) ==
    [p \in Pane |->
        LET kept == held[p] IN
        IF list[p] = None \/ (list[p] \in Remote /\ ~Matched(p, held)) THEN None
        ELSE [place |-> Place(list[p]),
              cmd   |-> IF Title(list[p]) # None THEN Title(list[p]) ELSE IF kept = None THEN None ELSE kept.cmd,
              text  |-> IF captured[p] # None THEN captured[p] ELSE IF kept = None THEN 0 ELSE kept.text]]

\* mergeLiveCaptureRows(): what the daemon listed, and of the rows what it did not say.
Merge(held) ==
    [p \in Pane |->
        LET kept == IF list[p] \notin Remote /\ held[p] # None /\ held[p].place # "here" THEN None ELSE held[p] IN
        IF list[p] = None \/ (list[p] \in Remote /\ ~Matched(p, held)) THEN None
        ELSE [place |-> Place(list[p]),
              cmd   |-> IF Title(list[p]) # None THEN Title(list[p]) ELSE IF kept = None THEN None ELSE kept.cmd,
              text  |-> IF captured[p] # None THEN captured[p] ELSE IF kept = None THEN 0 ELSE kept.text]]

\* persistedRowsForDeadSource(): a store that does not know hosts resumes nothing.
DeadRows(held) ==
    [p \in Pane |-> IF keeps \/ held[p] = None THEN held[p] ELSE [held[p] EXCEPT !.cmd = None]]

MoveOn(from, to) == stage = from /\ stage' = to

\* The launch, to its first await.
Launch ==
    /\ stage = "off"
    /\ list' = Empty /\ captured' = Empty
    /\ IF target # None
       THEN /\ MoveOn("off", "boot") /\ Smooth
            /\ UNCHANGED <<persisted, rows, unread>>
       ELSE /\ ReadsStore
            /\ IF old = "alive" \/ corpse
               THEN MoveOn("off", "connect") /\ UNCHANGED rows
               ELSE rows' = DeadRows(persisted') /\ MoveOn("off", IF rows' = Empty THEN "boot" ELSE "create")
    /\ UNCHANGED <<keeps, confirmed, daemon, fresh, ops, owed, torn, hearsay, downgraded>>

GivesUp(from) ==
    /\ MoveOn(from, "deferred")
    /\ UNCHANGED <<keeps, confirmed, daemon, working, fresh, ops, history>>

\* The conversation with the old daemon; it ends where the daemon does.
Connect ==
    \/ /\ old = "alive" /\ MoveOn("connect", "list") /\ Smooth
       /\ UNCHANGED <<keeps, confirmed, daemon, working, fresh, ops, history>>
    \/ old # "alive" /\ GivesUp("connect") /\ Smooth
    \/ old = "alive" /\ GivesUp("connect") /\ Accident

List ==
    \/ /\ old = "alive" /\ MoveOn("list", "capture") /\ Smooth
       /\ list' = running
       /\ owed' = [p \in Pane |-> IF running[p] = None THEN None ELSE shown[p]]
       /\ UNCHANGED <<keeps, confirmed, daemon, persisted, captured, rows, fresh, ops, torn, unread, hearsay, downgraded>>
    \/ old # "alive" /\ GivesUp("list") /\ Smooth
    \/ old = "alive" /\ GivesUp("list") /\ Accident

\* A pane that has exited gives no answer.
Capture(p) ==
    /\ stage = "capture" /\ old = "alive"
    /\ list[p] # None /\ captured[p] = None /\ running[p] # None
    /\ captured' = [captured EXCEPT ![p] = shown[p]]
    /\ UNCHANGED <<keeps, confirmed, daemon, stage, persisted, list, rows, fresh, ops, accidents, history>>

\* All have answered, or the timer has run: may it be retired?  Its shutdown frame may be lost.
Decide ==
    /\ stage = "capture" /\ old = "alive"
    /\ persisted' = WithConfirmed(persisted)
    /\ IF Restorable(persisted')
       THEN /\ stage' = "retire"
            /\ \/ order' = TRUE /\ Smooth
               \/ order' = order /\ Accident
       ELSE stage' = "deferred" /\ UNCHANGED <<order, accidents>>
    /\ UNCHANGED <<keeps, confirmed, old, corpse, running, shown, db, list, captured, rows, fresh, ops, history>>

HangUp == old # "alive" /\ GivesUp("capture") /\ Smooth

\* Mutant: the old store's last rows are used, whatever they say of the hosts.
MutFinal(held) == held # Empty

\* The old store's last rows are used if they can restore every remote pane.
Final(held) == held # Empty /\ Restorable(held)

\* Mutant: the captured panes are seeded whether or not the daemon has gone.
MutRetired == stage = "retire"

\* Its process has gone; or it has not, in the time that it has.
Retired == stage = "retire" /\ old = "dead" /\ ~corpse

Reread ==
    /\ Retired
    /\ \E held \in {db, Empty} :
         /\ IF held = db THEN Smooth ELSE Accident
         /\ persisted' = IF Final(held) THEN held ELSE persisted
         /\ unread' = (unread \/ ~Final(held))
    /\ rows' = Merge(persisted')
    /\ hearsay' = {p \in Pane : list[p] \in Plain /\ rows'[p].cmd # None}
    /\ stage' = IF rows' = Empty THEN "boot" ELSE "create"
    /\ UNCHANGED <<keeps, confirmed, daemon, list, captured, fresh, ops, owed, torn, downgraded>>

\* Mutant: it waits for its process for ever.
MutStillThere == GivesUp("retire") /\ corpse /\ Smooth

StillThere ==
    /\ GivesUp("retire")
    /\ IF corpse \/ (old = "alive" /\ ~order) THEN Smooth ELSE Accident

\* new SessionStore() makes the file; savePanes() is one transaction.
Create ==
    /\ MoveOn("create", "save") /\ target' = Empty
    /\ UNCHANGED <<keeps, confirmed, daemon, working, newUp, new, ops, accidents, history>>

Save ==
    \/ /\ MoveOn("save", "boot") /\ target' = rows /\ Smooth
       /\ UNCHANGED <<keeps, confirmed, daemon, working, newUp, new, ops, history>>
    \/ /\ MoveOn("save", "boot") /\ torn' = TRUE /\ Accident
       /\ UNCHANGED <<keeps, confirmed, daemon, working, fresh, ops, owed, unread, hearsay, downgraded>>

\* ensureDaemon(): the new daemon opens its store and restores it.
Restore ==
    /\ MoveOn("boot", "served")
    /\ IF newUp THEN UNCHANGED fresh
       ELSE /\ newUp' = TRUE
            /\ target' = (IF target = None THEN Empty ELSE target)
            /\ new' = target'
    /\ UNCHANGED <<keeps, confirmed, daemon, working, ops, accidents, history>>

\* The application quits, or dies in the middle.
Quit ==
    /\ stage \in {"served", "deferred"} /\ stage' = "off"
    /\ UNCHANGED <<keeps, confirmed, daemon, working, fresh, ops, accidents, history>>

Dies ==
    /\ Accident
    /\ stage \notin {"off", "served", "deferred"} /\ stage' = "off"
    /\ torn' = (torn \/ stage = "save")
    /\ UNCHANGED <<keeps, confirmed, daemon, working, fresh, ops, owed, unread, hearsay, downgraded>>

\* The user confirms a host.
Confirm(r) ==
    /\ stage \in {"served", "deferred"} /\ r \in Remote \ confirmed
    /\ confirmed' = confirmed \cup {r}
    /\ UNCHANGED <<keeps, daemon, stage, working, fresh, ops, accidents, history>>

----------------------------------------------------------------------------
Migrates == Connect \/ List \/ Decide \/ HangUp \/ Reread \/ StillThere \/ Create \/ Save \/ Restore

Next ==
    \/ \E p \in Pane : Closes(p) \/ Prints(p) \/ Capture(p) \/ \E o \in Occupant : Open(p, o)
    \/ Persist \/ Obey \/ Exit \/ OldDies \/ OldLaunch
    \/ Launch \/ Migrates \/ Quit \/ Dies
    \/ \E r \in Remote : Confirm(r)

Spec == Init /\ [][Next]_vars

\* Every await of the application has its timer, and a daemon's process runs.
FairSpec == Spec /\ WF_vars(Migrates) /\ WF_vars(Obey \/ Exit)

----------------------------------------------------------------------------
\* No pane runs in both daemons: the new one is not started over a store that was
\* captured while the old one lives - unless the old release is started again later,
\* when its own store, left as a backup, brings its panes back.
NoTwins == newUp /\ ~downgraded => running = Empty

\* What ran on a remote machine is not run here, nor the other way round; but a plain
\* shell may be given the command that a row has for its pane (`hearsay`), and a store
\* that does not know hosts may have it from a remote agent that was there before.
RightMachine ==
    \A p \in Pane : new[p] # None /\ new[p].cmd # None =>
        new[p].place = Place(new[p].cmd) \/ (p \in hearsay /\ ~keeps)

\* What the user had on the screen when the panes were listed, or what the store of a dead
\* daemon held, is there when the new daemon starts; its text too, if the old store's last
\* rows were used.
NothingIsLost ==
    [][newUp' /\ ~newUp /\ ~torn /\ ~downgraded =>
         \A p \in Pane : owed[p] # None =>
            \/ new'[p] # None /\ (new'[p].text >= owed[p] \/ unread)
            \/ unread /\ persisted = Empty]_vars

\* "Never a blocked launch": an application that starts comes to a daemon, or gives up.
LaunchEnds == stage # "off" ~> stage \in {"off", "served", "deferred"}
============================================================================
