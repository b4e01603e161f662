----------------------- MODULE DaemonMigrationProofs -----------------------
(***************************************************************************)
(* Theorems about DaemonMigration for any panes, occupants and accidents.  *)
(*                                                                         *)
(* No pane runs twice because a store for the new daemon is only made when *)
(* the old daemon has let its panes go (OldIsGone).  A row that says where *)
(* its command ran is right about it all along the way from the old store  *)
(* to the new daemon (RowsAreRight).  What the old daemon's panes showed   *)
(* is always somewhere on its way to the new store (KeptInv).              *)
(*                                                                         *)
(* The second half is about DaemonLock, under which the daemon that takes  *)
(* over boots, as every daemon does.                                       *)
(***************************************************************************)
EXTENDS DaemonMigration, DaemonLock, TLAPS

OldIsGone ==
    /\ old # "alive" => running = Empty
    /\ newUp => target # None
    /\ target # None => stage \in {"off", "save", "boot", "served", "deferred"}
    /\ (stage \in {"create", "save", "boot"} \/ target # None) /\ ~downgraded => old # "alive"

\* A command is in a row of the machine where it ran ...
Rightly(held) == \A p \in Pane : held[p] # None /\ held[p].cmd # None => held[p].place = Place(held[p].cmd)

\* ... or the row is one that RightMachine exempts.
Excused(held) ==
    \A p \in Pane : held[p] # None /\ held[p].cmd # None =>
        held[p].place = Place(held[p].cmd) \/ (p \in hearsay /\ ~keeps)

RowsAreRight ==
    /\ keeps => Rightly(db) /\ Rightly(persisted)
    /\ stage \in {"create", "save"} => Excused(rows)
    /\ target # None => Excused(target)
    /\ Excused(new)
    /\ ~newUp => new = Empty

IInv == TypeOK /\ OldIsGone /\ RowsAreRight

----------------------------------------------------------------------------
\* The steps that leave the rows alone, and those of the application.
Aside ==
    \/ \E p \in Pane : Closes(p) \/ Prints(p) \/ Capture(p) \/ \E o \in Occupant : Open(p, o)
    \/ Exit \/ OldDies \/ OldLaunch \/ Connect \/ List \/ HangUp \/ StillThere \/ Quit \/ Dies
    \/ \E r \in Remote : Confirm(r)

LEMMA StepCases ==
    ASSUME Next
    PROVE  Aside \/ Persist \/ Obey \/ Launch \/ Decide \/ Reread \/ Create \/ Save \/ Restore
BY DEF Next, Migrates, Aside

\* What the store of the old daemon gets is typed and, if it knows hosts, right.
LEMMA SnapshotRows == ASSUME TypeOK PROVE Snapshot \in Rows /\ (keeps => Rightly(Snapshot))
BY OccupantAssumption DEF TypeOK, Snapshot, Rows, Row, Rightly, Place, Title, Occupant, Text

LEMMA DeadRowsRows ==
    ASSUME NEW held \in Rows
    PROVE  /\ DeadRows(held) \in Rows
           /\ (keeps => Rightly(held)) => Rightly(DeadRows(held))
<1>1. CASE keeps
  BY <1>1 DEF DeadRows, Rows, Rightly
<1>2. CASE ~keeps
  <2>1. ASSUME NEW p \in Pane
        PROVE  /\ DeadRows(held)[p] \in Row \cup {None}
               /\ DeadRows(held)[p] # None => DeadRows(held)[p].cmd = None
    BY <1>2 DEF DeadRows, Rows, Row
  <2> QED
    BY <2>1 DEF DeadRows, Rows, Rightly
<1> QED
  BY <1>1, <1>2

LEMMA WithConfirmedRows ==
    ASSUME TypeOK, NEW held \in Rows
    PROVE  /\ WithConfirmed(held) \in Rows
           /\ Rightly(held) => Rightly(WithConfirmed(held))
<1>1. ASSUME NEW p \in Pane, list[p] \in confirmed
      PROVE  list[p] \in Remote /\ Title(list[p]) = list[p] /\ Place(list[p]) = list[p]
  BY <1>1, OccupantAssumption DEF TypeOK, Title, Place
<1>2. ASSUME NEW p \in Pane
      PROVE  /\ WithConfirmed(held)[p] \in Row \cup {None}
             /\ \/ WithConfirmed(held)[p] = held[p]
                \/ WithConfirmed(held)[p].place = Place(WithConfirmed(held)[p].cmd)
  BY <1>1, BoundAssumption DEF WithConfirmed, Rows, Row, Occupant, Text
<1> QED
  BY <1>2 DEF WithConfirmed, Rows, Rightly

LEMMA MergeRows ==
    ASSUME TypeOK, NEW held \in Rows
    PROVE  /\ Merge(held) \in Rows
           /\ \A p \in Pane : Merge(held)[p] # None /\ Merge(held)[p].cmd # None =>
                 \/ Merge(held)[p].place = Place(Merge(held)[p].cmd)
                 \/ list[p] \in Plain /\ ~Rightly(held)
<1> SUFFICES ASSUME NEW p \in Pane
             PROVE  /\ Merge(held)[p] \in Row \cup {None}
                    /\ Merge(held)[p] # None /\ Merge(held)[p].cmd # None =>
                         \/ Merge(held)[p].place = Place(Merge(held)[p].cmd)
                         \/ list[p] \in Plain /\ ~Rightly(held)
  BY DEF Merge, Rows
<1> DEFINE kept == IF list[p] \notin Remote /\ held[p] # None /\ held[p].place # "here" THEN None ELSE held[p]
<1>1. list[p] \in Occupant \cup {None} /\ captured[p] \in Text \cup {None} /\ held[p] \in Row \cup {None}
  BY DEF TypeOK, Rows
<1>2. CASE list[p] = None \/ (list[p] \in Remote /\ ~Matched(p, held))
  BY <1>2 DEF Merge
<1>3. CASE list[p] \in Occupant /\ ~(list[p] \in Remote /\ ~Matched(p, held))
  <2> DEFINE c == IF Title(list[p]) # None THEN Title(list[p]) ELSE IF kept = None THEN None ELSE kept.cmd
             t == IF captured[p] # None THEN captured[p] ELSE IF kept = None THEN 0 ELSE kept.text
  <2>1. Merge(held)[p] = [place |-> Place(list[p]), cmd |-> c, text |-> t]
    BY <1>3, OccupantAssumption DEF Merge
  <2>2. kept = None \/ kept \in Row
    BY <1>1
  <2>3. t \in Text
    BY <1>1, <2>2, BoundAssumption DEF Row, Text
  <2>4. c \in Occupant \cup {None} /\ Place(list[p]) \in {"here"} \cup Remote
    BY <1>3, <2>2 DEF Row, Title, Place
  <2>5. Merge(held)[p] \in Row
    BY <2>1, <2>3, <2>4 DEF Row, Text
  <2>6. CASE list[p] \notin Plain
    BY <1>3, <2>1, <2>5, <2>6, OccupantAssumption DEF Title
  <2>7. CASE list[p] \in Plain /\ Rightly(held)
    <3>1. Place(list[p]) = "here" /\ list[p] \notin Remote /\ Title(list[p]) = None
      BY <2>7, OccupantAssumption DEF Place, Title
    <3>2. c # None => kept # None /\ kept = held[p] /\ held[p].place = "here" /\ c = held[p].cmd
      BY <3>1
    <3> QED
      BY <2>1, <2>5, <2>7, <3>1, <3>2 DEF Rightly
  <2> HIDE DEF c, t
  <2> QED
    BY <2>1, <2>5, <2>6, <2>7
<1> QED
  BY <1>1, <1>2, <1>3

----------------------------------------------------------------------------
LEMMA TypeInit == Init => TypeOK
<1> SUFFICES ASSUME Init PROVE TypeOK
  OBVIOUS
<1>1. Empty \in Rows /\ 0 \in Text /\ Empty \in [Pane -> Text \cup {None}] /\ Empty \in [Pane -> Occupant \cup {None}]
  BY BoundAssumption DEF Empty, Rows, Text
<1>2. shown \in [Pane -> Text]
  BY BoundAssumption DEF Init, Text
<1>3. db \in Rows
  BY <1>2, OccupantAssumption DEF Init, Snapshot, Rows, Row, Place, Title, Occupant, Text
<1>4. /\ keeps \in BOOLEAN /\ corpse \in BOOLEAN /\ order \in BOOLEAN
      /\ torn \in BOOLEAN /\ unread \in BOOLEAN /\ downgraded \in BOOLEAN /\ newUp \in BOOLEAN
  BY DEF Init
<1>5. ops \in 0 .. MaxOps /\ accidents \in 0 .. MaxAccident
  BY BoundAssumption DEF Init
<1> QED
  BY <1>1, <1>2, <1>3, <1>4, <1>5 DEF Init, TypeOK, Stage

LEMMA AsideType == ASSUME TypeOK, Aside PROVE TypeOK'
<1> USE BoundAssumption, OccupantAssumption
    DEF TypeOK, Stage, Text, Op, Accident, Smooth, MoveOn, GivesUp, daemon, working, fresh, history
<1>0. Empty \in [Pane -> Text \cup {None}] /\ Empty \in [Pane -> Occupant \cup {None}]
  BY DEF Empty
<1>1. CASE \E p \in Pane : Closes(p) \/ Prints(p)
  BY <1>1 DEF Closes, Prints
<1>2. CASE \E p \in Pane : Capture(p)
  BY <1>2 DEF Capture
<1>3. CASE \E p \in Pane : \E o \in Occupant : Open(p, o)
  BY <1>3 DEF Open
<1>4. CASE Exit
  BY <1>4 DEF Exit
<1>5. CASE OldDies
  <2>1. \A p \in Pane : db[p] # None => db[p].text \in Text
    BY DEF Rows, Row
  <2>2. owed' \in [Pane -> Text \cup {None}]
    BY <1>5, <2>1 DEF OldDies
  <2>3. accidents' \in 0 .. MaxAccident /\ UNCHANGED <<keeps, stage, db, shown, confirmed, ops>>
    BY <1>5 DEF OldDies
  <2>5. UNCHANGED <<torn, unread, hearsay, downgraded, persisted, list, captured, rows, target, newUp, new>>
    BY <1>5 DEF OldDies
  <2>4. running' = Empty /\ order' = FALSE /\ old' = "dead" /\ corpse' \in BOOLEAN
    BY <1>5 DEF OldDies
  <2> QED
    BY <1>0, <2>2, <2>3, <2>4, <2>5
<1>6. CASE OldLaunch
  <2>1. \A p \in Pane : db[p] # None => db[p].text \in Text /\ db[p].cmd \in Occupant \cup {None}
    BY DEF Rows, Row
  <2>2. shown' \in [Pane -> Text]
    BY <1>6, <2>1 DEF OldLaunch
  <2>3. running' \in [Pane -> Occupant \cup {None}]
    BY <1>6, <2>1 DEF OldLaunch, Occupant
  <2> QED
    <3>1. downgraded' \in BOOLEAN
      BY <1>6 DEF OldLaunch
    <3>2. ops' \in 0 .. MaxOps /\ old' = "alive" /\ corpse' = FALSE /\ owed' = Empty
      BY <1>6 DEF OldLaunch
    <3>3. UNCHANGED <<keeps, confirmed, db, order, stage, working, fresh, accidents, torn, unread, hearsay>>
      BY <1>6 DEF OldLaunch
    <3> QED
      BY <1>0, <2>2, <2>3, <3>1, <3>2, <3>3
<1>7. CASE Connect \/ HangUp
  BY <1>7 DEF Connect, HangUp
<1>10. CASE StillThere \/ Quit
  BY <1>10 DEF StillThere, Quit
<1>11. CASE Dies
  <2>1. torn' \in BOOLEAN
    BY <1>11 DEF Dies
  <2>2. stage' \in Stage /\ accidents' \in 0 .. MaxAccident
    BY <1>11 DEF Dies
  <2>3. UNCHANGED <<keeps, confirmed, daemon, working, fresh, ops, owed, unread, hearsay, downgraded>>
    BY <1>11 DEF Dies
  <2> QED
    BY <2>1, <2>2, <2>3
<1>8. CASE List
  BY <1>8 DEF List
<1>9. CASE \E r \in Remote : Confirm(r)
  BY <1>9 DEF Confirm
<1> QED
  BY <1>1, <1>2, <1>3, <1>4, <1>5, <1>6, <1>7, <1>8, <1>9, <1>10, <1>11 DEF Aside
LEMMA LaunchType == ASSUME TypeOK, Launch PROVE TypeOK'
<1> USE DEF Launch, MoveOn, Smooth, Accident, ReadsStore
<1>1. Empty \in Rows /\ Empty \in [Pane -> Text \cup {None}] /\ Empty \in [Pane -> Occupant \cup {None}]
  BY DEF Empty, Rows
<1>2. persisted' \in Rows
  BY <1>1 DEF TypeOK, working
<1>3. rows' \in Rows
  BY <1>2, DeadRowsRows DEF TypeOK
<1>4. unread' \in BOOLEAN
  BY DEF TypeOK
<1>5. stage' \in Stage /\ accidents' \in 0 .. MaxAccident
  BY BoundAssumption DEF TypeOK, Stage
<1>6. UNCHANGED <<keeps, confirmed, daemon, fresh, ops, owed, torn, hearsay, downgraded>> /\ list' = Empty /\ captured' = Empty
  OBVIOUS
<1> HIDE DEF Launch
<1> QED
  BY <1>1, <1>2, <1>3, <1>4, <1>5, <1>6 DEF TypeOK, daemon, fresh

LEMMA DecideType == ASSUME TypeOK, Decide PROVE TypeOK' /\ persisted' = WithConfirmed(persisted)
<1>1. persisted' = WithConfirmed(persisted) /\ persisted' \in Rows
  BY WithConfirmedRows DEF Decide, TypeOK
<1>2. order' \in BOOLEAN
  BY DEF Decide, TypeOK
<1>3. stage' \in Stage /\ accidents' \in 0 .. MaxAccident
  BY BoundAssumption DEF Decide, TypeOK, Stage, Smooth, Accident
<1>4. UNCHANGED <<keeps, confirmed, old, corpse, running, shown, db, list, captured, rows, fresh, ops, history>>
  BY DEF Decide
<1> QED
  BY <1>1, <1>2, <1>3, <1>4 DEF TypeOK, fresh, history

LEMMA RereadType ==
    ASSUME TypeOK, Reread
    PROVE  TypeOK' /\ rows' = Merge(persisted') /\ (persisted' = persisted \/ persisted' = db)
<1>1. Empty \in Rows
  BY DEF Empty, Rows
<1>2. (persisted' = persisted \/ persisted' = db) /\ rows' = Merge(persisted')
  BY DEF Reread, Final
<1>3. persisted' \in Rows /\ rows' \in Rows
  BY <1>2, MergeRows DEF TypeOK
<1>4. unread' \in BOOLEAN
  BY DEF Reread, TypeOK
<1>5. stage' \in Stage /\ accidents' \in 0 .. MaxAccident /\ hearsay' \subseteq Pane
  BY BoundAssumption DEF Reread, TypeOK, Stage, Smooth, Accident
<1>6. UNCHANGED <<keeps, confirmed, daemon, list, captured, fresh, ops, owed, torn, downgraded>>
  BY DEF Reread
<1> QED
  BY <1>2, <1>3, <1>4, <1>5, <1>6 DEF TypeOK, daemon, fresh

LEMMA NextType == ASSUME TypeOK, Next PROVE TypeOK'
<1> USE DEF TypeOK, Stage, MoveOn, Smooth, Accident
<1>0. Empty \in Rows /\ Empty \in [Pane -> Occupant \cup {None}]
  BY DEF Empty, Rows
<1>1. CASE Persist \/ Obey
  <2>1. db' \in Rows /\ running' \in [Pane -> Occupant \cup {None}]
    BY <1>0, <1>1, SnapshotRows DEF Persist, Obey
  <2>2. old' \in {"alive", "exiting", "dead"}
    BY <1>1 DEF Persist, Obey
  <2>3. order' \in BOOLEAN
    BY <1>1 DEF Persist, Obey
  <2>4. UNCHANGED <<keeps, confirmed, corpse, shown, stage, working, fresh, ops, accidents, history>>
    BY <1>1 DEF Persist, Obey
  <2> QED
    BY <2>1, <2>2, <2>3, <2>4 DEF working, fresh, history
<1>2. CASE Create
  <2>1. target' \in Rows /\ stage' = "save"
    BY <1>0, <1>2 DEF Create
  <2>2. UNCHANGED <<keeps, confirmed, daemon, working, newUp, new, ops, accidents, history>>
    BY <1>2 DEF Create
  <2> QED
    BY <2>1, <2>2 DEF daemon, working, history
<1>3. CASE Save
  <2>1. target' \in Rows \cup {None} /\ accidents' \in 0 .. MaxAccident
    BY <1>3, BoundAssumption DEF Save, fresh
  <2>3. torn' \in BOOLEAN
    BY <1>3 DEF Save, history
  <2>2. UNCHANGED <<keeps, confirmed, daemon, working, newUp, new, ops, owed, unread, hearsay, downgraded>> /\ stage' = "boot"
    BY <1>3 DEF Save, fresh, history
  <2> QED
    BY <2>1, <2>2, <2>3 DEF daemon, working
<1>4. CASE Restore
  <2>1. /\ target' \in Rows \cup {None} /\ new' \in Rows /\ newUp' \in BOOLEAN
        /\ stage' = "served"
    BY <1>0, <1>4 DEF Restore, fresh
  <2>2. UNCHANGED <<keeps, confirmed, daemon, working, ops, accidents, history>>
    BY <1>4 DEF Restore
  <2> QED
    BY <2>1, <2>2 DEF daemon, working, history
<1> QED
  BY <1>1, <1>2, <1>3, <1>4, StepCases, AsideType, LaunchType, DecideType, RereadType

\* Every variable keeps its type, for any panes, occupants and accidents.
THEOREM TypeCorrect == Spec => []TypeOK
<1>1. ASSUME TypeOK, UNCHANGED vars PROVE TypeOK'
  BY <1>1 DEF TypeOK, vars, daemon, working, fresh, history
<1> QED
  BY <1>1, TypeInit, NextType, PTL DEF Spec

----------------------------------------------------------------------------
LEMMA GoneStep == ASSUME TypeOK, OldIsGone, Next PROVE OldIsGone'
<1> USE DEF OldIsGone, MoveOn, daemon, working, fresh, history
<1>0. Empty # None
  BY NoneAssumption DEF Empty, Rows
<1>1. CASE Aside
  <2>1. CASE \E p \in Pane : Closes(p) \/ Prints(p) \/ Capture(p) \/ \E o \in Occupant : Open(p, o)
    BY <2>1 DEF Closes, Prints, Capture, Open, Empty, TypeOK
  <2>2. CASE Exit \/ OldDies
    BY <2>2 DEF Exit, OldDies
  <2>5. CASE OldLaunch
    <3>1. UNCHANGED <<target, newUp>> /\ stage = "off" /\ stage' = "off" /\ old' = "alive"
      BY <2>5 DEF OldLaunch
    <3>2. target # None => downgraded'
      BY <2>5 DEF OldLaunch
    <3> QED
      BY <3>1, <3>2
  <2>3. CASE Connect \/ List \/ HangUp \/ StillThere
    BY <2>3 DEF Connect, List, HangUp, StillThere, GivesUp
  <2>4. CASE Quit \/ Dies \/ \E r \in Remote : Confirm(r)
    BY <2>4 DEF Quit, Dies, Confirm
  <2> QED
    BY <1>1, <2>1, <2>2, <2>3, <2>4, <2>5 DEF Aside
<1>2. CASE Persist \/ Obey
  BY <1>2 DEF Persist, Obey
<1>3. CASE Launch
  BY <1>3 DEF Launch
<1>4. CASE Decide
  BY <1>4 DEF Decide
<1>5. CASE Reread
  BY <1>5 DEF Reread, Retired
<1>6. CASE Create \/ Save
  BY <1>0, <1>6, NoneAssumption DEF Create, Save, TypeOK
<1>7. CASE Restore
  BY <1>0, <1>7 DEF Restore
<1> QED
  BY <1>1, <1>2, <1>3, <1>4, <1>5, <1>6, <1>7, StepCases

\* No pane runs in both daemons.
THEOREM NobodyTwice == Spec => []NoTwins
<1>1. Init => OldIsGone
  BY DEF Init, OldIsGone
<1>2. ASSUME OldIsGone, UNCHANGED vars PROVE OldIsGone'
  BY <1>2 DEF OldIsGone, vars, daemon, working, fresh, history
<1>3. OldIsGone => NoTwins
  BY DEF OldIsGone, NoTwins
<1> QED
  BY <1>1, <1>2, <1>3, TypeCorrect, GoneStep, PTL DEF Spec

----------------------------------------------------------------------------
LEMMA RightInit == Init => RowsAreRight
<1> SUFFICES ASSUME Init PROVE RowsAreRight
  OBVIOUS
<1>1. keeps => Rightly(db)
  BY TypeInit, SnapshotRows DEF Init
<1>2. Rightly(Empty) /\ Excused(Empty)
  BY DEF Rightly, Excused, Empty
<1> QED
  BY <1>1, <1>2 DEF Init, RowsAreRight

LEMMA RightStep == ASSUME IInv, Next PROVE RowsAreRight'
<1> USE DEF IInv, RowsAreRight, MoveOn, daemon, working, fresh, history
<1>0. Excused(Empty) /\ Rightly(Empty)
  BY DEF Excused, Rightly, Empty
<1>1. ASSUME UNCHANGED <<keeps, hearsay, db, persisted, rows, target, newUp, new>>, stage' \in {"create", "save"} => stage' = stage
      PROVE  RowsAreRight'
  BY <1>1 DEF Rightly, Excused
<1>2. CASE Aside
  BY <1>1, <1>2
     DEF Aside, Closes, Prints, Capture, Open, Exit, OldDies, OldLaunch, Connect, List, HangUp, StillThere, GivesUp, Quit, Dies, Confirm
<1>3. CASE Persist \/ Obey
  BY <1>3, SnapshotRows DEF Persist, Obey, Rightly, Excused
<1>4. CASE Launch
  <2>1. UNCHANGED <<keeps, hearsay, db, target, newUp, new>>
    BY <1>4 DEF Launch
  <2>2. persisted' \in {persisted, db, Empty}
    BY <1>4 DEF Launch, ReadsStore
  <2>3. stage' \in {"create", "save"} => rows' = DeadRows(persisted')
    BY <1>4 DEF Launch
  <2>4. keeps => Rightly(db)' /\ Rightly(persisted)'
    BY <1>0, <2>1, <2>2 DEF Rightly
  <2>5. stage' \in {"create", "save"} => Excused(rows)'
    BY <2>1, <2>3, <2>4, <1>4, LaunchType, DeadRowsRows DEF Rightly, Excused, TypeOK
  <2> QED
    BY <2>1, <2>4, <2>5 DEF Excused
<1>5. CASE Decide
  <2>1. UNCHANGED <<keeps, hearsay, db, rows, target, newUp, new>> /\ stage' \notin {"create", "save"}
    BY <1>5 DEF Decide
  <2>2. keeps => Rightly(persisted)'
    BY <1>5, DecideType, WithConfirmedRows DEF Rightly, TypeOK
  <2> QED
    BY <2>1, <2>2 DEF Rightly, Excused
<1>6. CASE Reread
  <2>1. UNCHANGED <<keeps, db, list, target, newUp, new>>
    BY <1>6 DEF Reread
  <2>2. target = None /\ ~newUp
    BY <1>6 DEF Reread, Retired, OldIsGone
  <2>3. rows' = Merge(persisted') /\ persisted' \in Rows /\ persisted' \in {persisted, db}
    BY <1>6, RereadType DEF TypeOK
  <2>4. hearsay' = {p \in Pane : list[p] \in Plain /\ rows'[p].cmd # None}
    BY <1>6 DEF Reread
  <2>5. keeps => Rightly(db)' /\ Rightly(persisted)'
    BY <2>1, <2>3 DEF Rightly
  <2>6. Excused(rows)'
    BY <2>1, <2>3, <2>4, <2>5, MergeRows DEF Excused, Rightly
  <2>7. Excused(new)'
    BY <2>1, <2>2 DEF Excused, Empty
  <2> QED
    BY <2>1, <2>2, <2>5, <2>6, <2>7
<1>7. CASE Create \/ Save
  BY <1>0, <1>7 DEF Create, Save, Rightly, Excused
<1>8. CASE Restore
  BY <1>0, <1>8 DEF Restore, Rightly, Excused
<1> QED
  BY <1>2, <1>3, <1>4, <1>5, <1>6, <1>7, <1>8, StepCases

\* What ran on a machine runs there in the new daemon too, but for the rows that RightMachine exempts.
THEOREM OnItsMachine == Spec => []RightMachine
<1>1. Init => IInv
  BY TypeInit, RightInit DEF Init, OldIsGone, IInv
<1>2. IInv /\ Next => IInv'
  BY NextType, GoneStep, RightStep DEF IInv
<1>3. ASSUME IInv, UNCHANGED vars PROVE IInv'
  <2>1. UNCHANGED <<keeps, hearsay, db, persisted, rows, target, newUp, new, stage, old, running, downgraded>>
    BY <1>3 DEF vars, daemon, working, fresh, history
  <2>2. TypeOK'
    BY <1>3 DEF IInv, TypeOK, vars, daemon, working, fresh, history
  <2> QED
    BY <1>3, <2>1, <2>2 DEF IInv, OldIsGone, RowsAreRight, Rightly, Excused
<1>4. IInv => RightMachine
  BY DEF IInv, RowsAreRight, Excused, RightMachine
<1> QED
  BY <1>1, <1>2, <1>3, <1>4, PTL DEF Spec

----------------------------------------------------------------------------
\* What is owed is on the old daemon's screens while it lives, in its store after that ...
Live   == old = "alive" => \A p \in Pane : owed[p] # None => running[p] # None /\ owed[p] <= shown[p]
Stored == old # "alive" => \A p \in Pane : owed[p] # None => db[p] # None /\ owed[p] <= db[p].text

\* ... and once it is listed, in the list and what was captured; of a local pane whose row
\* is another machine's, no text.
Listed ==
    stage \in {"capture", "retire"} => \A p \in Pane :
        /\ owed[p] # None => list[p] # None /\ (captured[p] # None => owed[p] <= captured[p])
        /\ old = "alive" /\ running[p] # None => owed[p] # None /\ running[p] = list[p]
        /\ old # "alive" /\ owed[p] # None /\ list[p] \notin Remote /\ db[p].place # "here" => owed[p] = 0

Asked   == stage \in {"connect", "list"} => captured = Empty
Retires == stage = "retire" => Restorable(persisted)

Covers(held) ==
    \A p \in Pane : owed[p] # None =>
        \/ held[p] # None /\ (held[p].text >= owed[p] \/ unread)
        \/ unread /\ persisted = Empty

\* From there it goes to the rows to seed, and to the new store.
Seeded ==
    ~downgraded =>
        /\ stage \in {"create", "save"} => Covers(rows)
        /\ stage = "save" => target # None
        /\ stage = "boot" /\ target = None => Covers(Empty)
        /\ target # None /\ stage # "save" /\ ~torn => Covers(target)

KeptInv == Live /\ Stored /\ Listed /\ Asked /\ Retires /\ Seeded

LEMMA OwedNumbers ==
    ASSUME TypeOK, NEW p \in Pane
    PROVE  /\ owed[p] # None => owed[p] \in Nat
           /\ shown[p] \in Nat
           /\ captured[p] # None => captured[p] \in Nat
           /\ db[p] # None => db[p].text \in Nat
BY BoundAssumption DEF TypeOK, Text, Rows, Row

\* The merged rows have what the old daemon listed: of each pane the captured text or,
\* failing that, the text of a row from the same machine.
LEMMA MergeCovers ==
    ASSUME TypeOK, NEW held \in Rows, NEW p \in Pane, list[p] # None,
           list[p] \in Remote => Matched(p, held)
    PROVE  /\ Merge(held)[p] # None
           /\ captured[p] # None => Merge(held)[p].text = captured[p]
           /\ captured[p] = None /\ held[p] # None /\ (list[p] \in Remote \/ held[p].place = "here")
                 => Merge(held)[p].text = held[p].text
           /\ Merge(held)[p].text \in Nat
<1> DEFINE kept == IF list[p] \notin Remote /\ held[p] # None /\ held[p].place # "here" THEN None ELSE held[p]
           c == IF Title(list[p]) # None THEN Title(list[p]) ELSE IF kept = None THEN None ELSE kept.cmd
           t == IF captured[p] # None THEN captured[p] ELSE IF kept = None THEN 0 ELSE kept.text
<1>1. Merge(held)[p] = [place |-> Place(list[p]), cmd |-> c, text |-> t]
  BY DEF Merge
<1>2. kept = None \/ kept \in Row
  BY DEF Rows
<1>3. captured[p] # None => captured[p] \in Text
  BY DEF TypeOK
<1>4. t \in Text
  BY <1>2, <1>3, BoundAssumption DEF Row, Text
<1>5. c \in Occupant \cup {None} /\ Place(list[p]) \in {"here"} \cup Remote
  BY <1>2 DEF Row, Title, Place, TypeOK
<1>6. Merge(held)[p] \in Row
  BY <1>1, <1>4, <1>5 DEF Row, Text
<1>7. t \in Nat
  BY <1>4, BoundAssumption DEF Text
<1>8. Merge(held)[p].text = t
  BY <1>1
<1>9. Merge(held)[p] # None
  BY <1>6, NoneAssumption
<1>10. captured[p] = None /\ held[p] # None /\ (list[p] \in Remote \/ held[p].place = "here") => t = held[p].text
  OBVIOUS
<1>11. captured[p] # None => t = captured[p]
  OBVIOUS
<1> HIDE DEF t
<1> QED
  BY <1>7, <1>8, <1>9, <1>10, <1>11

\* What the old daemon writes of its panes covers what is owed.
LEMMA SnapshotCovers ==
    ASSUME TypeOK, Live, old = "alive", NEW p \in Pane, owed[p] # None
    PROVE  /\ Snapshot[p] # None /\ owed[p] <= Snapshot[p].text
           /\ running[p] \notin Remote => Snapshot[p].place = "here"
<1>1. running[p] # None /\ owed[p] <= shown[p]
  BY DEF Live
<1>2. Snapshot[p] = [place |-> IF keeps THEN Place(running[p]) ELSE "here",
                     cmd |-> Title(running[p]), text |-> shown[p]]
  BY <1>1 DEF Snapshot
<1>3. Snapshot[p] \in Row
  BY <1>1, <1>2, OccupantAssumption DEF TypeOK, Row, Place, Title, Text
<1> QED
  BY <1>1, <1>2, <1>3, NoneAssumption DEF Place

\* The store of a dead daemon covers what is owed, with or without its commands.
LEMMA DeadRowsCover ==
    ASSUME TypeOK, Stored, old # "alive", NEW p \in Pane, owed[p] # None
    PROVE  DeadRows(db)[p] # None /\ DeadRows(db)[p].text >= owed[p]
<1>1. db[p] # None /\ db[p] \in Row /\ owed[p] <= db[p].text /\ owed[p] \in Nat /\ db[p].text \in Nat
  BY OwedNumbers DEF Stored, TypeOK, Rows
<1>2. CASE keeps
  BY <1>1, <1>2 DEF DeadRows
<1>3. CASE ~keeps
  <2>1. DeadRows(db)[p] = [db[p] EXCEPT !.cmd = None]
    BY <1>1, <1>3 DEF DeadRows
  <2>2. DeadRows(db)[p] \in Row /\ DeadRows(db)[p].text = db[p].text
    BY <1>1, <2>1 DEF Row
  <2> QED
    BY <1>1, <2>2, NoneAssumption
<1> QED
  BY <1>2, <1>3

\* The old daemon's panes print, close and are written to its store.
LEMMA OwedOfOld ==
    ASSUME TypeOK, OldIsGone, Live, Stored, Listed,
           \/ \E p \in Pane : Closes(p) \/ Prints(p) \/ \E o \in Occupant : Open(p, o)
           \/ Persist \/ Obey \/ Exit \/ OldDies \/ OldLaunch
    PROVE  Live' /\ Stored'
<1>0. \A p \in Pane : Empty[p] = None
  BY DEF Empty
<1>1. ASSUME NEW q \in Pane, Closes(q)
      PROVE  Live' /\ Stored'
  <2>1. /\ UNCHANGED <<old, shown, db>> /\ old = "alive"
        /\ \A p \in Pane \ {q} : running'[p] = running[p] /\ owed'[p] = owed[p]
        /\ owed'[q] = None
    BY <1>0, <1>1 DEF Closes, OldIsGone, TypeOK
  <2> QED
    BY <2>1 DEF Live, Stored
<1>2. ASSUME NEW q \in Pane, Prints(q)
      PROVE  Live' /\ Stored'
  <2>1. /\ UNCHANGED <<old, running, db, owed>> /\ old = "alive"
        /\ \A p \in Pane : shown'[p] = shown[p] \/ shown'[p] = shown[p] + 1
    BY <1>0, <1>2 DEF Prints, OldIsGone, TypeOK, history
  <2> QED
    BY <2>1, OwedNumbers DEF Live, Stored
<1>3. ASSUME NEW q \in Pane, NEW o \in Occupant, Open(q, o)
      PROVE  Live' /\ Stored'
  <2>1. /\ UNCHANGED <<old, db, owed>> /\ old = "alive" /\ running[q] = None
        /\ \A p \in Pane \ {q} : running'[p] = running[p] /\ shown'[p] = shown[p]
    BY <1>3 DEF Open, TypeOK, history
  <2> QED
    BY <2>1 DEF Live, Stored
<1>4. CASE Persist \/ Obey \/ Exit
  <2>1. owed' = owed /\ shown' = shown
    BY <1>4 DEF Persist, Obey, Exit, history
  <2>2. CASE Persist
    BY <2>1, <2>2 DEF Persist, Live, Stored
  <2>3. CASE Obey
    <3>1. old = "alive" /\ old' # "alive" /\ db' = Snapshot
      BY <2>3 DEF Obey
    <3> QED
      BY <2>1, <3>1, SnapshotCovers DEF Live, Stored
  <2>4. CASE Exit
    BY <2>1, <2>4 DEF Exit, Live, Stored
  <2> QED
    BY <1>4, <2>2, <2>3, <2>4
<1>5. CASE OldDies
  <2>1. old = "alive" /\ old' = "dead" /\ db' = db
    BY <1>5 DEF OldDies
  <2>2. ASSUME NEW p \in Pane, owed'[p] # None
        PROVE  db[p] # None /\ owed'[p] <= db[p].text
    <3>1. running[p] # None /\ db[p] # None /\ db[p].text \in Nat
      BY <1>5, <2>2, OwedNumbers DEF OldDies
    <3>2. \/ owed'[p] = 0
          \/ stage \in {"capture", "retire"} /\ owed'[p] = owed[p] /\ owed[p] < db[p].text
          \/ owed'[p] = db[p].text
      BY <1>5, <2>2, <3>1 DEF OldDies
    <3>3. stage \in {"capture", "retire"} => owed[p] \in Nat
      BY <2>1, <3>1, OwedNumbers DEF Listed
    <3> QED
      BY <3>1, <3>2, <3>3
  <2> QED
    BY <2>1, <2>2 DEF Live, Stored
<1>6. CASE OldLaunch
  <2>1. old' = "alive" /\ owed' = Empty
    BY <1>6 DEF OldLaunch
  <2> QED
    BY <1>0, <2>1 DEF Live, Stored
<1> QED
  BY <1>1, <1>2, <1>3, <1>4, <1>5, <1>6

\* The steps of the application, but for its list, owe nothing new.
Elsewhere ==
    \/ Launch \/ Connect \/ HangUp \/ StillThere \/ Decide \/ Reread \/ Create \/ Save \/ Restore
    \/ Quit \/ Dies \/ (\E p \in Pane : Capture(p)) \/ (\E r \in Remote : Confirm(r))
    \/ (List /\ stage' # "capture")

LEMMA OwedElsewhere ==
    ASSUME Elsewhere
    PROVE  UNCHANGED <<old, running, shown, db, owed, keeps>>
BY DEF Elsewhere, Launch, Connect, HangUp, StillThere, Decide, Reread, Create, Save, Restore, Quit, Dies,
       Capture, Confirm, List, GivesUp, MoveOn, daemon, history

LEMMA OwedStep ==
    ASSUME TypeOK, OldIsGone, Live, Stored, Listed, Next
    PROVE  Live' /\ Stored'
<1>1. CASE Elsewhere
  BY <1>1, OwedElsewhere DEF Live, Stored
<1>2. CASE List /\ stage' = "capture"
  <2>1. old = "alive" /\ UNCHANGED <<old, running, shown, db>>
        /\ owed' = [p \in Pane |-> IF running[p] = None THEN None ELSE shown[p]]
    BY <1>2 DEF List, GivesUp, MoveOn, daemon
  <2>2. \A p \in Pane : owed'[p] # None => running[p] # None /\ owed'[p] = shown[p] /\ shown[p] \in Nat
    BY <2>1, OwedNumbers
  <2> QED
    BY <2>1, <2>2 DEF Live, Stored
<1>3. CASE ~Elsewhere /\ ~List
  BY <1>3, OwedOfOld DEF Next, Migrates, Elsewhere
<1> QED
  BY <1>1, <1>2, <1>3 DEF Elsewhere

\* A listed pane is captured, or exits; its daemon is told to go, writes its store, dies.
LEMMA ListedStep ==
    ASSUME TypeOK, OldIsGone, Live, Stored, Listed, Asked, Next
    PROVE  Listed'
<1> SUFFICES ASSUME stage' \in {"capture", "retire"}, NEW p \in Pane
             PROVE  /\ owed'[p] # None => list'[p] # None /\ (captured'[p] # None => owed'[p] <= captured'[p])
                    /\ old' = "alive" /\ running'[p] # None => owed'[p] # None /\ running'[p] = list'[p]
                    /\ old' # "alive" /\ owed'[p] # None /\ list'[p] \notin Remote /\ db'[p].place # "here" => owed'[p] = 0
  BY DEF Listed
<1> USE DEF MoveOn
<1>0. \A q \in Pane : Empty[q] = None
  BY DEF Empty
<1>1. CASE List
  <2>1. old = "alive" /\ list' = running /\ UNCHANGED <<old, running, shown, captured>> /\ stage = "list"
    BY <1>1 DEF List, GivesUp, daemon
  <2>2. owed'[p] = IF running[p] = None THEN None ELSE shown[p]
    BY <1>1, <2>1 DEF List, GivesUp
  <2>3. captured[p] = None
    BY <1>0, <2>1 DEF Asked
  <2>4. running[p] # None => owed'[p] # None
    BY <2>2, OwedNumbers, NoneAssumption
  <2> QED
    BY <2>1, <2>2, <2>3, <2>4
<1>2. ASSUME NEW q \in Pane, Capture(q)
      PROVE  /\ owed'[p] # None => list'[p] # None /\ (captured'[p] # None => owed'[p] <= captured'[p])
             /\ old' = "alive" /\ running'[p] # None => owed'[p] # None /\ running'[p] = list'[p]
             /\ old' # "alive" /\ owed'[p] # None /\ list'[p] \notin Remote /\ db'[p].place # "here" => owed'[p] = 0
  <2>1. UNCHANGED <<old, running, shown, db, owed, list, stage>> /\ old = "alive" /\ list[q] # None
    BY <1>2 DEF Capture, daemon, history
  <2>2. IF p = q THEN captured'[p] = shown[p] ELSE captured'[p] = captured[p]
    BY <1>2 DEF Capture, TypeOK
  <2> QED
    BY <2>1, <2>2 DEF Live, Listed
<1>3. CASE Decide
  <2>1. UNCHANGED <<old, running, db, owed, list, captured>> /\ stage = "capture"
    BY <1>3 DEF Decide, history
  <2> QED
    BY <2>1 DEF Listed
<1>4. ASSUME NEW q \in Pane, Closes(q) \/ Prints(q) \/ \E o \in Occupant : Open(q, o)
      PROVE  /\ owed'[p] # None => list'[p] # None /\ (captured'[p] # None => owed'[p] <= captured'[p])
             /\ old' = "alive" /\ running'[p] # None => owed'[p] # None /\ running'[p] = list'[p]
             /\ old' # "alive" /\ owed'[p] # None /\ list'[p] \notin Remote /\ db'[p].place # "here" => owed'[p] = 0
  <2>1. /\ UNCHANGED <<old, db, list, captured, stage>> /\ stage # "off"
        /\ (running'[p] = running[p] /\ owed'[p] = owed[p]) \/ (running'[p] = None /\ owed'[p] = None)
    BY <1>4 DEF Closes, Prints, Open, working, history, TypeOK
  <2> QED
    BY <2>1 DEF Listed
<1>5. CASE Persist \/ Exit
  BY <1>5 DEF Persist, Exit, working, history, Listed
<1>6. CASE Obey
  <2>1. UNCHANGED <<owed, list, captured, stage>> /\ old = "alive" /\ old' # "alive" /\ db' = Snapshot
    BY <1>6 DEF Obey, working, history
  <2>2. owed[p] # None => running[p] = list[p]
    BY <2>1 DEF Live, Listed
  <2> QED
    BY <2>1, <2>2, SnapshotCovers DEF Listed
<1>7. CASE OldDies
  <2>1. UNCHANGED <<db, list, captured, stage>> /\ old = "alive" /\ old' = "dead"
    BY <1>7 DEF OldDies, working
  <2>2. CASE running[p] = None \/ db[p] = None
    <3>1. owed'[p] = None
      BY <1>7, <2>2 DEF OldDies
    <3> QED
      BY <2>1, <3>1
  <2>3. CASE running[p] # None /\ db[p] # None
    <3>1. /\ owed[p] # None /\ running[p] = list[p] /\ owed[p] \in Nat /\ db[p].text \in Nat
          /\ captured[p] # None => captured[p] \in Nat /\ owed[p] <= captured[p]
      BY <2>1, <2>3, OwedNumbers DEF Listed
    <3>2. owed'[p] = IF db[p].place # Place(running[p]) THEN 0
                     ELSE IF owed[p] < db[p].text THEN owed[p] ELSE db[p].text
      BY <1>7, <2>1, <2>3 DEF OldDies
    <3>3. owed'[p] \in Nat /\ owed'[p] <= owed[p] /\ list[p] # None
      BY <2>3, <3>1, <3>2
    <3>4. captured[p] # None => owed'[p] <= captured[p]
      BY <3>1, <3>3
    <3>5. list[p] \notin Remote /\ db[p].place # "here" => owed'[p] = 0
      BY <3>1, <3>2 DEF Place
    <3> QED
      BY <2>1, <3>3, <3>4, <3>5
  <2> QED
    BY <2>2, <2>3
<1>8. CASE \/ Launch \/ OldLaunch \/ Connect \/ HangUp \/ StillThere \/ Reread \/ Create \/ Save \/ Restore
           \/ Quit \/ Dies \/ (\E r \in Remote : Confirm(r))
  BY <1>8 DEF Launch, OldLaunch, Connect, HangUp, StillThere, Reread, Create, Save, Restore, Quit, Dies, Confirm, GivesUp
<1> QED
  BY <1>1, <1>2, <1>3, <1>4, <1>5, <1>6, <1>7, <1>8 DEF Next, Migrates

\* Before the panes are captured nothing is, and a daemon that is retired can be restored.
LEMMA AskedStep == ASSUME TypeOK, Asked, Retires, Next PROVE Asked' /\ Retires'
<1> USE DEF MoveOn, Asked, Retires
<1>1. CASE stage' = stage
  <2>1. UNCHANGED <<list, captured, persisted>> \/ (stage = "capture" /\ UNCHANGED <<list, persisted>>)
    <3>1. CASE \/ \E p \in Pane : Closes(p) \/ Prints(p) \/ Capture(p) \/ \E o \in Occupant : Open(p, o)
               \/ Persist \/ Obey \/ Exit \/ OldDies \/ OldLaunch
      BY <3>1 DEF Closes, Prints, Capture, Open, Persist, Obey, Exit, OldDies, OldLaunch, working
    <3>2. CASE Connect \/ HangUp \/ StillThere \/ Create \/ Save \/ Restore \/ Quit \/ Dies \/ \E r \in Remote : Confirm(r)
      BY <3>2 DEF Connect, HangUp, StillThere, Create, Save, Restore, Quit, Dies, Confirm, GivesUp, working
    <3>3. ~Launch /\ ~List /\ ~Decide /\ ~Reread
      BY <1>1 DEF Launch, List, Decide, Reread, Retired, GivesUp
    <3> QED
      BY <3>1, <3>2, <3>3 DEF Next, Migrates
  <2> QED
    BY <1>1, <2>1 DEF Restorable, Matched
<1>2. CASE stage' # stage
  <2>1. CASE Launch
    <3>1. captured' = Empty /\ stage' # "retire"
      BY <1>2, <2>1 DEF Launch
    <3> QED
      BY <3>1
  <2>2. CASE Connect \/ List
    <3>1. stage' # "retire" /\ (stage' \in {"connect", "list"} => stage = "connect" /\ captured' = captured)
      BY <2>2 DEF Connect, List, GivesUp, working
    <3> QED
      BY <3>1
  <2>3. CASE Decide
    <3>1. stage' \notin {"connect", "list"} /\ list' = list /\ (stage' = "retire" => Restorable(persisted'))
      BY <2>3 DEF Decide
    <3> QED
      BY <3>1 DEF Restorable, Matched
  <2>4. stage' \notin {"connect", "list", "retire"} \/ Launch \/ Connect \/ List \/ Decide
    BY <1>2 DEF Next, Migrates, Closes, Prints, Open, Capture, Persist, Obey, Exit, OldDies, OldLaunch,
                HangUp, StillThere, Reread, Create, Save, Restore, Quit, Dies, Confirm, GivesUp
  <2> QED
    BY <2>1, <2>2, <2>3, <2>4
<1> QED
  BY <1>1, <1>2

\* The rows that are made of the old store or of what was captured cover what is owed.
LEMMA LaunchCovers ==
    ASSUME TypeOK, Stored, Launch, stage' \in {"boot", "create"}, target = None
    PROVE  Covers(rows)'
<1>1. rows' = DeadRows(persisted') /\ old # "alive" /\ owed' = owed
  BY DEF Launch, MoveOn
<1>2. persisted' = db \/ (persisted' = Empty /\ unread' = TRUE)
  BY DEF Launch, ReadsStore
<1> SUFFICES ASSUME NEW p \in Pane, owed[p] # None, persisted' = db
             PROVE  rows'[p] # None /\ rows'[p].text >= owed[p]
  BY <1>1, <1>2 DEF Covers
<1> QED
  BY <1>1, DeadRowsCover

LEMMA RereadCovers ==
    ASSUME TypeOK, OldIsGone, Stored, Listed, Retires, Reread
    PROVE  Covers(rows)'
<1>1. stage = "retire" /\ old = "dead" /\ UNCHANGED <<owed, list, captured, db>>
  BY DEF Reread, Retired, daemon
<1>2. rows' = Merge(persisted') /\ persisted' \in Rows
  BY RereadType DEF TypeOK
<1>3. \/ persisted' = db /\ Restorable(db)
      \/ persisted' = persisted /\ unread' = TRUE
  BY DEF Reread, Final, Empty
<1> SUFFICES ASSUME NEW p \in Pane, owed[p] # None
             PROVE  rows'[p] # None /\ (rows'[p].text >= owed[p] \/ unread')
  BY <1>1 DEF Covers
<1>4. /\ list[p] # None
      /\ owed[p] \in Nat /\ (captured[p] # None => owed[p] <= captured[p] /\ captured[p] \in Nat)
  BY <1>1, OwedNumbers DEF Listed
<1>5. list[p] \in Remote => Matched(p, persisted')
  BY <1>1, <1>3 DEF Retires, Restorable
<1>6. rows'[p] # None /\ (captured[p] # None => rows'[p].text = captured[p])
  BY <1>2, <1>4, <1>5, MergeCovers
<1>7. CASE captured[p] # None
  BY <1>4, <1>6, <1>7
<1>8. CASE captured[p] = None /\ persisted' = db
  <2>1. db[p] # None /\ owed[p] <= db[p].text /\ db[p].text \in Nat
    BY <1>1, OwedNumbers DEF Stored
  <2>2. CASE list[p] \in Remote \/ db[p].place = "here"
    <3>1. rows'[p].text = db[p].text
      BY <1>2, <1>4, <1>5, <1>8, <2>1, <2>2, MergeCovers
    <3> QED
      BY <1>4, <1>6, <2>1, <3>1
  <2>3. CASE list[p] \notin Remote /\ db[p].place # "here"
    <3>1. owed[p] = 0
      BY <1>1, <2>3 DEF Listed
    <3>2. rows'[p].text \in Nat
      BY <1>2, <1>4, <1>5, MergeCovers
    <3> QED
      BY <1>6, <3>1, <3>2
  <2> QED
    BY <2>2, <2>3
<1> QED
  BY <1>3, <1>6, <1>7, <1>8

\* Nothing that is owed changes once the old daemon has gone.
LEMMA CoversStays ==
    ASSUME NEW held, Covers(held), UNCHANGED <<owed, unread, persisted>>, NEW same, same = held
    PROVE  \A p \in Pane : owed'[p] # None =>
               \/ same[p] # None /\ (same[p].text >= owed'[p] \/ unread')
               \/ unread' /\ persisted' = Empty
BY DEF Covers

LEMMA SeededStep == ASSUME TypeOK, OldIsGone, Stored, Listed, Retires, Seeded, Next PROVE Seeded'
<1> SUFFICES ASSUME ~downgraded' PROVE Seeded'
  BY DEF Seeded
<1> USE DEF MoveOn
<1>0. ~downgraded /\ (torn => torn')
  <2>1. CASE \/ \E p \in Pane : Closes(p) \/ Prints(p) \/ Capture(p) \/ \E o \in Occupant : Open(p, o)
             \/ Persist \/ Obey \/ Exit \/ OldDies
    <3>1. downgraded' = downgraded /\ torn' = torn
      BY <2>1 DEF Closes, Prints, Capture, Open, Persist, Obey, Exit, OldDies, history
    <3> QED
      BY <3>1
  <2>2. CASE OldLaunch
    <3>1. downgraded' = (downgraded \/ target # None) /\ torn' = torn
      BY <2>2 DEF OldLaunch
    <3> QED
      BY <3>1
  <2>3. CASE Connect \/ HangUp \/ StillThere \/ Create \/ Restore \/ Quit \/ \E r \in Remote : Confirm(r)
    <3>1. downgraded' = downgraded /\ torn' = torn
      BY <2>3 DEF Connect, HangUp, StillThere, Create, Restore, Quit, Confirm, GivesUp, history
    <3> QED
      BY <3>1
  <2>4. CASE Save
    <3>1. downgraded' = downgraded
      BY <2>4 DEF Save, history
    <3>2. torn' = torn \/ torn' = TRUE
      BY <2>4 DEF Save, history
    <3>3. CASE torn' = torn
      BY <3>1, <3>3
    <3>4. CASE torn' = TRUE
      BY <3>1, <3>4
    <3> QED
      BY <3>2, <3>3, <3>4
  <2>5. CASE Dies
    <3>1. downgraded' = downgraded
      BY <2>5 DEF Dies
    <3>2. torn' = (torn \/ stage = "save")
      BY <2>5 DEF Dies
    <3> QED
      BY <3>1, <3>2
  <2>6. CASE Launch \/ List \/ Decide \/ Reread
    <3>1. downgraded' = downgraded /\ torn' = torn
      BY <2>6 DEF Launch, List, Decide, Reread, GivesUp, history
    <3> QED
      BY <3>1
  <2> QED
    BY <2>1, <2>2, <2>3, <2>4, <2>5, <2>6 DEF Next, Migrates
<1>1. CASE Launch
  <2>1. UNCHANGED <<target, owed, torn>> /\ stage = "off" /\ stage' \notin {"save"}
    BY <1>1 DEF Launch, fresh
  <2>2. CASE target # None
    <3>1. UNCHANGED <<persisted, unread>> /\ stage' = "boot"
      BY <1>1, <2>2 DEF Launch
    <3> QED
      BY <1>0, <2>1, <2>2, <3>1 DEF Seeded, Covers
  <2>3. CASE target = None
    <3>1. stage' \in {"boot", "create"} => Covers(rows)'
      BY <1>1, <2>3, LaunchCovers
    <3>2. stage' = "boot" => rows' = Empty
      BY <1>1, <2>3 DEF Launch
    <3> QED
      BY <2>1, <2>3, <3>1, <3>2 DEF Seeded, Covers, Empty
  <2> QED
    BY <2>2, <2>3
<1>2. CASE Reread
  <2>1. target' = None /\ stage' \in {"boot", "create"} /\ (stage' = "boot" => rows' = Empty)
    BY <1>2 DEF Reread, Retired, OldIsGone, fresh
  <2> QED
    BY <1>2, <2>1, RereadCovers DEF Seeded, Covers, Empty
<1>3. CASE Create
  <2>1. target' = Empty /\ Empty # None /\ UNCHANGED <<owed, unread, persisted, rows>> /\ stage = "create" /\ stage' = "save"
    BY <1>3, NoneAssumption DEF Create, working, history, Empty, Rows
  <2> QED
    BY <1>0, <2>1 DEF Seeded, Covers
<1>4. CASE Save
  <2>1. /\ stage = "save" /\ stage' = "boot" /\ UNCHANGED <<owed, unread, persisted, rows>>
        /\ torn' \/ target' = rows
    BY <1>4 DEF Save, working, history
  <2>2. Covers(rows)
    BY <1>0, <2>1 DEF Seeded
  <2>3. target' # None
    BY <1>0, <1>4, NoneAssumption DEF Save, TypeOK, fresh, Seeded
  <2> QED
    BY <2>1, <2>2, <2>3 DEF Seeded, Covers
<1>5. CASE Restore
  <2>1. stage = "boot" /\ stage' = "served" /\ UNCHANGED <<owed, unread, persisted, torn>>
    BY <1>5 DEF Restore, working, history
  <2>2. target' = target \/ (target = None /\ target' = Empty)
    BY <1>5 DEF Restore, fresh
  <2> QED
    BY <1>0, <2>1, <2>2 DEF Seeded, Covers
<1>6. CASE List \/ Decide
  <2>1. target' = None /\ stage' \notin {"create", "save", "boot"}
    BY <1>6 DEF List, Decide, GivesUp, OldIsGone, fresh
  <2> QED
    BY <2>1 DEF Seeded
<1>7. CASE Connect \/ HangUp \/ StillThere \/ Quit \/ Dies \/ \E r \in Remote : Confirm(r)
  <2>1. UNCHANGED <<owed, unread, persisted, target>>
    BY <1>7 DEF Connect, HangUp, StillThere, Quit, Dies, Confirm, GivesUp, working, fresh, history
  <2>2. stage' \notin {"create", "save", "boot"} /\ (stage = "save" => torn')
    BY <1>7 DEF Connect, HangUp, StillThere, Quit, Dies, Confirm, GivesUp
  <2> QED
    BY <1>0, <2>1, <2>2 DEF Seeded, Covers
<1>8. CASE \/ \E p \in Pane : Closes(p) \/ Prints(p) \/ Capture(p) \/ \E o \in Occupant : Open(p, o)
           \/ Persist \/ Obey \/ Exit \/ OldDies \/ OldLaunch
  <2>1. UNCHANGED <<stage, rows, target, torn, unread, persisted>>
    BY <1>8 DEF Closes, Prints, Capture, Open, Persist, Obey, Exit, OldDies, OldLaunch, working, fresh, history
  <2>2. CASE stage \in {"create", "save", "boot"} \/ target # None
    <3>1. old # "alive" /\ running = Empty
      BY <1>0, <2>2 DEF OldIsGone
    <3>2. \A p \in Pane : running[p] = None
      BY <3>1 DEF Empty
    <3>3. ~OldDies
      BY <3>1 DEF OldDies
    <3>4. CASE OldLaunch
      <4>1. target = None /\ stage = "off"
        BY <3>4 DEF OldLaunch
      <4> QED
        BY <2>1, <2>2, <4>1
    <3>5. CASE ~OldLaunch
      <4>1. owed' = owed
        BY <1>8, <3>2, <3>3, <3>5 DEF Closes, Prints, Capture, Open, Persist, Obey, Exit, history
      <4> QED
        BY <1>0, <2>1, <4>1 DEF Seeded, Covers
    <3> QED
      BY <3>4, <3>5
  <2>3. CASE ~(stage \in {"create", "save", "boot"} \/ target # None)
    BY <2>1, <2>3 DEF Seeded
  <2> QED
    BY <2>2, <2>3
<1> QED
  BY <1>1, <1>2, <1>3, <1>4, <1>5, <1>6, <1>7, <1>8 DEF Next, Migrates

LEMMA KeptInit == Init => KeptInv
BY DEF Init, Empty, KeptInv, Live, Stored, Listed, Asked, Retires, Seeded

\* The panes that the old daemon listed, or that its store held when it died, are there when
\* the new daemon first starts, with the text they had then if its last rows were used.
THEOREM NothingLost == Spec => NothingIsLost
<1>1. Init => IInv /\ KeptInv
  BY TypeInit, RightInit, KeptInit DEF Init, OldIsGone, IInv
<1>2. IInv /\ KeptInv /\ [Next]_vars => IInv' /\ KeptInv'
  <2>1. ASSUME IInv, KeptInv, Next PROVE IInv' /\ KeptInv'
    <3>1. IInv'
      BY <2>1, NextType, GoneStep, RightStep DEF IInv
    <3>2. KeptInv'
      BY <2>1, OwedStep, ListedStep, AskedStep, SeededStep DEF IInv, KeptInv
    <3> QED
      BY <3>1, <3>2
  <2>2. ASSUME IInv, KeptInv, UNCHANGED vars PROVE IInv' /\ KeptInv'
    <3>1. UNCHANGED <<keeps, hearsay, db, persisted, rows, target, newUp, new, stage, old, running, downgraded>>
      BY <2>2 DEF vars, daemon, working, fresh, history
    <3>2. UNCHANGED <<shown, owed, list, captured, unread, torn>>
      BY <2>2 DEF vars, daemon, working, fresh, history
    <3>3. TypeOK'
      BY <2>2 DEF IInv, TypeOK, vars, daemon, working, fresh, history
    <3>4. IInv'
      BY <2>2, <3>1, <3>3 DEF IInv, OldIsGone, RowsAreRight, Rightly, Excused
    <3>5. KeptInv'
      BY <2>2, <3>1, <3>2 DEF KeptInv, Live, Stored, Listed, Asked, Retires, Restorable, Matched, Seeded, Covers
    <3> QED
      BY <3>4, <3>5
  <2> QED
    BY <2>1, <2>2
<1>3. IInv /\ KeptInv /\ [Next]_vars =>
        [newUp' /\ ~newUp /\ ~torn /\ ~downgraded =>
           \A p \in Pane : owed[p] # None =>
              \/ new'[p] # None /\ (new'[p].text >= owed[p] \/ unread)
              \/ unread /\ persisted = Empty]_vars
  <2> SUFFICES ASSUME KeptInv, Next, newUp', ~newUp, ~torn, ~downgraded
               PROVE  Covers(new')
    BY DEF Covers
  <2>1. Restore
    BY DEF Next, Migrates, Closes, Prints, Capture, Open, Persist, Obey, Exit, OldDies, OldLaunch, Launch, Connect,
           List, Decide, HangUp, Reread, StillThere, Create, Save, Quit, Dies, Confirm, GivesUp, fresh
  <2>2. stage = "boot" /\ new' = IF target = None THEN Empty ELSE target
    BY <2>1 DEF Restore, MoveOn
  <2> QED
    BY <2>2 DEF KeptInv, Seeded
<1> QED
  BY <1>1, <1>2, <1>3, PTL DEF Spec, NothingIsLost

----------------------------------------------------------------------------
(* The lock under which a daemon boots (DaemonLock), for any number of      *)
(* boots: type correctness; that two owners always go back to a live boot   *)
(* whose file was taken; and that the lock is a singleton when boots do not *)
(* overlap in acquireLock, on POSIX and, within the startup grace, on       *)
(* Windows.                                                                 *)

\* The boots whose exclusive open has succeeded and that have not released.
Holding == {"write", "rewrite"} \cup Owning

HolderInv == \A b \in Boot \ displaced : pc[b] \in Holding => lock = b

UndisplacedIInv == LockTypeOK /\ HolderInv

\* Every variable keeps its type, whatever the boots do.
THEOREM LockTypesCorrect == LockSpec => []LockTypeOK
<1> USE BootAssumption DEF LockTypeOK, Maybe, PC, Acquiring, Owning, files, world
<1>1. LockInit => LockTypeOK
  BY DEF LockInit
<1>2. LockTypeOK /\ [LockNext]_lockVars => LockTypeOK'
  <2> SUFFICES ASSUME LockTypeOK, [LockNext]_lockVars PROVE LockTypeOK'
    OBVIOUS
  <2>1. ASSUME NEW b \in Boot, Start(b) PROVE LockTypeOK'
    BY <2>1 DEF Start, Goto
  <2>2. ASSUME NEW b \in Boot, FirstClaim(b) \/ SecondClaim(b) PROVE LockTypeOK'
    BY <2>2 DEF FirstClaim, SecondClaim, Claim
  <2>3. ASSUME NEW b \in Boot, Write(b) \/ Rewrite(b) PROVE LockTypeOK'
    BY <2>3 DEF Write, Rewrite, WritePid, Goto
  <2>4. ASSUME NEW b \in Boot, ReadOwner(b) \/ JudgeOwner(b) PROVE LockTypeOK'
    BY <2>4 DEF ReadOwner, JudgeOwner
  <2>5. ASSUME NEW b \in Boot, RenameAside(b) \/ ReleaseLock(b) PROVE LockTypeOK'
    BY <2>5 DEF RenameAside, ReleaseLock, TakeFile, Goto
  <2>6. ASSUME NEW b \in Boot, Listen(b) \/ ClearEndpoint(b) PROVE LockTypeOK'
    BY <2>6 DEF Listen, ClearEndpoint, Goto
  <2>7. ASSUME NEW b \in Boot, Shutdown(b) \/ Crash(b) \/ ReusePid(b) PROVE LockTypeOK'
    BY <2>7 DEF Shutdown, Crash, ReusePid
  <2>8. CASE Age
    BY <2>8 DEF Age
  <2>9. CASE UNCHANGED lockVars
    BY <2>9 DEF lockVars
  <2> QED
    BY <2>1, <2>2, <2>3, <2>4, <2>5, <2>6, <2>7, <2>8, <2>9 DEF LockNext, Step
<1> QED
  BY <1>1, <1>2, PTL DEF LockSpec

----------------------------------------------------------------------------
\* The file of a boot that holds the lock stays at the lock path until another
\* boot takes it, and then the boot is in displaced.
LEMMA HolderStep == UndisplacedIInv /\ [LockNext]_lockVars => HolderInv'
<1> SUFFICES ASSUME LockTypeOK, HolderInv, [LockNext]_lockVars PROVE HolderInv'
  BY DEF UndisplacedIInv
<1> USE BootAssumption DEF LockTypeOK, Maybe, PC, Acquiring, Owning, Holding, HolderInv, files, world
<1>1. ASSUME NEW b \in Boot, Start(b) PROVE HolderInv'
  BY <1>1 DEF Start, Goto
<1>2. ASSUME NEW b \in Boot, FirstClaim(b) \/ SecondClaim(b) PROVE HolderInv'
  BY <1>2 DEF FirstClaim, SecondClaim, Claim
<1>3. ASSUME NEW b \in Boot, Write(b) \/ Rewrite(b) PROVE HolderInv'
  BY <1>3 DEF Write, Rewrite, WritePid, Goto
<1>4. ASSUME NEW b \in Boot, ReadOwner(b) \/ JudgeOwner(b) PROVE HolderInv'
  BY <1>4 DEF ReadOwner, JudgeOwner
<1>5. ASSUME NEW b \in Boot, RenameAside(b) \/ ReleaseLock(b) PROVE HolderInv'
  BY <1>5 DEF RenameAside, ReleaseLock, TakeFile, Goto, Alive
<1>6. ASSUME NEW b \in Boot, Listen(b) \/ ClearEndpoint(b) PROVE HolderInv'
  BY <1>6 DEF Listen, ClearEndpoint, Goto
<1>7. ASSUME NEW b \in Boot, Shutdown(b) \/ Crash(b) \/ ReusePid(b) PROVE HolderInv'
  BY <1>7 DEF Shutdown, Crash, ReusePid
<1>8. CASE Age
  BY <1>8 DEF Age
<1>9. CASE UNCHANGED lockVars
  BY <1>9 DEF lockVars
<1> QED
  BY <1>1, <1>2, <1>3, <1>4, <1>5, <1>6, <1>7, <1>8, <1>9 DEF LockNext, Step

\* acquireLock lets a second boot in only over the file of a live one: an owner
\* whose file nobody took still has it at the lock path, whatever overlaps,
\* crashes or reuses pids.
THEOREM UndisplacedOwner == LockSpec => []UndisplacedOwnerHoldsFile
<1>1. LockInit => HolderInv
  BY DEF LockInit, HolderInv, Holding, Owning
<1>2. LockTypeOK /\ HolderInv /\ [LockNext]_lockVars => HolderInv'
  BY HolderStep DEF UndisplacedIInv
<1>3. HolderInv => UndisplacedOwnerHoldsFile
  BY DEF HolderInv, Holding, UndisplacedOwnerHoldsFile, Owners
<1> QED
  BY <1>1, <1>2, <1>3, LockTypesCorrect, PTL DEF LockSpec

----------------------------------------------------------------------------
\* A boot that has not created a file is not at the lock path.
Fresh == {"off", "open", "read", "judge", "rename", "reopen"}

\* What serial boots keep: one contender at a time, nobody displaced, the pid of
\* every owner in its file, every holder recognisable as a daemon (its pipe or
\* its young lock), and a contender that judges or takes over a lock whose
\* creator, if it lives, is the one it read or there is none.
SerialInv ==
    /\ \A b, c \in Boot : pc[b] \in Acquiring /\ pc[c] \in Acquiring => b = c
    /\ displaced = {}
    /\ \A b \in Boot : pc[b] \in Fresh => lock # b
    /\ \A b \in Boot : pc[b] \in Owning => b \in written
    /\ \A b \in Boot : pc[b] \in Holding => b \in listening \/ young \/ slow
    /\ \A b \in Boot : pc[b] = "judge" /\ lock \in Boot /\ Alive(lock) => owner[b] = lock
    /\ \A b \in Boot : pc[b] = "rename" => ~ (lock \in Boot /\ Alive(lock))

SerialIInv == LockTypeOK /\ HolderInv /\ Calm /\ SerialInv

\* The acquire steps keep the serial invariant.
LEMMA SerialAcquireStep ==
  ASSUME SerialIInv, Calm', NEW b \in Boot,
         \/ Start(b) \/ FirstClaim(b) \/ SecondClaim(b) \/ Write(b) \/ Rewrite(b)
         \/ ReadOwner(b) \/ JudgeOwner(b) \/ RenameAside(b)
  PROVE  SerialInv'
<1> USE BootAssumption
    DEF SerialIInv, LockTypeOK, Maybe, PC, Acquiring, Owning, Holding, Fresh, Alive, files, world
<1>1. CASE Start(b)
  <2>1. \A c \in Boot : pc[c] \notin Acquiring
    BY <1>1 DEF Start, Calm
  <2>2. pc[b] = "off" /\ pc' = [pc EXCEPT ![b] = "open"]
    BY <1>1 DEF Start, Goto
  <2>3. UNCHANGED <<lock, written, young, owner, listening, slow, displaced>>
    BY <1>1 DEF Start
  <2> QED
    BY <2>1, <2>2, <2>3 DEF SerialInv
<1>2. CASE FirstClaim(b) \/ SecondClaim(b)
  BY <1>2 DEF FirstClaim, SecondClaim, Claim, SerialInv
<1>3. CASE Write(b) \/ Rewrite(b)
  BY <1>3 DEF Write, Rewrite, WritePid, Goto, SerialInv
<1>4. CASE ReadOwner(b)
  BY <1>4 DEF ReadOwner, SerialInv, HolderInv
<1>5. CASE JudgeOwner(b)
  BY <1>5 DEF JudgeOwner, OwnerHoldsLock, PidAlive, PipeAlive, SerialInv, HolderInv, Calm
<1>6. CASE RenameAside(b)
  BY <1>6 DEF RenameAside, TakeFile, Goto, SerialInv, HolderInv
<1> QED
  BY <1>1, <1>2, <1>3, <1>4, <1>5, <1>6

\* So do the owner's steps, its death and the reuse of its pid.
LEMMA SerialOwnerStep ==
  ASSUME SerialIInv, NEW b \in Boot,
         \/ Listen(b) \/ Shutdown(b) \/ ClearEndpoint(b) \/ ReleaseLock(b)
         \/ Crash(b) \/ ReusePid(b)
  PROVE  SerialInv'
<1> USE BootAssumption
    DEF SerialIInv, LockTypeOK, Maybe, PC, Acquiring, Owning, Holding, Fresh, Alive, files, world
<1>1. CASE Listen(b) \/ ClearEndpoint(b)
  BY <1>1 DEF Listen, ClearEndpoint, Goto, SerialInv
<1>2. CASE Shutdown(b) \/ Crash(b)
  BY <1>2 DEF Shutdown, Crash, SerialInv
<1>3. CASE ReleaseLock(b)
  BY <1>3 DEF ReleaseLock, TakeFile, Goto, SerialInv, HolderInv
<1>4. CASE ReusePid(b)
  BY <1>4 DEF ReusePid, SerialInv
<1> QED
  BY <1>1, <1>2, <1>3, <1>4

\* A calm history was calm before.
LEMMA CalmBefore == [LockNext]_lockVars /\ LockTypeOK /\ Calm' => Calm
<1> SUFFICES ASSUME [LockNext]_lockVars, LockTypeOK, Calm' PROVE Calm
  OBVIOUS
<1> USE DEF Calm, LockTypeOK, world
<1>1. ASSUME NEW b \in Boot, Start(b) \/ Shutdown(b) \/ Crash(b) \/ ReusePid(b) PROVE Calm
  BY <1>1 DEF Start, Shutdown, Crash, ReusePid
<1>2. ASSUME NEW b \in Boot, Step(b) PROVE Calm
  BY <1>2 DEF Step, FirstClaim, SecondClaim, Claim, Write, Rewrite, WritePid, ReadOwner,
              JudgeOwner, RenameAside, Listen, ClearEndpoint, ReleaseLock
<1>3. CASE Age
  BY <1>3 DEF Age
<1>4. CASE UNCHANGED lockVars
  BY <1>4 DEF lockVars
<1> QED
  BY <1>1, <1>2, <1>3, <1>4 DEF LockNext

\* The daemon is a singleton as long as no boot started while another was inside
\* acquireLock and, on Windows, no grace ran out on a boot that had not listened:
\* any number of boots, crashes, reused pids and overlapping shutdowns.
THEOREM SerialSingleton == LockSpec => []SingleOwner
<1>1. LockInit => HolderInv /\ (Calm => SerialInv)
  BY BootAssumption DEF LockInit, HolderInv, SerialInv, Holding, Acquiring, Owning, Fresh
<1>2. LockTypeOK /\ HolderInv /\ (Calm => SerialInv) /\ [LockNext]_lockVars => (HolderInv /\ (Calm => SerialInv))'
  <2> SUFFICES ASSUME LockTypeOK, HolderInv, Calm => SerialInv, [LockNext]_lockVars
               PROVE  HolderInv' /\ (Calm' => SerialInv')
    OBVIOUS
  <2>1. HolderInv'
    BY HolderStep DEF UndisplacedIInv
  <2>2. ASSUME Calm' PROVE SerialIInv
    BY <2>2, CalmBefore DEF SerialIInv
  <2>3. ASSUME Calm', NEW b \in Boot, Start(b) \/ Step(b) \/ Shutdown(b) \/ Crash(b) \/ ReusePid(b)
        PROVE  SerialInv'
    BY <2>2, <2>3, SerialAcquireStep, SerialOwnerStep DEF Step
  <2>4. ASSUME Calm', Age PROVE SerialInv'
    <3>1. UNCHANGED <<pc, lock, written, owner, listening, displaced>>
      BY <2>4 DEF Age
    <3>2. \A b \in Boot : pc[b] \in Holding => b \in listening \/ slow'
      <4> SUFFICES ASSUME NEW b \in Boot, pc[b] \in Holding, b \notin listening PROVE slow'
        OBVIOUS
      <4>1. \E c \in Boot \ listening : pc[c] \in {"write", "rewrite"} \cup Owning
        BY DEF Holding
      <4>2. slow' = (slow \/ \E c \in Boot \ listening : pc[c] \in {"write", "rewrite"} \cup Owning)
        BY <2>4 DEF Age
      <4> QED
        BY <4>1, <4>2, Zenon
    <3>3. SerialInv
      BY <2>2, <2>4 DEF SerialIInv
    <3>4. \A b \in Boot : Alive(b)' <=> Alive(b)
      BY <3>1 DEF Alive
    <3> QED
      BY <3>1, <3>2, <3>3, <3>4 DEF SerialInv
  <2>5. ASSUME Calm', UNCHANGED lockVars PROVE SerialInv'
    BY <2>2, <2>5 DEF SerialIInv, SerialInv, lockVars, files, world, Alive
  <2> QED
    BY <2>1, <2>3, <2>4, <2>5 DEF LockNext
<1>3. HolderInv /\ (Calm => SerialInv) => SingleOwner
  BY DEF HolderInv, SerialInv, SingleOwner, Singleton, Owners, Holding
<1> QED
  BY <1>1, <1>2, <1>3, LockTypesCorrect, PTL DEF LockSpec

----------------------------------------------------------------------------
\* Only an owner writes or clears the endpoint, and on a calm history there is one.
LEMMA PublishedStep ==
  ASSUME LockTypeOK, SingleOwner, ServingIsPublished, [LockNext]_lockVars
  PROVE  ServingIsPublished'
<1> SUFFICES ASSUME Calm', NEW s \in Boot, pc'[s] = "serve" PROVE endpoint' = s
  BY DEF ServingIsPublished
<1>a. Singleton /\ (pc[s] = "serve" => endpoint = s)
  BY CalmBefore DEF SingleOwner, ServingIsPublished
<1> USE <1>a DEF LockTypeOK, Singleton, Owners, Owning, files
<1>1. ASSUME NEW b \in Boot, Start(b) \/ Shutdown(b) \/ Crash(b) \/ ReusePid(b) PROVE endpoint' = s
  BY <1>1 DEF Start, Shutdown, Crash, ReusePid, Goto
<1>2. ASSUME NEW b \in Boot, FirstClaim(b) \/ SecondClaim(b) \/ Write(b) \/ Rewrite(b) PROVE endpoint' = s
  BY <1>2 DEF FirstClaim, SecondClaim, Claim, Write, Rewrite, WritePid, Goto
<1>3. ASSUME NEW b \in Boot, ReadOwner(b) \/ JudgeOwner(b) \/ RenameAside(b) PROVE endpoint' = s
  BY <1>3 DEF ReadOwner, JudgeOwner, RenameAside, Goto
<1>4. ASSUME NEW b \in Boot, Listen(b) \/ ClearEndpoint(b) \/ ReleaseLock(b) PROVE endpoint' = s
  BY <1>4 DEF Listen, ClearEndpoint, ReleaseLock, Goto
<1>5. CASE Age
  BY <1>5 DEF Age
<1>6. CASE UNCHANGED lockVars
  BY <1>6 DEF lockVars
<1> QED
  BY <1>1, <1>2, <1>3, <1>4, <1>5, <1>6 DEF LockNext, Step

\* On a calm history a daemon that serves is the one endpoint.json names: no boot's
\* start and no shutdown takes its file, for any number of boots (lifecycle.ts,
\* writeEndpoint and clearEndpoint, which look at nothing before they write).
THEOREM PublishedTheorem == LockSpec => []ServingIsPublished
<1>1. LockInit => ServingIsPublished
  BY DEF LockInit, ServingIsPublished
<1>2. LockTypeOK /\ SingleOwner /\ ServingIsPublished /\ [LockNext]_lockVars => ServingIsPublished'
  BY PublishedStep
<1> QED
  BY <1>1, <1>2, LockTypesCorrect, SerialSingleton, PTL DEF LockSpec
============================================================================
