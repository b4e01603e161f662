------------------------ MODULE PaneSessionsProofs ------------------------
(***************************************************************************)
(* Theorems about PaneSessions for any panes, hosts and bounds: type       *)
(* correctness; that the pane map and the running ptys agree, late exits   *)
(* and late output included; that a graceful stop leaves exactly the open  *)
(* panes on disk; that a disk that is behind has a save scheduled; and     *)
(* that the manager, with its marks and its timer, implements PaneArchive. *)
(***************************************************************************)
EXTENDS PaneSessions, FiniteSetTheorems, TLAPS

\* What restore() builds from the rows: a number for each, and a session for
\* each row whose process was spawned.
LEMMA Numbering ==
  ASSUME NEW rows \in SUBSET Pane, NEW num \in Bijection(rows, 1 .. Cardinality(rows))
  PROVE  /\ Cardinality(rows) \in Nat
         /\ num \in [rows -> 1 .. Cardinality(rows)]
         /\ \A p, q \in rows : num[p] = num[q] => p = q
<1>1. IsFiniteSet(rows)
  BY SizeAssumption, FS_Subset
<1>2. Cardinality(rows) \in Nat
  BY <1>1, FS_CardinalityType
<1> QED
  BY <1>2 DEF Bijection, Injection, IsInjective

----------------------------------------------------------------------------
\* The inductive invariant of the map.  Types need it (the session an id names
\* exists), and it needs that a generation not yet minted has no session.
MapIInv ==
    /\ TypeOK
    /\ MapMatchesPtys
    /\ \A g \in Gen : g >= nextGen => sess[g] = None

\* A session record keeps its type, and all but the field that changes.
LEMMA SessionUpdates ==
  /\ \A p \in Pane, h \in Host :
        /\ Fresh(p, h) \in Session
        /\ Fresh(p, h).pane = p /\ Fresh(p, h).life = "live" /\ Fresh(p, h).host = h
  /\ \A s \in Session :
        Dead(s) \in Session /\ Dead(s).pane = s.pane /\ Dead(s).life = "killed"
  /\ \A s \in Session : s.content < MaxContent =>
        /\ [s EXCEPT !.content = @ + 1] \in Session
        /\ [s EXCEPT !.content = @ + 1].pane = s.pane
        /\ [s EXCEPT !.content = @ + 1].life = s.life
  /\ None \notin Session /\ None \notin Row
BY SizeAssumption, NoneAssumption DEF Fresh, Dead, Session, Life

\* The session an open id names, and the row a save makes of it.
LEMMA NamedSession ==
  ASSUME MapIInv, NEW p \in Open
  PROVE  /\ p \in Pane /\ panes[p] \in Gen
         /\ sess[panes[p]] \in Session /\ sess[panes[p]].pane = p
         /\ sess[panes[p]].life = "live"
         /\ Snapshot(p) \in Row
<1>1. p \in Pane /\ panes[p] \in Gen
  BY SizeAssumption DEF MapIInv, TypeOK, Open, Gen
<1>2. sess[panes[p]] \in Session
  BY <1>1 DEF MapIInv, TypeOK, MapMatchesPtys, Exists
<1>3. Snapshot(p) \in Row
  BY <1>2 DEF Snapshot, Session, Row
<1> QED
  BY <1>1, <1>2, <1>3 DEF MapIInv, MapMatchesPtys

----------------------------------------------------------------------------
\* Every step keeps the map's invariant: one step per action.
LEMMA MapInit == Init => MapIInv
<1> SUFFICES ASSUME Init PROVE MapIInv
  OBVIOUS
<1>1. nextGen \in 1 .. MaxGen + 1 /\ panes \in [Pane -> 0 .. MaxGen]
  BY SizeAssumption DEF Init
<1>2. sess \in [Gen -> Session \cup {None}] /\ store \in [Pane -> Row \cup {None}]
  BY DEF Init
<1> QED
  BY <1>1, <1>2 DEF Init, MapIInv, MapMatchesPtys, TypeOK, Open, Exists

LEMMA MapCreate ==
  ASSUME MapIInv, NEW p \in Pane, NEW h \in Host, Create(p, h)
  PROVE  MapIInv'
<1> USE SizeAssumption DEF MapIInv, MapMatchesPtys, TypeOK, Gen, Open, Exists
<1>1. nextGen \in Gen /\ nextGen' = nextGen + 1 /\ sess[nextGen] = None
  BY DEF Create
<1>2. Fresh(p, h) \in Session /\ Fresh(p, h).pane = p /\ Fresh(p, h).life = "live"
  BY SessionUpdates
<1>3. CASE UNCHANGED <<sess, panes, dirty, removed, timer, failed>>
  BY <1>1, <1>3 DEF Create
<1>4. CASE /\ sess' = [sess EXCEPT ![nextGen] = Fresh(p, h)]
           /\ panes' = [panes EXCEPT ![p] = nextGen]
           /\ MarkDirty(p) /\ SchedulePersist
  <2>0. timer' \in BOOLEAN /\ failed' \in BOOLEAN
    BY <1>4 DEF SchedulePersist
  <2>1. TypeOK'
    BY <1>1, <1>2, <1>4, <2>0 DEF Create, MarkDirty
  <2>2. MapMatchesPtys'
    BY <1>1, <1>2, <1>4, SessionUpdates DEF Create
  <2> QED
    BY <1>1, <1>4, <2>1, <2>2
<1> QED
  BY <1>3, <1>4 DEF Create

LEMMA MapReplace ==
  ASSUME MapIInv, NEW p \in Pane, NEW h \in Host, Replace(p, h)
  PROVE  MapIInv'
<1> DEFINE old == panes[p]
           killed == Dead(sess[old])
<1>0. timer' \in BOOLEAN /\ failed' \in BOOLEAN
  BY DEF Replace, SchedulePersist
<1>1. /\ p \in Open /\ old \in Gen /\ sess[old] \in Session /\ sess[old].pane = p
      /\ nextGen \in Gen /\ nextGen' = nextGen + 1 /\ sess[nextGen] = None /\ nextGen # old
  BY NamedSession, SessionUpdates DEF Replace, MapIInv, TypeOK, Gen
<1>2. killed \in Session /\ killed.pane = p /\ killed.life = "killed"
  BY <1>1, SessionUpdates DEF Life
<1>3. Killed(old) = [sess EXCEPT ![old] = killed]
  BY <1>1 DEF Killed, MapIInv, TypeOK
<1>4. Fresh(p, h) \in Session /\ Fresh(p, h).pane = p /\ Fresh(p, h).life = "live"
  BY SessionUpdates
<1> HIDE DEF killed
<1> USE SizeAssumption DEF MapIInv, MapMatchesPtys, TypeOK, Gen, Open, Exists
<1>5. CASE /\ sess' = [Killed(old) EXCEPT ![nextGen] = Fresh(p, h)]
           /\ panes' = [panes EXCEPT ![p] = nextGen]
           /\ MarkDirty(p)
  <2>1. TypeOK'
    <3>1. UNCHANGED <<up, synced, store, lastStop, late>>
      BY DEF Replace
    <3>2. dirty' \subseteq Pane /\ removed' \subseteq Pane /\ panes' \in [Pane -> 0 .. MaxGen]
      BY <1>1, <1>5 DEF MarkDirty
    <3>3. Killed(old) \in [Gen -> Session \cup {None}]
      BY <1>2, <1>3
    <3>4. sess' \in [Gen -> Session \cup {None}]
      BY <1>4, <1>5, <3>3
    <3>5. nextGen' \in 1 .. MaxGen + 1
      BY <1>1
    <3> QED
      BY <1>0, <3>1, <3>2, <3>4, <3>5
  <2>2. /\ sess'[nextGen] = Fresh(p, h) /\ sess'[old] = killed
        /\ \A g \in Gen \ {nextGen, old} : sess'[g] = sess[g]
    BY <1>1, <1>3, <1>5
  <2>3. panes'[p] = nextGen /\ \A q \in Pane \ {p} : panes'[q] = panes[q]
    BY <1>5
  <2>4. MapMatchesPtys'
    <3>1. ASSUME NEW g \in Gen, sess'[g] # None, sess'[g].life = "live"
          PROVE  panes'[sess'[g].pane] = g
      <4>1. CASE g = nextGen
        BY <1>4, <2>2, <2>3, <4>1
      <4>2. CASE g \in Gen \ {nextGen, old}
        <5>1. sess'[g] = sess[g] /\ sess[g] \in Session /\ sess[g].pane \in Pane
          BY <2>2, <3>1, <4>2 DEF Session
        <5> QED
          BY <1>1, <2>3, <3>1, <4>2, <5>1
      <4> QED
        BY <1>2, <2>2, <3>1, <4>1, <4>2
    <3>2. ASSUME NEW q \in Pane \ {p}, panes'[q] # 0
          PROVE  panes'[q] = panes[q] /\ panes[q] \in Gen \ {nextGen, old}
      BY <1>1, <2>3, <3>2
    <3> QED
      BY <1>4, <2>2, <2>3, <3>1, <3>2, SessionUpdates
  <2>5. \A g \in Gen : g >= nextGen' => sess'[g] = None
    BY <1>1, <2>2
  <2> QED
    BY <2>1, <2>4, <2>5
<1>6. CASE sess' = Killed(old) /\ panes' = [panes EXCEPT ![p] = 0] /\ MarkRemoved(p)
  <2>1. TypeOK'
    BY <1>0, <1>1, <1>2, <1>3, <1>6 DEF Replace, MarkRemoved
  <2>2. MapMatchesPtys'
    BY <1>1, <1>2, <1>3, <1>6, SessionUpdates DEF Replace
  <2> QED
    BY <1>1, <1>3, <1>6, <2>1, <2>2
<1> QED
  BY <1>5, <1>6 DEF Replace

LEMMA MapRemove ==
  ASSUME MapIInv, NEW p \in Pane, Remove(p)
  PROVE  MapIInv'
<1> DEFINE old == panes[p]
           killed == Dead(sess[old])
<1>1. p \in Open /\ old \in Gen /\ sess[old] \in Session /\ sess[old].pane = p
  BY NamedSession DEF Remove
<1>2. killed \in Session /\ killed.pane = p /\ killed.life = "killed"
  BY <1>1, SessionUpdates DEF Life
<1>3. sess' = [sess EXCEPT ![old] = killed]
  BY <1>1 DEF Remove, Killed, MapIInv, TypeOK
<1> HIDE DEF killed
<1> USE SizeAssumption DEF MapIInv, MapMatchesPtys, TypeOK, Gen, Open, Exists
<1>0. timer' \in BOOLEAN /\ failed' \in BOOLEAN
  BY DEF Remove, SchedulePersist
<1>4. TypeOK'
  BY <1>0, <1>1, <1>2, <1>3 DEF Remove, MarkRemoved
<1>5. MapMatchesPtys'
  BY <1>1, <1>2, <1>3, SessionUpdates DEF Remove
<1> QED
  BY <1>1, <1>3, <1>4, <1>5, SessionUpdates DEF Remove

LEMMA MapChange ==
  ASSUME MapIInv, NEW g \in Gen, Change(g)
  PROVE  MapIInv'
<1>0. timer' \in BOOLEAN /\ failed' \in BOOLEAN
  BY DEF Change, SchedulePersist
<1>1. sess[g] \in Session /\ sess[g].pane \in Pane
  BY DEF Change, Exists, MapIInv, TypeOK, Session
<1> USE SizeAssumption DEF MapIInv, MapMatchesPtys, TypeOK, Gen, Open, Exists
<1>2. CASE sess' = sess
  BY <1>0, <1>1, <1>2 DEF Change, MarkDirty
<1>3. CASE sess[g].life = "live"
  <2> DEFINE changed == [sess[g] EXCEPT !.content = @ + 1]
  <2>1. changed \in Session /\ changed.pane = sess[g].pane /\ changed.life = "live"
    BY <1>1, <1>3, SessionUpdates DEF Change
  <2>2. sess' = [sess EXCEPT ![g] = changed]
    BY <1>3 DEF Change
  <2> HIDE DEF changed
  <2>3. TypeOK'
    BY <1>0, <1>1, <2>1, <2>2 DEF Change, MarkDirty
  <2>4. MapMatchesPtys'
    BY <1>1, <1>3, <2>1, <2>2, SessionUpdates DEF Change
  <2> QED
    BY <1>1, <2>2, <2>3, <2>4, SessionUpdates DEF Change
<1> QED
  BY <1>2, <1>3 DEF Change

LEMMA MapExit ==
  ASSUME MapIInv, NEW g \in Gen, Exit(g)
  PROVE  MapIInv'
<1>1. sess[g] \in Session /\ sess[g].pane \in Pane
  BY DEF Exit, Exists, MapIInv, TypeOK, Session
<1>2. up' = up /\ late' = late
  BY DEF Exit
<1>3. sess' = [sess EXCEPT ![g] = None]
  BY DEF Exit
<1> USE SizeAssumption DEF MapIInv, MapMatchesPtys, TypeOK, Gen, Open, Exists
<1>4. \/ /\ panes[sess[g].pane] = g
         /\ panes' = [panes EXCEPT ![sess[g].pane] = 0]
         /\ MarkRemoved(sess[g].pane)
      \/ panes[sess[g].pane] # g /\ UNCHANGED <<panes, dirty, removed>>
  BY DEF Exit
<1>5. TypeOK'
  <2>1. UNCHANGED <<up, nextGen, synced, store, lastStop, late>>
    BY DEF Exit
  <2>3. timer' \in BOOLEAN /\ failed' \in BOOLEAN
    BY DEF Exit, SchedulePersist
  <2>2. dirty' \subseteq Pane /\ removed' \subseteq Pane /\ panes' \in [Pane -> 0 .. MaxGen]
    BY <1>1, <1>4 DEF MarkRemoved
  <2> QED
    BY <1>2, <1>3, <2>1, <2>2, <2>3
<1>6. sess'[g] = None /\ \A k \in Gen \ {g} : sess'[k] = sess[k]
  BY <1>3
<1>7. MapMatchesPtys'
  <2>1. ASSUME NEW k \in Gen, sess'[k] # None, sess'[k].life = "live"
        PROVE  panes'[sess'[k].pane] = k
    <3>1. k # g /\ sess[k] = sess'[k] /\ panes[sess[k].pane] = k
      BY <1>2, <1>6, <2>1
    <3>2. sess[k] \in Session /\ sess[k].pane \in Pane
      BY <3>1, <2>1 DEF Session
    <3> QED
      BY <1>4, <3>1, <3>2
  <2>2. ASSUME NEW p \in Pane, panes'[p] # 0
        PROVE  /\ panes'[p] = panes[p] /\ panes[p] \in Gen \ {g}
    BY <1>1, <1>4, <2>2
  <2> QED
    BY <1>6, <2>1, <2>2
<1> QED
  BY <1>1, <1>5, <1>6, <1>7, SessionUpdates DEF Exit

LEMMA SavedType == MapIInv => Saved \in [Pane -> Row \cup {None}]
BY NamedSession DEF Saved, FullSave, MapIInv, TypeOK

LEMMA MapForget ==
  ASSUME MapIInv, Forget, store' \in [Pane -> Row \cup {None}],
         lastStop' \in Stop \cup {None}, late' = late
  PROVE  MapIInv'
<1>1. nextGen' \in 1 .. MaxGen + 1 /\ panes' \in [Pane -> 0 .. MaxGen]
  BY SizeAssumption DEF Forget
<1>2. sess' \in [Gen -> Session \cup {None}]
  BY DEF Forget
<1> QED
  BY <1>1, <1>2 DEF Forget, MapIInv, MapMatchesPtys, TypeOK, Open, Exists

LEMMA MapBoot == ASSUME MapIInv, Boot PROVE MapIInv'
<1> DEFINE rows == {p \in Pane : store[p] # None}
           old(p) == [pane |-> p, host |-> store[p].host, life |-> "live",
                      content |-> store[p].content]
<1>1. PICK num \in Bijection(rows, 1 .. Cardinality(rows)), ok \in SUBSET rows :
        /\ Cardinality(rows) <= MaxGen
        /\ nextGen' = Cardinality(rows) + 1
        /\ panes' = [p \in Pane |-> IF p \in ok THEN num[p] ELSE 0]
        /\ sess' = [g \in Gen |->
             IF \E p \in ok : num[p] = g
             THEN LET p == CHOOSE q \in ok : num[q] = g IN old(p)
             ELSE None]
  BY DEF Boot
<1>2. /\ Cardinality(rows) \in Nat
      /\ num \in [rows -> 1 .. Cardinality(rows)]
      /\ \A p, q \in rows : num[p] = num[q] => p = q
  BY Numbering
<1>3. \A p \in ok : old(p) \in Session /\ old(p).pane = p /\ old(p).life = "live"
  BY DEF MapIInv, TypeOK, Row, Session, Life
<1>4. \A p \in ok : num[p] \in Gen /\ num[p] # 0 /\ num[p] < nextGen' /\ sess'[num[p]] = old(p)
  BY <1>1, <1>2, SizeAssumption DEF Gen
<1>5. \A g \in Gen : sess'[g] # None => \E p \in ok : num[p] = g
  BY <1>1
<1> HIDE DEF old
<1>6. TypeOK'
  <2>1. panes' \in [Pane -> 0 .. MaxGen] /\ nextGen' \in 1 .. MaxGen + 1
    BY <1>1, <1>2, SizeAssumption
  <2>2. sess' \in [Gen -> Session \cup {None}]
    BY <1>1, <1>3, <1>4
  <2> QED
    BY <2>1, <2>2 DEF Boot, TypeOK, MapIInv
<1>7. MapMatchesPtys'
  BY <1>1, <1>3, <1>4, <1>5, SessionUpdates DEF MapMatchesPtys, Open, Exists
<1>8. \A g \in Gen : g >= nextGen' => sess'[g] = None
  BY <1>1, <1>2, <1>4, <1>5, SizeAssumption DEF Gen
<1> QED
  BY <1>6, <1>7, <1>8 DEF MapIInv

LEMMA MapStep == MapIInv /\ [Next]_vars => MapIInv'
<1> SUFFICES ASSUME MapIInv, [Next]_vars PROVE MapIInv'
  OBVIOUS
<1>1. CASE PersistDue
  <2>1. store' \in [Pane -> Row \cup {None}] /\ synced' \in BOOLEAN
        /\ dirty' \subseteq Pane /\ removed' \subseteq Pane
    BY <1>1, SavedType DEF PersistDue, Persist, MapIInv, TypeOK
  <2>2. timer' \in BOOLEAN /\ failed' \in BOOLEAN /\ UNCHANGED <<up, nextGen, panes, sess, lastStop, late>>
    BY <1>1 DEF PersistDue
  <2> QED
    BY <2>1, <2>2 DEF MapIInv, MapMatchesPtys, TypeOK, Open, Exists
<1>2. CASE Shutdown
  BY <1>2, SavedType, MapForget DEF Shutdown, Stop, Open, MapIInv, TypeOK
<1>3. CASE Crash
  BY <1>3, MapForget DEF Crash, MapIInv, TypeOK
<1>4. CASE UNCHANGED vars
  BY <1>4 DEF vars, memory, MapIInv, MapMatchesPtys, TypeOK, Open, Exists
<1> QED
  BY <1>1, <1>2, <1>3, <1>4, MapCreate, MapReplace, MapRemove, MapChange, MapExit, MapBoot
  DEF Next

\* Every variable keeps its type, whatever the ptys, the timer and crashes do.
THEOREM TypeCorrect == Spec => []TypeOK
BY MapInit, MapStep, PTL DEF Spec, MapIInv

\* No event of a dead session, its late exit or its late output, takes the id
\* away from the session that reuses it, and no running pty is out of the map.
THEOREM MapAgrees == Spec => []MapMatchesPtys
BY MapInit, MapStep, PTL DEF Spec, MapIInv

----------------------------------------------------------------------------
(* What the steps do to the open panes and to the marks.                     *)

\* One pane is opened, changed, moved or closed, and marked as it should be.
Touches(p) ==
    /\ up /\ UNCHANGED <<up, store, synced, lastStop, late>>
    /\ panes' \in [Pane -> 0 .. MaxGen]
    /\ \A q \in Pane \ {p} : /\ panes'[q] = panes[q]
                             /\ q \in Open => sess'[panes[q]] = sess[panes[q]]
    /\ \/ MarkDirty(p) /\ panes'[p] # 0
       \/ MarkRemoved(p) /\ panes'[p] = 0
    /\ SchedulePersist

\* Nothing is marked, and the open panes are as they were.
Spares ==
    /\ UNCHANGED <<up, store, synced, lastStop, late, panes, dirty, removed>>
    /\ \A q \in Open : sess'[panes[q]] = sess[panes[q]]
    /\ UNCHANGED <<timer, failed>> \/ SchedulePersist

\* A pane is marked by a pty that was killed.
Haunts(p) ==
    /\ up /\ UNCHANGED <<up, store, synced, lastStop, panes, sess>>
    /\ late' /\ MarkDirty(p) /\ SchedulePersist

LEMMA CreateDoes ==
  ASSUME MapIInv, NEW p \in Pane, NEW h \in Host, Create(p, h)
  PROVE  Touches(p) \/ Spares
<1>1. \A q \in Open : panes[q] # nextGen /\ panes[q] \in Gen
  BY NamedSession, SessionUpdates, SizeAssumption DEF Create, MapIInv, Gen
<1>2. up /\ UNCHANGED <<up, store, synced, lastStop, late>> /\ nextGen \in Gen
  BY DEF Create
<1>3. CASE UNCHANGED <<sess, panes, dirty, removed, timer, failed>>
  BY <1>2, <1>3 DEF Spares
<1>4. CASE /\ sess' = [sess EXCEPT ![nextGen] = Fresh(p, h)]
           /\ panes' = [panes EXCEPT ![p] = nextGen]
           /\ MarkDirty(p) /\ SchedulePersist
  <2>1. \A k \in Gen \ {nextGen} : sess'[k] = sess[k]
    BY <1>4 DEF MapIInv, TypeOK
  <2>2. /\ panes' \in [Pane -> 0 .. MaxGen] /\ panes'[p] # 0
        /\ \A q \in Pane \ {p} : panes'[q] = panes[q]
    BY <1>2, <1>4, SizeAssumption DEF MapIInv, TypeOK, Gen
  <2> QED
    BY <1>1, <1>2, <1>4, <2>1, <2>2 DEF Touches
<1> QED
  BY <1>3, <1>4 DEF Create

LEMMA ReplaceDoes ==
  ASSUME MapIInv, NEW p \in Pane, NEW h \in Host, Replace(p, h)
  PROVE  Touches(p)
<1>1. \A q \in Pane \ {p} : q \in Open => panes[q] \in Gen \ {nextGen, panes[p]}
  BY NamedSession, SessionUpdates, SizeAssumption DEF Replace, MapIInv, Gen
<1>2. up /\ UNCHANGED <<up, store, synced, lastStop, late>> /\ nextGen \in Gen
  BY DEF Replace
<1>3. \A k \in Gen \ {nextGen, panes[p]} : sess'[k] = sess[k]
  BY DEF Replace, Killed, MapIInv, TypeOK
<1>4. \/ panes' = [panes EXCEPT ![p] = nextGen] /\ MarkDirty(p)
      \/ panes' = [panes EXCEPT ![p] = 0] /\ MarkRemoved(p)
  BY DEF Replace
<1>5. /\ panes' \in [Pane -> 0 .. MaxGen]
      /\ \A q \in Pane \ {p} : panes'[q] = panes[q]
      /\ \/ MarkDirty(p) /\ panes'[p] # 0
         \/ MarkRemoved(p) /\ panes'[p] = 0
  BY <1>2, <1>4, SizeAssumption DEF MapIInv, TypeOK, Gen
<1> QED
  BY <1>1, <1>2, <1>3, <1>5 DEF Touches, Replace

LEMMA RemoveDoes ==
  ASSUME MapIInv, NEW p \in Pane, Remove(p)
  PROVE  Touches(p)
<1>1. \A q \in Pane \ {p} : q \in Open => panes[q] # panes[p] /\ panes[q] \in Gen
  BY NamedSession DEF Remove
<1>2. \A k \in Gen : k # panes[p] => sess'[k] = sess[k]
  BY DEF Remove, Killed, MapIInv, TypeOK
<1>3. /\ up /\ UNCHANGED <<up, store, synced, lastStop, late>> /\ MarkRemoved(p)
      /\ panes' = [panes EXCEPT ![p] = 0]
  BY DEF Remove
<1>4. /\ panes' \in [Pane -> 0 .. MaxGen] /\ panes'[p] = 0
      /\ \A q \in Pane \ {p} : panes'[q] = panes[q]
  BY <1>3, SizeAssumption DEF MapIInv, TypeOK
<1> QED
  BY <1>1, <1>2, <1>3, <1>4 DEF Touches, Remove

LEMMA ChangeDoes ==
  ASSUME MapIInv, NEW g \in Gen, Change(g)
  PROVE  \E p \in Pane : Touches(p) \/ Haunts(p)
<1> DEFINE p == sess[g].pane
<1>1. p \in Pane /\ g # 0
  BY DEF Change, Exists, MapIInv, TypeOK, Session, Gen
<1>2. up /\ UNCHANGED <<up, store, synced, lastStop, panes>> /\ MarkDirty(p) /\ SchedulePersist
  BY DEF Change
<1>3. late' = (late \/ sess[g].life = "killed")
  BY DEF Change
<1>4. CASE sess[g].life = "killed"
  <2>1. sess' = sess
    BY <1>4 DEF Change
  <2>2. late'
    BY <1>3, <1>4
  <2> QED
    BY <1>1, <1>2, <2>1, <2>2 DEF Haunts
<1>5. CASE sess[g].life = "live"
  <2>1. panes[p] = g
    BY <1>5 DEF Change, MapIInv, MapMatchesPtys
  <2>2. \A q \in Pane \ {p} : q \in Open => panes[q] # g
    BY DEF MapIInv, MapMatchesPtys
  <2>3. \A k \in Gen \ {g} : sess'[k] = sess[k]
    BY DEF Change, MapIInv, TypeOK
  <2>4. \A q \in Pane \ {p} : q \in Open => sess'[panes[q]] = sess[panes[q]]
    BY <2>2, <2>3, NamedSession
  <2>5. late' = late
    <3>1. sess[g].life # "killed"
      BY <1>5
    <3> QED
      BY <1>3, <3>1 DEF MapIInv, TypeOK
  <2>6. panes' \in [Pane -> 0 .. MaxGen] /\ panes'[p] # 0 /\ \A q \in Pane \ {p} : panes'[q] = panes[q]
    BY <1>1, <1>2, <2>1 DEF MapIInv, TypeOK
  <2> HIDE DEF p
  <2> QED
    BY <1>1, <1>2, <2>4, <2>5, <2>6 DEF Touches
<1> QED
  BY <1>4, <1>5 DEF Change

LEMMA ExitDoes ==
  ASSUME MapIInv, NEW g \in Gen, Exit(g)
  PROVE  Spares \/ \E p \in Pane : Touches(p)
<1> DEFINE p == sess[g].pane
<1>1. p \in Pane
  BY DEF Exit, Exists, MapIInv, TypeOK, Session
<1>2. \A k \in Gen \ {g} : sess'[k] = sess[k]
  BY DEF Exit, MapIInv, TypeOK
<1>3. \A q \in Pane : q \in Open /\ panes[q] # g => sess'[panes[q]] = sess[panes[q]]
  BY <1>2, NamedSession
<1>4. \A q \in Open : panes[q] = g => q = p
  BY DEF MapIInv, MapMatchesPtys
<1>5. /\ up /\ UNCHANGED <<up, store, synced, lastStop, late>> /\ SchedulePersist
      /\ \/ panes[p] = g /\ panes' = [panes EXCEPT ![p] = 0] /\ MarkRemoved(p)
         \/ panes[p] # g /\ UNCHANGED <<panes, dirty, removed>>
  BY DEF Exit
<1> HIDE DEF p
<1>6. CASE panes[p] = g /\ panes' = [panes EXCEPT ![p] = 0] /\ MarkRemoved(p)
  <2>1. /\ panes' \in [Pane -> 0 .. MaxGen] /\ panes'[p] = 0
        /\ \A q \in Pane \ {p} : panes'[q] = panes[q]
    BY <1>1, <1>6, SizeAssumption DEF MapIInv, TypeOK
  <2>2. Touches(p)
    BY <1>3, <1>4, <1>5, <1>6, <2>1 DEF Touches
  <2> QED
    BY <1>1, <2>2
<1>7. CASE panes[p] # g /\ UNCHANGED <<panes, dirty, removed>>
  <2>1. \A q \in Open : sess'[panes[q]] = sess[panes[q]]
    BY <1>3, <1>4, <1>7, NamedSession
  <2> QED
    BY <1>5, <1>7, <2>1 DEF Spares
<1> QED
  BY <1>5, <1>6, <1>7

\* What happens while a daemon runs, between its saves.
LEMMA StepDoes ==
  ASSUME MapIInv, [Next]_vars
  PROVE  \/ PersistDue \/ Shutdown \/ Crash \/ Boot
         \/ Spares
         \/ \E p \in Pane : Touches(p) \/ Haunts(p)
<1>1. CASE UNCHANGED vars
  BY <1>1 DEF vars, memory, Spares
<1>2. CASE \E p \in Pane : Remove(p) \/ \E h \in Host : Create(p, h) \/ Replace(p, h)
  BY <1>2, CreateDoes, ReplaceDoes, RemoveDoes
<1>3. CASE \E g \in Gen : Change(g) \/ Exit(g)
  BY <1>3, ChangeDoes, ExitDoes
<1> QED
  BY <1>1, <1>2, <1>3 DEF Next

\* Only the pane that is touched is another; spared or haunted, all are as they were.
LEMMA OthersStay ==
  /\ \A p \in Pane : Touches(p) => \A q \in Pane \ {p} : FullSave'[q] = FullSave[q]
  /\ Spares => Open' = Open /\ FullSave' = FullSave
  /\ \A p \in Pane : Haunts(p) => Open' = Open /\ FullSave' = FullSave
BY DEF Touches, Spares, Haunts, FullSave, Open, Snapshot

----------------------------------------------------------------------------
(* Why the incremental save is complete.                                     *)

\* The row of an open pane without a mark is up to date ...
OpenIsSaved ==
    /\ ~up => dirty = {} /\ removed = {} /\ ~synced
    /\ removed \cap Open = {}
    /\ synced => \A p \in Open \ dirty : store[p] = FullSave[p]

\* ... and a pane that is gone has no row, or the mark that it has to go, which a killed
\* pty can take away.
ClosedIsGone == synced => \A p \in Pane \ (Open \cup removed) : store[p] = None

SaveInv == OpenIsSaved /\ (~late => ClosedIsGone /\ StopLeavesOpenPanes)

\* What a save leaves of each pane.
LEMMA SavedRows ==
  ASSUME MapIInv, SaveInv, NEW p \in Pane
  PROVE  \/ Saved[p] = FullSave[p]
         \/ late /\ FullSave[p] = None /\ Saved[p] = store[p]
<1>1. CASE ~synced
  BY <1>1 DEF Saved
<1>2. CASE synced /\ p \in Open
  <2>1. FullSave[p] = Snapshot(p) /\ p \notin removed
    BY <1>2 DEF FullSave, SaveInv, OpenIsSaved
  <2>2. Saved[p] = IF p \in dirty THEN Snapshot(p) ELSE store[p]
    BY <1>2, <2>1 DEF Saved
  <2> QED
    BY <1>2, <2>1, <2>2 DEF SaveInv, OpenIsSaved
<1>3. CASE synced /\ p \notin Open
  <2>1. FullSave[p] = None /\ Saved[p] = IF p \in removed THEN None ELSE store[p]
    BY <1>3 DEF FullSave, Saved
  <2>2. CASE late
    BY <2>1, <2>2
  <2>3. CASE ~late
    BY <1>3, <2>1, <2>3 DEF SaveInv, ClosedIsGone
  <2> QED
    BY <2>2, <2>3
<1> QED
  BY <1>1, <1>2, <1>3

LEMMA SavesAll == MapIInv /\ SaveInv /\ ~late => Saved = FullSave
<1> SUFFICES ASSUME MapIInv, SaveInv, ~late PROVE Saved = FullSave
  OBVIOUS
<1>1. \A p \in Pane : Saved[p] = FullSave[p]
  BY SavedRows
<1>2. Saved \in [Pane -> Row \cup {None}] /\ FullSave = [p \in Pane |-> FullSave[p]]
  BY SavedType DEF FullSave
<1> QED
  BY <1>1, <1>2

\* Only a full save's own rows are those of the open panes.
LEMMA FullSaveRows == MapIInv => {p \in Pane : FullSave[p] # None} = Open
BY NamedSession, SessionUpdates DEF FullSave, Open

LEMMA TouchSaves ==
  ASSUME MapIInv, SaveInv, NEW p \in Pane, Touches(p)
  PROVE  SaveInv'
<1>1. \A q \in Pane \ {p} : FullSave'[q] = FullSave[q] /\ (q \in Open' <=> q \in Open)
  BY OthersStay DEF Touches, Open
<1>2. /\ up' /\ UNCHANGED <<store, synced, late>>
      /\ p \in Open' => p \in dirty' /\ p \notin removed'
      /\ p \notin Open' => p \in removed'
      /\ \A q \in Pane \ {p} : (q \in dirty' <=> q \in dirty) /\ (q \in removed' <=> q \in removed)
  BY DEF Touches, MarkDirty, MarkRemoved, Open
<1>3. removed' \subseteq Pane /\ Open' \subseteq Pane
  BY DEF Touches, MarkDirty, MarkRemoved, Open, MapIInv, TypeOK
<1>4. OpenIsSaved'
  BY <1>1, <1>2, <1>3 DEF SaveInv, OpenIsSaved
<1>5. ASSUME ~late' PROVE ClosedIsGone' /\ StopLeavesOpenPanes'
  BY <1>1, <1>2, <1>3, <1>5 DEF SaveInv, ClosedIsGone, StopLeavesOpenPanes
<1> QED
  BY <1>4, <1>5 DEF SaveInv

LEMMA HauntSaves ==
  ASSUME MapIInv, SaveInv, NEW p \in Pane, Haunts(p)
  PROVE  SaveInv'
<1>1. Open' = Open /\ FullSave' = FullSave
  BY OthersStay
<1>2. up' /\ late' /\ UNCHANGED <<store, synced>> /\ dirty \subseteq dirty' /\ removed' \subseteq removed
  BY DEF Haunts, MarkDirty
<1> QED
  BY <1>1, <1>2 DEF SaveInv, OpenIsSaved

LEMMA SpareSaves == ASSUME MapIInv, SaveInv, Spares PROVE SaveInv'
<1>1. Open' = Open /\ FullSave' = FullSave
  BY OthersStay
<1>2. UNCHANGED <<up, store, synced, lastStop, late, dirty, removed>>
  BY DEF Spares
<1> QED
  BY <1>1, <1>2 DEF SaveInv, OpenIsSaved, ClosedIsGone, StopLeavesOpenPanes

\* A save that fails leaves rows and marks, and so all they say, as they were.
LEMMA PersistSaves == ASSUME MapIInv, SaveInv, PersistDue PROVE SaveInv'
<1>1. Open' = Open /\ FullSave' = FullSave /\ up' = up /\ up /\ late' = late
  BY DEF PersistDue, Open, FullSave, Snapshot
<1>2. CASE Persist
  <2>1. store' = Saved /\ dirty' = {} /\ removed' = {}
    BY <1>2 DEF Persist
  <2>2. \A p \in Open : store'[p] = FullSave[p]
    BY <2>1, SavedRows, FullSaveRows DEF Open
  <2>3. ~late => \A p \in Pane \ Open : store'[p] = None
    BY <2>1, SavesAll DEF FullSave
  <2> QED
    BY <1>1, <2>1, <2>2, <2>3 DEF SaveInv, OpenIsSaved, ClosedIsGone, StopLeavesOpenPanes
<1>3. CASE UNCHANGED <<store, synced, dirty, removed>>
  BY <1>1, <1>3 DEF SaveInv, OpenIsSaved, ClosedIsGone, StopLeavesOpenPanes
<1> QED
  BY <1>2, <1>3 DEF PersistDue

LEMMA EndSaves == ASSUME MapIInv, SaveInv, Shutdown \/ Crash PROVE SaveInv'
<1>1. ~up' /\ dirty' = {} /\ removed' = {} /\ ~synced' /\ late' = late
  BY DEF Shutdown, Crash, Forget
<1>2. CASE Shutdown
  <2>1. (store' = Saved /\ lastStop' = [open |-> Open]) \/ lastStop' = None
    BY <1>2 DEF Shutdown
  <2>2. ~late /\ lastStop' # None => {p \in Pane : store'[p] # None} = lastStop'.open
    BY <2>1, SavesAll, FullSaveRows
  <2> QED
    BY <1>1, <2>2 DEF SaveInv, OpenIsSaved, ClosedIsGone, StopLeavesOpenPanes
<1>3. CASE Crash
  BY <1>1, <1>3 DEF Crash, SaveInv, OpenIsSaved, ClosedIsGone, StopLeavesOpenPanes
<1> QED
  BY <1>2, <1>3

\* A daemon starts with no marks, whatever the one before it left behind.
LEMMA BootSaves == ASSUME MapIInv, SaveInv, Boot PROVE SaveInv'
<1>1. ~up /\ up' /\ UNCHANGED <<dirty, removed, synced>>
  BY DEF Boot
<1>2. removed' = {} /\ ~synced'
  BY <1>1 DEF SaveInv, OpenIsSaved
<1> QED
  BY <1>1, <1>2 DEF SaveInv, OpenIsSaved, ClosedIsGone, StopLeavesOpenPanes

LEMMA SaveStep == MapIInv /\ SaveInv /\ [Next]_vars => SaveInv'
BY StepDoes, TouchSaves, HauntSaves, SpareSaves, PersistSaves, EndSaves, BootSaves

LEMMA SaveInit == Init => SaveInv
BY DEF Init, SaveInv, OpenIsSaved, ClosedIsGone, StopLeavesOpenPanes, Open

\* After the first save, a difference between what is open and what is on disk has a mark,
\* and a mark has a timer, unless the last save failed and nothing was scheduled since.
MarksAreDue == dirty \cup removed # {} => timer \/ failed

LEMMA DueStep == MapIInv /\ MarksAreDue /\ [Next]_vars => MarksAreDue'
<1> SUFFICES ASSUME MapIInv, MarksAreDue, [Next]_vars PROVE MarksAreDue'
  OBVIOUS
<1>1. CASE PersistDue
  BY <1>1 DEF PersistDue, Persist, MarksAreDue
<1>2. CASE Shutdown \/ Crash
  <2>1. dirty' = {} /\ removed' = {}
    BY <1>2 DEF Shutdown, Crash, Forget
  <2> QED
    BY <2>1 DEF MarksAreDue
<1>3. CASE Boot
  BY <1>3 DEF Boot, MarksAreDue
<1>4. CASE Spares
  BY <1>4 DEF Spares, SchedulePersist, MarksAreDue
<1>5. CASE \E p \in Pane : Touches(p) \/ Haunts(p)
  BY <1>5 DEF Touches, Haunts, SchedulePersist, MarksAreDue
<1> QED
  BY <1>1, <1>2, <1>3, <1>4, <1>5, StepDoes

UnsavedIsDue == up /\ synced /\ ~late /\ store # FullSave => timer \/ failed

\* Once a daemon has saved, a disk that is behind the open panes has a timer running
\* (markDirty, markRemoved and schedulePersist are three calls, made apart in each handler),
\* but for one case: the last save threw and nothing has been scheduled since.
THEOREM OnlyAFailedSaveIsForgotten == Spec => []UnsavedIsDue
<1>1. Init => MarksAreDue
  BY DEF Init, MarksAreDue
<1>2. MapIInv /\ SaveInv /\ MarksAreDue => UnsavedIsDue
  <2> SUFFICES ASSUME MapIInv, SaveInv, MarksAreDue, synced, ~late, dirty \cup removed = {}
               PROVE  store = FullSave
    BY DEF UnsavedIsDue, MarksAreDue
  <2>1. Saved = FullSave
    BY SavesAll
  <2>2. \A p \in Pane : Saved[p] = store[p]
    BY DEF Saved
  <2>3. store = [p \in Pane |-> store[p]] /\ Saved = [p \in Pane |-> Saved[p]]
    BY SavedType DEF MapIInv, TypeOK
  <2> QED
    BY <2>1, <2>2, <2>3
<1> QED
  BY <1>1, <1>2, MapInit, SaveInit, MapStep, SaveStep, DueStep, PTL DEF Spec

\* As long as no killed pty of the daemon has printed, a graceful stop leaves exactly the
\* open panes on disk: nothing that was closed comes back and nothing that was open is lost.
THEOREM StopKeepsExactlyOpenPanes == Spec => []StopKeepsOpenPanes
<1>1. SaveInv => StopKeepsOpenPanes
  BY DEF SaveInv, StopKeepsOpenPanes
<1> QED
  BY <1>1, MapInit, SaveInit, MapStep, SaveStep, PTL DEF Spec

----------------------------------------------------------------------------
(* The manager keeps the promise of PaneArchive.                             *)

LEMMA FullSaveType == MapIInv => FullSave \in [Pane -> Row \cup {None}]
BY NamedSession DEF FullSave

LEMMA TouchHappens ==
  ASSUME MapIInv, MapIInv', NEW p \in Pane, Touches(p)
  PROVE  Archive!Happens(p)
<1>1. \A q \in Pane \ {p} : FullSave'[q] = FullSave[q]
  BY OthersStay
<1>2. FullSave \in [Pane -> Row \cup {None}] /\ FullSave' \in [Pane -> Row \cup {None}]
  <2>1. (MapIInv => FullSave \in [Pane -> Row \cup {None}])'
    BY FullSaveType, PTL
  <2> QED
    BY <2>1, FullSaveType
<1>3. FullSave' = [FullSave EXCEPT ![p] = FullSave'[p]] /\ FullSave'[p] \in Row \cup {None}
  BY <1>1, <1>2
<1>4. up /\ UNCHANGED <<up, store, late>> /\ (lastStop' # None) = (lastStop # None)
  BY DEF Touches
<1> QED
  BY <1>3, <1>4 DEF Archive!Happens

LEMMA SavedIsWritten == ASSUME MapIInv, SaveInv, store' = Saved PROVE Archive!Written
<1> DEFINE kept == {p \in Pane : Saved[p] # FullSave[p]}
<1>1. \A p \in kept : late /\ FullSave[p] = None /\ Saved[p] = store[p]
  BY SavedRows
<1>2. Saved = [p \in Pane |-> IF p \in kept THEN store[p] ELSE FullSave[p]]
  <2>1. \A p \in Pane : Saved[p] = IF p \in kept THEN store[p] ELSE FullSave[p]
    BY <1>1
  <2>2. Saved = [p \in Pane |-> Saved[p]]
    BY SavedType
  <2> QED
    BY <2>1, <2>2
<1>3. kept \in SUBSET Pane
  OBVIOUS
<1> HIDE DEF kept
<1> QED
  BY <1>1, <1>2, <1>3 DEF Archive!Written

\* A daemon that has ended has nothing open.
LEMMA ForgetsAll == Forget => FullSave' = Archive!Nothing
BY DEF Forget, FullSave, Open, Archive!Nothing

LEMMA BootStarts == ASSUME MapIInv, Boot PROVE Archive!Start
<1> DEFINE rows == {p \in Pane : store[p] # None}
           old(p) == [pane |-> p, host |-> store[p].host, life |-> "live",
                      content |-> store[p].content]
<1>1. PICK num \in Bijection(rows, 1 .. Cardinality(rows)), ok \in SUBSET rows :
        /\ Cardinality(rows) <= MaxGen
        /\ panes' = [p \in Pane |-> IF p \in ok THEN num[p] ELSE 0]
        /\ sess' = [g \in Gen |->
             IF \E p \in ok : num[p] = g
             THEN LET p == CHOOSE q \in ok : num[q] = g IN old(p)
             ELSE None]
  BY DEF Boot
<1>2. /\ Cardinality(rows) \in Nat
      /\ num \in [rows -> 1 .. Cardinality(rows)]
      /\ \A p, q \in rows : num[p] = num[q] => p = q
  BY Numbering
<1>3. \A p \in ok : panes'[p] # 0 /\ panes'[p] = num[p] /\ num[p] \in Gen /\ sess'[num[p]] = old(p)
  BY <1>1, <1>2, SizeAssumption DEF Gen
<1>4. \A p \in ok : Snapshot(p)' = store[p]
  <2>1. \A p \in ok : Snapshot(p)' = [host |-> old(p).host, content |-> old(p).content]
    BY <1>3 DEF Snapshot
  <2>2. \A p \in ok : store[p] \in Row
    BY DEF MapIInv, TypeOK
  <2> QED
    BY <2>1, <2>2 DEF Row
<1>5. \A p \in Pane : p \in Open' <=> p \in ok
  BY <1>1, <1>3 DEF Open
<1>6. FullSave' = [p \in Pane |-> IF p \in Pane \ ok THEN None ELSE store[p]]
  BY <1>4, <1>5 DEF FullSave
<1>7. ~up /\ up' /\ ~late' /\ UNCHANGED <<store, lastStop>>
  BY DEF Boot
<1>8. Pane \ ok \in SUBSET Pane
  OBVIOUS
<1> QED
  BY <1>6, <1>7, <1>8 DEF Archive!Start

LEMMA ArchiveInit == Init => Archive!Init
BY DEF Init, FullSave, Open, Archive!Init, Archive!Nothing

LEMMA ArchiveStep ==
  ASSUME MapIInv, MapIInv', SaveInv, [Next]_vars
  PROVE  [Archive!Next]_Archive!vars
<1>1. CASE \E p \in Pane : Touches(p)
  BY <1>1, TouchHappens DEF Archive!Next
<1>2. CASE \E p \in Pane : Haunts(p)
  <2>1. FullSave' = FullSave /\ up /\ late' /\ UNCHANGED <<up, store, lastStop>>
    BY <1>2, OthersStay DEF Haunts
  <2> QED
    BY <2>1 DEF Archive!Lingers, Archive!Next
<1>3. CASE Spares
  <2>1. FullSave' = FullSave /\ UNCHANGED <<up, store, lastStop, late>>
    BY <1>3, OthersStay DEF Spares
  <2> QED
    BY <2>1 DEF Archive!vars
<1>4. CASE PersistDue
  <2>1. FullSave' = FullSave /\ up /\ UNCHANGED <<up, lastStop, late>>
    BY <1>4 DEF PersistDue, FullSave, Open, Snapshot
  <2>2. store' = Saved \/ store' = store
    BY <1>4 DEF PersistDue, Persist
  <2> QED
    BY <2>1, <2>2, SavedIsWritten DEF Archive!Save, Archive!Next, Archive!vars
<1>5. CASE Shutdown
  <2>1. up /\ ~up' /\ late' = late /\ FullSave' = Archive!Nothing
    BY <1>5, ForgetsAll DEF Shutdown, Forget
  <2>2. \/ store' = Saved /\ lastStop' = [open |-> Open]
        \/ store' = store /\ lastStop' = None
    BY <1>5 DEF Shutdown
  <2>3. [open |-> Open] # None
    BY NoneAssumption DEF Stop, Open
  <2> QED
    BY <2>1, <2>2, <2>3, SavedIsWritten
    DEF Archive!Stop, Archive!Crash, Archive!Ends, Archive!Next
<1>6. CASE Crash
  <2>1. up /\ ~up' /\ late' = late /\ store' = store /\ lastStop' = None /\ FullSave' = Archive!Nothing
    BY <1>6, ForgetsAll DEF Crash, Forget
  <2> QED
    BY <2>1 DEF Archive!Crash, Archive!Ends, Archive!Next
<1>7. CASE Boot
  BY <1>7, BootStarts DEF Archive!Next
<1> QED
  BY <1>1, <1>2, <1>3, <1>4, <1>5, <1>6, <1>7, StepDoes

\* The session manager keeps the promise of PaneArchive for any panes, hosts and bounds: in
\* whatever order panes open, change, move, close and die, a save writes what is open,
\* the next daemon brings back what was saved, and nothing else is ever written.
THEOREM PanesSurvive == Spec => PanesAreArchived
<1>1. Init => Archive!Init
  BY ArchiveInit
<1>2. MapIInv /\ MapIInv' /\ SaveInv /\ [Next]_vars => [Archive!Next]_Archive!vars
  BY ArchiveStep
<1> QED
  BY <1>1, <1>2, MapInit, SaveInit, MapStep, SaveStep, PTL DEF Spec, PanesAreArchived, Archive!Spec
=============================================================================
