----------------------- MODULE DaemonDiscoveryProofs -----------------------
(***************************************************************************)
(* Theorems about DaemonDiscovery for any applications, daemons, crashes   *)
(* and waits that end too early.                                           *)
(*                                                                         *)
(* A daemon that serves is found because it owns the lock (LockIsHeld), so *)
(* that no other can write endpoint.json.  Clients are spared because what *)
(* an application has counted stays true while the daemon lives            *)
(* (CountsStay): no client leaves a serving daemon but by quitting.  Quiet *)
(* is kept because a daemon that was told to go is on its way (ToldToGo).  *)
(***************************************************************************)
EXTENDS DaemonDiscovery, TLAPS

LockIsHeld == \A d \in Daemon : daemon[d] \in {"owner", "serving"} => lock = d

\* What an endpoint names has listened.
Listened(d) == d # None => daemon[d] \in {"serving", "exiting", "dead"}
HasListened == Listened(endpoint) /\ \A a \in App : Listened(ep[a])

OrdersAreServed == \A o \in orders : daemon[o[2]] = "serving"

IInv ==
    /\ TypeOK
    /\ LockIsHeld
    /\ ServingIsFound
    /\ HasListened
    /\ OrdersAreServed

CountsStay ==
    \A a \in App : Serving(ep[a]) =>
        \A b \in known[a] : b \in Clients(ep[a]) \/ pc[b] = "gone"

\* None of those it has counted uses the daemon that it retires, or has ordered to go.
RetiresUnused ==
    \A a \in App : pc[a] \in {"retire", "poll"} /\ Serving(ep[a]) =>
        Clients(ep[a]) \cap known[a] = {}

OrderedUnused ==
    \A o \in orders : o[3] = "stamp" =>
        \/ pc[o[1]] \in {"poll", "found"} /\ ep[o[1]] = o[2] /\ Clients(o[2]) \cap known[o[1]] = {}
        \/ pc[o[1]] = "attached" /\ ep[o[1]] = o[2] /\ known[o[1]] = {}
        \/ pc[o[1]] = "gone" /\ known[o[1]] = {}

CInv ==
    /\ CountsStay
    /\ RetiresUnused
    /\ OrderedUnused

----------------------------------------------------------------------------
\* The steps of an application: those that leave the daemons alone.
Looks(a) ==
    \/ \E from \in {"count", "lateCount"}, to \in {"found", "idle"}, e \in {ep[a], None} : Spared(a, from, to, e)
    \/ Doomed(a, "count", "retire") \/ Doomed(a, "lateCount", "lateRetire")
    \/ Ready(a) \/ NotReady(a) \/ LatePolled(a) \/ Connect(a)
    \/ Install(a) \/ InstallPolled(a) \/ HandOff(a) \/ NoHandOff(a) \/ Quit(a)

Sends(a) ==
    \/ Retire(a, "retire", "poll", "stamp") \/ Retire(a, "lateRetire", "latePoll", "late")
    \/ InstallRetire(a)

Spawns(a) == Discover(a) \/ Probed(a) \/ Polled(a)

Moves(d) == Boot(d) \/ Listen(d) \/ Exit(d)

\* A step is one of an application or one of a daemon.
LEMMA StepCases ==
    ASSUME Next
    PROVE  \/ \E a \in App : Looks(a) \/ Sends(a) \/ Spawns(a)
           \/ \E d \in Daemon : Moves(d) \/ Obey(d) \/ IdleShutdown(d) \/ Crash(d)
BY SMTT(30) DEF Next, Discovers, Updates, Runs, Looks, Sends, Spawns, Moves

\* What the operators of the model say of daemons.
LEMMA NoneIsNoDaemon == None \notin Daemon /\ Daemon \subseteq Nat
BY NoneAssumption, BoundAssumption DEF Daemon


----------------------------------------------------------------------------
LEMMA TypeInit == Init => TypeOK
BY BuildAssumption, BoundAssumption, NoneIsNoDaemon DEF Init, TypeOK, Maybe, Born, PC

LEMMA LooksType == ASSUME TypeOK, NEW a \in App, Looks(a) PROVE TypeOK'
<1> USE NoneIsNoDaemon, BoundAssumption
    DEF TypeOK, Maybe, PC, Late, Goto, Ends, Home, Clients, Accident, TooEarly, apps, system, client, updater, history
<1>1. CASE \E from \in {"count", "lateCount"}, to \in {"found", "idle"}, e \in {ep[a], None} : Spared(a, from, to, e)
  BY <1>1 DEF Spared
<1>2. CASE Doomed(a, "count", "retire")
  BY <1>2 DEF Doomed
<1>3. CASE Doomed(a, "lateCount", "lateRetire")
  BY <1>3 DEF Doomed
<1>4. CASE Ready(a)
  BY <1>4 DEF Ready
<1>5. CASE NotReady(a)
  BY <1>5 DEF NotReady
<1>6. CASE LatePolled(a)
  BY <1>6 DEF LatePolled, Unwatched
<1>7. CASE Connect(a)
  BY <1>7 DEF Connect, Serving
<1>8. CASE Install(a)
  BY <1>8 DEF Install
<1>9. CASE InstallPolled(a)
  BY <1>9 DEF InstallPolled, Unwatched
<1>10. CASE HandOff(a)
  BY <1>10 DEF HandOff
<1>11. CASE NoHandOff(a)
  BY <1>11 DEF NoHandOff
<1>12. CASE Quit(a)
  BY <1>12 DEF Quit
<1> QED
  BY <1>1, <1>2, <1>3, <1>4, <1>5, <1>6, <1>7, <1>8, <1>9, <1>10, <1>11, <1>12 DEF Looks

LEMMA SendsType == ASSUME TypeOK, NEW a \in App, Sends(a) PROVE TypeOK'
<1> USE NoneIsNoDaemon, BoundAssumption
    DEF TypeOK, Maybe, PC, Late, Goto, Accident, TooEarly, Orders, Serving, apps, system, client, updater, history
<1>1. CASE Retire(a, "retire", "poll", "stamp")
  BY <1>1 DEF Retire
<1>2. CASE Retire(a, "lateRetire", "latePoll", "late")
  BY <1>2 DEF Retire
<1>3. CASE InstallRetire(a)
  BY <1>3 DEF InstallRetire
<1> QED
  BY <1>1, <1>2, <1>3 DEF Sends

LEMMA SpawnType ==
    ASSUME TypeOK, NEW a \in App, Spawn(a), endpoint' = None
    PROVE  /\ daemon' \in [Daemon -> Born \cup {"unborn", "dead"}]
           /\ stamp' \in [Daemon -> {1, 2}] /\ child' \in [App -> Maybe]
           /\ \A d \in Daemon :
                \/ daemon'[d] = daemon[d]
                \/ /\ daemon[d] \in {"unborn", "dead"} /\ daemon'[d] = "booting"
                   /\ \A b \in App : d # ep[b]
<1>1. build[a] \in {1, 2}
  BY BuildAssumption DEF TypeOK
<1>2. CASE \A d \in Daemon : ~Free(d)
  BY <1>2 DEF Spawn, TypeOK, Maybe
<1>3. CASE ~\A d \in Daemon : ~Free(d)
  <2>1. PICK d \in Daemon : /\ Free(d)
                            /\ daemon' = [daemon EXCEPT ![d] = "booting"]
                            /\ stamp' = [stamp EXCEPT ![d] = build[a]]
                            /\ child' = [child EXCEPT ![a] = d]
    BY <1>3 DEF Spawn
  <2>2. daemon[d] \in {"unborn", "dead"} /\ \A b \in App : d # ep[b]
    BY <2>1 DEF Free
  <2> QED
    BY <1>1, <2>1, <2>2 DEF TypeOK, Maybe, Born
<1> QED
  BY <1>2, <1>3

LEMMA RespawnType == ASSUME TypeOK, NEW a \in App, NEW from \in PC, Respawn(a, from) PROVE TypeOK'
<1>1. hidden' \subseteq Daemon /\ endpoint' = None
  BY DEF Respawn, Unlink, TypeOK, Serving, Maybe
<1>2. CASE a \in quiescing
  BY <1>1, <1>2 DEF Respawn, Ends, Goto, TypeOK, Maybe, PC, apps, updater
<1>3. CASE a \notin quiescing
  BY <1>1, <1>3, SpawnType DEF Respawn, Goto, TypeOK, Maybe, PC, apps, updater
<1> QED
  BY <1>2, <1>3

LEMMA SpawnsType == ASSUME TypeOK, NEW a \in App, Spawns(a) PROVE TypeOK'
<1> USE NoneIsNoDaemon DEF PC
<1>1. CASE \E from \in {"idle", "probe", "poll"} : Respawn(a, from)
  BY <1>1, RespawnType
<1>2. CASE Discover(a) /\ PidAlive(endpoint)
  <2>1. Goto(a, "idle", "probe") /\ ep' = [ep EXCEPT ![a] = endpoint]
    BY <1>2 DEF Discover
  <2>2. known' = [known EXCEPT ![a] = Clients(endpoint)] /\ Clients(endpoint) \in SUBSET App
    BY <1>2 DEF Discover, Clients
  <2>3. UNCHANGED <<apps, system, child, updater, accidents, hidden>>
    BY <1>2 DEF Discover
  <2> QED
    BY <2>1, <2>2, <2>3 DEF TypeOK, Maybe, Goto, apps, system, updater
<1>3. CASE Probed(a) /\ Serving(ep[a])
  <2>1. PICK to \in {"found", "count"} : Goto(a, "probe", to)
    BY <1>3 DEF Probed
  <2>2. UNCHANGED <<apps, system, ep, child, updater, accidents, history>>
    BY <1>3 DEF Probed
  <2> QED
    BY <2>1, <2>2 DEF TypeOK, Goto, apps, system, updater, history
<1>4. CASE Polled(a) /\ ~Respawn(a, "poll")
  <2>1. Goto(a, "poll", "found") /\ UNCHANGED <<apps, system, ep, child, updater, history>>
    BY <1>4 DEF Polled
  <2>2. accidents' \in 0 .. MaxAccident
    BY <1>4, BoundAssumption DEF Polled, Unwatched, Accident, TooEarly, TypeOK
  <2> QED
    BY <2>1, <2>2 DEF TypeOK, Goto, apps, system, updater, history
<1> QED
  BY <1>1, <1>2, <1>3, <1>4 DEF Spawns, Discover, Probed, Polled

LEMMA MovesType == ASSUME TypeOK, NEW d \in Daemon, Moves(d) PROVE TypeOK'
<1> USE DEF TypeOK, Maybe, Born, apps, client, updater, history
<1>1. CASE Boot(d)
  BY <1>1 DEF Boot
<1>2. CASE Listen(d)
  BY <1>2 DEF Listen
<1>3. CASE Exit(d)
  BY <1>3 DEF Exit
<1> QED
  BY <1>1, <1>2, <1>3 DEF Moves

LEMMA DisconnectsType ==
    ASSUME TypeOK, NEW d \in Daemon, Disconnects(d)
    PROVE  /\ pc' \in [App -> PC] /\ ep' \in [App -> Maybe]
           /\ \A a \in App : IF a \in Clients(d) THEN pc'[a] = "idle" /\ ep'[a] = None
                             ELSE pc'[a] = pc[a] /\ ep'[a] = ep[a]
BY DEF Disconnects, TypeOK, PC, Maybe

LEMMA EndsType == ASSUME TypeOK, NEW d \in Daemon, Shutdown(d) \/ Crash(d) PROVE TypeOK'
<1>1. CASE Shutdown(d)
  BY <1>1, DisconnectsType DEF Shutdown, TypeOK, Maybe, Born, apps, updater, history
<1>2. CASE Crash(d)
  BY <1>2, DisconnectsType, BoundAssumption DEF Crash, Accident, TypeOK, Maybe, Born, apps, updater, history
<1> QED
  BY <1>1, <1>2

LEMMA TypeNext == TypeOK /\ [Next]_vars => TypeOK'
<1> SUFFICES ASSUME TypeOK, [Next]_vars PROVE TypeOK'
  OBVIOUS
<1>1. CASE UNCHANGED vars
  BY <1>1 DEF vars, apps, system, client, updater, history, TypeOK
<1>2. CASE Next
  BY <1>2, StepCases, LooksType, SendsType, SpawnsType, MovesType, EndsType DEF Obey, IdleShutdown
<1> QED
  BY <1>1, <1>2

\* Every variable keeps its type.
THEOREM TypeCorrect == Spec => []TypeOK
BY TypeInit, TypeNext, PTL DEF Spec

----------------------------------------------------------------------------
(***************************************************************************)
(* What a step does to daemons, files and orders, for the invariants that  *)
(* are about them.                                                         *)
(***************************************************************************)
LEMMA LooksFrame ==
    ASSUME TypeOK, NEW a \in App, Looks(a)
    PROVE  UNCHANGED <<daemon, lock, endpoint, orders, hidden>> /\ ep'[a] \in {ep[a], endpoint, None}
           /\ \A b \in App \ {a} : pc'[b] = pc[b] /\ ep'[b] = ep[b] /\ known'[b] = known[b]
<1> USE DEF TypeOK, Goto, Ends, Home, apps, system, client, updater, history
<1>1. CASE \E from \in {"count", "lateCount"}, to \in {"found", "idle"}, e \in {ep[a], None} : Spared(a, from, to, e)
  BY <1>1 DEF Spared
<1>2. CASE Doomed(a, "count", "retire") \/ Doomed(a, "lateCount", "lateRetire")
  BY <1>2 DEF Doomed
<1>3. CASE Ready(a)
  BY <1>3 DEF Ready
<1>4. CASE NotReady(a) \/ LatePolled(a)
  BY <1>4 DEF NotReady, LatePolled
<1>5. CASE Connect(a)
  BY <1>5 DEF Connect
<1>6. CASE Install(a) \/ InstallPolled(a) \/ NoHandOff(a)
  BY <1>6 DEF Install, InstallPolled, NoHandOff
<1>7. CASE HandOff(a) \/ Quit(a)
  BY <1>7 DEF HandOff, Quit
<1> QED
  BY <1>1, <1>2, <1>3, <1>4, <1>5, <1>6, <1>7 DEF Looks

LEMMA SendsFrame ==
    ASSUME TypeOK, NEW a \in App, Sends(a)
    PROVE  /\ UNCHANGED <<daemon, lock, endpoint, hidden, ep, known>>
           /\ \A b \in App \ {a} : pc'[b] = pc[b]
           /\ \A o \in orders' \ orders : Serving(o[2])
<1> USE DEF TypeOK, Goto, Orders, apps, system, client, updater, history
<1>1. CASE Retire(a, "retire", "poll", "stamp") \/ Retire(a, "lateRetire", "latePoll", "late")
  BY <1>1 DEF Retire
<1>2. CASE InstallRetire(a)
  BY <1>2 DEF InstallRetire
<1> QED
  BY <1>1, <1>2 DEF Sends

LEMMA RespawnFrame ==
    ASSUME TypeOK, NEW a \in App, NEW from \in PC, Respawn(a, from)
    PROVE  /\ UNCHANGED <<lock, orders>> /\ endpoint' = None
           /\ \A d \in Daemon :
                \/ daemon'[d] = daemon[d]
                \/ /\ daemon[d] \in {"unborn", "dead"} /\ daemon'[d] = "booting"
                   /\ \A b \in App : d # ep[b]
           /\ Serving(endpoint) => endpoint \in hidden'
           /\ hidden \subseteq hidden' /\ \A d \in hidden' \ hidden : d = endpoint
           /\ pc[a] = from /\ pc'[a] \in {"idle", "wait"} /\ ep'[a] = None /\ known'[a] = {}
           /\ \A b \in App \ {a} : pc'[b] = pc[b] /\ ep'[b] = ep[b] /\ known'[b] = known[b]
<1>1. /\ UNCHANGED <<lock, orders>> /\ endpoint' = None
      /\ Serving(endpoint) => endpoint \in hidden'
      /\ hidden \subseteq hidden' /\ \A d \in hidden' \ hidden : d = endpoint
  BY DEF Respawn, Unlink
<1>2. CASE a \in quiescing
  BY <1>1, <1>2 DEF Respawn, Ends, Goto, TypeOK
<1>3. CASE a \notin quiescing
  BY <1>1, <1>3, SpawnType DEF Respawn, Goto, TypeOK
<1> QED
  BY <1>2, <1>3

\* A discovery that has failed, and why.
Failed(a, from) ==
    /\ Respawn(a, from)
    /\ from = "probe" => ~Serving(ep[a])
    /\ from = "poll" => ~PidAlive(ep[a])
    /\ from = "idle" => ~PidAlive(endpoint)

LEMMA SpawnsFrame ==
    ASSUME TypeOK, NEW a \in App, Spawns(a)
    PROVE  \/ \E from \in {"idle", "probe", "poll"} : Failed(a, from)
           \/ /\ UNCHANGED <<daemon, lock, endpoint, orders, hidden>>
              /\ \A b \in App \ {a} : pc'[b] = pc[b] /\ ep'[b] = ep[b] /\ known'[b] = known[b]
              /\ \/ pc[a] = "idle" /\ pc'[a] = "probe" /\ ep'[a] = endpoint /\ known'[a] = Clients(endpoint)
                 \/ pc[a] = "probe" /\ pc'[a] \in {"found", "count"} /\ ep'[a] = ep[a] /\ known'[a] = known[a]
                 \/ pc[a] = "poll" /\ pc'[a] = "found" /\ ep'[a] = ep[a] /\ known'[a] = known[a]
<1>1. CASE Discover(a)
  BY <1>1 DEF Discover, TypeOK, Goto, Failed, apps, system
<1>2. CASE Probed(a)
  BY <1>2 DEF Probed, TypeOK, Goto, Failed, apps, system, history
<1>3. CASE Polled(a)
  BY <1>3 DEF Polled, TypeOK, Goto, Failed, apps, system, history
<1> QED
  BY <1>1, <1>2, <1>3 DEF Spawns

LEMMA EndsFrame ==
    ASSUME TypeOK, NEW d \in Daemon, Shutdown(d) \/ Crash(d)
    PROVE  /\ daemon[d] \in {"booting", "owner", "serving"} /\ daemon'[d] \in {"exiting", "dead"}
           /\ \A c \in Daemon \ {d} : daemon'[c] = daemon[c]
           /\ \/ daemon[d] = "serving" /\ lock' = None /\ endpoint' = None
              \/ UNCHANGED <<lock, endpoint>>
           /\ orders' = {o \in orders : o[2] # d} /\ UNCHANGED known /\ hidden' = hidden \ {d}
           /\ \A a \in App : IF a \in Clients(d) THEN pc'[a] = "idle" /\ ep'[a] = None
                             ELSE pc'[a] = pc[a] /\ ep'[a] = ep[a]
<1>1. CASE Shutdown(d)
  BY <1>1, DisconnectsType DEF Shutdown, TypeOK
<1>2. CASE Crash(d)
  BY <1>2, DisconnectsType DEF Crash, TypeOK
<1> QED
  BY <1>1, <1>2

LEMMA MovesFrame ==
    ASSUME TypeOK, NEW d \in Daemon, Moves(d)
    PROVE  /\ \A c \in Daemon \ {d} : daemon'[c] = daemon[c]
           /\ UNCHANGED <<orders, hidden, ep, pc, known>>
           /\ \/ daemon[d] = "booting" /\ daemon'[d] = "dead" /\ UNCHANGED <<lock, endpoint>>
              \/ daemon[d] = "booting" /\ daemon'[d] = "owner" /\ ~PidAlive(lock) /\ lock' = d /\ UNCHANGED endpoint
              \/ daemon[d] = "owner" /\ daemon'[d] = "serving" /\ endpoint' = d /\ UNCHANGED lock
              \/ daemon[d] = "exiting" /\ daemon'[d] = "dead" /\ UNCHANGED <<lock, endpoint>>
BY DEF Moves, Boot, Listen, Exit, TypeOK, client, history

----------------------------------------------------------------------------
LEMMA Types ==
    ASSUME TypeOK
    PROVE  /\ \A o \in orders : o[1] \in App /\ o[2] \in Daemon
           /\ endpoint \in Daemon \cup {None} /\ \A a \in App : ep[a] \in Daemon \cup {None}
BY DEF TypeOK, Maybe

LEMMA IInit == Init => IInv
BY TypeInit DEF Init, IInv, LockIsHeld, ServingIsFound, Serving, HasListened, Listened, OrdersAreServed

LEMMA INext == IInv /\ [Next]_vars => IInv'
<1> SUFFICES ASSUME IInv, [Next]_vars
             PROVE  LockIsHeld' /\ ServingIsFound' /\ HasListened' /\ OrdersAreServed'
  BY TypeNext DEF IInv
<1>0. /\ TypeOK /\ LockIsHeld /\ ServingIsFound /\ HasListened /\ OrdersAreServed
      /\ \A o \in orders : o[1] \in App /\ o[2] \in Daemon
      /\ endpoint \in Daemon \cup {None} /\ \A a \in App : ep[a] \in Daemon \cup {None}
  BY Types DEF IInv
<1> USE <1>0, NoneIsNoDaemon DEF LockIsHeld, ServingIsFound, Serving, HasListened, Listened, OrdersAreServed
<1>1. CASE UNCHANGED vars
  BY <1>1 DEF vars, apps, system, client, history
<1>2. ASSUME NEW a \in App, Looks(a) PROVE LockIsHeld' /\ ServingIsFound' /\ HasListened' /\ OrdersAreServed'
  <2>1. UNCHANGED <<daemon, lock, endpoint, orders, hidden>>
    BY <1>2, LooksFrame
  <2>2. \A b \in App : ep'[b] \in {ep[b], endpoint, None}
    BY <1>2, LooksFrame
  <2>3. HasListened'
    BY <2>1, <2>2
  <2> QED
    BY <2>1, <2>3
<1>3. ASSUME NEW a \in App, Sends(a) PROVE LockIsHeld' /\ ServingIsFound' /\ HasListened' /\ OrdersAreServed'
  BY <1>3, SendsFrame
<1>4. ASSUME NEW a \in App, Spawns(a) PROVE LockIsHeld' /\ ServingIsFound' /\ HasListened' /\ OrdersAreServed'
  <2>1. CASE \E from \in {"idle", "probe", "poll"} : Failed(a, from)
    <3> PICK from \in PC : Respawn(a, from)
      BY <2>1 DEF PC, Failed
    <3>1. orders' = orders /\ endpoint' = None /\ lock' = lock
          /\ \A d \in Daemon :
               \/ daemon'[d] = daemon[d]
               \/ /\ daemon[d] \in {"unborn", "dead"} /\ daemon'[d] = "booting"
                  /\ \A b \in App : d # ep[b]
      BY RespawnFrame
    <3>2. ServingIsFound'
      BY RespawnFrame, <3>1
    <3>3. LockIsHeld'
      BY <3>1
    <3>4. \A b \in App : ep'[b] \in {None, ep[b]}
      BY RespawnFrame
    <3>5. HasListened'
      <4>1. \A b \in App, d \in Daemon :
              d = ep[b] /\ daemon[d] \in {"serving", "exiting", "dead"} => daemon'[d] = daemon[d]
        BY <3>1
      <4>2. Listened(endpoint)'
        BY <3>1
      <4>3. ASSUME NEW b \in App PROVE Listened(ep[b])'
        <5>1. Listened(ep[b]) /\ ep[b] \in Daemon \cup {None}
          BY <4>3
        <5>2. ep'[b] = None \/ ep'[b] = ep[b]
          BY <3>4, <4>3
        <5> HIDE <1>0 DEF LockIsHeld, ServingIsFound, HasListened, OrdersAreServed
        <5> QED
          BY <4>1, <4>3, <5>1, <5>2
      <4> QED
        BY <4>2, <4>3
    <3>6. OrdersAreServed'
      BY <3>1
    <3> QED
      BY <3>2, <3>3, <3>5, <3>6
  <2>2. CASE ~\E from \in {"idle", "probe", "poll"} : Failed(a, from)
    BY <1>4, <2>2, SpawnsFrame
  <2> QED
    BY <2>1, <2>2
<1>5. ASSUME NEW d \in Daemon, Moves(d) PROVE LockIsHeld' /\ ServingIsFound' /\ HasListened' /\ OrdersAreServed'
  <2>1. LockIsHeld'
    BY <1>5, MovesFrame DEF PidAlive, Alive, Born
  <2>2. ServingIsFound'
    BY <1>5, MovesFrame
  <2> DEFINE After == {"serving", "exiting", "dead"}
  <2>3. \A c \in Daemon : /\ daemon[c] \in After => daemon'[c] \in After
                          /\ daemon[c] = "serving" => daemon'[c] = "serving"
    BY <1>5, MovesFrame
  <2>4. endpoint' = endpoint \/ (endpoint' \in Daemon /\ daemon'[endpoint'] = "serving")
    BY <1>5, MovesFrame
  <2>5. ep' = ep /\ orders' = orders
    BY <1>5, MovesFrame
  <2>6. HasListened'
    BY <2>3, <2>4, <2>5
  <2>7. OrdersAreServed'
    BY <2>3, <2>5
  <2> QED
    BY <2>1, <2>2, <2>6, <2>7
<1>6. ASSUME NEW d \in Daemon, Shutdown(d) \/ Crash(d) PROVE LockIsHeld' /\ ServingIsFound' /\ HasListened' /\ OrdersAreServed'
  <2>1. LockIsHeld'
    BY <1>6, EndsFrame
  <2>2. ServingIsFound'
    BY <1>6, EndsFrame
  <2> DEFINE After == {"serving", "exiting", "dead"}
  <2>3. \A c \in Daemon : /\ daemon[c] \in After => daemon'[c] \in After
                          /\ c # d => daemon'[c] = daemon[c]
    BY <1>6, EndsFrame
  <2>4. endpoint' \in {None, endpoint} /\ \A a \in App : ep'[a] \in {None, ep[a]}
    BY <1>6, EndsFrame
  <2>5. orders' = {o \in orders : o[2] # d}
    BY <1>6, EndsFrame
  <2>6. HasListened'
    BY <2>3, <2>4
  <2>7. OrdersAreServed'
    BY <2>3, <2>5
  <2> QED
    BY <2>1, <2>2, <2>6, <2>7
<1> QED
  BY <1>1, <1>2, <1>3, <1>4, <1>5, <1>6, StepCases DEF Obey, IdleShutdown

\* A daemon that serves is named by endpoint.json, unless an application has unlinked it.
THEOREM DaemonIsFound == Spec => []ServingIsFound
<1>1. IInv => ServingIsFound
  BY DEF IInv
<1> QED
  BY IInit, INext, <1>1, PTL DEF Spec

\* Whoever unlinks the endpoint of a daemon that serves has found another one dead.
LEMMA OnlyRespawnHides ==
    ASSUME IInv, Next, NEW d \in hidden' \ hidden
    PROVE  \E a \in App : pc[a] # pc'[a] /\ ep[a] # d
<1>0. TypeOK
  BY DEF IInv
<1>1. PICK a \in App, from \in {"idle", "probe", "poll"} : Failed(a, from)
  BY <1>0, StepCases, LooksFrame, SendsFrame, SpawnsFrame, MovesFrame, EndsFrame DEF Obey, IdleShutdown
<1>2. d = endpoint /\ Serving(d)
  <2>1. d = endpoint
    BY <1>0, <1>1, RespawnFrame DEF PC, Failed
  <2>2. hidden' = IF Serving(endpoint) THEN hidden \cup {endpoint} ELSE hidden
    BY <1>1 DEF Failed, Respawn, Unlink
  <2> QED
    BY <2>1, <2>2
<1>3. PidAlive(d)
  BY <1>2 DEF Serving, PidAlive, Alive, Born
<1>4. ep[a] # d
  <2>1. CASE from = "idle"
    BY <1>1, <1>2, <1>3, <2>1 DEF Failed
  <2>2. CASE from # "idle"
    BY <1>1, <1>2, <1>3, <2>2 DEF Failed
  <2> QED
    BY <2>1, <2>2
<1>5. pc'[a] # pc[a]
  <2>1. pc'[a] \in {"idle", "wait"} /\ pc[a] = from
    BY <1>0, <1>1, RespawnFrame DEF PC, Failed
  <2>2. from # "idle"
    BY <1>1, <1>2, <1>3 DEF Failed
  <2> QED
    BY <1>1, <2>1, <2>2
<1> QED
  BY <1>4, <1>5

\* An application unlinks the endpoint of a daemon that answers only if it had found another
\* one dead.
THEOREM AnsweringUntouched == Spec => AnsweringIsUntouched
<1>1. IInv /\ [Next]_vars => [\A d \in hidden' \ hidden : \E a \in App : pc[a] # pc'[a] /\ ep[a] # d]_vars
  BY OnlyRespawnHides
<1> QED
  BY IInit, INext, <1>1, PTL DEF Spec, AnsweringIsUntouched

----------------------------------------------------------------------------
\* Where an application's own steps take it.
LEMMA LooksCases ==
    ASSUME TypeOK, NEW a \in App, Looks(a)
    PROVE  \/ pc'[a] = pc[a] /\ ep'[a] = ep[a] /\ known'[a] = known[a]
           \/ pc'[a] = "gone" /\ known'[a] = {}
           \/ /\ pc[a] \in {"count", "lateCount", "wait", "latePoll"} /\ pc'[a] \in {"found", "idle", "inproc"}
              /\ known'[a] = {}
           \/ /\ pc[a] = "found" /\ known'[a] = {}
              /\ \/ Serving(ep[a]) /\ pc'[a] = "attached" /\ ep'[a] = ep[a]
                 \/ ~Serving(ep[a]) /\ pc'[a] \in {"idle", "inproc"}
           \/ /\ pc[a] \in {"count", "lateCount"} /\ pc'[a] \in {"retire", "lateRetire"} /\ ep'[a] = ep[a]
              /\ \/ known'[a] = {}
                 \/ known'[a] = known[a] /\ (Serving(ep[a]) => Clients(ep[a]) = {})
           \/ /\ pc[a] = "wait" /\ pc'[a] \in {"found", "lateRetire", "lateCount"}
              /\ ep'[a] = endpoint /\ known'[a] = Clients(endpoint)
<1> USE DEF TypeOK, Goto, Ends, Home, apps, system, client, updater, history
<1>1. CASE \E from \in {"count", "lateCount"}, to \in {"found", "idle"}, e \in {ep[a], None} : Spared(a, from, to, e)
  BY <1>1 DEF Spared
<1>2. CASE Doomed(a, "count", "retire")
  BY <1>2 DEF Doomed
<1>3. CASE Doomed(a, "lateCount", "lateRetire")
  BY <1>3 DEF Doomed
<1>4. CASE Ready(a)
  BY <1>4 DEF Ready
<1>5. CASE NotReady(a) \/ LatePolled(a)
  BY <1>5 DEF NotReady, LatePolled
<1>6. CASE Connect(a)
  BY <1>6 DEF Connect
<1>7. CASE Install(a) \/ InstallPolled(a) \/ NoHandOff(a)
  BY <1>7 DEF Install, InstallPolled, NoHandOff
<1>8. CASE HandOff(a) \/ Quit(a)
  BY <1>8 DEF HandOff, Quit
<1> QED
  BY <1>1, <1>2, <1>3, <1>4, <1>5, <1>6, <1>7, <1>8 DEF Looks

LEMMA SendsCases ==
    ASSUME TypeOK, NEW a \in App, Sends(a)
    PROVE  \/ pc'[a] = pc[a] /\ \A o \in orders' \ orders : o[3] = "install"
           \/ pc[a] = "lateRetire" /\ pc'[a] = "latePoll" /\ \A o \in orders' \ orders : o[3] = "late"
           \/ pc[a] = "retire" /\ pc'[a] = "poll" /\ orders' \subseteq orders \cup {<<a, ep[a], "stamp">>}
<1> USE DEF TypeOK, Goto, Orders, client
<1>1. CASE Retire(a, "retire", "poll", "stamp")
  BY <1>1 DEF Retire
<1>2. CASE Retire(a, "lateRetire", "latePoll", "late")
  BY <1>2 DEF Retire
<1>3. CASE InstallRetire(a)
  BY <1>3 DEF InstallRetire
<1> QED
  BY <1>1, <1>2, <1>3 DEF Sends

LEMMA RespawnKeeps ==
    ASSUME TypeOK, NEW a \in App, NEW from \in PC \ {"attached"}, Respawn(a, from)
    PROVE  \A c \in App : Serving(ep[c])' =>
             c # a /\ Serving(ep[c]) /\ Clients(ep[c])' = Clients(ep[c])
<1>1. ASSUME NEW c \in App, Serving(ep[c])'
      PROVE  c # a /\ Serving(ep[c]) /\ Clients(ep[c])' = Clients(ep[c])
  <2>1. c # a
    BY <1>1, RespawnFrame DEF Serving
  <2>2. ep'[c] = ep[c]
    BY <2>1, RespawnFrame
  <2>3. ep[c] \in Daemon
    BY <1>1, <2>2, Types DEF Serving
  <2>4. daemon'[ep[c]] = "serving"
    BY <1>1, <2>2 DEF Serving
  <2>5. daemon[ep[c]] = "serving"
    BY <2>3, <2>4, RespawnFrame
  <2>6. Clients(ep[c])' = Clients(ep[c])
    BY <2>2, <2>3, NoneIsNoDaemon, RespawnFrame DEF Clients
  <2> QED
    BY <2>1, <2>3, <2>5, <2>6, NoneIsNoDaemon DEF Serving
<1> QED
  BY <1>1

LEMMA CInit == Init => CInv
BY DEF Init, CInv, CountsStay, RetiresUnused, OrderedUnused, Serving

LEMMA CNext == IInv /\ CInv /\ [Next]_vars => CInv'
<1> SUFFICES ASSUME IInv, CInv, [Next]_vars
             PROVE  CInv'
  OBVIOUS
<1>0. /\ TypeOK /\ HasListened
      /\ \A o \in orders : o[1] \in App /\ o[2] \in Daemon /\ Serving(o[2])
      /\ endpoint \in Daemon \cup {None} /\ \A a \in App : ep[a] \in Daemon \cup {None} /\ known[a] \subseteq App
  BY Types, NoneIsNoDaemon DEF IInv, OrdersAreServed, Serving, TypeOK
<1> USE <1>0, NoneIsNoDaemon DEF CInv, CountsStay, RetiresUnused, OrderedUnused
<1>1. CASE UNCHANGED vars
  BY <1>1 DEF vars, apps, system, client, history, Serving, Clients
<1>2. ASSUME NEW a \in App, Looks(a) PROVE CInv'
  <2>1. /\ orders' = orders /\ daemon' = daemon
        /\ \A b \in App \ {a} : pc'[b] = pc[b] /\ ep'[b] = ep[b] /\ known'[b] = known[b]
    BY <1>2, LooksFrame
  <2>2. CountsStay'
    BY <1>2, <2>1, LooksCases DEF Serving, Clients
  <2>3. RetiresUnused'
    BY <1>2, <2>1, LooksCases DEF Serving, Clients
  <2>4. OrderedUnused'
    BY <1>2, <2>1, LooksCases DEF Serving, Clients
  <2> QED
    BY <2>2, <2>3, <2>4
<1>3. ASSUME NEW a \in App, Sends(a) PROVE CInv'
  <2>1. /\ ep' = ep /\ known' = known /\ daemon' = daemon
        /\ \A b \in App \ {a} : pc'[b] = pc[b]
    BY <1>3, SendsFrame
  <2>2. CountsStay'
    BY <1>3, <2>1, SendsCases DEF Serving, Clients
  <2>3. RetiresUnused'
    BY <1>3, <2>1, SendsCases DEF Serving, Clients
  <2>4. OrderedUnused'
    BY <1>3, <2>1, SendsCases, SendsFrame DEF Serving, Clients
  <2> QED
    BY <2>2, <2>3, <2>4
<1>4. ASSUME NEW a \in App, Spawns(a) PROVE CInv'
  <2>1. CASE \E from \in {"idle", "probe", "poll"} : Failed(a, from)
    <3>1. PICK from \in {"idle", "probe", "poll"} : Respawn(a, from) /\ (from = "poll" => ~PidAlive(ep[a]))
      BY <2>1 DEF Failed
    <3>2. /\ orders' = orders
          /\ \A d \in Daemon : daemon'[d] = "serving" => daemon[d] = "serving"
          /\ pc[a] = from /\ pc'[a] \in {"idle", "wait"} /\ ep'[a] = None /\ known'[a] = {}
          /\ \A b \in App \ {a} : pc'[b] = pc[b] /\ ep'[b] = ep[b] /\ known'[b] = known[b]
      BY <3>1, RespawnFrame DEF PC
    <3>3. \A o \in orders : o[1] = a => o[3] # "stamp"
      BY <3>1, <3>2 DEF Serving, PidAlive, Alive, Born
    <3>4. \A c \in App : Serving(ep[c])' => c # a /\ Serving(ep[c]) /\ Clients(ep[c])' = Clients(ep[c])
      BY <3>1, RespawnKeeps DEF PC
    <3>5. CountsStay'
      BY <3>2, <3>4
    <3>6. RetiresUnused'
      BY <3>2, <3>4
    <3>7. OrderedUnused'
      BY <3>1, <3>2, <3>3 DEF Serving, Clients
    <3> QED
      BY <3>5, <3>6, <3>7
  <2>2. CASE ~\E from \in {"idle", "probe", "poll"} : Failed(a, from)
    <3>1. /\ orders' = orders /\ daemon' = daemon
          /\ \A b \in App \ {a} : pc'[b] = pc[b] /\ ep'[b] = ep[b] /\ known'[b] = known[b]
      BY <1>4, <2>2, SpawnsFrame
    <3>2. \/ pc[a] = "idle" /\ pc'[a] = "probe" /\ ep'[a] = endpoint /\ known'[a] = Clients(endpoint)
          \/ pc[a] = "probe" /\ pc'[a] \in {"found", "count"} /\ ep'[a] = ep[a] /\ known'[a] = known[a]
          \/ pc[a] = "poll" /\ pc'[a] = "found" /\ ep'[a] = ep[a] /\ known'[a] = known[a]
      BY <1>4, <2>2, SpawnsFrame
    <3>3. CountsStay'
      BY <3>1, <3>2 DEF Serving, Clients
    <3>4. RetiresUnused'
      BY <3>1, <3>2 DEF Serving, Clients
    <3>5. OrderedUnused'
      BY <3>1, <3>2 DEF Serving, Clients
    <3> QED
      BY <3>3, <3>4, <3>5
  <2> QED
    BY <2>1, <2>2
<1>5. ASSUME NEW d \in Daemon, Moves(d) PROVE CInv'
  <2>1. /\ orders' = orders /\ ep' = ep /\ pc' = pc /\ known' = known
        /\ \A c \in Daemon : daemon'[c] = "serving" => daemon[c] \in {"serving", "owner"}
    BY <1>5, MovesFrame
  <2>2. \A a \in App : Serving(ep[a])' => Serving(ep[a])
    BY <2>1 DEF Serving, HasListened, Listened
  <2> QED
    BY <2>1, <2>2 DEF Clients
<1>6. ASSUME NEW d \in Daemon, Shutdown(d) \/ Crash(d) PROVE CInv'
  <2>1. /\ orders' = {o \in orders : o[2] # d} /\ known' = known
        /\ \A c \in Daemon : daemon'[c] = "serving" <=> daemon[c] = "serving" /\ c # d
        /\ \A a \in App : IF a \in Clients(d) THEN pc'[a] = "idle" /\ ep'[a] = None
                         ELSE pc'[a] = pc[a] /\ ep'[a] = ep[a]
    BY <1>6, EndsFrame
  <2>2. \A c \in Daemon \ {d} : Clients(c)' = Clients(c)
    BY <2>1 DEF Clients
  <2>3. \A a \in App : Serving(ep[a])' => ep'[a] = ep[a] /\ ep[a] \in Daemon \ {d} /\ Serving(ep[a]) /\ pc'[a] = pc[a]
    BY <2>1 DEF Serving
  <2>4. CountsStay'
    BY <2>1, <2>2, <2>3 DEF Clients
  <2>5. RetiresUnused'
    BY <2>1, <2>2, <2>3
  <2>6. OrderedUnused'
    BY <2>1, <2>2 DEF Clients
  <2> QED
    BY <2>4, <2>5, <2>6
<1> QED
  BY <1>1, <1>2, <1>3, <1>4, <1>5, <1>6, StepCases DEF Obey, IdleShutdown

\* A daemon goes under its clients only on somebody's order; and whoever ordered it for its
\* build had counted none of them.
LEMMA NoneIsRobbed ==
    ASSUME IInv, CInv, Next, NEW d \in Daemon, Serving(d), daemon'[d] = "exiting", Clients(d) # {}
    PROVE  \E o \in orders : o[2] = d /\ (o[3] = "stamp" => Clients(d) \cap known[o[1]] = {})
<1>0. TypeOK
  BY DEF IInv
<1>1. Obey(d)
  <2>1. \A a \in App : ~Looks(a) /\ ~Sends(a)
    BY <1>0, LooksFrame, SendsFrame DEF Serving
  <2>2. \A a \in App : ~Spawns(a)
    BY <1>0, SpawnsFrame, RespawnFrame DEF Serving, PC, Failed
  <2>3. \A c \in Daemon : ~Moves(c)
    BY <1>0, MovesFrame DEF Serving
  <2>4. \A c \in Daemon : ~Crash(c)
    BY <1>0 DEF Crash, TypeOK, Serving
  <2>5. \A c \in Daemon : Shutdown(c) => c = d
    BY <1>0, EndsFrame DEF Serving
  <2>6. ~IdleShutdown(d)
    BY DEF IdleShutdown, Clients
  <2> QED
    BY <2>1, <2>2, <2>3, <2>4, <2>5, <2>6, StepCases DEF Obey, IdleShutdown
<1>2. PICK o \in orders : o[2] = d
  BY <1>1 DEF Obey
<1> QED
  BY <1>2 DEF CInv, OrderedUnused

\* Nobody's daemon is retired for its build under a client that the retiring application
\* could have counted.
THEOREM KnownSpared == Spec => KnownClientsAreSpared
<1>1. IInv /\ CInv /\ [Next]_vars =>
        [\A d \in Daemon : Serving(d) /\ daemon'[d] = "exiting" /\ Clients(d) # {} =>
            \E o \in orders : o[2] = d /\ (o[3] = "stamp" => Clients(d) \cap known[o[1]] = {})]_vars
  BY NoneIsRobbed
<1> QED
  BY IInit, INext, CInit, CNext, <1>1, PTL DEF Spec, KnownClientsAreSpared

----------------------------------------------------------------------------
\* What the updater's quiet rests on: a stranger's daemon is not the one it has spawned, and
\* one that it has told to go is on its way, if nothing went wrong.
StrangersAreCounted == \A a \in App : pc[a] = "lateCount" => ep[a] # child[a]

ToldToGo ==
    \A a \in App : pc[a] = "latePoll" /\ accidents = 0 /\ Serving(ep[a]) =>
        \E o \in orders : o[2] = ep[a]

QInv == StrangersAreCounted /\ ToldToGo

\* An accident is not undone.
LEMMA AccidentsCount == ASSUME TypeOK, Accident PROVE accidents' # 0 /\ accidents' \in Nat
BY BoundAssumption DEF TypeOK, Accident

\* What a step of one that looks does to its discovery, and to quiet.
LEMMA LooksQuiet ==
    ASSUME TypeOK, ServingIsFound, NEW a \in App, Looks(a)
    PROVE  /\ accidents' = 0 => accidents = 0
           /\ \A b \in App \ {a} : child'[b] = child[b]
           /\ child'[a] \in {child[a], None}
           /\ pc'[a] = "lateCount" => ep'[a] # child'[a] \/ (pc[a] = "lateCount" /\ ep'[a] = ep[a] /\ child'[a] = child[a])
           /\ pc'[a] = "latePoll" => pc[a] = "latePoll" /\ ep'[a] = ep[a]
           /\ pc[a] \in Late \cup {"wait"} /\ pc'[a] = "idle" /\ accidents' = 0 /\ hidden = {} =>
                \/ pc[a] = "wait" /\ \A d \in Daemon : ~Serving(d)
                \/ pc[a] = "lateCount"
                \/ pc[a] = "latePoll" /\ (Serving(ep[a]) => ~Leaving(ep[a]))
<1> USE AccidentsCount DEF TypeOK, Goto, Ends, Home, Late, TooEarly, apps, system, client, updater, history
<1>1. CASE \E from \in {"count", "lateCount"}, to \in {"found", "idle"}, e \in {ep[a], None} : Spared(a, from, to, e)
  BY <1>1 DEF Spared
<1>2. CASE Doomed(a, "count", "retire") \/ Doomed(a, "lateCount", "lateRetire")
  BY <1>2 DEF Doomed
<1>3. CASE Ready(a)
  BY <1>3 DEF Ready
<1>4. CASE NotReady(a)
  <2>1. accidents' = 0 => ~PidAlive(endpoint) /\ accidents = 0
    BY <1>4 DEF NotReady
  <2>2. hidden = {} /\ ~PidAlive(endpoint) => \A d \in Daemon : ~Serving(d)
    BY DEF ServingIsFound, Serving, PidAlive, Alive, Born
  <2> QED
    BY <1>4, <2>1, <2>2 DEF NotReady
<1>5. CASE LatePolled(a)
  <2>1. accidents' = 0 => accidents = 0 /\ (Serving(ep[a]) => ~Leaving(ep[a]))
    BY <1>5 DEF LatePolled, Unwatched, Serving, PidAlive, Alive, Born
  <2> QED
    BY <1>5, <2>1 DEF LatePolled
<1>6. CASE Connect(a)
  BY <1>6 DEF Connect
<1>7. CASE Install(a) \/ InstallPolled(a) \/ NoHandOff(a)
  BY <1>7 DEF Install, InstallPolled, NoHandOff, Unwatched
<1>8. CASE HandOff(a) \/ Quit(a)
  BY <1>8 DEF HandOff, Quit
<1> QED
  BY <1>1, <1>2, <1>3, <1>4, <1>5, <1>6, <1>7, <1>8 DEF Looks

LEMMA SendsQuiet ==
    ASSUME TypeOK, NEW a \in App, Sends(a)
    PROVE  /\ accidents' = 0 => accidents = 0
           /\ child' = child /\ orders \subseteq orders'
           /\ pc'[a] \notin {"lateCount", "idle"} \/ pc'[a] = pc[a]
           /\ pc'[a] = "latePoll" /\ accidents' = 0 /\ Serving(ep[a]) =>
                pc[a] = "latePoll" \/ \E o \in orders' : o[2] = ep[a]
<1> USE AccidentsCount DEF TypeOK, Goto, Orders, TooEarly, client
<1>1. CASE Retire(a, "retire", "poll", "stamp")
  BY <1>1 DEF Retire
<1>2. CASE Retire(a, "lateRetire", "latePoll", "late")
  <2>1. Orders(ep[a], a, "late") /\ child' = child /\ pc'[a] = "latePoll"
    BY <1>2 DEF Retire
  <2>2. /\ accidents' = 0 => accidents = 0
        /\ orders \subseteq orders'
        /\ accidents' = 0 /\ Serving(ep[a]) => <<a, ep[a], "late">> \in orders'
    BY <2>1
  <2> QED
    BY <2>1, <2>2
<1>3. CASE InstallRetire(a)
  BY <1>3 DEF InstallRetire
<1> QED
  BY <1>1, <1>2, <1>3 DEF Sends

\* One that wants quiet spawns nothing.
LEMMA SpawnsQuiet ==
    ASSUME TypeOK, NEW a \in App, Spawns(a)
    PROVE  /\ accidents' = 0 => accidents = 0
           /\ \A b \in App : child'[b] = child[b] \/ (b = a /\ (a \in quiescing => child'[a] = None))
           /\ pc[a] \notin Late \cup {"wait"} /\ pc'[a] \notin Late
<1> USE DEF TypeOK, Goto, Late, history
<1>1. ASSUME NEW from \in {"idle", "probe", "poll"}, Respawn(a, from)
      PROVE  /\ accidents' = accidents /\ pc[a] = from /\ pc'[a] \in {"idle", "wait"}
             /\ \A b \in App : child'[b] = child[b] \/ (b = a /\ (a \in quiescing => child'[a] = None))
  <2>1. CASE a \in quiescing
    BY <1>1, <2>1 DEF Respawn, Ends
  <2>2. CASE a \notin quiescing
    BY <1>1, <2>2 DEF Respawn, Spawn
  <2> QED
    BY <2>1, <2>2
<1>2. CASE \E from \in {"idle", "probe", "poll"} : Respawn(a, from)
  BY <1>1, <1>2
<1>3. CASE Discover(a) /\ ~Respawn(a, "idle")
  BY <1>3 DEF Discover
<1>4. CASE Probed(a) /\ ~Respawn(a, "probe")
  BY <1>4 DEF Probed
<1>5. CASE Polled(a) /\ ~Respawn(a, "poll")
  BY <1>5, AccidentsCount DEF Polled, Unwatched, TooEarly
<1> QED
  BY <1>2, <1>3, <1>4, <1>5 DEF Spawns

LEMMA DaemonsQuiet ==
    ASSUME TypeOK, NEW d \in Daemon, Moves(d) \/ Shutdown(d) \/ Crash(d)
    PROVE  /\ accidents' = 0 => accidents = 0
           /\ child' = child
           /\ \A a \in App : \/ pc'[a] = pc[a] /\ ep'[a] = ep[a]
                             \/ pc[a] = "attached" /\ pc'[a] = "idle"
<1>1. CASE Moves(d)
  BY <1>1 DEF Moves, Boot, Listen, Exit, client
<1>2. CASE Shutdown(d)
  BY <1>2, DisconnectsType DEF Shutdown, Clients
<1>3. CASE Crash(d)
  BY <1>3, DisconnectsType, AccidentsCount DEF Crash, Clients
<1> QED
  BY <1>1, <1>2, <1>3

LEMMA QInit == Init => QInv
BY DEF Init, QInv, StrangersAreCounted, ToldToGo

LEMMA QNext == IInv /\ QInv /\ [Next]_vars => QInv'
<1> SUFFICES ASSUME IInv, QInv, [Next]_vars
             PROVE  QInv'
  OBVIOUS
<1>0. TypeOK /\ ServingIsFound /\ HasListened /\ \A a \in App : ep[a] \in Daemon \cup {None}
  BY Types DEF IInv
<1> USE <1>0, NoneIsNoDaemon DEF QInv, StrangersAreCounted, ToldToGo
<1>1. CASE UNCHANGED vars
  BY <1>1 DEF vars, apps, system, client, Serving
<1>2. ASSUME NEW a \in App, Looks(a) PROVE QInv'
  <2>1. StrangersAreCounted'
    BY <1>2, LooksFrame, LooksQuiet
  <2>2. ToldToGo'
    BY <1>2, LooksFrame, LooksQuiet DEF Serving
  <2> QED
    BY <2>1, <2>2
<1>3. ASSUME NEW a \in App, Sends(a) PROVE QInv'
  <2>1. StrangersAreCounted'
    BY <1>3, SendsFrame, SendsQuiet
  <2>2. ToldToGo'
    BY <1>3, SendsFrame, SendsQuiet DEF Serving
  <2> QED
    BY <2>1, <2>2
<1>4. ASSUME NEW a \in App, Spawns(a) PROVE QInv'
  <2>1. orders' = orders /\ \A d \in Daemon : daemon'[d] = "serving" => daemon[d] = "serving"
    BY <1>4, SpawnsFrame, RespawnFrame DEF Failed, PC
  <2>2. \A b \in App \ {a} : pc'[b] = pc[b] /\ ep'[b] = ep[b]
    BY <1>4, SpawnsFrame, RespawnFrame DEF Failed, PC
  <2>3. StrangersAreCounted'
    BY <1>4, <2>2, SpawnsQuiet DEF Late
  <2>4. \A b \in App : pc'[b] = "latePoll" => b # a
    BY <1>4, SpawnsQuiet DEF Late
  <2>5. accidents' = 0 => accidents = 0
    BY <1>4, SpawnsQuiet
  <2>6. ASSUME NEW b \in App, pc'[b] = "latePoll", accidents' = 0, Serving(ep[b])'
        PROVE  \E o \in orders' : o[2] = ep'[b]
    <3>1. pc[b] = "latePoll" /\ ep'[b] = ep[b] /\ accidents = 0
      BY <2>2, <2>4, <2>5, <2>6
    <3>2. Serving(ep[b])
      BY <2>1, <2>6, <3>1 DEF Serving
    <3> QED
      BY <2>1, <3>1, <3>2
  <2>7. ToldToGo'
    BY <2>6
  <2> QED
    BY <2>3, <2>7
<1>5. ASSUME NEW d \in Daemon, Moves(d) PROVE QInv'
  <2>1. ep' = ep /\ \A c \in Daemon : daemon'[c] = "serving" => daemon[c] \in {"serving", "owner"}
    BY <1>5, MovesFrame
  <2>2. \A a \in App : Serving(ep[a])' => Serving(ep[a])
    BY <2>1 DEF Serving, HasListened, Listened
  <2>3. UNCHANGED <<orders, ep, pc, child>> /\ (accidents' = 0 => accidents = 0)
    BY <1>5, MovesFrame, DaemonsQuiet
  <2> QED
    BY <2>2, <2>3
<1>6. ASSUME NEW d \in Daemon, Shutdown(d) \/ Crash(d) PROVE QInv'
  <2>1. /\ orders' = {o \in orders : o[2] # d}
        /\ \A c \in Daemon : daemon'[c] = "serving" => daemon[c] = "serving" /\ c # d
    BY <1>6, EndsFrame
  <2>2. /\ accidents' = 0 => accidents = 0
        /\ child' = child
        /\ \A a \in App : pc'[a] # "idle" => pc'[a] = pc[a] /\ ep'[a] = ep[a]
    BY <1>6, DaemonsQuiet
  <2>3. StrangersAreCounted'
    BY <2>2
  <2>4. ASSUME NEW b \in App, pc'[b] = "latePoll", accidents' = 0, Serving(ep[b])'
        PROVE  \E o \in orders' : o[2] = ep'[b]
    <3>1. pc[b] = "latePoll" /\ ep'[b] = ep[b] /\ accidents = 0
      BY <2>2, <2>4
    <3>2. Serving(ep[b]) /\ ep[b] # d
      BY <2>1, <2>4, <3>1 DEF Serving
    <3> QED
      BY <2>1, <3>1, <3>2
  <2>5. ToldToGo'
    BY <2>4
  <2> QED
    BY <2>3, <2>5
<1> QED
  BY <1>1, <1>2, <1>3, <1>4, <1>5, <1>6, StepCases DEF Obey, IdleShutdown

\* One that wants quiet ends a discovery only when the daemon it had spawned is not there.
LEMMA QuietStep ==
    ASSUME IInv, QInv, Next, NEW a \in quiescing
    PROVE  /\ child'[a] \in {child[a], None}
           /\ /\ pc[a] \in Late \cup {"wait"} /\ pc'[a] = "idle" /\ child[a] # None
              /\ pc[a] = "wait" \/ ep[a] = child[a]
              /\ accidents' = 0 /\ hidden = {}
              => daemon'[child[a]] # "serving"
<1>0. TypeOK /\ ServingIsFound /\ a \in App /\ child[a] \in Daemon \cup {None}
  BY DEF IInv, TypeOK, Maybe
<1> USE <1>0, NoneIsNoDaemon
<1>1. ASSUME NEW b \in App, Looks(b)
      PROVE  /\ child'[a] \in {child[a], None}
             /\ /\ pc[a] \in Late \cup {"wait"} /\ pc'[a] = "idle" /\ child[a] # None
                /\ pc[a] = "wait" \/ ep[a] = child[a]
                /\ accidents' = 0 /\ hidden = {}
                => daemon'[child[a]] # "serving"
  <2>1. daemon' = daemon /\ (b # a => pc'[a] = pc[a])
    BY <1>1, LooksFrame
  <2>2. child'[a] \in {child[a], None}
    BY <1>1, LooksQuiet
  <2>3. ASSUME pc[a] \in Late \cup {"wait"}, pc'[a] = "idle", child[a] # None,
               pc[a] = "wait" \/ ep[a] = child[a], accidents' = 0, hidden = {}
        PROVE  daemon[child[a]] # "serving"
    <3>1. b = a
      BY <2>1, <2>3 DEF Late
    <3>2. \/ pc[a] = "wait" /\ \A d \in Daemon : ~Serving(d)
          \/ pc[a] = "lateCount"
          \/ pc[a] = "latePoll" /\ (Serving(ep[a]) => ~Leaving(ep[a]))
      BY <1>1, <2>3, <3>1, LooksQuiet
    <3>3. pc[a] # "lateCount"
      BY <2>3 DEF QInv, StrangersAreCounted
    <3>4. accidents = 0
      BY <1>1, <2>3, LooksQuiet
    <3> QED
      BY <2>3, <3>2, <3>3, <3>4 DEF QInv, ToldToGo, Serving, Leaving
  <2> QED
    BY <2>1, <2>2, <2>3
<1>2. ASSUME NEW b \in App, Sends(b)
      PROVE  child' = child /\ (pc'[a] = pc[a] \/ pc'[a] # "idle")
  BY <1>2, SendsFrame, SendsQuiet
<1>3. ASSUME NEW b \in App, Spawns(b)
      PROVE  /\ child'[a] \in {child[a], None}
             /\ pc[a] \notin Late \cup {"wait"} \/ pc'[a] = pc[a]
  <2>1. CASE b = a
    BY <1>3, <2>1, SpawnsQuiet
  <2>2. CASE b # a
    <3>1. pc'[a] = pc[a]
      BY <1>3, <2>2, SpawnsFrame, RespawnFrame DEF Failed, PC
    <3> QED
      BY <1>3, <2>2, <3>1, SpawnsQuiet
  <2> QED
    BY <2>1, <2>2
<1>4. ASSUME NEW d \in Daemon, Moves(d) \/ Shutdown(d) \/ Crash(d)
      PROVE  child' = child /\ (pc'[a] = pc[a] \/ pc[a] = "attached")
  BY <1>4, DaemonsQuiet
<1>5. /\ pc[a] = "attached" => pc[a] \notin Late \cup {"wait"}
      /\ pc[a] = "idle" => pc[a] \notin Late \cup {"wait"}
  BY DEF Late
<1> QED
  BY <1>1, <1>2, <1>3, <1>4, <1>5, StepCases DEF Obey, IdleShutdown

\* While the updater wants quiet its application spawns nothing, and ends a discovery only
\* when the daemon it had spawned does not serve.
THEOREM QuietTheorem == Spec => QuietIsKept
<1>1. IInv /\ QInv /\ [Next]_vars =>
        [\A a \in quiescing :
            /\ child'[a] \in {child[a], None}
            /\ /\ pc[a] \in Late \cup {"wait"} /\ pc'[a] = "idle" /\ child[a] # None
               /\ pc[a] = "wait" \/ ep[a] = child[a]
               /\ accidents' = 0 /\ hidden = {}
               => daemon'[child[a]] # "serving"]_vars
  BY QuietStep
<1> QED
  BY IInit, INext, QInit, QNext, <1>1, PTL DEF Spec, QuietIsKept
============================================================================
