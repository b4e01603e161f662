-------------------------- MODULE DaemonDiscovery --------------------------
(***************************************************************************)
(* How the applications of one user find, spawn and retire the one daemon  *)
(* they share: ensureDaemon and retireOwnDaemon of                         *)
(* src/main/daemon-client.ts, the pre-install retire of                    *)
(* src/main/updater.ts, and the daemon's side of it                        *)
(* (src/pty-daemon/index.ts).                                              *)
(*                                                                         *)
(* An action of an application is one turn of its event loop, from one     *)
(* await to the next.  Meanwhile anything may happen to the daemons, to    *)
(* the runtime directory and to the other applications.  The lock is taken *)
(* and released in one step here: module DaemonLock has its system calls.  *)
(*                                                                         *)
(* Off Windows a live pid is all that can be known of an endpoint at once, *)
(* and a probe follows.  On Windows the pipe answers in the same turn,     *)
(* which is the case where nothing happens before the probe's answer.      *)
(***************************************************************************)
EXTENDS Naturals, FiniteSets

CONSTANTS
    App,        \* the applications
    Builds,     \* the builds that they may be of: the stamps are only compared
    Updating,   \* those that have an update to install
    None,       \* no daemon
    MaxSpawn,   \* bound on the daemons that live or are named at a time
    MaxAccident \* bound on the daemons that die by accident and waits that end too early

ASSUME BuildAssumption == Builds \subseteq [App -> {1, 2}]
ASSUME BoundAssumption == MaxSpawn \in Nat \ {0} /\ MaxAccident \in Nat

Daemon == 1 .. MaxSpawn
ASSUME NoneAssumption == None \notin Daemon

Maybe == Daemon \cup {None}

VARIABLES
    build,      \* the build of each application
    launched,   \* those that have had a client: from then on they reconnect
    daemon,     \* where each daemon is in its life
    stamp,      \* the build it was spawned from
    lock,       \* the daemon whose lock file is there, alive or dead
    endpoint,   \* the daemon that endpoint.json names
    recycled,   \* dead daemons whose pid a stranger has
    orders,     \* shutdown frames on their way: from whom, to whom, and why
    pc,         \* where each application's discovery is
    ep,         \* the endpoint it works on; once attached, its daemon
    child,      \* the daemon it has spawned last
    upd,        \* where its updater is
    updEp,      \* the endpoint its updater is retiring
    quiescing,  \* applications that refuse to spawn
    accidents,  \* deaths of daemons, and waits that ended too early
    \* history
    known,      \* the clients an application has counted on the daemon it is to retire
    hidden      \* daemons that serve although somebody has unlinked their endpoint

apps    == <<build, launched>>
system  == <<daemon, stamp, lock, endpoint, recycled, orders>>
client  == <<pc, ep, child>>
updater == <<upd, updEp, quiescing>>
history == <<known, hidden>>
vars    == <<apps, system, client, updater, accidents, history>>

Born == {"booting", "owner", "serving", "exiting"}
Late == {"lateCount", "lateRetire", "latePoll"}
PC   == {"idle", "probe", "count", "retire", "poll", "wait", "found", "attached", "inproc", "gone"} \cup Late

TypeOK ==
    /\ build \in Builds /\ launched \subseteq App
    /\ daemon \in [Daemon -> Born \cup {"unborn", "dead"}]
    /\ stamp \in [Daemon -> {1, 2}]
    /\ lock \in Maybe /\ endpoint \in Maybe
    /\ recycled \subseteq Daemon
    /\ orders \subseteq (App \X Daemon \X {"stamp", "late", "install"})
    /\ pc \in [App -> PC] /\ ep \in [App -> Maybe] /\ child \in [App -> Maybe]
    /\ upd \in [App -> {"idle", "retire", "poll", "free", "locked"}]
    /\ updEp \in [App -> Maybe]
    /\ quiescing \subseteq App
    /\ accidents \in 0 .. MaxAccident
    /\ known \in [App -> SUBSET App] /\ hidden \subseteq Daemon

Init ==
    /\ build \in Builds /\ launched = {}
    /\ daemon = [d \in Daemon |-> "unborn"]
    /\ stamp = [d \in Daemon |-> 1]
    /\ lock = None /\ endpoint = None
    /\ recycled = {} /\ orders = {}
    /\ pc = [a \in App |-> "idle"]
    /\ ep = [a \in App |-> None] /\ child = [a \in App |-> None]
    /\ upd = [a \in App |-> "idle"] /\ updEp = [a \in App |-> None]
    /\ quiescing = {}
    /\ accidents = 0
    /\ known = [a \in App |-> {}] /\ hidden = {}

Goto(a, from, to) == pc[a] = from /\ pc' = [pc EXCEPT ![a] = to]

\* A discovery ends, with a daemon or with an error.
Ends(a, from, to, e) ==
    /\ Goto(a, from, to)
    /\ ep' = [ep EXCEPT ![a] = e] /\ child' = [child EXCEPT ![a] = None]
    /\ known' = [known EXCEPT ![a] = {}]

\* Mutant: a reconnect that fails is the last.
MutHome(a) == "inproc"

\* A reconnect is tried again; the launch asks once, and on an error the application
\* runs its terminals in its own process for good.
Home(a) == IF a \in launched THEN "idle" ELSE "inproc"

Alive(d)    == daemon[d] \in Born
Serving(d)  == d # None /\ daemon[d] = "serving"
PidAlive(d) == d # None /\ (Alive(d) \/ d \in recycled)
Clients(d)  == {a \in App : pc[a] = "attached" /\ ep[a] = d}

Accident == accidents < MaxAccident /\ accidents' = accidents + 1

\* A wait ends although what it waits for may be on its way.
TooEarly == Accident

----------------------------------------------------------------------------
\* Mutant: a live owner does not stop it.
MutBoot(d) ==
    /\ daemon[d] = "booting"
    /\ daemon' = [daemon EXCEPT ![d] = "owner"] /\ lock' = d
    /\ UNCHANGED <<apps, stamp, endpoint, recycled, orders, client, updater, accidents, history>>

\* The daemon boots: it gets the lock, or finds a live owner and exits.
Boot(d) ==
    /\ daemon[d] = "booting"
    /\ IF PidAlive(lock)
       THEN daemon' = [daemon EXCEPT ![d] = "dead"] /\ UNCHANGED lock
       ELSE daemon' = [daemon EXCEPT ![d] = "owner"] /\ lock' = d
    /\ UNCHANGED <<apps, stamp, endpoint, recycled, orders, client, updater, accidents, history>>

\* It listens, and names itself in endpoint.json, once.
Listen(d) ==
    /\ daemon[d] = "owner"
    /\ daemon' = [daemon EXCEPT ![d] = "serving"]
    /\ endpoint' = d
    /\ UNCHANGED <<apps, stamp, lock, recycled, orders, client, updater, accidents, history>>

\* Its clients' sockets close.
Disconnects(d) ==
    /\ pc' = [a \in App |-> IF a \in Clients(d) THEN "idle" ELSE pc[a]]
    /\ ep' = [a \in App |-> IF a \in Clients(d) THEN None ELSE ep[a]]

\* shutdown() is one turn of the daemon; its pid outlives its files.
Shutdown(d) ==
    /\ daemon[d] = "serving"
    /\ daemon' = [daemon EXCEPT ![d] = "exiting"]
    /\ endpoint' = None /\ lock' = None
    /\ orders' = {o \in orders : o[2] # d}
    /\ Disconnects(d) /\ hidden' = hidden \ {d}
    /\ UNCHANGED <<apps, stamp, recycled, child, updater, accidents, known>>

\* On a client's order, or because it has had no client and no pane for half an hour.
Obey(d) == (\E o \in orders : o[2] = d) /\ Shutdown(d)

IdleShutdown(d) ==
    /\ \A a \in App : pc[a] \in {"idle", "inproc", "gone"}
    /\ \A c \in Daemon : daemon[c] \notin {"booting", "owner"}
    /\ Shutdown(d)

Exit(d) ==
    /\ daemon[d] = "exiting"
    /\ daemon' = [daemon EXCEPT ![d] = "dead"]
    /\ UNCHANGED <<apps, stamp, lock, endpoint, recycled, orders, client, updater, accidents, history>>

\* It dies as it stands, and perhaps its pid is somebody's again.
Crash(d) ==
    /\ Accident
    /\ daemon[d] \in {"booting", "owner", "serving"}
    /\ daemon' = [daemon EXCEPT ![d] = "dead"]
    /\ recycled' \in {recycled, recycled \cup {d}}
    /\ orders' = {o \in orders : o[2] # d}
    /\ Disconnects(d) /\ hidden' = hidden \ {d}
    /\ UNCHANGED <<apps, stamp, lock, endpoint, child, updater, known>>

----------------------------------------------------------------------------
\* The end of a failed discovery: the endpoint file goes, whatever it names by now,
\* and a daemon is spawned unless the updater has asked for quiet meanwhile.
Unlink ==
    /\ endpoint' = None
    /\ hidden' = IF Serving(endpoint) THEN hidden \cup {endpoint} ELSE hidden

\* A dead daemon that no file and no application names is out of the model, and
\* its number is free for the next one.
Free(d) ==
    /\ daemon[d] = "unborn" \/ daemon[d] = "dead"
    /\ d \notin {lock, endpoint'} \cup recycled
    /\ \A b \in App : d \notin {ep[b], child[b], updEp[b]}

\* The bound met, the helper cannot be spawned any more, and nobody comes.
Spawn(a) ==
    IF \A d \in Daemon : ~Free(d)
    THEN child' = [child EXCEPT ![a] = None] /\ UNCHANGED <<daemon, stamp>>
    ELSE \E d \in Daemon :
            /\ Free(d) /\ \A c \in Daemon : Free(c) => d <= c
            /\ daemon' = [daemon EXCEPT ![d] = "booting"]
            /\ stamp' = [stamp EXCEPT ![d] = build[a]]
            /\ child' = [child EXCEPT ![a] = d]

\* Mutant: quiescence is not asked for again after the waits.
MutRespawn(a, from) ==
    /\ Unlink
    /\ Goto(a, from, "wait") /\ Spawn(a)
    /\ ep' = [ep EXCEPT ![a] = None] /\ known' = [known EXCEPT ![a] = {}]
    /\ UNCHANGED <<apps, lock, recycled, orders, updater, accidents>>

\* (Its updater is there only after the launch: one that is quiet reconnects.)
Respawn(a, from) ==
    /\ Unlink
    /\ IF a \in quiescing
       THEN Ends(a, from, "idle", None) /\ UNCHANGED <<daemon, stamp>>
       ELSE /\ Goto(a, from, "wait") /\ Spawn(a)
            /\ ep' = [ep EXCEPT ![a] = None] /\ known' = [known EXCEPT ![a] = {}]
    /\ UNCHANGED <<apps, lock, recycled, orders, updater, accidents>>

\* ensureDaemon(): the endpoint file, read once.
Discover(a) ==
    /\ a \notin quiescing
    /\ IF PidAlive(endpoint)
       THEN /\ Goto(a, "idle", "probe")
            /\ ep' = [ep EXCEPT ![a] = endpoint]
            /\ known' = [known EXCEPT ![a] = Clients(endpoint)]
            /\ UNCHANGED <<apps, system, child, updater, accidents, hidden>>
       ELSE Respawn(a, "idle")

\* Mutant: a slow answer is taken for none.
MutProbedSlow(a) ==
    \/ /\ Serving(ep[a])
       /\ Goto(a, "probe", IF stamp[ep[a]] = build[a] THEN "found" ELSE "count")
       /\ UNCHANGED <<apps, system, ep, child, updater, accidents, history>>
    \/ Respawn(a, "probe")

\* Somebody answers on its socket, or nobody does.  A daemon of this build is the one.
Probed(a) ==
    IF Serving(ep[a])
    THEN /\ Goto(a, "probe", IF stamp[ep[a]] = build[a] THEN "found" ELSE "count")
         /\ UNCHANGED <<apps, system, ep, child, updater, accidents, history>>
    ELSE Respawn(a, "probe")

\* Another application's probe or retire counts as a client, while it lasts.
Passing(a) ==
    \E b \in App \ {a} :
        \/ ep[b] = ep[a] /\ pc[b] \in {"probe", "count", "retire", "lateCount", "lateRetire"}
        \/ updEp[b] = ep[a] /\ upd[b] = "retire"

Attended(d, a) == Serving(d) /\ (Clients(d) # {} \/ Passing(a))

\* The stamp-war guard: a daemon that others use is left to them.
Spared(a, from, to, e) ==
    /\ Attended(ep[a], a) /\ Ends(a, from, to, e)
    /\ UNCHANGED <<apps, system, updater, accidents, hidden>>

\* Mutant: the guard counts nobody.
MutDoomed(a, from, to) ==
    /\ Goto(a, from, to) /\ UNCHANGED <<accidents, known>>
    /\ UNCHANGED <<apps, system, ep, child, updater, hidden>>

\* One that nobody uses is to go, and one that gives no answer: old code, or wedged.
Doomed(a, from, to) ==
    /\ Goto(a, from, to)
    /\ \/ (Serving(ep[a]) => Clients(ep[a]) = {}) /\ UNCHANGED <<accidents, known>>
       \/ Serving(ep[a]) /\ TooEarly /\ known' = [known EXCEPT ![a] = {}]
    /\ UNCHANGED <<apps, system, ep, child, updater, hidden>>

\* retireDaemonEndpoint(): a handshake and a shutdown frame, if the daemon takes them.
Orders(d, a, why) ==
    \/ Serving(d) /\ orders' = orders \cup {<<a, d, why>>} /\ UNCHANGED accidents
    \/ ~Serving(d) /\ UNCHANGED <<orders, accidents>>
    \/ TooEarly /\ UNCHANGED orders

\* ... and its pid is watched, for a while.
Leaving(d)   == d # None /\ (daemon[d] = "exiting" \/ \E o \in orders : o[2] = d)
Unwatched(d) == PidAlive(d) /\ (IF Leaving(d) THEN TooEarly ELSE UNCHANGED accidents)

Retire(a, from, to, why) ==
    /\ Goto(a, from, to) /\ Orders(ep[a], a, why)
    /\ UNCHANGED <<apps, daemon, stamp, lock, endpoint, recycled, ep, child, updater, history>>

Polled(a) ==
    \/ ~PidAlive(ep[a]) /\ Respawn(a, "poll")
    \/ /\ Goto(a, "poll", "found") /\ Unwatched(ep[a])
       /\ UNCHANGED <<apps, system, ep, child, updater, history>>

\* waitForLiveEndpoint(), and whose daemon it is if quiet was asked for meanwhile.
Ready(a) ==
    /\ PidAlive(endpoint)
    /\ ep' = [ep EXCEPT ![a] = endpoint]
    /\ Goto(a, "wait", IF a \notin quiescing THEN "found"
                       ELSE IF endpoint = child[a] THEN "lateRetire" ELSE "lateCount")
    /\ known' = [known EXCEPT ![a] = Clients(endpoint)]
    /\ UNCHANGED <<apps, system, child, updater, accidents, hidden>>

NotReady(a) ==
    /\ Ends(a, "wait", Home(a), None)
    /\ IF PidAlive(endpoint) \/ \E d \in Daemon : daemon[d] \in {"booting", "owner"}
       THEN TooEarly ELSE UNCHANGED accidents
    /\ UNCHANGED <<apps, system, updater, hidden>>

LatePolled(a) ==
    /\ Ends(a, "latePoll", "idle", None)
    /\ IF PidAlive(ep[a]) THEN Unwatched(ep[a]) ELSE UNCHANGED accidents
    /\ UNCHANGED <<apps, system, updater, hidden>>

\* The client connects to what discovery has returned.
Connect(a) ==
    /\ IF Serving(ep[a])
       THEN Ends(a, "found", "attached", ep[a]) /\ launched' = launched \cup {a}
       ELSE Ends(a, "found", Home(a), None) /\ UNCHANGED launched
    /\ UNCHANGED <<build, system, updater, accidents, hidden>>

----------------------------------------------------------------------------
\* The updater, before it runs the installer.  It is there once the launch is over.
Install(a) ==
    /\ a \in Updating /\ upd[a] = "idle" /\ pc[a] # "gone"
    /\ a \in launched \/ pc[a] = "inproc"
    /\ quiescing' = quiescing \cup {a}
    /\ updEp' = [updEp EXCEPT ![a] = IF PidAlive(endpoint) THEN endpoint ELSE None]
    /\ upd' = [upd EXCEPT ![a] = IF PidAlive(endpoint) THEN "retire" ELSE "free"]
    /\ UNCHANGED <<apps, system, client, accidents, history>>

InstallRetire(a) ==
    /\ upd[a] = "retire" /\ upd' = [upd EXCEPT ![a] = "poll"]
    /\ Orders(updEp[a], a, "install")
    /\ UNCHANGED <<apps, daemon, stamp, lock, endpoint, recycled, client, updEp, quiescing, history>>

InstallPolled(a) ==
    /\ upd[a] = "poll"
    /\ \/ ~PidAlive(updEp[a]) /\ upd' = [upd EXCEPT ![a] = "free"] /\ UNCHANGED accidents
       \/ Unwatched(updEp[a]) /\ upd' = [upd EXCEPT ![a] = "locked"]
    /\ updEp' = [updEp EXCEPT ![a] = None]
    /\ UNCHANGED <<apps, system, client, quiescing, history>>

\* The installer takes over, whether or not the daemon has gone ...
HandOff(a) ==
    /\ upd[a] \in {"free", "locked"} /\ upd' = [upd EXCEPT ![a] = "idle"]
    /\ quiescing' = quiescing \ {a}
    /\ Ends(a, pc[a], "gone", None)
    /\ UNCHANGED <<apps, system, updEp, accidents, hidden>>

\* ... or there is none to hand off to, and the application lives on.
NoHandOff(a) ==
    /\ upd[a] \in {"free", "locked"}
    /\ upd' = [upd EXCEPT ![a] = "idle"] /\ quiescing' = quiescing \ {a}
    /\ UNCHANGED <<apps, system, client, updEp, accidents, history>>

\* An application quits, and the daemon stays.
Quit(a) ==
    /\ upd[a] = "idle" /\ pc[a] # "gone"
    /\ Ends(a, pc[a], "gone", None)
    /\ UNCHANGED <<apps, system, updater, accidents, hidden>>

----------------------------------------------------------------------------
Discovers(a) ==
    \/ Discover(a) \/ Probed(a)
    \/ Spared(a, "count", "found", ep[a]) \/ Doomed(a, "count", "retire") \/ Retire(a, "retire", "poll", "stamp") \/ Polled(a)
    \/ Ready(a) \/ NotReady(a) \/ Connect(a)
    \/ Spared(a, "lateCount", "idle", None) \/ Doomed(a, "lateCount", "lateRetire") \/ Retire(a, "lateRetire", "latePoll", "late")
    \/ LatePolled(a)

Updates(a) == InstallRetire(a) \/ InstallPolled(a) \/ HandOff(a) \/ NoHandOff(a)

Runs(d) == Boot(d) \/ Listen(d) \/ Obey(d) \/ Exit(d)

Next ==
    \/ \E a \in App : Discovers(a) \/ Install(a) \/ Updates(a) \/ Quit(a)
    \/ \E d \in Daemon : Runs(d) \/ IdleShutdown(d) \/ Crash(d)

Spec == Init /\ [][Next]_vars

\* Every process runs, and every await ends.
FairSpec ==
    /\ Spec
    /\ \A a \in App : WF_vars(Discovers(a)) /\ WF_vars(Updates(a))
    /\ \A d \in Daemon : WF_vars(Runs(d))

----------------------------------------------------------------------------
\* A daemon that serves is the one endpoint.json names, so that discovery comes to
\* it, unless somebody has unlinked the file meanwhile (`hidden`).
ServingIsFound == \A d \in Daemon : Serving(d) => endpoint = d \/ d \in hidden

\* "Unlinked when it failed endpointLive OR proved unreachable above - a daemon that
\* actually ANSWERED is never touched": an application hides a daemon only if it had
\* found another one dead; the file has changed hands since it was read.
AnsweringIsUntouched ==
    [][\A d \in hidden' \ hidden : \E a \in App : pc[a] # pc'[a] /\ ep[a] # d]_vars

\* The stamp-war guard: a daemon of another build is not retired for its build under
\* a client that was attached when the retiring application began to look, if the
\* daemon could answer.
KnownClientsAreSpared ==
    [][\A d \in Daemon : Serving(d) /\ daemon'[d] = "exiting" /\ Clients(d) # {} =>
         \E o \in orders : o[2] = d /\ (o[3] = "stamp" => Clients(d) \cap known[o[1]] = {})]_vars

\* While the updater wants quiet its application spawns nothing, and a daemon that was
\* already on its way does not serve any more when that discovery ends - if its
\* endpoint was found, and no wait was cut short.
QuietIsKept ==
    [][\A a \in quiescing :
         /\ child'[a] \in {child[a], None}
         /\ /\ pc[a] \in Late \cup {"wait"} /\ pc'[a] = "idle" /\ child[a] # None
            /\ pc[a] = "wait" \/ ep[a] = child[a]
            /\ accidents' = 0 /\ hidden = {}
            => daemon'[child[a]] # "serving"]_vars

\* Every application comes to a daemon and keeps it, or runs its terminals itself if it
\* has never had one, however the others have spawned, retired and updated - if they leave
\* off retiring daemons, none stays hidden, and no stranger has the pid in the lock file.
Settled == quiescing = {} /\ orders = {} /\ hidden = {} /\ lock \notin recycled
Served  == \A a \in App : pc[a] \in {"attached", "gone"} \/ (pc[a] = "inproc" /\ a \notin launched)

EveryAppIsServed == <>[]Settled => <>[]Served
============================================================================
