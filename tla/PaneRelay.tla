----------------------------- MODULE PaneRelay -----------------------------
(***************************************************************************)
(* The renderer's pane commands, the relay of the main process             *)
(* (src/main/daemon-relay.ts), its client (src/main/daemon-client.ts) and  *)
(* the daemon's transport (src/pty-daemon/transport.ts), composed over one *)
(* socket that may be cut and one daemon that may die and be replaced.     *)
(*                                                                         *)
(* Pane ids are reused, and a daemon mints its generations from 1, so the  *)
(* questions are about identity: whose output a pane shows, whose spec a   *)
(* late answer withdraws, and which session outlives its pane.             *)
(*                                                                         *)
(* The socket is two FIFO queues.  The daemon reads what an old socket     *)
(* still holds before it welcomes the next one.  A spawn that is refused   *)
(* and one that is not answered in 5s take the same path; a replay that is *)
(* not answered in 5s changes nothing here, as its answer is handled when  *)
(* it comes.  What the screen shows after a replay is in module            *)
(* RelayReplay, roles in PaneRoles, claims in ClaimLedger; the dot, cwd    *)
(* and foreground events, which pass the same gate as output, and the      *)
(* relay's books about agents are left out.                                *)
(***************************************************************************)
EXTENDS Naturals, Sequences, FiniteSets, Functions

CONSTANTS
    Pane,        \* pane ids
    MaxOpen,     \* bound on the spawns the renderer issues
    MaxGen,      \* bound on the generations one daemon mints
    MaxBoot,     \* bound on the daemons started
    MaxCut,      \* bound on the connections cut
    MaxQueue,    \* bound on a queue of the socket before the pty prints or the user types
    Killed       \* the relay's tombstone for a closed pane

ASSUME SizeAssumption ==
    /\ IsFiniteSet(Pane)
    /\ MaxOpen \in Nat /\ MaxGen \in Nat /\ MaxBoot \in Nat /\ MaxCut \in Nat /\ MaxQueue \in Nat

VARIABLES
    \* the renderer
    view,      \* "none", "open" or "dead" (a banner: it exited or did not start)
    token,     \* the issue token of the pane's last spawn
    \* the relay and its client
    gens,      \* the generation whose events may reach the renderer, 0 for unknown
    specs,     \* the issue token of the spec to replay, 0 for none
    nextToken, \* nextSpecToken, its next value
    livePanes, \* livePaneIds
    waiters,   \* spawns that wait; "lost" ones were refused, or wait on a client that is gone
    greeted,   \* the client has its welcome: commands go to this socket
    \* the socket
    link,      \* "up"; "cut", which the daemon has not seen; "dead", which the app has not; "down"
    toD, toA,  \* what it carries to the daemon and to the app
    cuts,      \* connections cut so far
    \* the daemon
    boot,      \* daemons started
    nextGen,   \* the next generation to mint
    live,      \* the session each id names, 0 for none
    dying,     \* killed sessions whose pty has not exited
    subs,      \* the session this connection's subscriber of a pane is bound to
    rows,      \* the stored panes, each as the spawn its session was handed to; 0 for none
    \* history
    serves,    \* the last spawn each session was handed to, 0 once its pty is gone
    closedAt,  \* every spawn of the pane up to this one was closed or gave up
    early,     \* panes that were closed, or gave up, before their spawn was answered
    adopted,   \* panes for which the app took over the restored session of a closed one
    dropped    \* panes whose last replay was refused, which is only logged

renderer == <<view, token>>
relay    == <<gens, specs, nextToken, livePanes, waiters, greeted>>
socket   == <<link, toD, toA, cuts>>
daemon   == <<boot, nextGen, live, dying, subs, rows, serves>>
closings == <<closedAt, early>>
lapses   == <<adopted, dropped>>
vars     == <<renderer, relay, socket, daemon, closings, lapses>>

Gen     == 1 .. MaxGen
Token   == 1 .. MaxOpen
ASSUME KilledAssumption == Killed \notin 0 .. MaxGen

\* A command is a "spawn" or an "input" of a pane, with its token and generation, or a "kill";
\* an event is a "spawned", "data" or "exit" of a generation, an "error" (a refused spawn's),
\* or a "welcome" with the list of the sessions.

\* The app has its first connection, to a daemon without sessions; those that an
\* earlier run of the app left are reattached as those of a reload are.
Init ==
    /\ view = [p \in Pane |-> "none"] /\ token = [p \in Pane |-> 0]
    /\ gens = [p \in Pane |-> 0] /\ specs = [p \in Pane |-> 0]
    /\ nextToken = 1 /\ livePanes = {} /\ waiters = {} /\ greeted = TRUE
    /\ link = "up" /\ toD = <<>> /\ toA = <<>> /\ cuts = 0
    /\ boot = 1 /\ nextGen = 1 /\ live = [p \in Pane |-> 0] /\ dying = {}
    /\ subs = [p \in Pane |-> 0]
    /\ rows = [p \in Pane |-> 0] /\ serves = [g \in Gen |-> 0]
    /\ closedAt = [p \in Pane |-> 0] /\ early = {} /\ adopted = {} /\ dropped = {}

----------------------------------------------------------------------------
(* The renderer's commands, as the relay handles them.                      *)

\* A command written without a welcomed socket, or to a daemon that is gone, is lost.
SendAll(ms) == toD' = IF link = "up" /\ greeted THEN toD \o ms ELSE toD
Send(m)     == SendAll(<<m>>)

SpawnCmd(p, t)    == [t |-> "spawn", pane |-> p, token |-> t, gen |-> 0]
InputCmd(p, t, g) == [t |-> "input", pane |-> p, token |-> t, gen |-> g]
KillCmd(p)        == [t |-> "kill", pane |-> p]

\* A spawn or its answer is under way.
Unanswered(p) ==
    \/ \E i \in DOMAIN toD : toD[i].t = "spawn" /\ toD[i].pane = p
    \/ \E i \in DOMAIN toA : toA[i].t = "spawned" /\ toA[i].pane = p

\* The spawn handler: a pane mounts, restarts, or is mounted again by a reload.
Open(p) ==
    /\ nextToken \in Token
    /\ nextToken' = nextToken + 1
    /\ view' = [view EXCEPT ![p] = "open"]
    /\ token' = [token EXCEPT ![p] = nextToken]
    /\ specs' = [specs EXCEPT ![p] = nextToken]
    /\ waiters' = waiters \cup {[pane |-> p, token |-> nextToken, lost |-> ~greeted]}
    /\ Send(SpawnCmd(p, nextToken))
    /\ dropped' = dropped \ {p}
    /\ UNCHANGED <<gens, livePanes, greeted, link, toA, cuts, daemon, closings, adopted>>

\* What the kill handler and the spawn handler's catch share: withdraw the spec,
\* leave a tombstone, and close whatever session there may be.
Bury(p) ==
    /\ specs' = [specs EXCEPT ![p] = 0]
    /\ gens' = [gens EXCEPT ![p] = Killed]
    /\ livePanes' = livePanes \ {p}
    /\ closedAt' = [closedAt EXCEPT ![p] = token[p]]
    /\ early' = IF Unanswered(p) THEN early \cup {p} ELSE early
    /\ Send(KillCmd(p))

\* Mutant: no tombstone.
MutClose(p) ==
    /\ view[p] # "none"
    /\ view' = [view EXCEPT ![p] = "none"]
    /\ specs' = [specs EXCEPT ![p] = 0] /\ livePanes' = livePanes \ {p}
    /\ closedAt' = [closedAt EXCEPT ![p] = token[p]]
    /\ early' = IF Unanswered(p) THEN early \cup {p} ELSE early
    /\ Send(KillCmd(p))
    /\ UNCHANGED <<token, gens, nextToken, waiters, greeted, link, toA, cuts, daemon, lapses>>

\* The kill handler.
Close(p) ==
    /\ view[p] # "none"
    /\ view' = [view EXCEPT ![p] = "none"]
    /\ Bury(p)
    /\ UNCHANGED <<token, nextToken, waiters, greeted, link, toA, cuts, daemon, lapses>>

\* Mutant: the spec is withdrawn by id, whoever recorded it.
MutSpawnFails(w) ==
    /\ waiters' = waiters \ {w}
    /\ view' = IF token[w.pane] = w.token THEN [view EXCEPT ![w.pane] = "dead"] ELSE view
    /\ Bury(w.pane)
    /\ UNCHANGED <<token, nextToken, greeted, link, toA, cuts, daemon, lapses>>

\* The spawn handler's catch: a spawn timed out, or was refused (ReadError).  The
\* renderer buries the pane that asked; the relay withdraws a spec that is still its.
SpawnFails(w) ==
    /\ waiters' = waiters \ {w}
    /\ view' = IF view[w.pane] = "open" /\ token[w.pane] = w.token
               THEN [view EXCEPT ![w.pane] = "dead"] ELSE view
    /\ IF specs[w.pane] = w.token
       THEN Bury(w.pane)
       ELSE UNCHANGED <<specs, gens, livePanes, closings, toD>>
    /\ UNCHANGED <<token, nextToken, greeted, link, toA, cuts, daemon, lapses>>

\* stampGen: the relay's generation, never the renderer's; 0 is "not learned".
StampGen(p) == gens[p]

\* The write handler.  A pane that mounted may write until it is closed.
Input(p) ==
    /\ view[p] # "none" /\ StampGen(p) # Killed /\ Len(toD) < MaxQueue
    /\ Send(InputCmd(p, token[p], StampGen(p)))
    /\ UNCHANGED <<renderer, relay, link, toA, cuts, daemon, closings, lapses>>

----------------------------------------------------------------------------
(* The app reads its socket.                                                *)

Next1   == Head(toA)
CanRead == link \in {"up", "dead"} /\ toA # <<>>

\* onGen: a spawn's answer opens the gate, and settles every waiter of this
\* client for the pane.
ReadSpawned ==
    /\ CanRead /\ Next1.t = "spawned"
    /\ gens' = [gens EXCEPT ![Next1.pane] = Next1.gen]
    /\ livePanes' = livePanes \cup {Next1.pane}
    /\ waiters' = {w \in waiters : w.pane # Next1.pane \/ w.lost}
    /\ toA' = Tail(toA)
    /\ UNCHANGED <<renderer, specs, nextToken, greeted, link, toD, cuts, daemon, closings, lapses>>

\* The daemon refused a spawn: every waiter of this client for the pane is rejected, and
\* its handler's catch is to run.  A replay's rejection is logged, and that is all.
ReadError ==
    /\ CanRead /\ Next1.t = "error"
    /\ waiters' = {IF w.pane = Next1.pane THEN [w EXCEPT !.lost = TRUE] ELSE w : w \in waiters}
    /\ dropped' = IF \E w \in waiters : w.pane = Next1.pane /\ w.token = specs[Next1.pane]
                  THEN dropped ELSE dropped \cup {Next1.pane}
    /\ toA' = Tail(toA)
    /\ UNCHANGED <<renderer, gens, specs, nextToken, livePanes, greeted, link, toD, cuts, daemon,
                   closings, adopted>>

\* The gate: an event of a generation other than the pane's is dropped.
Current(m) == gens[m.pane] = m.gen

\* Output goes to the pane's terminal and leaves the relay as it was.
ReadData ==
    /\ CanRead /\ Next1.t = "data"
    /\ toA' = Tail(toA)
    /\ UNCHANGED <<renderer, relay, link, toD, cuts, daemon, closings, lapses>>

\* Mutant: the exit handler is not gated.
MutReadExit ==
    /\ CanRead /\ Next1.t = "exit"
    /\ specs' = [specs EXCEPT ![Next1.pane] = 0]
    /\ livePanes' = livePanes \ {Next1.pane}
    /\ view' = view
    /\ toA' = Tail(toA)
    /\ UNCHANGED <<token, gens, nextToken, waiters, greeted, link, toD, cuts, daemon, closings, lapses>>

\* onExit: the pane shows the exit, and a reconnect does not resurrect it.
ReadExit ==
    /\ CanRead /\ Next1.t = "exit"
    /\ IF Current(Next1)
       THEN /\ specs' = [specs EXCEPT ![Next1.pane] = 0]
            /\ livePanes' = livePanes \ {Next1.pane}
            /\ view' = [view EXCEPT ![Next1.pane] = IF @ = "open" THEN "dead" ELSE @]
       ELSE UNCHANGED <<specs, livePanes, view>>
    /\ toA' = Tail(toA)
    /\ UNCHANGED <<token, gens, nextToken, waiters, greeted, link, toD, cuts, daemon, closings, lapses>>

\* Mutant: only panes the relay knows no generation of are replayed.
MutReplayed == {p \in Pane : specs[p] # 0 /\ gens[p] = 0}

Replayed == {p \in Pane : specs[p] # 0}

\* The session the id names was last handed to a pane that was closed.
OfClosed(p) == live[p] # 0 /\ serves[live[p]] <= closedAt[p]

\* Mutant: the welcome's generations replace the tombstones.
MutReadWelcome ==
    /\ CanRead /\ Next1.t = "welcome"
    /\ greeted' = TRUE
    /\ LET listed == {p \in Pane : Next1.list[p] # 0}
       IN /\ gens' = [p \in Pane |-> IF p \in listed THEN Next1.list[p] ELSE gens[p]]
          /\ livePanes' = listed
          /\ \E rs \in Bijection(1 .. Cardinality(Replayed), Replayed) :
               toD' = IF link = "up"
                      THEN toD \o [i \in DOMAIN rs |-> SpawnCmd(rs[i], specs[rs[i]])] ELSE toD
          /\ adopted' = adopted \cup {p \in listed : gens[p] # Killed /\ OfClosed(p)}
    /\ toA' = Tail(toA)
    /\ dropped' = dropped \ Replayed
    /\ UNCHANGED <<renderer, specs, nextToken, waiters, link, cuts, daemon, closings>>

\* onWelcome, then, in the same turn, what reconnect() and the boot do with the new
\* client: kill again what the app closed meanwhile, take over the generations of
\* the rest, and replay every spec.
ReadWelcome ==
    /\ CanRead /\ Next1.t = "welcome"
    /\ greeted' = TRUE
    /\ LET listed == {p \in Pane : Next1.list[p] # 0}
           kills  == {p \in listed : gens[p] = Killed}
       IN /\ gens' = [p \in Pane |-> IF p \in listed \ kills THEN Next1.list[p] ELSE gens[p]]
          /\ livePanes' = listed \ kills
          /\ IF link = "up"
             THEN \E ks \in Bijection(1 .. Cardinality(kills), kills),
                     rs \in Bijection(1 .. Cardinality(Replayed), Replayed) :
                    toD' = toD \o [i \in DOMAIN ks |-> KillCmd(ks[i])]
                               \o [i \in DOMAIN rs |-> SpawnCmd(rs[i], specs[rs[i]])]
             ELSE toD' = toD
          /\ adopted' = adopted \cup {p \in listed \ kills : OfClosed(p)}
    /\ toA' = Tail(toA)
    /\ dropped' = dropped \ Replayed
    /\ UNCHANGED <<renderer, specs, nextToken, waiters, link, cuts, daemon, closings>>

----------------------------------------------------------------------------
(* The socket.  A client that lost its socket never settles its waiters.    *)

Abandoned == {[w EXCEPT !.lost = TRUE] : w \in waiters}
NoSubs    == subs' = [p \in Pane |-> 0]

\* The app closes it: the heartbeat was lost, or no welcome came.
Cut ==
    /\ link = "up" /\ cuts < MaxCut
    /\ cuts' = cuts + 1
    /\ link' = "cut" /\ greeted' = FALSE /\ toA' = <<>>
    /\ waiters' = Abandoned
    /\ UNCHANGED <<renderer, gens, specs, nextToken, livePanes, toD, daemon, closings, lapses>>

\* The daemon sees the close: every subscriber is unbound.
SeeCut ==
    /\ link = "cut"
    /\ link' = "down" /\ toD' = <<>>
    /\ NoSubs
    /\ UNCHANGED <<renderer, relay, toA, cuts, boot, nextGen, live, dying, rows, serves, closings, lapses>>

\* The app sees the close of a daemon that died.
SeeDeath ==
    /\ link = "dead"
    /\ link' = "down" /\ greeted' = FALSE /\ toA' = <<>>
    /\ waiters' = Abandoned
    /\ UNCHANGED <<renderer, gens, specs, nextToken, livePanes, toD, cuts, daemon, closings, lapses>>

\* reconnect(): a socket to the daemon there is, which answers the hello.
Connect ==
    /\ link = "down"
    /\ link' = "up" /\ toA' = <<[t |-> "welcome", list |-> live]>>
    /\ UNCHANGED <<renderer, relay, toD, cuts, daemon, closings, lapses>>

----------------------------------------------------------------------------
(* The daemon.                                                              *)

\* The token of an event is history: the last spawn its session was handed to.
Emit(t, p, g, spawn) ==
    toA' = IF link = "up"
           THEN Append(toA, [t |-> t, pane |-> p, gen |-> g, token |-> spawn])
           ELSE toA

\* Mutant: a pane id that has a subscription keeps it.
MutSubscribe(p, g) == subs' = IF subs[p] # 0 THEN subs ELSE [subs EXCEPT ![p] = g]

\* subscribe(): bound to the session, not to the id.
Subscribe(p, g) == subs' = [subs EXCEPT ![p] = g]

\* spawn is an ensure: the session there is, or a new one.  The reply goes before
\* the subscription.
DoSpawn(p, t) ==
    LET g == IF live[p] # 0 THEN live[p] ELSE nextGen
    IN /\ g \in Gen
       /\ live' = [live EXCEPT ![p] = g]
       /\ nextGen' = IF live[p] # 0 THEN nextGen ELSE nextGen + 1
       /\ serves' = [serves EXCEPT ![g] = t]
       /\ Emit("spawned", p, g, t)
       /\ Subscribe(p, g)
       /\ UNCHANGED <<dying, rows>>

\* The session's constructor throws: its generation is used up, and the reply is an error.
Refuse(p, t) ==
    /\ live[p] = 0 /\ nextGen \in Gen
    /\ nextGen' = nextGen + 1
    /\ Emit("error", p, nextGen, t)
    /\ UNCHANGED <<live, dying, subs, rows, serves>>

DoKill(p) ==
    /\ dying' = IF live[p] # 0 THEN dying \cup {<<p, live[p]>>} ELSE dying
    /\ live' = [live EXCEPT ![p] = 0]
    /\ UNCHANGED <<nextGen, subs, rows, serves, toA>>

\* The daemon's own gate on input: a stale generation's keystrokes are refused.
Accepts(c) == live[c.pane] # 0 /\ (c.gen = 0 \/ c.gen = live[c.pane])

\* handle(): input changes no session here, whether it is accepted or refused.
ReadCommand ==
    /\ link \in {"up", "cut"} /\ toD # <<>>
    /\ toD' = Tail(toD)
    /\ LET c == Head(toD)
       IN \/ c.t = "spawn" /\ (DoSpawn(c.pane, c.token) \/ Refuse(c.pane, c.token))
          \/ c.t = "kill" /\ DoKill(c.pane)
          \/ c.t = "input" /\ UNCHANGED <<nextGen, live, dying, subs, rows, serves, toA>>
    /\ UNCHANGED <<renderer, relay, link, cuts, boot, closings, lapses>>

\* A pty that runs, or was killed and has not exited.
Alive(p, g) == live[p] = g \/ <<p, g>> \in dying

PtyData(p, g) ==
    /\ Alive(p, g) /\ subs[p] = g /\ link = "up" /\ Len(toA) < MaxQueue
    /\ UNCHANGED <<renderer, relay, link, toD, cuts, daemon, closings, lapses>>
    /\ Emit("data", p, g, serves[g])

PtyExit(p, g) ==
    /\ Alive(p, g)
    /\ live' = [live EXCEPT ![p] = IF @ = g THEN 0 ELSE @]
    /\ dying' = dying \ {<<p, g>>}
    /\ serves' = [serves EXCEPT ![g] = 0]
    /\ UNCHANGED <<renderer, relay, link, toD, cuts, boot, nextGen, rows, closings, lapses>>
    /\ IF subs[p] = g
       THEN subs' = [subs EXCEPT ![p] = 0] /\ Emit("exit", p, g, serves[g])
       ELSE UNCHANGED <<subs, toA>>

\* The coalesced save, whenever it comes: what was created or removed since the last one
\* is not in the store, and a daemon that dies first leaves its rows as they were.
Save ==
    /\ rows' = [p \in Pane |-> IF live[p] # 0 THEN serves[live[p]] ELSE 0]
    /\ rows' # rows
    /\ UNCHANGED <<renderer, relay, socket, boot, nextGen, live, dying, subs, serves, closings, lapses>>

\* The daemon dies and another takes its place, and restores what its predecessor saved:
\* numbered from 1 in the order of the rows, but for those whose constructor throws.
Restart ==
    /\ boot < MaxBoot
    /\ boot' = boot + 1
    /\ link' = IF link = "up" THEN "dead" ELSE IF link = "cut" THEN "down" ELSE link
    /\ toD' = <<>>
    /\ NoSubs
    /\ dying' = {}
    /\ LET stored == {p \in Pane : rows[p] # 0}
       IN /\ Cardinality(stored) <= MaxGen
          /\ nextGen' = Cardinality(stored) + 1
          /\ \E num \in Bijection(stored, 1 .. Cardinality(stored)), restored \in SUBSET stored :
               /\ live' = [p \in Pane |-> IF p \in restored THEN num[p] ELSE 0]
               /\ serves' = [g \in Gen |-> IF \E p \in restored : num[p] = g
                                           THEN rows[CHOOSE p \in restored : num[p] = g] ELSE 0]
    /\ UNCHANGED <<renderer, relay, toA, cuts, rows, closings, lapses>>

Next ==
    \/ \E p \in Pane : Open(p) \/ Close(p) \/ Input(p)
    \/ \E w \in waiters : SpawnFails(w)
    \/ ReadSpawned \/ ReadError \/ ReadData \/ ReadExit \/ ReadWelcome
    \/ Cut \/ SeeCut \/ SeeDeath \/ Connect
    \/ ReadCommand \/ Save \/ Restart
    \/ \E p \in Pane, g \in Gen : PtyData(p, g) \/ PtyExit(p, g)

Spec == Init /\ [][Next]_vars

AppReads    == ReadSpawned \/ ReadError \/ ReadData \/ ReadExit \/ ReadWelcome \/ SeeDeath
DaemonReads == ReadCommand \/ SeeCut
LostFails   == \E w \in waiters : w.lost /\ SpawnFails(w)

\* Both ends keep reading and see a close, a spawn that was refused or not answered is
\* rejected, and the relay reconnects for ever.
FairSpec == /\ Spec
            /\ WF_vars(AppReads) /\ WF_vars(DaemonReads) /\ WF_vars(Connect) /\ WF_vars(LostFails)

----------------------------------------------------------------------------
\* The relay is about to let an event through to a mounted pane that is of a session
\* of a pane that was closed or buried under the same id.
StrangerAtGate ==
    /\ CanRead /\ Next1.t \in {"data", "exit"} /\ Current(Next1) /\ view[Next1.pane] = "open"
    /\ Next1.token <= closedAt[Next1.pane]

\* The generation gate is tight for every id whose panes were closed after their spawns
\* were answered, however late the events of a closed pane's session arrive.
GateIsTight == StrangerAtGate => Next1.pane \in early

\* An open pane keeps its reconnect spec: neither a superseded spawn's rejection
\* nor a dead generation's exit takes it away, and a closed pane leaves none.
SpecsFollowPanes ==
    \A p \in Pane : specs[p] = IF view[p] = "open" THEN token[p] ELSE 0

\* A reused id is never handed the session of the pane that was closed before it, whether
\* its kill was lost or the next daemon restored it (but for the early ones).  A daemon that
\* died before it saved leaves a row of a pane that was closed; if the pane that has its id
\* was answered by then, the welcome takes the restored session for that pane's own.
FreshPaneGetsFreshSession ==
    [][\A p \in Pane :
         live[p] # 0 /\ live'[p] = live[p] /\ serves'[live[p]] # serves[live[p]] /\ boot' = boot
         => \/ serves[live[p]] > closedAt[p] \/ serves'[live[p]] <= closedAt[p]
            \/ p \in early \cup adopted]_vars

\* A session the user closed stays closed: the daemon loses it in the end, even if
\* the kill died with its connection or the next daemon restored it (but for the early ones).
ClosedStaysClosed ==
    \A p \in Pane : (view[p] = "none" /\ live[p] # 0) ~> (view[p] # "none" \/ live[p] = 0 \/ p \in early)

\* An open pane comes to life or is told that it did not, across lost commands and replaced
\* daemons, but for a replay that the daemon refused.
OpenPanesComeAlive ==
    \A p \in Pane : view[p] = "open"
        ~> (view[p] # "open" \/ p \in dropped \/ (live[p] # 0 /\ gens[p] = live[p] /\ subs[p] = live[p]))
============================================================================
