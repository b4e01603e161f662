---------------------------- MODULE RelayReplay ----------------------------
(***************************************************************************)
(* What a pane that is already painted shows after the relay has           *)
(* reconnected: makeClient() and reconnect() in src/main/daemon-relay.ts   *)
(* and the 'spawned' case of DaemonClient.dispatch in                      *)
(* src/main/daemon-client.ts.                                              *)
(*                                                                         *)
(* A reconnect replays the pane's spawn.  Over the same daemon the screen  *)
(* is taken to be current and the ring of the reply is suppressed; over    *)
(* another one the terminal is reset and repainted.  Which of the two, is  *)
(* decided by comparing the pid of the endpoint with the one before, and   *)
(* is kept in the promise that waits for the reply: a reply that finds no  *)
(* waiter is appended to the screen like that of a fresh mount.            *)
(*                                                                         *)
(* Three things can spoil that: output nobody was subscribed to hear       *)
(* (`unheard`), an attempt that fails after it has found a new daemon      *)
(* (`misled`), and a reply that comes when its waiter has timed out        *)
(* (`late`).  They are history, and the properties say what holds until    *)
(* one of them happens.                                                    *)
(*                                                                         *)
(* One pane, whose session lives on or is restored, so that no replay is   *)
(* refused; PaneRelay has the identity questions of many, and the refused  *)
(* replays.  A daemon's pid is its number.  Output is a count of chunks: a *)
(* ring or a screen holds the first n chunks of one daemon's session, and  *)
(* a restored session starts a ring of its own.                            *)
(***************************************************************************)
EXTENDS Naturals, Sequences

CONSTANTS
    MaxDaemons,   \* bound on the daemons started
    MaxOut,       \* bound on the chunks one session prints
    MaxLoss,      \* bound on the connections lost and the attempts failed
    Spliced       \* a screen that is no session's output

ASSUME ReplaySizes == MaxDaemons \in Nat \ {0} /\ MaxOut \in Nat /\ MaxLoss \in Nat

VARIABLES
    ring,       \* the pane's session: its daemon's pid, and the chunks it printed
    screen,     \* what the renderer shows
    phase,      \* "connected", "lost", "candidate" (an endpoint is found) or "replaying"
    daemonPid,  \* the relay's variable
    prevPid,    \* reconnect()'s, read before makeClient
    waiter,     \* the client's spawnWaiters: the pending replay's mode, or "none"
    wire,       \* what the daemon sent and the app has not read
    losses,
    \* history, until the next repaint from the start
    unheard,    \* a chunk was printed with no one subscribed, or lost with its connection
    misled,     \* an attempt failed that had found another daemon than the one before
    late        \* a replay's answer was read after its waiter had timed out

history    == <<unheard, misled, late>>
replayVars == <<ring, screen, phase, daemonPid, prevPid, waiter, wire, losses, history>>

Painted == [pid : 1 .. MaxDaemons, n : 0 .. MaxOut]
ASSUME SplicedAssumption == Spliced \notin Painted

\* The pane is mounted and bound, and shows what its session printed.
ReplayInit ==
    /\ ring = [pid |-> 1, n |-> 0] /\ screen = ring
    /\ phase = "connected" /\ daemonPid = 1 /\ prevPid = 1
    /\ waiter = "none" /\ wire = <<>> /\ losses = 0
    /\ unheard = FALSE /\ misled = FALSE /\ late = FALSE

Bound == phase \in {"connected", "replaying"}

----------------------------------------------------------------------------
\* The pty prints: into the ring, and to the subscriber if there is one.
PtyPrints ==
    /\ ring.n < MaxOut
    /\ ring' = [ring EXCEPT !.n = @ + 1]
    /\ wire' = IF Bound THEN Append(wire, [t |-> "data", at |-> ring']) ELSE wire
    /\ unheard' = (unheard \/ ~Bound)
    /\ UNCHANGED <<screen, phase, daemonPid, prevPid, waiter, losses, misled, late>>

\* An attempt that has found its endpoint comes to nothing.
AttemptFails == misled' = (misled \/ daemonPid # prevPid)

\* The connection is lost with all that is on it, and its client with its waiters.
Lose ==
    /\ Bound /\ losses < MaxLoss
    /\ IF phase = "replaying" THEN AttemptFails ELSE UNCHANGED misled
    /\ unheard' = (unheard \/ \E i \in DOMAIN wire : wire[i].t = "data")
    /\ phase' = "lost" /\ waiter' = "none" /\ wire' = <<>> /\ losses' = losses + 1
    /\ UNCHANGED <<ring, screen, daemonPid, prevPid, late>>

\* The daemon dies, and the one that ensureDaemon starts restores the pane.
Replace ==
    /\ phase \in {"lost", "candidate"} /\ ring.pid < MaxDaemons
    /\ IF phase = "candidate" THEN AttemptFails ELSE UNCHANGED misled
    /\ ring' = [pid |-> ring.pid + 1, n |-> 0]
    /\ phase' = "lost"
    /\ UNCHANGED <<screen, daemonPid, prevPid, waiter, wire, losses, unheard, late>>

\* Mutant: prevPid is the pid of the endpoint itself.
MutDiscover ==
    /\ phase = "lost"
    /\ daemonPid' = ring.pid /\ prevPid' = ring.pid
    /\ phase' = "candidate"
    /\ UNCHANGED <<ring, screen, waiter, wire, losses, history>>

\* One turn of reconnect()'s loop up to the endpoint: makeClient writes daemonPid
\* before it connects.
Discover ==
    /\ phase = "lost"
    /\ prevPid' = daemonPid
    /\ daemonPid' = ring.pid
    /\ phase' = "candidate"
    /\ UNCHANGED <<ring, screen, waiter, wire, losses, history>>

\* The candidate is closed, or times out, before its welcome; the loop retries.
CandidateFails ==
    /\ phase = "candidate" /\ losses < MaxLoss
    /\ phase' = "lost" /\ losses' = losses + 1
    /\ AttemptFails
    /\ UNCHANGED <<ring, screen, daemonPid, prevPid, waiter, wire, unheard, late>>

\* Mutant: another daemon's ring is appended.
MutReplayMode == IF daemonPid = prevPid THEN "suppress" ELSE "verbatim"

ReplayMode == IF daemonPid = prevPid THEN "suppress" ELSE "reset"

\* The candidate is welcomed and the pane's spawn replayed; the daemon's answer
\* carries the ring, and the subscription follows it.
Replay ==
    /\ phase = "candidate"
    /\ phase' = "replaying"
    /\ waiter' = ReplayMode
    /\ wire' = <<[t |-> "spawned", at |-> ring]>>
    /\ UNCHANGED <<ring, screen, daemonPid, prevPid, losses, history>>

\* Five seconds without an answer: the waiter goes, and its rejection is only logged.
\* The answer is still on its way.
ReplayTimesOut ==
    /\ phase = "replaying" /\ waiter # "none"
    /\ waiter' = "none"
    /\ UNCHANGED <<ring, screen, phase, daemonPid, prevPid, wire, losses, history>>

\* The reply's ring under the waiter's mode: not forwarded, painted from the start,
\* or - with no waiter, or one with no mode - appended to what the screen shows, which
\* is what a terminal that was just mounted asks for.
Repaint(at) ==
    CASE waiter = "suppress" -> screen
      [] waiter = "reset"    -> at
      [] OTHER               -> IF at.n = 0 THEN screen ELSE Spliced

HearSpawned ==
    /\ wire # <<>> /\ Head(wire).t = "spawned"
    /\ screen' = Repaint(Head(wire).at)
    /\ phase' = "connected"
    /\ waiter' = "none" /\ wire' = Tail(wire)
    /\ unheard' = (unheard /\ waiter # "reset")
    /\ misled' = (misled /\ waiter # "reset")
    /\ late' = (waiter = "none" \/ (late /\ waiter # "reset"))
    /\ UNCHANGED <<ring, daemonPid, prevPid, losses>>

\* A chunk continues what the screen shows, or does not.
HearData ==
    /\ wire # <<>> /\ Head(wire).t = "data"
    /\ LET c == Head(wire).at
       IN screen' = IF screen = [c EXCEPT !.n = @ - 1] THEN c ELSE Spliced
    /\ wire' = Tail(wire)
    /\ UNCHANGED <<ring, phase, daemonPid, prevPid, waiter, losses, history>>

ReplayNext ==
    \/ PtyPrints \/ Lose \/ Replace
    \/ Discover \/ CandidateFails \/ Replay
    \/ ReplayTimesOut \/ HearSpawned \/ HearData

ReplaySpec == ReplayInit /\ [][ReplayNext]_replayVars

\* The relay retries for ever, and the app reads what arrives.
FairReplaySpec ==
    /\ ReplaySpec
    /\ WF_replayVars(Discover) /\ WF_replayVars(Replay) /\ WF_replayVars(HearSpawned \/ HearData)

----------------------------------------------------------------------------
Faithful == ~unheard /\ ~misled /\ ~late

\* With nothing on the wire, a connected pane shows exactly what its session's
\* ring holds - no other daemon's output, nothing missing, nothing twice - however
\* often the connection was lost and the daemon replaced.
ScreenShowsRing == phase = "connected" /\ wire = <<>> /\ Faithful => screen = ring

\* After a loss the pane shows its session again, as soon as losses end.
ScreenRecovers ==
    phase = "lost" ~>
        \/ phase = "connected" /\ \E k \in 0 .. MaxOut : screen = [ring EXCEPT !.n = k]
        \/ ~Faithful

============================================================================
