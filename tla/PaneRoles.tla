----------------------------- MODULE PaneRoles -----------------------------
(***************************************************************************)
(* Who has a swarm role: the user's manifest in the renderer, the app's    *)
(* own record (appRoles in src/main/daemon-relay.ts), which decides whose  *)
(* sign-off opens a merge, and the daemon's (src/pty-daemon/mailbox.ts),   *)
(* which labels mail and claims and refuses a sign-off early.  A role is   *)
(* published before its pane has a session, so it is tried until the       *)
(* daemon agrees; pane ids are reused meanwhile.                           *)
(*                                                                         *)
(* One workspace and one role: the manifest gives a slot one role, and     *)
(* what matters is whether a pane has it.  `mogging role`, by which a pane *)
(* writes the daemon's record alone, and what the daemon's record is used  *)
(* for are in module ReviewGate.  The socket is two FIFO queues; a cut     *)
(* connection is one whose daemon died and was replaced.  A replay may be  *)
(* refused, or answered after its five seconds; the failures of a pane's   *)
(* first spawn, which bury the pane, are in module PaneRelay.              *)
(***************************************************************************)
EXTENDS Naturals, Sequences, FiniteSets, SequencesExt

CONSTANTS
    Slot,        \* the slots of panes
    MaxRoles,    \* the plan's limit, maxSwarmRoles
    MaxCall,     \* bound on the attempts to bind a role
    MaxOpen,     \* bound on the panes opened
    MaxTry,      \* bound on the tries of one attempt
    MaxBoot,     \* bound on the daemons that die
    MaxQueue,    \* bound on the messages under way for the user to act or a shell to exit
    NoSlot       \* no slot

ASSUME RoleSizes ==
    /\ IsFiniteSet(Slot) /\ MaxRoles \in Nat /\ MaxCall \in Nat /\ MaxOpen \in Nat
    /\ MaxTry \in Nat /\ MaxBoot \in Nat /\ MaxQueue \in Nat /\ NoSlot \notin Slot

VARIABLES
    \* the renderer
    open,      \* slots with a pane
    named,     \* history: panes in these slots have the role in the manifest
    dead,      \* panes that show "[process exited]"
    opened,    \* panes opened so far
    \* the relay
    specs,     \* panes to replay on a reconnect
    appRoles,
    phase,     \* what each bindRole is doing
    kind,      \* whether it was called by setRole or by a reconnect
    target,    \* and for which slot
    tries,     \* and how often it has tried
    waiters,   \* roleWaiters of the current client
    \* the socket
    toD, toA,  \* the call of a set-role and of its answer is history: neither has a request id
    \* the daemon
    boots,     \* daemons that died
    sessions,  \* slots with a session
    roles,     \* slots with the role in the mailbox
    \* history
    orphaned,  \* slots that lost a pane while its role was being bound
    unsure,    \* slots whose shell exited and was started again, or whose call gave up or took
               \* another's late answer for its own
    unbound    \* slots with a role whose replay, since the last reconnect, was refused or
               \* answered too late for the role to follow it

renderer  == <<open, named, dead, opened>>
binding   == <<phase, kind, target, tries, waiters>>
relay     == <<specs, appRoles, binding>>
daemon    == <<boots, sessions, roles>>
history   == <<orphaned, unsure, unbound>>
rolesVars == <<renderer, relay, toD, toA, daemon, history>>

Call == 1 .. MaxCall

RolesInit ==
    /\ open = {} /\ named = {} /\ dead = {} /\ opened = 0
    /\ specs = {} /\ appRoles = {}
    /\ phase = [c \in Call |-> "idle"] /\ kind = [c \in Call |-> "setRole"]
    /\ target = [c \in Call |-> NoSlot] /\ tries = [c \in Call |-> 0]
    /\ waiters = [p \in Slot |-> <<>>]
    /\ toD = <<>> /\ toA = <<>>
    /\ boots = 0 /\ sessions = {} /\ roles = {}
    /\ orphaned = {} /\ unsure = {} /\ unbound = {}

Msg(t, p)  == [t |-> t, pane |-> p]
Bind(c, p) == [t |-> "set-role", pane |-> p, call |-> c]

\* Few enough messages are under way for the user to act, or a shell to exit.
Room == Len(toD) + Len(toA) < MaxQueue

Binding(p) == \E c \in Call : phase[c] \in {"sent", "pause"} /\ target[c] = p

----------------------------------------------------------------------------
(* bindRole(): tried until the daemon agrees or the deadline passes.        *)

\* client.setRole(): the call waits behind those of its pane, the command is sent.
Try(c, p) ==
    /\ waiters' = [waiters EXCEPT ![p] = Append(@, c)]
    /\ tries' = [tries EXCEPT ![c] = @ + 1]
    /\ phase' = [phase EXCEPT ![c] = "sent"]

Begin(c, p, k) ==
    /\ phase[c] = "idle"
    /\ \A d \in Call : d < c => phase[d] # "idle"
    /\ kind' = [kind EXCEPT ![c] = k] /\ target' = [target EXCEPT ![c] = p]
    /\ Try(c, p)

\* The call returns, and what it held is gone.
Done(c) ==
    /\ phase' = [phase EXCEPT ![c] = "done"]
    /\ kind' = [kind EXCEPT ![c] = "setRole"] /\ target' = [target EXCEPT ![c] = NoSlot]
    /\ tries' = [tries EXCEPT ![c] = 0]

Retry(c) ==
    /\ phase[c] = "pause" /\ tries[c] < MaxTry
    /\ Try(c, target[c])
    /\ toD' = Append(toD, Bind(c, target[c]))
    /\ UNCHANGED <<renderer, specs, appRoles, kind, target, toA, daemon, history>>

\* The 15s are over.
GiveUp(c) ==
    /\ phase[c] = "pause" /\ tries[c] = MaxTry
    /\ Done(c)
    /\ unsure' = unsure \cup {target[c]}
    /\ UNCHANGED <<renderer, specs, appRoles, waiters, toD, toA, daemon, orphaned, unbound>>

\* The daemon's answer is late: the waiter is withdrawn, the command is not.
Timeout(c) ==
    /\ phase[c] = "sent"
    /\ \E i \in DOMAIN waiters[target[c]] :
         /\ waiters[target[c]][i] = c
         /\ waiters' = [waiters EXCEPT ![target[c]] = RemoveAt(@, i)]
    /\ phase' = [phase EXCEPT ![c] = "pause"]
    /\ UNCHANGED <<renderer, specs, appRoles, kind, target, tries, toD, toA, daemon, history>>

----------------------------------------------------------------------------
(* The renderer, and the relay's handlers of its commands.                  *)

Open(p) ==
    /\ p \notin open /\ opened < MaxOpen
    /\ open' = open \cup {p} /\ opened' = opened + 1
    /\ UNCHANGED <<named, dead, relay, toD, toA, daemon, history>>

\* The pane's spawn, or the restart of one whose shell exited.
Spawn(p) ==
    /\ p \in open /\ Room
    /\ \/ p \notin specs \cup dead
       \/ p \in dead
    /\ unsure' = IF p \in dead THEN unsure \cup {p} ELSE unsure
    /\ dead' = dead \ {p} /\ specs' = specs \cup {p}
    /\ toD' = Append(toD, Msg("spawn", p))
    /\ UNCHANGED <<open, named, opened, appRoles, binding, toA, daemon, orphaned, unbound>>

OverLimit(p) == p \notin appRoles /\ Cardinality(appRoles) >= MaxRoles

\* publishRoles() and the setRole handler: refused over the plan's limit, or bound.
SetRole(c, p) ==
    /\ p \in open /\ Room
    /\ named' = named \cup {p}
    /\ IF OverLimit(p)
       THEN UNCHANGED <<binding, toD>>
       ELSE Begin(c, p, "setRole") /\ toD' = Append(toD, Bind(c, p))
    /\ UNCHANGED <<open, dead, opened, specs, appRoles, toA, daemon, history>>

\* The relay's gate (PaneRelay) drops the exits of sessions whose pane was closed.
ExitsStale(p) ==
    [i \in DOMAIN toA |-> IF toA[i] = Msg("exit", p) THEN Msg("stale exit", p) ELSE toA[i]]

\* Mutant: a role outlives its slot.
MutCloseSlot(p) ==
    /\ p \in open /\ Room
    /\ orphaned' = IF Binding(p) THEN orphaned \cup {p} ELSE orphaned
    /\ unsure' = unsure \ {p} /\ unbound' = unbound \ {p}
    /\ open' = open \ {p} /\ named' = named \ {p} /\ dead' = dead \ {p}
    /\ specs' = specs \ {p} /\ UNCHANGED appRoles
    /\ toD' = Append(toD, Msg("kill", p))
    /\ toA' = ExitsStale(p)
    /\ UNCHANGED <<opened, binding, daemon>>

\* The kill handler.  The manifest forgets the slot's role with its pane.
CloseSlot(p) ==
    /\ p \in open /\ Room
    /\ orphaned' = IF Binding(p) THEN orphaned \cup {p} ELSE orphaned
    /\ unsure' = unsure \ {p} /\ unbound' = unbound \ {p}
    /\ open' = open \ {p} /\ named' = named \ {p} /\ dead' = dead \ {p}
    /\ specs' = specs \ {p} /\ appRoles' = appRoles \ {p}
    /\ toD' = Append(toD, Msg("kill", p))
    /\ toA' = ExitsStale(p)
    /\ UNCHANGED <<opened, binding, daemon>>

----------------------------------------------------------------------------
(* The daemon.                                                              *)

\* Mutant: the role of a slot without a session is acknowledged.
MutDaemonReads ==
    /\ toD # <<>>
    /\ toD' = Tail(toD)
    /\ LET m == Head(toD)
           p == m.pane
       IN \/ /\ m.t \in {"spawn", "replay"}
             /\ sessions' = sessions \cup {p} /\ UNCHANGED roles
             /\ toA' = IF m.t = "replay" THEN Append(toA, Msg("spawned", p)) ELSE toA
          \/ /\ m.t = "replay" /\ p \notin sessions
             /\ toA' = Append(toA, Msg("error", p)) /\ UNCHANGED <<sessions, roles>>
          \/ /\ m.t = "kill"
             /\ sessions' = sessions \ {p} /\ roles' = roles \ {p} /\ UNCHANGED toA
          \/ /\ m.t = "set-role"
             /\ roles' = roles \cup ({p} \cap sessions)
             /\ toA' = Append(toA, [t |-> "role-set", pane |-> p, ok |-> TRUE, call |-> m.call])
             /\ UNCHANGED sessions
    /\ UNCHANGED <<renderer, relay, boots, history>>

\* The handlers of spawn, kill and set-role: a role is only for a session.  A replay
\* that finds none is refused if the constructor of a new one throws.
DaemonReads ==
    /\ toD # <<>>
    /\ toD' = Tail(toD)
    /\ LET m == Head(toD)
           p == m.pane
       IN \/ /\ m.t \in {"spawn", "replay"}
             /\ sessions' = sessions \cup {p} /\ UNCHANGED roles
             /\ toA' = IF m.t = "replay" THEN Append(toA, Msg("spawned", p)) ELSE toA
          \/ /\ m.t = "replay" /\ p \notin sessions
             /\ toA' = Append(toA, Msg("error", p)) /\ UNCHANGED <<sessions, roles>>
          \/ /\ m.t = "kill"
             /\ sessions' = sessions \ {p} /\ roles' = roles \ {p} /\ UNCHANGED toA
          \/ /\ m.t = "set-role"
             /\ roles' = roles \cup ({p} \cap sessions)
             /\ toA' = Append(toA, [t |-> "role-set", pane |-> p, ok |-> p \in sessions, call |-> m.call])
             /\ UNCHANGED sessions
    /\ UNCHANGED <<renderer, relay, boots, history>>

\* A session's shell exits: its role goes with it.  The exit of a pane whose kill is
\* under way is dropped by the gate as well.
ShellExits(p) ==
    /\ p \in sessions /\ Room
    /\ sessions' = sessions \ {p} /\ roles' = roles \ {p}
    /\ toA' = IF Msg("kill", p) \in Range(toD) THEN toA ELSE Append(toA, Msg("exit", p))
    /\ UNCHANGED <<renderer, relay, toD, boots, history>>

----------------------------------------------------------------------------
(* The relay reads.                                                         *)

\* The answer goes to the call that waits longest for this pane.
RoleSet(m) ==
    /\ m.t = "role-set"
    /\ UNCHANGED <<specs, toD>>
    /\ IF waiters[m.pane] = <<>>
       THEN UNCHANGED <<binding, appRoles, unsure>>
       ELSE LET c == Head(waiters[m.pane])
            IN /\ waiters' = [waiters EXCEPT ![m.pane] = Tail(@)]
               /\ IF m.ok THEN Done(c)
                  ELSE phase' = [phase EXCEPT ![c] = "pause"] /\ UNCHANGED <<kind, target, tries>>
               /\ unsure' = IF m.ok /\ c # m.call THEN unsure \cup {m.pane} ELSE unsure
               /\ appRoles' = IF m.ok /\ kind[c] = "setRole" THEN appRoles \cup {m.pane} ELSE appRoles
    /\ UNCHANGED unbound

\* A replayed spawn is acknowledged: the role the app has on record follows.
Spawned(m) ==
    /\ m.t = "spawned"
    /\ IF m.pane \in appRoles
       THEN \E c \in Call : Begin(c, m.pane, "replay") /\ toD' = Append(toD, Bind(c, m.pane))
       ELSE UNCHANGED <<binding, toD>>
    /\ UNCHANGED <<specs, appRoles, unsure, unbound>>

\* A replay was refused, or its answer finds the waiter timed out: the promise was
\* rejected, which is logged, and the role does not follow.
Lapsed(m) ==
    /\ m.t \in {"error", "spawned"}
    /\ unbound' = unbound \cup ({m.pane} \cap appRoles)
    /\ UNCHANGED <<specs, appRoles, binding, toD, unsure>>

\* An exit of a pane that is still open.  The role is kept.
Exited(m) ==
    /\ m.t = "exit"
    /\ specs' = specs \ {m.pane}
    /\ UNCHANGED <<appRoles, binding, toD, unsure, unbound>>

Dropped(m) == m.t = "stale exit" /\ UNCHANGED <<specs, appRoles, binding, toD, unsure, unbound>>

AppReads ==
    /\ toA # <<>>
    /\ toA' = Tail(toA)
    /\ LET m == Head(toA) IN
        /\ RoleSet(m) \/ Spawned(m) \/ Lapsed(m) \/ Exited(m) \/ Dropped(m)
        /\ dead' = IF m.t = "exit" THEN dead \cup ({m.pane} \cap open \cap specs) ELSE dead
    /\ UNCHANGED <<open, named, opened, daemon, orphaned>>

ReplayOf(p) == Msg("replay", p)

\* The daemon dies and the relay reconnects to a new one: its sessions are restored,
\* its roles are not, the specs are replayed, and calls that waited wait no more.
DaemonDies ==
    /\ boots < MaxBoot
    /\ boots' = boots + 1
    /\ roles' = {} /\ sessions' = sessions \cap specs
    /\ toD' \in SetToSeqs({ReplayOf(p) : p \in specs}) /\ toA' = <<>>
    /\ waiters' = [p \in Slot |-> <<>>]
    /\ phase' = [c \in Call |-> IF phase[c] = "sent" THEN "pause" ELSE phase[c]]
    /\ unbound' = {}
    /\ UNCHANGED <<renderer, specs, appRoles, kind, target, tries, orphaned, unsure>>

RolesNext ==
    \/ \E p \in Slot : Open(p) \/ Spawn(p) \/ CloseSlot(p) \/ ShellExits(p)
    \/ \E c \in Call : Retry(c) \/ GiveUp(c) \/ Timeout(c) \/ \E p \in Slot : SetRole(c, p)
    \/ DaemonReads \/ AppReads \/ DaemonDies

RolesSpec == RolesInit /\ [][RolesNext]_rolesVars

----------------------------------------------------------------------------
\* A role belongs to the pane it was given to: what the app records for a slot is
\* what the manifest says of the pane now in it, and the daemon's record, when it has
\* read what it was sent, says no more - unless a pane of that slot was closed while
\* its role was being bound.
RolesBelongToTheirPane ==
    /\ appRoles \subseteq named \cup orphaned
    /\ toD = <<>> => roles \subseteq named \cup orphaned

\* Once everything under way has settled, a pane with a session and a role has that
\* role in the daemon as well, unless an attempt to bind it there gave up or took
\* another's answer for its own, the shell was restarted, or the replay of the last
\* reconnect was refused or answered too late.
Settled == toD = <<>> /\ toA = <<>> /\ \A c \in Call : phase[c] \notin {"sent", "pause"}

DaemonAgrees ==
    Settled => (appRoles \cap sessions) \ (unsure \cup unbound \cup orphaned) \subseteq roles
============================================================================
