# A TLA+ project for MoggingLabs Workspace

MoggingLabs Workspace is a desktop application that runs many coding agents at once, each in
a terminal *pane*. An Electron main process serves the windows; a detached *pty daemon* owns
the shells and outlives the application; agents talk to both through hooks and a command
line. This directory models the part of the program in which those processes have to agree
about who is who: who owns the daemon's lock and which daemon an application finds, how its
panes get to the daemon of a new release, which session a pane id names, whose output a pane
shows, what is on disk after a crash, what a pane's dot means, who may write which file, what
may be merged, and whose words are in an agent's config.

Sources are under `src/src/`; paths below are relative to it. `PROJECT.json` maps every
definition to the lines it stands for.

## 1. Inventory

### The parts that are modelled

**Daemon lock and lifecycle** (`pty-daemon/lifecycle.ts`, `pty-daemon/index.ts`). State: a
lock file holding a pid, `endpoint.json`, a named pipe or socket. Operations: acquire (an
exclusive create, a read of the owner, a judgement of its life, a rename of a stale file, a
second create), publish, shut down, release. Any number of boots may run, since every
application instance starts one when it finds none. Hard: the steps of `acquireLock` are
separate system calls; a boot may die between any two; pids are reused. Correct means: one
daemon, published while it serves, and never locked out by a corpse.

**Daemon discovery, retirement and the updater** (`main/daemon-client.ts`, `main/updater.ts`,
`pty-daemon/index.ts`). State: `endpoint.json`, which applications are attached to which
daemon, a quiescence flag in each application. Operations: `ensureDaemon` (read, probe, count
the others, retire, wait, unlink, spawn, wait again), `retireOwnDaemon`, the installer's
hand-off. Hard: every wait is seconds long and the file, the daemon and its clients change
meanwhile; applications of two builds disagree about which daemon is right; pids are reused.
Correct means: a serving daemon is found and used, nobody's terminals are taken away for a
difference of builds, and nothing runs while the installer replaces the executable.

**Daemon migration** (`main/daemon-migrate.ts`). State: the old daemon and its store, the rows
being carried over, the new store. Operations: capture over the old protocol, retire, merge
with the old store, seed, restore. Hard: two daemons may live at once, the old store lags and
in old versions does not know which machine a pane is on, and the new store's existence is
what says that the migration is done. Correct means: no agent twice, none on another machine,
nothing on the screen lost, and never a blocked launch.

**Session manager and store** (`pty-daemon/session.ts`,
`backend/features/workspace/session-store.ts`). State: the map from pane id to session,
`dirtyPanes`, `removedPanes`, `storeSynced`, a timer, the rows of `sessions.db`. Operations:
ensure, remove, the pty's output and exit, the coalesced save, shutdown, restore. Hard: ids
are reused while the killed pty is still dying; after a first full save only a difference is
written; the daemon may crash anywhere. Correct means: the map and the ptys agree, a delta is
worth a full save, closed panes stay closed and open ones come back.

**Daemon relay, client and transport** (`main/daemon-relay.ts`, `main/daemon-client.ts`,
`pty-daemon/transport.ts`). State: the generation the relay lets through for each pane, the
spawn specs to replay, the waiters of the client, the subscription of each connection.
Operations: the renderer's spawn, write and kill, the daemon's replies and events, the
heartbeat, the reconnect loop. Hard: two FIFO queues that die with their socket, answers that
arrive after their pane has gone, a daemon that is replaced and numbers its sessions from 1.
Correct means: a pane shows its own session's output, an open pane comes alive, a closed one
does not survive, and a repaint neither loses nor doubles output.

**Activity tracker** (`backend/features/agent-state/activity.ts`). The state of a pane's dot,
driven by hooks, chimes, notifications, subagents, the shell and the user, in any order.
Correct means: green is earned, red is not lost, and work in flight is not declared finished.

**Ownership ledger** (`pty-daemon/ledger.ts`, `contracts/daemon/claims.ts`). Glob patterns
claimed by agents; a conservative referee decides whether two may meet. Correct means: no
file has two owners in a workspace, and territory lives and dies with its session.

**Roles** (`main/daemon-relay.ts`, `main/daemon-client.ts`, `pty-daemon/mailbox.ts`). A role
of a slot is recorded in the app and in the daemon, and bound by retries because the pane may
not have a session yet. Correct means: the role stays with the pane it was given to, and the two
records end up agreeing. (The plan's limit is kept by `publishRoles`, which caps what it grants
before it invokes anything, `controller.ts:484-500`; section 4.)

**Reviewer gate** (`main/review.ts`, `backend/features/review/index.ts`, and the approvals of
`pty-daemon/transport.ts`). Correct means: nothing lands without a sign-off, by a pane the
*user* made a reviewer, of exactly the commit and base that land, or the typed override.

**Config mutation and the tool plan** (`backend/core/config-files/mutation-coordinator.ts`,
`main/tool-plan.ts`, `backend/features/agent-settings/service.ts`). State: the file, a queue
per file, a memo of what was materialized. Operations: a transaction (read, transform,
compare, read again, rename), a launch that writes its tool plan and undoes it when the file
cannot be hidden from git, a settings row that is reconciled. Hard: launches, settings and
the CLI itself write the same file. Correct means: nobody's part is taken by another's write,
who is told of a success has it on disk, and a refused launch leaves nothing behind.

### How they interact

```
 renderer --IPC--> relay/client ==socket==> transport --> session manager --> ptys, sessions.db
    ^                  |  ^                     |  ^              |
    |   (gate, replay) |  +--- roles, approvals-+  |              +--> ledger, role map (cleared
    +------------------+                           |                   with the session)
                       review gate          `mogging` in a pane (claim, role, approve)
 lock + endpoint.json: which daemon the client finds, retires or spawns; before that, a
 migration seeds sessions.db from the daemon of an older release
 a launch or a settings change --> config coordinator --> the CLI's project config <-- the CLI
```

A session's end (kill, replacement, exit) is the event everything else hangs on: it clears
claims and the daemon's role, marks the row as removed, and is announced to the relay, whose
generation gate decides whether the renderer hears of it. The modules share that event and
each keeps what it needs of it: `PaneSessions` the rows, `ClaimLedger` the claims, `PaneRoles`
the role, `PaneRelay` the generation.

### The parts that are not modelled

`PROJECT.json` lists every component with a reason. In short: the board, the mailbox's ring,
the working-directory register, token refresh and the brain's freshness are state machines
that section 7 plans; the monitors, the clipboard, the browser dock, telemetry and the command line keep little state
or none that interleaves; pane content is a matter of strings; codecs, catalogues, layout and
the extraction of knowledge are data transformations.

## 2. Modules

| module | models | extended by |
|---|---|---|
| `DaemonLock` | lock, endpoint, start and shutdown of any number of boots | `MCDaemonLock`, `DaemonMigrationProofs` |
| `DaemonDiscovery` | several applications that find, spawn and retire their daemon, one of them updating | `MCDaemonDiscovery`, `DaemonDiscoveryProofs` |
| `DaemonMigration` | the hand-off of panes from the daemon of an older release | `MCDaemonMigration`, `DaemonMigrationProofs` |
| `PaneArchive` | what the user is promised of panes over stops, crashes and restarts (abstract) | instantiated by `PaneSessions` |
| `PaneSessions` | `SessionManager`, its hooks, `SessionStore` | `MCPaneSessions`, `PaneSessionsProofs` |
| `PaneRelay` | renderer, relay, client, socket, transport, ptys, composed | `MCPaneRelay`, `PaneRelayProofs` |
| `RelayReplay` | what a painted pane shows across reconnects | `MCRelayReplay`, `PaneRelayProofs` |
| `ActivityTracker` | the dot | `MCActivityTracker`, `ActivityTrackerProofs` |
| `ClaimLedger` | the ledger, the referee, and the session ends that clear it | `MCClaimLedger`, `ClaimLedgerProofs` |
| `PaneRoles` | a role in manifest, app and daemon, over the socket | `MCPaneRoles`, `ReviewGateProofs` |
| `ReviewGate` | sign-offs, their lists on the wire and the steps of a merge | `MCReviewGate`, `ReviewGateProofs` |
| `ConfigRegister` | what the writers of one config file are promised (abstract) | instantiated by `ToolPlan` |
| `ConfigMutation` | the coordinator's transactions on one file | `ToolPlan` |
| `ToolPlan` | launches, settings rows and the CLI over that coordinator | `MCToolPlan`, `ToolPlanProofs` |

`PaneRelay` is the composition: it has the two ends, the two queues and the daemon's sessions
in one state. What it leaves out of the session manager (disk, content) is in `PaneSessions`;
what it leaves out of a reconnect (the ring and the screen) is in `RelayReplay`, for one pane
that stays open. `ToolPlan` composes the coordinator with its callers, and shows that together
they implement `ConfigRegister`: the refinement maps the file to a record of parts, and a
transaction between its last comparison and its rename to `racing`. `PaneSessions` implements
`PaneArchive`: what is open is what a full save would write, the disk is the store, and the
marks, the timer and the generations disappear. `DaemonDiscovery` takes
the lock in one step; `DaemonLock` has its system calls.

### How state and actions correspond to the code

- **DaemonLock.** One action per system call of `acquireLock`: `FirstClaim`/`SecondClaim` are
  `openSync(..., 'wx')`, `Write`/`Rewrite` the pid that follows it, `ReadOwner`, `JudgeOwner`
  (`ownerHoldsLock`), `RenameAside`. A file is named by the boot that created it, since its
  exclusive open succeeds once; so `lock` says *which* file is at the path, and `written`
  which files have their pid. `win32` chooses the platform's idea of a live owner: a live
  pid on POSIX; a live pid with a pipe, or a lock younger than 30 s, on Windows. `Listen`
  publishes the endpoint; `Shutdown`, `ClearEndpoint`, `ReleaseLock` are the steps of
  `shutdown()`; both unlinks take whatever file is there. `Crash`, `ReusePid` and `Age` (the
  grace runs out) belong to the environment. A file put aside by the rename is unlinked and
  plays no further part.
- **DaemonDiscovery.** An action of an application is one turn of its event loop, from await to
  await. `pc` is where `ensureDaemon` is: `Discover` reads the endpoint, `Probed` is
  `probeReachable`, `Spared` and `Doomed` the stamp-war guard, `Retire` and `Polled`
  `retireDaemonEndpoint`, `Respawn` the unlink and the spawn with the question for quiescence
  between them, `Ready` and `NotReady` `waitForLiveEndpoint`; the `late...` places are its end
  when quiet was asked for during the wait. `upd` is the updater (`Install`, `HandOff`). `ep` and
  `child` are the endpoint in hand and the daemon spawned. `Home` is where an error leads: a
  reconnect is tried again for ever, but the launch asks once, and an application that has never
  had a client (`launched`) then runs its terminals in its own process for good (`"inproc"`).
  `Boot`, `Listen`, `Obey`,
  `IdleShutdown`, `Exit` are the daemon's. An accident is a daemon that dies or a wait cut short.
  A dead daemon that nothing names any more lends its number to the next one, so that spawning
  never runs out.
- **DaemonMigration.** `stage` follows `migrateOlderDaemonSessions`: `Launch` up to its first await,
  then `Connect`, `List`, `Capture`, `Decide` (are all hosts known? then the shutdown frame),
  `Reread` (the process has gone; the last rows; the merge), `Create`, `Save`, `Restore`. A row is
  where it runs, its command and how much text; `keeps` says whether the old protocol's store
  records hosts. The old daemon goes on living beside it: `Prints`, `Closes`, `Persist`, `Obey`,
  `OldDies`. `OldLaunch` is the user who starts the old release again.
- **PaneSessions.** `panes`, `dirty`, `removed`, `synced`, `timer`, `store` are the fields of
  the same meaning. `Create`/`Replace` are the branches of `ensure()`, each with a
  constructor that may throw; `Remove`, `Exit`, `Change` the hooks; `Persist`, `PersistDue`,
  `Shutdown` the save, its timer and the flush; `Boot` is `restore()`. The timer is cleared before
  the save, which may throw: `PersistDue` then leaves the marks and no timer. A session's content is
  a counter: only whether a row is current matters. `PaneArchive` has none of that: panes happen,
  saves write what is open, a crash loses what was not saved, a start brings back what is on disk.
- **PaneRelay.** `gens`, `specs`, `nextToken`, `livePanes`, `waiters` are the relay's; each
  handler is one action (`Open`, `Close`, `Input`, `SpawnFails`, `ReadSpawned`, `ReadExit`,
  `ReadWelcome`, which includes the kills and replays that follow the welcome in the same
  turn). `subs`, `live`, `dying`, `rows` are the daemon's. `Refuse` is a session whose constructor throws;
  `ReadError` settles its waiters, and logs it if it was a replay's. `Save` is the coalesced save at
  whatever moment it comes; `Restart` restores what was saved, less the rows whose constructor throws
  (`SessionManager.restore`), and each session knows for which spawn its row was made. `Cut` and
  `Restart` lose what is on the socket. One assumption is made about the operating system: the
  daemon has read an old socket to its end, or seen it close, before it welcomes the application's next one.
- **RelayReplay.** `daemonPid` and `prevPid` are the two variables of the relay; `Discover`
  is a turn of the loop up to the endpoint, `Replay` the welcome and the replayed spawn. Its mode
  is in the client's `waiter`, and so gone after `ReplayTimesOut`; `HearSpawned` repaints by the
  waiter it finds, and appends the ring as it is when it finds none.
- **ActivityTracker.** One action per public method, with `bell` and `grace` for the two
  timers. The module's `state`, `latched`, `bellLatchedFrom`, `pendingSubagents`,
  `deferredDone` have the class's names.
- **ClaimLedger.** `NormalizeClaimPattern`, `IsLiteral`, `ClaimsOverlap` are the functions of
  `claims.ts` on sequences of segments; `Claim`, `Release`, `ReleaseAll` the handlers behind
  `boundToPane`; `Spawn`, `Replace`, `Remove`, `Exit` the session events that clear the pane.
- **PaneRoles.** `Try`, `Retry`, `GiveUp`, `Timeout` are `bindRole` and `client.setRole`;
  `RoleSet` gives an answer to the waiter that is first in line for the pane, because the
  protocol carries no request id. `Spawned` is a replay that was answered in time: the role follows
  it. `Lapsed` is one that was refused, or answered after its waiter had gone: nothing does.
- **ReviewGate.** `Consult`, `Read`, `Check`, `Land` are the awaits of a merge: read the
  sign-offs and filter them by the app's roles, diff the worktree and match, compare head and
  base again, run `git merge`. Everything else may happen in between. `pushed` is a list of
  sign-offs that the daemon has pushed and the application may not have read: `Consult` takes
  either list, as `approvalWaiters` gives the first that comes to the first that waits. Each
  sign-off remembers how it was `given`: by a named reviewer, by a pane that made itself one, or by
  such a pane whose slot the user named while the sign-off stood.
- **ConfigMutation, ToolPlan.** `phase` is a transaction's place in `mutate()`: `ReadCurrent`,
  `Decide`, `Reread`, `Rename`, `Renamed`, `Fail`; `queue` is `tails`. When one settles, its
  caller's continuation runs first (`Turn`). A file is absent or a record of three parts: the
  plan, a setting, the CLI's own. `Begin` asks the memo, `Snapshot` and `Call` are the `read()` and
  `mutate()` of either caller, `Materialized`, `HideFails`, `LostCas`, `NotWritten`, `Undo` the ends
  of a launch, `Reconciled` that of a row, `Outside` the CLI.

### History variables

Some behaviours of the code break what one would like to say without condition. The models
contain them all; a history variable records that one of them has happened, and the property
says what holds until then, or for whom. Section 4 has those where the source itself claims otherwise.

| variable | what has happened | what it costs then |
|---|---|---|
| `overlapped`, `slow`, `displaced` (DaemonLock) | a boot started while another was in `acquireLock`; the grace ran out on one that had not listened; a live boot's file was taken | two owners |
| `hidden` (DaemonDiscovery) | the endpoint of a serving daemon was unlinked for the dead one that the file had named before (`daemon-client.ts:380`) | whoever finds no endpoint spawns in vain until that daemon ends |
| `known` (DaemonDiscovery) | the clients counted when an application began to look | clients that attach after the count lose the daemon |
| `torn` (DaemonMigration) | the new store was made and not filled (`daemon-migrate.ts:449-460`) | the panes are lost |
| `unread` (DaemonMigration) | the old store's last rows could not be used | older text, or none |
| `hearsay` (DaemonMigration) | a plain shell was seeded with a command that only a row has for its pane (`daemon-migrate.ts:222`) | from a store without hosts, a remote agent's command is run here |
| `downgraded` (DaemonMigration) | the old release was started again after the hand-off | its store, left as a backup, brings the panes back |
| `late` (PaneSessions) | a killed pty printed before it exited (`session.ts:1322`) | the row of a closed pane stays and is restored |
| `failed` (PaneSessions) | the last save threw, after its timer was cleared (`session.ts:1499-1503`), and nothing was scheduled since | what it would have written waits for the next change of any pane, or for good |
| `early` (PaneRelay) | a pane was closed, or gave up, before its spawn was answered (`daemon-relay.ts:153`) | the answer replaces the tombstone; the next pane of that id may hear the old session |
| `adopted` (PaneRelay) | the daemon died before it saved a close, the id had a new pane that was answered by then, and the welcome of the next daemon listed the restored session (`daemon-relay.ts:196-207`) | the new pane takes over the closed pane's session |
| `dropped` (PaneRelay) | the replay of an open pane was refused (`daemon-relay.ts:349`) | the pane stays open without a session until the next reconnect |
| `unheard` (RelayReplay) | output came while nobody was subscribed, or died with its connection | that output is not on the screen until a reset |
| `misled` (RelayReplay) | an attempt failed after it had found a new daemon (`daemon-relay.ts:142`) | the next attempt suppresses where it should reset |
| `late` (RelayReplay) | the answer to a replay came after its five seconds (`daemon-client.ts:813-821`) | the ring is appended to a screen that may show it already, until a reset |
| `restored` (ActivityTracker) | a notification retracted a red that was a guess (`activity.ts:230`) | what happened under the guess is gone: a subagent that started, a done that was deferred |
| `orphaned` (PaneRoles) | a slot lost its pane while a role was being bound (`daemon-relay.ts:655`) | the acknowledgement gives the role to the slot's next pane |
| `unsure` (PaneRoles) | a call gave up or took another's answer for its own; a shell was restarted in its slot | the daemon does not have the role |
| `unbound` (PaneRoles) | the pane's replay was refused or answered too late (`daemon-relay.ts:346-352`) | the role does not follow it: the same, until the next reconnect |
| `given = "early"` (ReviewGate) | the user named a slot a reviewer while a sign-off stood that its pane had given on a role of its own making | that sign-off counts from then on |
| `raced` (ReviewGate) | the base moved between the comparison and `git merge` (`review/index.ts:205`) | the branch lands on a base nobody reviewed |
| `putBack` (ToolPlan) | an undo replaced more than its launch had written (`tool-plan.ts:183`) | the edits made since are gone |
| `leftover` (ToolPlan) | an undo was itself refused or failed | the plan of a refused launch stays |
| `robbed` (ToolPlan) | an undo took out a plan that another launch had found there | that launch runs without its plan |

`owed` (DaemonMigration) is what the panes showed when they were listed, or what the store kept of
that if the old daemon died, and is no condition.
In the ledger, a `.` segment *inside* a pattern is not normalised away (`claims.ts:13` takes off
a leading `./` only), so `src/./a` and `src/a` do not meet for the referee and both are granted.
`OneOwner` is about claims that have none (`Plain`); the run has panes that claim such a pattern too.

## 3. Runs that pass

| run | shows | bounds |
|---|---|---|
| `DaemonLock_boots` | singleton, publication, no lock-out, on both platforms | 3 boots |
| `DaemonDiscovery_apps` | serving is found, the answering and the attended are left alone, quiet is kept, everyone is served in the end | 2 applications of one build or two, 2 daemons at a time, 1 accident |
| `DaemonMigration_handoff` | no twins, the right machine, nothing lost, no launch hangs | 2 panes, 3 occupants, 2 operations, 1 accident |
| `PaneSessions_daemons` | the map and the ptys agree, the archive, stop and restore; closed rows go, unless a save throws | 2 panes, 2 hosts, 3 generations, 1 change |
| `PaneRelay_pane` | the gate, specs, fresh sessions; closed stays closed, open comes alive | 1 id, 2 spawns and their replays, 2 daemons, 2 cuts |
| `RelayReplay_reconnects` | the screen equals the ring, and recovers, unless a reply is late | 3 daemons, 4 chunks, 4 losses |
| `ActivityTracker_any_order` | four laws of the dot | 3 subagents |
| `ClaimLedger_territory` | territory is exclusive, live and kept | 3 panes in 2 workspaces, 6 patterns, paths of 1 or 2 segments, 3 sessions |
| `PaneRoles_slots` | roles follow panes, the records agree | 2 slots, 2 calls of 2 tries, 2 dead daemons |
| `ReviewGate_merges` | only signed work lands, on the reviewed base | 1 pane, 1 branch, 1 merge, 2 commits, 2 moves of the base |
| `ToolPlan_launches` | the coordinator is the register; successes are on disk, plans granted, calls settle | 2 launches, 1 row, 2 plans, 1 write of the CLI |

Why the bounds are enough to be interesting:

- *DaemonLock*: the worst schedule has a dead owner and two contenders, hence three boots; a
  boot never runs twice, as its pid is its name.
- *DaemonDiscovery*: the questions are about one application against the others, and about the
  daemon one works on against the one that replaced it; both builds meet, and an accident hits
  the daemon, its pid or the wait of either. The bound on daemons is on those that live or are
  named at one time, so no wait for one ends because there are none left. The theorems are for any
  number of each.
- *DaemonMigration*: an id is reused when a pane closes and another occupant opens in it, which
  is two operations; a second pane is what a partial answer leaves behind. One accident at a
  time, of any kind and anywhere. The safety properties also hold of one pane with two remote hosts,
  six operations and two accidents, which takes too long to be a run.
- *PaneSessions*: a reused id needs two generations, an untouched neighbour a third and a
  second id, a remote move two hosts. A change beyond the first only makes a dirty row dirty.
- *PaneRelay*: opened, closed, opened again is two spawns, and so is a pane that a reload mounts
  again. Two cuts and a death let a replay follow a replay. `MaxGen` is large enough for every spawn
  and every replay, refused ones included, so no liveness property holds because a session was
  withheld. The theorems are for any number of each. `MaxQueue` bounds only when a pty prints or a
  user types, never what the protocol sends. Ids interact only through the numbers a daemon
  hands out; with one id, a new daemon is certain to reuse a number the relay knows, which is
  the collision to fear.
- *RelayReplay*: three daemons let a reset be followed by another replacement.
- *ActivityTracker*: two subagents tell the last from the others; the third changes nothing.
- *ClaimLedger*: the patterns meet every case of the referee: equal, nested under `**`, a
  wildcard, a leading `./`, one that ends first, and a `.` inside. The theorem covers all the others.
- *PaneRoles*: slots are symmetric; with a limit of one, two compete. After the second death of a
  daemon the replay of a pane whose last one lapsed binds its role again.
- *ReviewGate*: merges touch each other only through the base, which `BaseMoves` moves at any
  time, and panes only through the slot, which is closed and named again; the theorems are for
  any number of panes, merges and branches.
- *ToolPlan*: two launches and a row are the fewest of which one undoes, one has found the plan
  there, and one has an edit to lose; two plans tell a granted one from another.

Deadlock is not checked where bounded counters end a behaviour; `PaneSessions`, which can
always crash or boot, is checked for it. Symmetry is used only in runs without liveness, over
slots and panes that no definition tells apart. Types are proved rather than run (section 5).

**Fairness.** `DaemonLock`: a process that has not died keeps being scheduled (weak fairness
of its steps); starts, shutdowns and crashes are not fair. `PaneSessions`: a timer that is set
fires; the save it makes may fail every time. `PaneRelay`: both ends keep reading and see a close
(the event loops), a spawn that was refused or has no client left is rejected (its timer), and the
relay reconnects for ever (the loop in `reconnect()` ends only with the application); spawns,
closes, saves, cuts, refusals and restarts are not fair. `RelayReplay`: the same, for discovery, replay and
reading; printing and losing are not fair. `ScreenRecovers` asks for a painted screen of the
current session, not for the latest chunk, since a pty may print for ever. `DaemonDiscovery`:
every await of `ensureDaemon` and of the updater ends (each has a timeout in the code), an
application that has had a client reconnects for ever, and daemons run; installs, quits and
accidents are not fair. `EveryAppIsServed` is conditional on what no fairness of the code brings
about (`Settled`): that from some moment on nobody is asking for quiet or retiring a daemon, no
daemon is hidden, and the lock file does not name a stranger's pid. `DaemonMigration`: the same, for the
migration's awaits and for a daemon that has its orders. `ToolPlan`: the event loop serves every
answer that has come. The remaining
specifications need none: their properties are safety.

## 4. Where the code does not do what it says

`DaemonLock_two_owners` checks a promise and finds it broken in a few steps. `lifecycle.ts:65`
says that the rename "succeeds for exactly ONE contender". The rename moves whatever is at the
path: a contender that read the same dead pid may find the winner's fresh lock there, as may one
that reads the file between its creation and the write of its pid. `UndisplacedOwnerHoldsFile`
shows that there is no other cause of two owners.

The others are in the models, most of them behind the history variables of section 2; each of
those can be seen by dropping the condition from the property named: TLC then finds a behaviour
that breaks it.

- *Discovery.* `ServingIsFound` without `hidden`: "a daemon that actually ANSWERED is never
  touched" (`daemon-client.ts:372-377`) is true of the daemon that was probed, but the file is
  unlinked whatever it names by then. `retireOwnDaemon` (`daemon-client.ts:290-295`) does not
  count other clients, and while a daemon of its own application is still booting it finds no
  endpoint and reports success: the installer may start with the executable in use, which
  `daemon-client.ts:384-394` sets out to prevent. `QuietIsKept` says what remains: the discovery
  that had spawned it retires it when it comes up, if the application lives that long.
  `EveryAppIsServed` without `Settled`: two applications of different builds may each find the
  other's daemon unattended and retire it, again and again; the guard against that "war"
  (`daemon-client.ts:338-345`) counts the clients that are connected at one moment. And off Windows a
  stranger with a dead owner's pid keeps the lock (`lifecycle.ts:38-39`), so that every new daemon
  gives up: `lifecycle.ts:33-37` describes that and the code repairs it on Windows only. The third
  exemption is documented behaviour: a launch whose first connection fails runs its terminals in its
  own process until it is started again (`main/boot.ts:300-323`).
- *Migration.* `NothingIsLost` without `torn`: the store is created and then filled, and the old
  daemon has been retired by then; a crash or a failed write between the two leaves an empty store
  which the next launch takes for a finished migration, where `daemon-migrate.ts:24-26` promises
  a blank daemon with the old one untouched. `RightMachine` without `hearsay`: from a store
  that does not record hosts, a plain shell in a reused id gets the previous remote agent's
  command, locally, which `daemon-migrate.ts:206-208` and `437-441` say cannot happen.
- *Activity.* `DoneIsNotForgotten` without `restored`: "a `done` arriving with subagents pending is
  DEFERRED, not dropped" (`activity.ts:62-63`) and "Verdicts are never forgotten; guesses may be"
  (`activity.ts:95`), but a chime that rings red takes the deferred done with it (`activity.ts:198`),
  and the notification that retracts the red does not give it back (`activity.ts:230`). Nor does it
  give back a subagent that started under the red: the pane goes to `idle` while it runs.
- *Roles.* `RolesBelongToTheirPane` without `orphaned`: "A role dies with the SLOT"
  (`daemon-relay.ts:624-628`), but an acknowledgement that is awaited while the pane closes gives it
  to the slot afterwards (`daemon-relay.ts:655-656`), and the next pane there is a reviewer for the
  app. `DaemonAgrees` without `unbound`: a replay that is refused or answered too late skips
  `bindRole`, and the pane runs without its role in the daemon until the next reconnect, where
  `daemon-relay.ts:337-339` has roles replayed after every spawn. The "enforcement backstop" of the
  plan's limit (`daemon-relay.ts:644-654`) reads `appRoles` before it awaits the daemon;
  `publishRoles` invokes it for all roles at once (`controller.ts:494-500`), so where there was room for
  one it lets them all pass. No property is about the limit.
- *Review.* `OnlySignedWorkLands` with `given = "named"` only: "a self-promoted pane's sign-off is not
  filtered late, it is simply never an approval" (`daemon-relay.ts:79-81`), but the filter asks who is
  a reviewer *now*: a sign-off that a pane gave on a role of its own making counts as soon as the user
  names its slot, even for another pane there, and lands what it names. `LandsOnReviewedBase` without
  `raced`: `git merge` merges into whatever the base is by then, where `review/index.ts:175-176`
  claims to detect its movement, and to close "the check/use race" for the source branch.
- *Ledger.* `OneOwner` without `Plain`: "When in doubt, DENY" (`claims.ts:22`), but `a/./b` and `a/b`
  name one file (`Depth` passes over the `.`), and are two literals to the referee.
- *Tool plan.* `PlanIsGranted` without `Orderly`: "a refused launch must leave the worktree exactly
  as it found it" (`tool-plan.ts:176-177`), but the undo has no expected hash, so it restores a
  file as it was before other writers' edits, and takes the plan from a launch that had found it
  there and been told it was materialized.
- *Sessions.* `StopKeepsOpenPanes` without `late`: output of a killed pty marks its id dirty, which
  withdraws the removal (`session.ts:1322`); the delta save skips the id, and the row of the closed
  pane stays for the next boot, against `session.ts:1226` and `transport.ts:21-23`. `ClosedRowsGo`
  without `failed`: the timer is cleared before the save, and a save that throws is logged by the
  process (`pty-daemon/index.ts:96`, which "keeps serving") and not made again until a pane changes.
- *Relay.* `GateIsTight` without `early`: the answer to the spawn of a pane that has been closed
  replaces its tombstone (`daemon-relay.ts:153`), and events of the closed session pass the gate
  into the next pane of that id, against `daemon-relay.ts:119-121`. `FreshPaneGetsFreshSession` without
  `adopted`: "a session the user closed stays closed, never a zombie shell" (`daemon-relay.ts:196-199`)
  is kept by the tombstone, which the answer to the next pane's spawn has replaced; a daemon that
  dies before the close is saved then restores the row, and the replay hands it to the new pane.
  `OpenPanesComeAlive` without `dropped`: the relay knows that a refused replay leaves a blank pane, and
  calls it "Best-effort by design" (`daemon-relay.ts:346-348`).
- *Replay.* `ScreenShowsRing` without `misled`: an attempt that fails after it found a new daemon
  has changed `daemonPid` (`daemon-relay.ts:142`); the next takes the new daemon for the one it
  knew and does not repaint, against `daemon-relay.ts:125-128`. Without `late`: the mode of a replay is
  its waiter's (`daemon-client.ts:691-696`), so an answer that comes after the waiter's five seconds is
  appended to a painted screen, which `daemon-relay.ts:330-333` calls a "second spliced copy".

## 5. Theorems

TLAPS proves the following for every value of the constants that the named assumptions allow.
Those only say that bounds are numbers, that sets counted are finite, that `None`-like values
are distinct from what they stand beside, and, for the ledger, that names are not wildcards.

- **DaemonLock** (in `DaemonMigrationProofs`). `LockTypesCorrect`; `UndisplacedOwner`;
  `SerialSingleton`; `PublishedTheorem`. For the second,
  `SingleOwner`-like claims are not inductive because a boot that has created its file but not
  written it is not yet an owner: `HolderInv` speaks of every boot whose open has succeeded.
  For the third, `SerialInv` adds what a single contender knows: the owner it read is the file
  that is there, so what it renames is a dead boot's; and that a holder listens, is young, or
  was slow. `CalmBefore` lets the proof work under the condition that nothing has gone wrong
  *yet*. The fourth follows from the third: only an owner touches the endpoint.
- **DaemonDiscoveryProofs.** `TypeCorrect`, `DaemonIsFound`, `AnsweringUntouched`, `KnownSpared`,
  `QuietTheorem` (the last three are action properties). `LockIsHeld`: a daemon that serves owns the lock, so no other
  can write the file. `CountsStay`: what an application has counted stays true while the daemon
  serves, since no client leaves but by quitting; `OrderedUnused` carries that to the shutdown
  frame on the wire. For the last, `StrangersAreCounted` (a discovery that goes to count clients has
  not found the daemon it spawned) and `ToldToGo`: one that it has told to go has the order, if no
  wait was cut short and nothing has died.
- **DaemonMigrationProofs.** `TypeCorrect`, `NobodyTwice`, `OnItsMachine`, `NothingLost`. `OldIsGone`:
  from `create` on the old daemon has let its panes go. `RowsAreRight`: a row that says where its
  command ran is right about it in the old store, after the confirmation of hosts, in the merge, in
  the new store and in the new daemon. `KeptInv` follows what is owed on its way: it is on the old
  daemon's screens while that lives (`Live`), in its store after that (`Stored`); once it is listed, the
  list has every pane and what was captured of one is enough (`Listed`); the daemon is only told
  to go, and its store only read again, with every listed pane restorable (`Retires`); and then
  the rows to seed, and at last the new store, cover it (`Seeded`). The lemmas about `Merge` and
  `DeadRows` say which row a merge takes for a pane.
- **PaneSessionsProofs.** `TypeCorrect`, `MapAgrees`, `StopKeepsExactlyOpenPanes`; `PanesSurvive`, the
  refinement; `OnlyAFailedSaveIsForgotten`. `MapIInv` adds that generations not minted name nothing.
  A lemma for each action says which pane it touches and how it is marked, and all that follows
  uses those. `SaveInv` is the meaning of the marks: the row of an open pane without one is up
  to date (`OpenIsSaved`, whatever dead ptys do), and a pane that is gone has no row or is marked
  as removed (`ClosedIsGone`, until a killed pty prints). So `SavedRows` says what a save leaves,
  row by row, which is what the abstract `Written` allows. The last theorem is the safety half
  of `ClosedRowsGo`: after the first save, a disk that is behind has a timer running, or the last save
  threw and nothing was scheduled since (`MarksAreDue`). `Numbering` is about the bijection by which
  `Boot` numbers the rows.
- **ActivityTrackerProofs.** `TypeCorrect`, `LatchTheorem`, `GreenTheorem`, `NamedRedTheorem`,
  `GreenIsEarnedTheorem` (an action property), `HeldTheorem`, `DoneTheorem`. The strengthening is
  `DeferredDoneWaits`: a deferred done is the main's own, waits for a subagent, and does not
  survive a red.
- **ClaimLedgerProofs.** `RefereeIsConservative` is the lemma at the bottom: patterns without a `.`
  that cover a common path are never judged apart. With `NoContest` (inductive together
  with `SessionsAreOwn`) it gives `TerritoryIsExclusive` for any paths and patterns, with nothing
  assumed of the patterns that panes claim;
  `TerritoryDiesWithItsSession` and `TerritoryIsKept` tie claims to sessions.
- **PaneRelayProofs**, about PaneRelay: `RelayTyped`, `SpecsFollow`, `GateHolds`, `FreshSessions` (an
  action property), each from `RelayInvariant`. `Tokens`: an open pane's token is later than every
  spawn that was closed. `Distinct`: a generation is one session of one pane. `Greeting`: until it
  is read, a welcome is all that is on the wire, and the sessions it lists are those that live.
  `PanesAreGated` is about panes that are not `early`. What is on the wire for them is as new as
  they are: a spawn to the daemon (`SpawnsAreLater`), an answer and the events behind it
  (`AnswersAreFresh`), and what the gate would let through (`GateIsFresh`). A session that outlived
  its pane has a kill on its way, ahead of the pane's next spawn (`KillsStale`), and behind a kill
  nothing of the old pane comes back (`KillsAreFinal`). A session that a welcome took over for its
  new pane is heard by nobody until a spawn is handed it (`Adopted`). A step that is not about a pane keeps all
  of that for it (`PaneKept`); each of the others has a lemma.
- **PaneRelayProofs**, about RelayReplay: `PaneShowsRing`, from `ScreenInvariant`. `Trails`: the wire
  holds consecutive chunks of the session that runs, the last of them its latest, with the answer
  to the replay in front while there is one. `Tracks`: where the loop of `reconnect()` is says what
  `daemonPid` may be, and the waiter, while there is one, has the mode that the two pids call for.
  `Shows`: the screen ends where the wire begins; while nothing is on the wire, it is the session as it was left.
- **ReviewGateProofs**, about PaneRoles: `RolesTyped`, `RolesStay`, `RolesAgree`, for
  any slots, calls and tries. `OwnedInv`: who has a role without being named in the manifest is
  orphaned, or has a kill on its way. For the last, `Kept`: a role on the app's record is held by
  the daemon (`Held`), or a replay, an acknowledgement or a call that will send it is under way
  (`Coming`), or the replay lapsed and the slot is marked. That needs to know that a session of an
  earlier pane is killed before the next one's commands come (`DoomInv`), and that a call that was answered
  was answered for the session that is there (`Acks`).
- **ReviewGateProofs**, about ReviewGate. `OnlySignedTheorem` carries the sign-off through the awaits of a
  merge: whatever stands and passes the filter was given by a named reviewer or has had its slot
  named since (`SignoffsKnown`), and so has what a merge was given (`BelievedKnown`); what is read
  without an override matches one of those (`SnapshotsMatched`), what lands is what was read
  (`LandedMatched`). A sign-off names commits, so none of it can go stale.
  `ReviewedBaseTheorem`: a snapshot that was compared is still current, or the merge has raced.
- **ToolPlanProofs.** `TypeCorrect`; `CoordinatorImplementsRegister`, the refinement; `SuccessesAreOnDisk`,
  an action property; `PlansAreGranted`. All rest on who may be where in the queue: one transaction at a time has
  read the file (`Holder`), nobody is past a first read while a caller takes its result
  (`SettledAlone`), and from the second comparison to the rename only the CLI touches the file
  (`Compared`), which is all the abstract `Overtake` allows it to lose. For the second, `MemoTrue`: what
  the memo says is in the file, unless the file has moved or an undo has robbed somebody. For the
  last, `Accounted`: the plan in the file is a granted one, or a launch that has written its own
  and is not resolved yet found a granted one there, which its undo will restore. `FileStays`:
  once a plan is granted the file is not removed, and nobody works on having found none. Both
  hold as long as no undo did more or less than it should (`Orderly`), as the property does.

## 6. What is only model-checked

Liveness (`SurvivorOwnsLock`, `EveryAppIsServed`, `LaunchEnds`, `ClosedRowsGo`, `ClosedStaysClosed`,
`OpenPanesComeAlive`, `ScreenRecovers`, `EveryCallSettles`), since TLAPS reaches neither fairness nor
ENABLED. Every invariant and every action property of a passing run is a theorem of section 5.

No module declares a RECURSIVE operator, and no theorem needs induction over data: patterns
are compared and paths covered by quantification over positions.

Every property that a passing run checks is also known to fail for at least one plausible
mistake in a definition of its module; those variants are the `Mut...` operators, and
`PROJECT.json` names the pairs.

## 7. Plan

Done, in this order, the most important behaviour first: who owns the daemon, what a pane id
means and whose output it shows (`DaemonLock`, `PaneSessions`, `PaneRelay`, `RelayReplay`); the dot,
claims, roles and merges (`ActivityTracker`, `ClaimLedger`, `PaneRoles`, `ReviewGate`); the config files,
with their refinement (`ConfigRegister`, `ConfigMutation`, `ToolPlan`); several applications and several
releases (`DaemonDiscovery`, `DaemonMigration`).

Next:

1. `PaneCwd`, `Board`, `TokenRefresh`, `BrainFreshness`, the mailbox's ring: smaller machines, each with
   its own question (revisions do not go back; positions stay ordered; one refresh in flight; a
   drain covers every path that was dirty when it began; a cursor misses nothing unawares).
2. A fresh mount that shares its reply with a reconnect's replay (`daemon-client.ts:691`), in
   `RelayReplay`.

### Not modelled, in the parts that are

- *Discovery*: the sweep of old runtime directories and the computation of the stamp, and a helper
  that cannot be spawned at all.
- *Migration*: the fallback to ptys in the main process after a deferral, and a row whose spawn
  throws when it is restored (that is in `PaneSessions`). Of several older
  releases only the newest directory is a source (`findMigrationSource`); that one is modelled. No test captures
  a live daemon (`migrate-smoke.ts:10-13`), so the run is the only check of that path.
- *Tool plan*: other files than the one that the writers share; the coordinator's files do not
  interact. The parse of a file is the record of its parts, a digest is what it digests.
- *Sessions, relay, tracker*: the terminal's content and modes, the detector, the wording of hooks.

## 8. Running

```
tlc -workers 2 -config DaemonLock_boots.cfg MCDaemonLock.tla     # any run of PROJECT.json
tlapm ReviewGateProofs.tla                                        # any *Proofs module
```

The passing runs take from seconds to about three minutes each.
