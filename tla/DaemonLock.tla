---------------------------- MODULE DaemonLock ----------------------------
(***************************************************************************)
(* The single-instance lock of the detached pty daemon, from               *)
(* src/pty-daemon/lifecycle.ts (acquireLock, releaseLock, writeEndpoint,   *)
(* clearEndpoint) and the start and shutdown sequences of                  *)
(* src/pty-daemon/index.ts.                                                *)
(*                                                                         *)
(* A process is one boot of the daemon; its pid is its name.  Every step   *)
(* is one system call on the runtime directory, so the boots interleave    *)
(* between any two of them, and any boot may die between any two of them.  *)
(* A file is named by the boot that created it: a boot's exclusive open    *)
(* succeeds at most once, and the file keeps its identity when another     *)
(* boot renames it aside.                                                  *)
(***************************************************************************)
EXTENDS Naturals, FiniteSets

CONSTANTS
    Boot,      \* the boots of the daemon
    NoBoot     \* "no such file", and the pid read from an empty file

ASSUME BootAssumption == NoBoot \notin Boot

VARIABLES
    win32,      \* whether the identity of a lock's owner is its named pipe
    pc,         \* the next step of each boot
    lock,       \* the file at lockPath(), or NoBoot
    written,    \* the files whose creator has written its pid into them
    young,      \* the lock's mtime is within the 30 s startup grace
    owner,      \* the pid each contender read from the lock file
    endpoint,   \* the boot named in endpoint.json, or NoBoot
    listening,  \* boots whose server has listened: their pipe is up while they live
    recycled,   \* dead boots whose pid a stranger holds now
    \* history
    displaced,  \* boots that lived when another took their lock file
    overlapped, \* whether a boot started while another was in acquireLock
    slow        \* whether the grace ran out on a boot that had not listened

files == <<lock, written, young, endpoint>>
world == <<win32, overlapped, slow>>
lockVars == <<pc, files, owner, listening, recycled, displaced, world>>

Maybe == Boot \cup {NoBoot}

\* Inside acquireLock, and from its return to releaseLock.
Acquiring == {"open", "write", "read", "judge", "rename", "reopen", "rewrite"}
Owning    == {"start", "serve", "clear", "release"}
PC        == {"off", "refused", "dead"} \cup Acquiring \cup Owning

Alive(b)  == pc[b] \in Acquiring \cup Owning
Owners    == {b \in Boot : pc[b] \in Owning}

LockTypeOK ==
    /\ {win32, overlapped, slow} \subseteq BOOLEAN
    /\ pc \in [Boot -> PC]
    /\ lock \in Maybe
    /\ written \subseteq Boot
    /\ young \in BOOLEAN
    /\ owner \in [Boot -> Maybe]
    /\ endpoint \in Maybe
    /\ listening \subseteq Boot
    /\ recycled \subseteq Boot
    /\ displaced \subseteq Boot

LockInit ==
    /\ win32 \in BOOLEAN /\ overlapped = FALSE /\ slow = FALSE
    /\ pc = [b \in Boot |-> "off"]
    /\ lock = NoBoot
    /\ written = {}
    /\ young = FALSE
    /\ owner = [b \in Boot |-> NoBoot]
    /\ endpoint = NoBoot
    /\ listening = {}
    /\ recycled = {}
    /\ displaced = {}

Goto(b, from, to) == pc[b] = from /\ pc' = [pc EXCEPT ![b] = to]

\* b takes whatever file is at the lock path out of it.
TakeFile(b) ==
    /\ lock' = NoBoot
    /\ displaced' = displaced \cup {c \in Boot \ {b} : lock = c /\ Alive(c)}

----------------------------------------------------------------------------
\* Does the pid p look like a daemon that holds the lock?
PidAlive(p)  == p \in Boot /\ (Alive(p) \/ p \in recycled)
PipeAlive(p) == p \in listening /\ Alive(p)

\* Mutants: the owner must be serving; any pid will do.
MutOwnerServing(p) == PidAlive(p) /\ p \in listening
MutOwnerAnyPid(p)  == p \in Boot

OwnerHoldsLock(p) ==
    /\ PidAlive(p)
    /\ win32 => PipeAlive(p) \/ young

\* The app spawns a daemon process.
Start(b) ==
    /\ Goto(b, "off", "open")
    /\ overlapped' = (overlapped \/ \E c \in Boot : pc[c] \in Acquiring)
    /\ UNCHANGED <<files, owner, listening, recycled, displaced, win32, slow>>

\* Mutant: the open is not exclusive.
MutOpenShared(b, from, won, lost) ==
    /\ Goto(b, from, won)
    /\ lock' = b
    /\ young' = TRUE
    /\ UNCHANGED <<written, owner, endpoint, listening, recycled, displaced, world>>

\* The exclusive create of claim(): it makes an EMPTY file or fails.
Claim(b, from, won, lost) ==
    /\ pc[b] = from
    /\ IF lock = NoBoot
       THEN /\ pc' = [pc EXCEPT ![b] = won]
            /\ lock' = b
            /\ young' = TRUE
       ELSE /\ pc' = [pc EXCEPT ![b] = lost]
            /\ UNCHANGED <<lock, young>>
    /\ UNCHANGED <<written, owner, endpoint, listening, recycled, displaced, world>>

FirstClaim(b)  == Claim(b, "open", "write", "read")
SecondClaim(b) == Claim(b, "reopen", "rewrite", "refused")

\* claim() writes its pid through the descriptor, wherever the file is by now.
WritePid(b, from) ==
    /\ Goto(b, from, "start")
    /\ written' = written \cup {b}
    /\ UNCHANGED <<lock, young, owner, endpoint, listening, recycled, displaced, world>>

Write(b)   == WritePid(b, "write")
Rewrite(b) == WritePid(b, "rewrite")

\* Read the owner.  A missing file throws into the outer catch, which refuses;
\* an empty file reads as pid 0, which is no owner.
ReadOwner(b) ==
    /\ pc[b] = "read"
    /\ pc' = [pc EXCEPT ![b] = IF lock = NoBoot THEN "refused" ELSE "judge"]
    /\ owner' = [owner EXCEPT ![b] = IF lock \in written THEN lock ELSE NoBoot]
    /\ UNCHANGED <<files, listening, recycled, displaced, world>>

\* The owner's life is looked at after the read, when the file may be another's.
JudgeOwner(b) ==
    /\ pc[b] = "judge"
    /\ pc' = [pc EXCEPT ![b] = IF OwnerHoldsLock(owner[b]) THEN "refused" ELSE "rename"]
    /\ owner' = [owner EXCEPT ![b] = NoBoot]
    /\ UNCHANGED <<files, listening, recycled, displaced, world>>

\* Rename whatever is at the lock path aside and unlink it there.  The rename
\* of a missing file fails and is ignored.
RenameAside(b) ==
    /\ Goto(b, "rename", "reopen")
    /\ TakeFile(b)
    /\ UNCHANGED <<written, young, owner, endpoint, listening, recycled, world>>

----------------------------------------------------------------------------
\* Mutant: the endpoint file is created, never overwritten.
MutListenKeepsEndpoint(b) ==
    /\ Goto(b, "start", "serve")
    /\ listening' = listening \cup {b}
    /\ endpoint' = IF endpoint = NoBoot THEN b ELSE endpoint
    /\ UNCHANGED <<lock, written, young, owner, recycled, displaced, world>>

\* The server listens and its callback publishes the endpoint.
Listen(b) ==
    /\ Goto(b, "start", "serve")
    /\ listening' = listening \cup {b}
    /\ endpoint' = b
    /\ UNCHANGED <<lock, written, young, owner, recycled, displaced, world>>

\* shutdown(): idle, SIGTERM, a client's request, or a server error, which may
\* come before the server ever listened.
Shutdown(b) ==
    /\ pc[b] \in {"start", "serve"}
    /\ pc' = [pc EXCEPT ![b] = "clear"]
    /\ UNCHANGED <<files, owner, listening, recycled, displaced, world>>

\* Both unlinks take the file that is there, whoever wrote it.
ClearEndpoint(b) ==
    /\ Goto(b, "clear", "release")
    /\ endpoint' = NoBoot
    /\ UNCHANGED <<lock, written, young, owner, listening, recycled, displaced, world>>

ReleaseLock(b) ==
    /\ Goto(b, "release", "dead")
    /\ TakeFile(b)
    /\ UNCHANGED <<written, young, owner, endpoint, listening, recycled, world>>

\* The environment: a boot dies anywhere, the grace runs out (nothing reads the lock's
\* age on POSIX), a pid is reused.
Crash(b) ==
    /\ Alive(b)
    /\ pc' = [pc EXCEPT ![b] = "dead"]
    /\ UNCHANGED <<files, owner, listening, recycled, displaced, world>>

Age ==
    /\ win32 /\ young
    /\ young' = FALSE
    /\ slow' = (slow \/ \E b \in Boot \ listening : pc[b] \in {"write", "rewrite"} \cup Owning)
    /\ UNCHANGED <<pc, lock, written, owner, endpoint, listening, recycled, displaced, win32, overlapped>>

\* Only a pid that some lock file has held makes a difference.
ReusePid(b) ==
    /\ pc[b] = "dead" /\ b \in written
    /\ b \notin recycled
    /\ recycled' = recycled \cup {b}
    /\ UNCHANGED <<pc, files, owner, listening, displaced, world>>

\* The steps of the program, as opposed to those of its environment.
Step(b) ==
    \/ FirstClaim(b) \/ Write(b)
    \/ ReadOwner(b) \/ JudgeOwner(b) \/ RenameAside(b) \/ SecondClaim(b) \/ Rewrite(b)
    \/ Listen(b) \/ ClearEndpoint(b) \/ ReleaseLock(b)

LockNext ==
    \/ \E b \in Boot : Start(b) \/ Step(b) \/ Shutdown(b) \/ Crash(b) \/ ReusePid(b)
    \/ Age

LockSpec == LockInit /\ [][LockNext]_lockVars

\* A process that is not dead keeps being scheduled.
FairLockSpec == LockSpec /\ \A b \in Boot : WF_lockVars(Step(b))

----------------------------------------------------------------------------
\* The daemon is a singleton: at most one boot is between acquireLock's return
\* and releaseLock.  Two of them would both restore sessions.db.
Singleton == \A b, c \in Owners : b = c

\* It is one as long as no boot has started while another was in acquireLock and, on
\* Windows, the grace has not run out on a boot that had not listened: whatever
\* dies, shuts down or has its pid reused meanwhile.
Calm        == ~overlapped /\ (win32 => ~slow)
SingleOwner == Calm => Singleton

\* Two owners have one cause only, a boot that took the lock file of a live one
\* (a takeover that renamed a fresh lock aside, or the release of a boot that
\* had lost its own): an owner to whom that never happened still has its file at
\* the lock path, so there is at most one.
UndisplacedOwnerHoldsFile == \A b \in Owners \ displaced : lock = b

\* An app that finds a serving daemon finds it through endpoint.json: another
\* boot's start or shutdown never takes the file of a daemon that is serving.
ServingIsPublished == Calm => \A b \in Boot : pc[b] = "serve" => endpoint = b

\* A lock left behind never stops the last boot: one that is starting when
\* every other boot is dead comes to own it or dies itself, unless a stranger
\* gets the pid of a dead one.
Last(b) == \A c \in Boot \ {b} : pc[c] \in {"dead", "refused"}
SurvivorOwnsLock ==
    \A b \in Boot : (pc[b] = "open" /\ Last(b)) ~> (pc[b] \in Owning \cup {"dead"} \/ recycled # {})
============================================================================
