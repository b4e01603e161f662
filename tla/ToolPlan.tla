------------------------------ MODULE ToolPlan ------------------------------
(***************************************************************************)
(* The writers of an agent CLI's project config file, over the coordinator *)
(* of ConfigMutation.                                                      *)
(*                                                                         *)
(*   - a launch materializes its workspace's tool plan into the file       *)
(*     (materializeToolPlanAtLaunch, src/main/tool-plan.ts) and undoes it  *)
(*     if the file cannot be hidden from git;                              *)
(*   - a settings row is reconciled into the same file (reconcileRows,     *)
(*     src/backend/features/agent-settings/service.ts), at the launch's    *)
(*     side or from the settings panel.                                    *)
(*                                                                         *)
(* All launches are of one workspace, CLI and directory.  Their plans may  *)
(* differ, as the user edits the plan between them.  Hiding the file from  *)
(* git is a file system call that may fail.                                *)
(***************************************************************************)
EXTENDS ConfigMutation

CONSTANTS
    Launch,     \* the launches
    Row,        \* the settings rows
    MaxPlan,    \* bound on the plans
    MaxValue    \* bound on the values of the setting; 0 is unset

ASSUME WriterAssumption == Writer = Launch \cup Row /\ Launch \cap Row = {}
ASSUME ValueAssumption == MaxPlan \in Nat \ {0} /\ MaxValue \in Nat \ {0}

VARIABLES
    pc,        \* where each launch or row is
    want,      \* the plan of each launch, the value of each row
    snap,      \* what each read before it called mutate()
    retried,   \* launches that lost one comparison
    memo,      \* materializedPlans: the plan last established, or 0
    moved,     \* the file has changed since the memo took its stats
    \* history
    putBack,   \* how often an undo replaced more than its launch had written
    leftover,  \* launches whose undo was refused or failed
    robbed     \* writers that found what they asked for, before an undo removed it

clients == <<pc, want, snap, retried>>
history == <<putBack, leftover, robbed>>
vars    == <<file, coordinator, clients, memo, moved, history>>

Going == {"read", "call", "wait", "undo", "undoing"}

TypeOK ==
    /\ file \in File
    /\ queue \in Seq(Writer)
    /\ phase \in [Writer -> Phase]
    /\ req \in [Writer -> Request]
    /\ cur \in [Writer -> File]
    /\ result \in [Writer -> {"none", "same", "changed", "conflict", "failed"}]
    /\ pc \in [Writer -> {"idle", "ok", "refused"} \cup Going]
    /\ want \in [Writer -> Nat]
    /\ snap \in [Writer -> File]
    /\ retried \subseteq Launch
    /\ memo \in Nat /\ moved \in BOOLEAN
    /\ putBack \in Nat /\ leftover \subseteq Launch /\ robbed \subseteq Writer

\* The file is not there yet.  One that an earlier run of the application has left its plan
\* in is reached as well: by a launch that is refused after its write, with no memo.
Init ==
    /\ CoordinatorInit
    /\ pc = [w \in Writer |-> "idle"]
    /\ want = [w \in Writer |-> 0]
    /\ snap = [w \in Writer |-> Absent]
    /\ retried = {}
    /\ memo = 0 /\ moved = FALSE
    /\ putBack = 0 /\ leftover = {} /\ robbed = {}

Goto(w, from, to) == pc[w] = from /\ pc' = [pc EXCEPT ![w] = to]

\* Whatever rewrites the file moves it from under the memo.
Moves == moved' = (moved \/ file' # file)

\* Nothing but blocks the application manages is there to lose.
Managed == \A p \in Part \ {"plan"} : Content(file)[p] = 0

----------------------------------------------------------------------------
\* Mutant: the digest of the plan is not compared.
MutMemoHolds(p) == memo # 0 /\ ~moved

MemoHolds(p) == memo = p /\ ~moved

\* A launch composes its plan.  The memo lets it skip the file if nothing has moved
\* and the file is hidden still; a file that is the repository's own refuses it.
Begin(l, p) ==
    /\ Turn /\ pc[l] = "idle"
    /\ want' = [want EXCEPT ![l] = p]
    /\ \/ MemoHolds(p) /\ pc' = [pc EXCEPT ![l] = "ok"] /\ UNCHANGED memo
       \/ pc' = [pc EXCEPT ![l] = IF Managed THEN "read" ELSE "refused"]
          /\ memo' = IF Managed /\ ~MemoHolds(p) THEN memo ELSE 0
    /\ UNCHANGED <<file, coordinator, snap, retried, moved, history>>

\* read(): not queued.
Snapshot(w) ==
    /\ Goto(w, "read", "call")
    /\ ~(w \in Row /\ file = Absent /\ want[w] = 0)
    /\ snap' = [snap EXCEPT ![w] = file]
    /\ UNCHANGED <<file, coordinator, want, retried, memo, moved, history>>

OwnPart(w) == IF w \in Launch THEN "plan" ELSE "setting"

Call(w) ==
    /\ Turn /\ Goto(w, "call", "wait")
    /\ Enqueue(w, SetPart(OwnPart(w), want[w], snap[w]))
    /\ UNCHANGED <<file, want, snap, retried, memo, moved, history>>

\* What launch l left in the file is not what is there now.
Crossed(l) == file # [Content(snap[l]) EXCEPT !["plan"] = want[l]]

\* Launches that have been told they have the plan which w is taking out.
Sharing(w) == {l \in Launch : pc[l] = "ok" /\ want[l] = want[w]}
Undoes(w)  == pc[w] = "undoing" /\ file' # file

Transaction(w) ==
    /\ Transact(w) \/ Fail(w)
    /\ Moves
    /\ putBack' = putBack + (IF Undoes(w) /\ Crossed(w) THEN 1 ELSE 0)
    /\ robbed' = IF Undoes(w) THEN robbed \cup Sharing(w) ELSE robbed
    /\ UNCHANGED <<clients, memo, leftover>>

----------------------------------------------------------------------------
\* A launch's mutate() has settled.
Succeeded(w) == result[w] \in {"same", "changed"}

Settled(w) == phase[w] = "settled" /\ Taken(w)

\* The plan is in the file and the file is hidden: remember it, with its stats.
Materialized(l) ==
    /\ Settled(l) /\ Succeeded(l)
    /\ Goto(l, "wait", "ok")
    /\ memo' = IF file = Absent THEN 0 ELSE want[l]
    /\ moved' = FALSE
    /\ UNCHANGED <<file, want, snap, retried, history>>

\* Mutant: the undo is recorded although the launch has written nothing.
MutHideFails(l) ==
    /\ Settled(l) /\ Succeeded(l)
    /\ memo' = 0
    /\ Goto(l, "wait", IF snap[l] # Absent THEN "undo" ELSE "refused")
    /\ file' = IF snap[l] = Absent THEN Absent ELSE file
    /\ Moves
    /\ UNCHANGED <<want, snap, retried, history>>

\* Writers that have read what they ask for, and will be told so.
Satisfied == {w \in Writer : phase[w] = "read" /\ Verdict(req[w], cur[w]) = "same"}

\* The file cannot be hidden.  What this launch wrote is undone: a file it created
\* is removed at once, another one goes back through the queue.
HideFails(l) ==
    /\ Settled(l) /\ Succeeded(l)
    /\ memo' = 0
    /\ Goto(l, "wait", IF result[l] = "changed" /\ snap[l] # Absent THEN "undo" ELSE "refused")
    /\ file' = IF result[l] = "changed" /\ snap[l] = Absent THEN Absent ELSE file
    /\ putBack' = putBack + (IF file' # file /\ Crossed(l) THEN 1 ELSE 0)
    /\ robbed' = IF file' # file THEN robbed \cup Satisfied ELSE robbed
    /\ Moves
    /\ UNCHANGED <<want, snap, retried, leftover>>

\* A lost comparison is tried once more, from a fresh read; the second is a refusal.
LostCas(l) ==
    /\ Settled(l) /\ result[l] = "conflict"
    /\ IF l \in retried
       THEN Goto(l, "wait", "refused") /\ memo' = 0 /\ UNCHANGED retried
       ELSE Goto(l, "wait", "read") /\ retried' = retried \cup {l} /\ UNCHANGED memo
    /\ UNCHANGED <<file, want, snap, moved, history>>

NotWritten(l) ==
    /\ Settled(l) /\ result[l] = "failed"
    /\ Goto(l, "wait", "refused") /\ memo' = 0
    /\ UNCHANGED <<file, want, snap, retried, moved, history>>

\* rollback(): the file is to say again what it said, with no expected hash.
Undo(l) ==
    /\ Turn /\ Goto(l, "undo", "undoing")
    /\ Enqueue(l, SetWhole(snap[l]))
    /\ UNCHANGED <<file, want, snap, retried, memo, moved, history>>

Undone(l) ==
    /\ Settled(l) /\ Goto(l, "undoing", "refused")
    /\ leftover' = IF Succeeded(l) THEN leftover ELSE leftover \cup {l}
    /\ UNCHANGED <<file, want, snap, retried, memo, moved, putBack, robbed>>

----------------------------------------------------------------------------
\* A settings row is to be reconciled.
Reconcile(r, v) ==
    /\ Turn /\ Goto(r, "idle", "read")
    /\ want' = [want EXCEPT ![r] = v]
    /\ UNCHANGED <<file, coordinator, snap, retried, memo, moved, history>>

\* Nothing to unset: the row is in sync and no file is made.
NothingToUnset(r) ==
    /\ Goto(r, "read", "ok")
    /\ file = Absent /\ want[r] = 0
    /\ UNCHANGED <<file, coordinator, want, snap, retried, memo, moved, history>>

\* The row is 'synced' (or waits for a restart of the CLI), or holds an error.
Reconciled(r) ==
    /\ Settled(r)
    /\ Goto(r, "wait", IF Succeeded(r) THEN "ok" ELSE "refused")
    /\ UNCHANGED <<file, want, snap, retried, memo, moved, history>>

\* The CLI writes its config.
Outside ==
    /\ OutsideWrites /\ Moves
    /\ UNCHANGED <<clients, memo, history>>

LaunchServed(l) ==
    Materialized(l) \/ HideFails(l) \/ LostCas(l) \/ NotWritten(l) \/ Undone(l)

Step(w) ==
    \/ Snapshot(w) \/ Call(w) \/ Transaction(w)
    \/ w \in Launch /\ (LaunchServed(w) \/ Undo(w))
    \/ w \in Row /\ (NothingToUnset(w) \/ Reconciled(w))

Next ==
    \/ \E l \in Launch, p \in 1 .. MaxPlan : Begin(l, p)
    \/ \E r \in Row, v \in 0 .. MaxValue : Reconcile(r, v)
    \/ \E w \in Writer : Step(w)
    \/ Outside

Spec == Init /\ [][Next]_vars

\* The event loop serves every writer whose answer has come.
FairSpec == Spec /\ \A w \in Writer : WF_vars(Step(w))

----------------------------------------------------------------------------
\* What the file's writers are promised, and what it costs.
Shared == INSTANCE ConfigRegister WITH
    doc <- Content(file), racing <- Racing, Outside <- "cli"

\* The file behaves as a register of parts: no writer of the coordinator's takes
\* another's edit, a CLI's is lost only to the write it raced, and only the
\* launches that put the file back cost anybody more.
PartsAreSeparate == Shared!Spec

\* A launch that is told its plan is materialized, also on the word of the memo, and
\* a row that is 'synced', have it in the file at that moment - unless an undo has
\* ever taken out a plan that others had found there.
SuccessIsOnDisk ==
    [][\A w \in Writer : pc[w] # "ok" /\ pc'[w] = "ok" =>
            robbed # {} \/ Content(file')[OwnPart(w)] = want'[w]]_vars

\* "A refused launch must leave the worktree exactly as it found it", and no other
\* launch without its plan: when nothing is under way, the plan in the file is one
\* that a launch was told it has, and there is none only if no launch was.  It holds
\* as long as every undo finds the file as its launch had left it.
Orderly == putBack = 0 /\ leftover = {} /\ robbed = {}
Granted == {want[l] : l \in {k \in Launch : pc[k] = "ok"}}

PlanIsGranted ==
    (\A w \in Writer : pc[w] \notin Going) /\ Orderly
        => Content(file)["plan"] \in (IF Granted = {} THEN {0} ELSE Granted)

\* Every launch and every row gets its answer, however the others fare.
EveryCallSettles == \A w \in Writer : pc[w] = "read" ~> pc[w] \in {"ok", "refused"}
=============================================================================
