-------------------------- MODULE ActivityTracker --------------------------
(***************************************************************************)
(* The engine behind a pane's dot: class ActivityTracker in                *)
(* src/backend/features/agent-state/activity.ts.  Hooks, the pty stream,   *)
(* the shell and the user speak to it in any order; each signal is one     *)
(* action.                                                                 *)
(*                                                                         *)
(* The two windows are flags: `bell` is a chime that waits for its         *)
(* contradiction and may ring at any time, `grace` is the time after a     *)
(* completion in which a chime is that completion's own and may end at any *)
(* time.  A signal is emitted exactly when the state changes, so `state`   *)
(* is also what was emitted last.                                          *)
(***************************************************************************)
EXTENDS Naturals

CONSTANTS
    MaxSub,      \* bound on the subagents in flight
    None         \* no state was displaced by a guess

ASSUME SizeAssumption == MaxSub \in Nat

VARIABLES
    state,
    latched,          \* attention holds until an answer or a verdict
    bellLatchedFrom,  \* the state a rung chime displaced, None if the red is explicit
    bell,             \* bellTimer is set
    pendingSubagents,
    deferredDone,     \* the main said done while subagents were running
    grace,            \* doneAt is recent
    finished,         \* history: the main said done, and nothing it or the user did since says otherwise
    owed,             \* history: that done was held back for the subagents
    named,            \* history: the standing red was raised by name
    restored          \* history: a guess was retracted, and nothing was said since that makes up
                      \* for what happened under it

signals == <<pendingSubagents, deferredDone, grace>>
history == <<finished, owed, named, restored>>
vars    == <<state, latched, bellLatchedFrom, bell, signals, history>>

State == {"unknown", "busy", "attention", "done", "idle"}
ASSUME NoneAssumption == None \notin State

TypeOK ==
    /\ state \in State
    /\ latched \in BOOLEAN
    /\ bellLatchedFrom \in State \cup {None}
    /\ bell \in BOOLEAN
    /\ pendingSubagents \in 0 .. MaxSub
    /\ deferredDone \in BOOLEAN
    /\ grace \in BOOLEAN
    /\ finished \in BOOLEAN /\ owed \in BOOLEAN /\ named \in BOOLEAN
    /\ restored \in BOOLEAN

Init ==
    /\ state = "unknown" /\ latched = FALSE /\ bellLatchedFrom = None
    /\ bell = FALSE /\ pendingSubagents = 0 /\ deferredDone = FALSE /\ grace = FALSE
    /\ finished = FALSE /\ owed = FALSE /\ named = FALSE /\ restored = FALSE

----------------------------------------------------------------------------
\* apply(): every road into done starts the grace.
Apply(s) ==
    /\ state' = s
    /\ grace' = (grace \/ (s = "done" /\ state # "done"))

Unlatch == latched' = FALSE /\ bellLatchedFrom' = None

\* What the main is known to have said is over: it works, it is blocked, it is gone.
NotFinished == finished' = FALSE /\ owed' = FALSE /\ restored' = FALSE

\* bell(): a raw chime is held, unless it is a finished turn's own.
HoldChime == bell' = (bell \/ (state # "done" /\ ~grace))

Bell ==
    /\ HoldChime
    /\ UNCHANGED <<state, latched, bellLatchedFrom, signals, history>>

\* The held chime rings: a guess, which records what it displaced.
BellRings ==
    /\ bell
    /\ bell' = FALSE
    /\ latched' = TRUE
    /\ bellLatchedFrom' = IF state # "attention" THEN state ELSE None
    /\ deferredDone' = FALSE
    /\ Apply("attention")
    /\ UNCHANGED <<pendingSubagents, history>>

\* An explicit needs-input, by raiseAttention() or notify('attention').
RaiseAttention ==
    /\ bell' = FALSE
    /\ latched' = TRUE /\ bellLatchedFrom' = None
    /\ deferredDone' = FALSE
    /\ Apply("attention")
    /\ named' = TRUE /\ NotFinished
    /\ UNCHANGED pendingSubagents

\* Mutant: any standing red is retracted.
MutRetractable == state = "attention"

Retractable == state = "attention" /\ bellLatchedFrom # None

\* notice(): a notification of an unknown type.  It cancels the chime of a working
\* pane, retracts a red that chime has become, and is a chime anywhere else.
Notice ==
    \/ /\ state = "busy"
       /\ bell' = FALSE
       /\ UNCHANGED <<state, latched, bellLatchedFrom, signals, history>>
    \/ /\ Retractable
       /\ Unlatch /\ restored' = TRUE
       /\ Apply(IF bellLatchedFrom = None THEN "idle" ELSE bellLatchedFrom)
       /\ UNCHANGED <<bell, pendingSubagents, deferredDone, finished, owed, named>>
    \/ /\ state # "busy" /\ ~Retractable
       /\ Bell

----------------------------------------------------------------------------
(* Explicit verdicts: hooks, `mogging notify`, OSC 133.                      *)

Verdict == bell' = FALSE /\ Unlatch /\ named' = FALSE

NotifyBusy ==
    /\ Verdict
    /\ deferredDone' = FALSE
    /\ Apply("busy")
    /\ NotFinished
    /\ UNCHANGED pendingSubagents

\* Held back while subagents run.
NotifyDone ==
    /\ Verdict
    /\ finished' = TRUE /\ restored' = FALSE
    /\ IF pendingSubagents > 0
       THEN deferredDone' = TRUE /\ owed' = TRUE /\ Apply("busy")
       ELSE Apply("done") /\ owed' = FALSE /\ UNCHANGED deferredDone
    /\ UNCHANGED pendingSubagents

\* Nothing completed.  (A red over a deferred done has taken it; only the retraction
\* of that red could give it back, so here it is no longer owed.)
NotifyIdle ==
    /\ Verdict
    /\ Apply(IF pendingSubagents > 0 THEN "busy" ELSE "idle")
    /\ owed' = (owed /\ state # "attention")
    /\ UNCHANGED <<pendingSubagents, deferredDone, finished, restored>>

\* idlePrompt(): a timer of the CLI, an idle verdict only for a pane at rest.
IdlePrompt == pendingSubagents = 0 /\ ~latched /\ NotifyIdle

\* Mutant: a starting subagent throws the deferred done away.
MutSubagentForgets ==
    /\ pendingSubagents < MaxSub
    /\ bell' = FALSE /\ pendingSubagents' = pendingSubagents + 1 /\ deferredDone' = FALSE
    /\ Apply(IF latched THEN "attention" ELSE "busy")
    /\ UNCHANGED <<latched, bellLatchedFrom, history>>

SubagentStart ==
    /\ pendingSubagents < MaxSub
    /\ bell' = FALSE
    /\ pendingSubagents' = pendingSubagents + 1
    /\ Apply(IF latched THEN "attention" ELSE "busy")
    /\ UNCHANGED <<latched, bellLatchedFrom, deferredDone, history>>

\* A stray stop only cancels a chime; the last one redeems a done that was deferred.
SubagentStop ==
    /\ bell' = FALSE
    /\ pendingSubagents' = IF pendingSubagents = 0 THEN 0 ELSE pendingSubagents - 1
    /\ IF pendingSubagents = 1 /\ deferredDone /\ ~latched
       THEN deferredDone' = FALSE /\ owed' = FALSE /\ Apply("done")
       ELSE UNCHANGED <<state, deferredDone, owed, grace>>
    /\ UNCHANGED <<latched, bellLatchedFrom, finished, named, restored>>

\* Mutant: a new turn keeps the old one's deferred done.
MutTurnStart ==
    /\ bell' = FALSE /\ Unlatch /\ named' = FALSE
    /\ pendingSubagents' = 0 /\ grace' = FALSE /\ state' = "busy"
    /\ NotFinished /\ UNCHANGED deferredDone

\* The user submits a prompt to the agent.
TurnStart ==
    /\ bell' = FALSE
    /\ Unlatch /\ named' = FALSE
    /\ pendingSubagents' = 0
    /\ deferredDone' = FALSE
    /\ grace' = FALSE
    /\ state' = "busy"
    /\ NotFinished

----------------------------------------------------------------------------
(* The user, and the shell.                                                 *)

\* input(): a submitted line or a printable key.  A line ends a standing done; either
\* answers a standing red.
Input(submitted) ==
    /\ bell' = FALSE
    /\ IF submitted /\ state = "done"
       THEN /\ grace' = FALSE /\ state' = "idle"
            /\ NotFinished
            /\ UNCHANGED <<latched, bellLatchedFrom, named>>
       ELSE IF latched
       THEN /\ Unlatch /\ named' = FALSE /\ Apply("busy")
            /\ NotFinished
       ELSE UNCHANGED <<state, latched, bellLatchedFrom, grace, history>>
    /\ UNCHANGED <<pendingSubagents, deferredDone>>

\* OSC 133;C: never a pane's first state.
ShellCmdStart == state # "unknown" /\ NotifyBusy

\* Mutant: settling leaves the subagents counted.
MutSettle ==
    /\ state \in {"busy", "attention"}
    /\ deferredDone' = FALSE /\ Unlatch /\ named' = FALSE
    /\ state' = "idle" /\ NotFinished /\ UNCHANGED <<bell, grace, pendingSubagents>>

\* settle(): the shell is back at its prompt, or the turn died without a verdict.
\* A chime survives it.
Settle ==
    /\ state \in {"busy", "attention"}
    /\ pendingSubagents' = 0
    /\ deferredDone' = FALSE
    /\ Unlatch /\ named' = FALSE
    /\ Apply("idle")
    /\ NotFinished
    /\ UNCHANGED bell

GraceEnds == grace /\ grace' = FALSE
             /\ UNCHANGED <<state, latched, bellLatchedFrom, bell, pendingSubagents, deferredDone, history>>

Dispose == bell' = FALSE /\ UNCHANGED <<state, latched, bellLatchedFrom, signals, history>>

Next ==
    \/ Bell \/ BellRings \/ RaiseAttention \/ Notice
    \/ NotifyBusy \/ NotifyDone \/ NotifyIdle \/ IdlePrompt
    \/ SubagentStart \/ SubagentStop \/ TurnStart
    \/ \E submitted \in BOOLEAN : Input(submitted)
    \/ ShellCmdStart \/ Settle \/ GraceEnds \/ Dispose

Spec == Init /\ [][Next]_vars

----------------------------------------------------------------------------
\* The latch and the red are one thing, whatever was said in between: a pane is
\* latched exactly while it wears attention, and only a latched pane remembers
\* what a guess displaced.
LatchIsAttention ==
    /\ latched <=> state = "attention"
    /\ bellLatchedFrom # None => latched /\ bellLatchedFrom \notin {"attention", "done"}

\* A green pane is at rest: no subagent runs under it, no done is still owed, and no
\* chime is held that would turn it red.
GreenIsAtRest == state = "done" => pendingSubagents = 0 /\ ~deferredDone /\ ~bell

\* Green is earned: a pane turns green only on the main's own done of the turn that
\* is running, and with every subagent landed.
GreenIsEarned ==
    [][state # "done" /\ state' = "done" => finished' /\ pendingSubagents' = 0]_vars

\* A red that was raised by name is never taken back by a notification of an unknown
\* type: it takes a verdict, an answer or the end of the program.
NamedRedStays == named => state = "attention" /\ bellLatchedFrom = None

\* The pane is held busy, or blocked, while subagents run, unless a guess was
\* retracted under which they started.
HeldWhileSubagentsRun == pendingSubagents > 0 /\ ~restored => state \in {"busy", "attention"}

\* The main's done is deferred, not dropped: until something says it did not finish
\* after all, a pane that is not red still has it to redeem, unless a guess took it.
DoneIsNotForgotten == owed /\ ~restored /\ state # "attention" => deferredDone
============================================================================
