---------------------------- MODULE ReviewGate -----------------------------
(***************************************************************************)
(* No branch lands without a reviewer's sign-off on exactly what lands:    *)
(* `mogging approve` and the daemon's approvals (src/pty-daemon/           *)
(* transport.ts), the app's filter by the roles it has on record           *)
(* (src/main/daemon-relay.ts), and the steps of a merge (src/main/         *)
(* review.ts, src/backend/features/review/index.ts), between which agents  *)
(* commit, roles change and other merges run.                              *)
(*                                                                         *)
(* A commit is a number; one repository with one base branch, of whose     *)
(* head a sign-off's base, baseHead and mergeBase are the number.  How a   *)
(* role reaches the two records is in module PaneRoles; here it is a step. *)
(* A refused step of git (a conflict, a dirty repository, an unrenderable  *)
(* diff) ends a merge anywhere.                                            *)
(***************************************************************************)
EXTENDS Naturals, FiniteSets

CONSTANTS
    Pane,        \* pane slots
    Branch,      \* the agents' branches, one worktree each
    Merge,       \* merge requests
    MaxCommit,   \* bound on the commits of a branch
    MaxBase,     \* bound on the commits of the base
    None

ASSUME SizeAssumption == MaxCommit \in Nat \ {0} /\ MaxBase \in Nat

VARIABLES
    \* the repository
    head,         \* the head of each branch
    dirty,        \* branches whose worktree has uncommitted changes
    base,         \* the head of the base branch
    \* roles and sign-offs
    reviewers,    \* panes that are reviewers for the daemon
    appReviewers, \* panes that are reviewers for the app
    approvals,    \* the daemon's sign-off of each branch
    pushed,       \* an earlier list of them, pushed and perhaps still on its way to the app
    \* the merges
    stage,        \* how far each has come
    request,      \* its branch and whether the override was typed
    believed,     \* the sign-offs it was given
    snapshot,     \* what it read
    \* history
    raced,        \* merges after whose comparison the base moved
    landed        \* what was merged, on which snapshot and sign-offs, onto which commit

repository == <<head, dirty, base>>
signoffs   == <<reviewers, appReviewers, approvals, pushed>>
merges     == <<stage, request, believed, snapshot, raced, landed>>
vars       == <<repository, signoffs, merges>>

Commits  == 1 .. MaxCommit
Bases    == 0 .. MaxBase
Snapshot == [branch : Branch, head : Commits, base : Bases]
\* Of a sign-off, history is whether its pane was the app's reviewer when it signed, or
\* was not and its slot was made one while the sign-off stood.
Approval == [of : Snapshot, by : Pane, given : {"unnamed", "early", "named"}]

ASSUME NoneAssumption == None \notin Snapshot \cup Approval \cup [branch : Branch, override : BOOLEAN]

UnderWay(m) == stage[m] \notin {"idle", "over"}

\* A merge has its request while it is under way, its snapshot once it has read one.
InStep ==
    \A m \in Merge : /\ request[m] # None <=> UnderWay(m)
                     /\ snapshot[m] # None <=> stage[m] \in {"read", "checked"}

TypeOK ==
    /\ head \in [Branch -> Commits] /\ dirty \subseteq Branch /\ base \in Bases
    /\ reviewers \subseteq Pane /\ appReviewers \subseteq Pane
    /\ approvals \in [Branch -> Approval \cup {None}]
    /\ pushed \in [Branch -> Approval \cup {None}]
    /\ stage \in [Merge -> {"idle", "consulted", "read", "checked", "over"}]
    /\ request \in [Merge -> [branch : Branch, override : BOOLEAN] \cup {None}]
    /\ believed \in [Merge -> SUBSET Approval]
    /\ snapshot \in [Merge -> Snapshot \cup {None}]
    /\ InStep
    /\ landed \subseteq [of : Snapshot, head : Commits, onto : Bases, on : SUBSET Approval,
                     override : BOOLEAN, raced : BOOLEAN]
    /\ raced \subseteq Merge

Init ==
    /\ head = [b \in Branch |-> 1] /\ dirty = {} /\ base = 0
    /\ reviewers = {} /\ appReviewers = {} /\ approvals = [b \in Branch |-> None] /\ pushed = approvals
    /\ stage = [m \in Merge |-> "idle"] /\ request = [m \in Merge |-> None]
    /\ believed = [m \in Merge |-> {}] /\ snapshot = [m \in Merge |-> None]
    /\ raced = {} /\ landed = {}

Current(b) == [branch |-> b, head |-> head[b], base |-> base]

\* The base has a new head, whatever a merge has compared.
MoveBase ==
    /\ base < MaxBase /\ base' = base + 1
    /\ raced' = raced \cup {m \in Merge : stage[m] = "checked"}

----------------------------------------------------------------------------
(* The agents and the user.                                                 *)

Edit(b) ==
    /\ b \notin dirty /\ dirty' = dirty \cup {b}
    /\ UNCHANGED <<head, base, signoffs, merges>>

Commit(b) ==
    /\ b \in dirty /\ head[b] < MaxCommit
    /\ head' = [head EXCEPT ![b] = @ + 1] /\ dirty' = dirty \ {b}
    /\ UNCHANGED <<base, signoffs, merges>>

\* A commit to the base from outside.
BaseMoves ==
    /\ MoveBase
    /\ UNCHANGED <<head, dirty, signoffs, stage, request, believed, snapshot, landed>>

\* The user names a pane reviewer (terminal:setRole); the daemon's answer comes after
\* what it has pushed before.  From now on the filter passes what stands of the slot's
\* sign-offs, also what the pane, or one before it, gave on a role of its own making.
NameReviewer(p) ==
    /\ appReviewers' = appReviewers \cup {p} /\ reviewers' = reviewers \cup {p}
    /\ approvals' = [b \in Branch |->
                        IF approvals[b] # None /\ approvals[b].by = p /\ approvals[b].given = "unnamed"
                        THEN [approvals[b] EXCEPT !.given = "early"] ELSE approvals[b]]
    /\ pushed' = approvals'
    /\ UNCHANGED <<repository, merges>>

\* `mogging role` writes the daemon's record only.
SetDaemonRole(p) ==
    /\ reviewers' = reviewers \cup {p}
    /\ UNCHANGED <<appReviewers, approvals, pushed, repository, merges>>

\* The pane's shell exits: only the daemon forgets.
Exit(p) ==
    /\ p \in reviewers /\ reviewers' = reviewers \ {p}
    /\ UNCHANGED <<appReviewers, approvals, pushed, repository, merges>>

\* The pane is closed; its slot is free for another.
Close(p) ==
    /\ p \in reviewers \cup appReviewers
    /\ reviewers' = reviewers \ {p} /\ appReviewers' = appReviewers \ {p}
    /\ UNCHANGED <<approvals, pushed, repository, merges>>

\* Every change is pushed to the app; a list pushed before may be on its way still.
Pushes == pushed' \in {pushed, approvals}

\* `mogging approve`: the snapshot is taken by the CLI, which may be a moment before
\* the daemon has it.
Approve(p, of) ==
    /\ p \in reviewers
    /\ of.head <= head[of.branch] /\ of.base <= base
    /\ approvals' = [approvals EXCEPT ![of.branch] =
                        [of |-> of, by |-> p, given |-> IF p \in appReviewers THEN "named" ELSE "unnamed"]]
    /\ Pushes
    /\ UNCHANGED <<reviewers, appReviewers, repository, merges>>

\* The branch's worktree was removed.
Unapprove(b) ==
    /\ approvals[b] # None
    /\ approvals' = [approvals EXCEPT ![b] = None]
    /\ Pushes
    /\ UNCHANGED <<reviewers, appReviewers, repository, merges>>

----------------------------------------------------------------------------
(* A merge, step by step.                                                   *)

\* Mutant: every reviewer of the daemon is believed.
MutAuthoritative(list) == {list[b] : b \in {x \in Branch : list[x] # None}}

AuthoritativeApprovals(list) ==
    {list[b] : b \in {x \in Branch : list[x] # None /\ list[x].by \in appReviewers}}

\* getAuthoritativeApprovals(): the list that comes next answers, be it the daemon's
\* answer or one pushed before the question; nothing when the daemon does not answer.
Consult(m, b, override) ==
    /\ stage[m] = "idle"
    /\ stage' = [stage EXCEPT ![m] = "consulted"]
    /\ request' = [request EXCEPT ![m] = [branch |-> b, override |-> override]]
    /\ \/ \E list \in {approvals, pushed} :
             believed' = [believed EXCEPT ![m] = AuthoritativeApprovals(list)]
       \/ believed' = [believed EXCEPT ![m] = {}]
    /\ UNCHANGED <<snapshot, raced, landed, repository, signoffs>>

\* Mutant: a sign-off of the branch is enough.
MutMatches(a, s) == a.of.branch = s.branch

ApprovalMatchesSnapshot(a, s) == a.of = s

\* diffWorktree() and the gate: a clean worktree, and a sign-off of exactly this
\* snapshot or the typed override.
Read(m) ==
    /\ stage[m] = "consulted"
    /\ LET s == Current(request[m].branch) IN
        /\ request[m].branch \notin dirty
        /\ request[m].override \/ \E a \in believed[m] : ApprovalMatchesSnapshot(a, s)
        /\ snapshot' = [snapshot EXCEPT ![m] = s]
    /\ stage' = [stage EXCEPT ![m] = "read"]
    /\ UNCHANGED <<request, believed, raced, landed, repository, signoffs>>

\* Mutant: only the branch is compared.
MutCheck(m) ==
    /\ stage[m] = "read"
    /\ snapshot[m].head = head[request[m].branch]
    /\ stage' = [stage EXCEPT ![m] = "checked"]
    /\ UNCHANGED <<request, believed, snapshot, raced, landed, repository, signoffs>>

\* mergeBranch(): neither the branch nor the base has moved.
Check(m) ==
    /\ stage[m] = "read"
    /\ snapshot[m] = Current(request[m].branch)
    /\ stage' = [stage EXCEPT ![m] = "checked"]
    /\ UNCHANGED <<request, believed, snapshot, raced, landed, repository, signoffs>>

\* The request is answered.
Over(m) ==
    /\ stage' = [stage EXCEPT ![m] = "over"]
    /\ request' = [request EXCEPT ![m] = None]
    /\ believed' = [believed EXCEPT ![m] = {}]
    /\ snapshot' = [snapshot EXCEPT ![m] = None]

\* Mutant: the branch is merged by its name.
MutMerged(m) == head[request[m].branch]

Merged(m) == snapshot[m].head

\* git merge of the snapshot's commit, into whatever the base is now.
Land(m) ==
    /\ stage[m] = "checked"
    /\ MoveBase
    /\ landed' = landed \cup {[of |-> snapshot[m], head |-> Merged(m), onto |-> base, on |-> believed[m],
                               override |-> request[m].override, raced |-> m \in raced]}
    /\ Over(m)
    /\ UNCHANGED <<head, dirty, signoffs>>

\* Refused, stale, conflicting or failed.
Refuse(m) ==
    /\ UnderWay(m)
    /\ Over(m)
    /\ UNCHANGED <<raced, landed, repository, signoffs>>

Next ==
    \/ \E b \in Branch : Edit(b) \/ Commit(b) \/ Unapprove(b)
    \/ BaseMoves
    \/ \E p \in Pane : NameReviewer(p) \/ SetDaemonRole(p) \/ Exit(p) \/ Close(p)
    \/ \E p \in Pane, of \in Snapshot : Approve(p, of)
    \/ \E m \in Merge, b \in Branch, override \in BOOLEAN : Consult(m, b, override)
    \/ \E m \in Merge : Read(m) \/ Check(m) \/ Land(m) \/ Refuse(m)

Spec == Init /\ [][Next]_vars

----------------------------------------------------------------------------
\* What lands without the override lands on a sign-off of exactly it, for the base it was
\* read against, by a pane that the user had made a reviewer before it signed - or, the
\* exempt case, whose slot was made one while the sign-off stood: whatever was committed,
\* named, closed or merged between the steps of the merge.
OnlySignedWorkLands ==
    \A l \in landed : l.override \/ \E a \in l.on : /\ a.of = [l.of EXCEPT !.head = l.head]
                                                   /\ a.given # "unnamed"

\* What lands, lands on the base it was reviewed against, unless the base moved in the
\* moment between mergeBranch's comparison and its git merge.
LandsOnReviewedBase == \A l \in landed : l.onto = l.of.base \/ l.raced
============================================================================
