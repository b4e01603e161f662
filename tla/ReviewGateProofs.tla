------------------------- MODULE ReviewGateProofs --------------------------
(***************************************************************************)
(* Theorems about ReviewGate for any panes, branches and merges, and about *)
(* PaneRoles, whose record the gate reads, for any slots and calls.        *)
(*                                                                         *)
(* What a merge carries from one step to the next (the sign-offs it was    *)
(* given, the snapshot it read) stays good although everything it was read *)
(* from may have changed, because a sign-off names commits.                *)
(*                                                                         *)
(* A role is right by what is under way: for each slot, what the two       *)
(* queues hold of its spawns, kills and set-roles makes up for what the    *)
(* two records do not agree on.                                            *)
(***************************************************************************)
EXTENDS ReviewGate, PaneRoles, FiniteSetTheorems, SequenceTheorems, TLAPS

----------------------------------------------------------------------------
(* Types.                                                                   *)

LEMMA CurrentIsSnapshot ==
  ASSUME TypeOK, NEW b \in Branch
  PROVE  Current(b) \in Snapshot /\ Current(b) # None
BY NoneAssumption DEF TypeOK, Current, Snapshot, Commits, Bases

LEMMA RequestIsThere ==
  ASSUME TypeOK, NEW m \in Merge, UnderWay(m)
  PROVE  request[m] \in [branch : Branch, override : BOOLEAN]
BY DEF TypeOK, InStep

LEMMA SnapshotIsThere ==
  ASSUME TypeOK, NEW m \in Merge, stage[m] \in {"read", "checked"}
  PROVE  snapshot[m] \in Snapshot
BY DEF TypeOK, InStep

LEMMA InitTypes == Init => TypeOK
<1> SUFFICES ASSUME Init PROVE TypeOK
  OBVIOUS
<1>1. 0 \in Bases /\ 1 \in Commits
  BY SizeAssumption DEF Commits, Bases
<1>2. landed = {}
  BY DEF Init
<1> QED
  BY <1>1, <1>2 DEF Init, TypeOK, InStep, UnderWay

LEMMA NextTypes == TypeOK /\ [Next]_vars => TypeOK'
<1> SUFFICES ASSUME TypeOK, [Next]_vars PROVE TypeOK'
  OBVIOUS
<1> USE DEF repository, signoffs, merges
<1>1. ASSUME NEW b \in Branch, Edit(b) \/ Commit(b) \/ Unapprove(b) PROVE TypeOK'
  <2>1. CASE Edit(b)
    BY <2>1 DEF Edit, TypeOK, InStep, UnderWay
  <2>2. CASE Commit(b)
    <3>1. head[b] + 1 \in Commits
      BY <2>2, SizeAssumption DEF Commit, TypeOK, Commits, UnderWay
    <3> QED
      BY <2>2, <3>1 DEF Commit, TypeOK, InStep, UnderWay
  <2>3. CASE Unapprove(b)
    BY <2>3 DEF Unapprove, Pushes, TypeOK, InStep, UnderWay
  <2> QED
    BY <1>1, <2>1, <2>2, <2>3
<1>2. CASE BaseMoves
  <2>1. base + 1 \in Bases
    BY <1>2, SizeAssumption DEF BaseMoves, MoveBase, TypeOK, InStep, UnderWay, Bases
  <2> QED
    BY <1>2, <2>1 DEF BaseMoves, MoveBase, TypeOK, InStep, UnderWay
<1>3. ASSUME NEW p \in Pane, NameReviewer(p) \/ SetDaemonRole(p) \/ Exit(p) \/ Close(p)
      PROVE  TypeOK'
  <2>1. CASE NameReviewer(p)
    <3>1. ASSUME NEW b \in Branch, approvals[b] # None
          PROVE  [approvals[b] EXCEPT !.given = "early"] \in Approval
      BY <3>1 DEF TypeOK, Approval
    <3>2. approvals' \in [Branch -> Approval \cup {None}] /\ pushed' = approvals'
      BY <2>1, <3>1 DEF NameReviewer, TypeOK
    <3>3. /\ UNCHANGED <<repository, merges>>
          /\ appReviewers' = appReviewers \cup {p} /\ reviewers' = reviewers \cup {p}
      BY <2>1 DEF NameReviewer
    <3> QED
      BY <3>2, <3>3 DEF TypeOK, InStep, UnderWay
  <2>2. CASE SetDaemonRole(p) \/ Exit(p) \/ Close(p)
    BY <2>2 DEF SetDaemonRole, Exit, Close, TypeOK, InStep, UnderWay
  <2> QED
    BY <1>3, <2>1, <2>2
<1>4. ASSUME NEW p \in Pane, NEW of \in Snapshot, Approve(p, of) PROVE TypeOK'
  <2>1. /\ of.branch \in Branch
        /\ [of |-> of, by |-> p, given |-> IF p \in appReviewers THEN "named" ELSE "unnamed"] \in Approval
    BY DEF Approval, Snapshot
  <2> QED
    BY <1>4, <2>1 DEF Approve, Pushes, TypeOK, InStep, UnderWay
<1>5. ASSUME NEW m \in Merge, NEW b \in Branch, NEW override \in BOOLEAN,
             Consult(m, b, override)
      PROVE  TypeOK'
  <2>1. \A list \in {approvals, pushed} : AuthoritativeApprovals(list) \in SUBSET Approval
    BY DEF TypeOK, AuthoritativeApprovals
  <2>2. /\ [branch |-> b, override |-> override] \in [branch : Branch, override : BOOLEAN]
        /\ [branch |-> b, override |-> override] # None
    BY NoneAssumption
  <2>3. believed' \in [Merge -> SUBSET Approval]
    BY <1>5, <2>1 DEF Consult, TypeOK
  <2>4. /\ stage' \in [Merge -> {"idle", "consulted", "read", "checked", "over"}]
        /\ request' \in [Merge -> [branch : Branch, override : BOOLEAN] \cup {None}]
    BY <1>5, <2>2 DEF Consult, TypeOK
  <2>5. InStep'
    <3>1. /\ stage' = [stage EXCEPT ![m] = "consulted"] /\ UNCHANGED snapshot
          /\ request' = [request EXCEPT ![m] = [branch |-> b, override |-> override]]
          /\ stage[m] = "idle"
      BY <1>5 DEF Consult
    <3> QED
      BY <2>2, <3>1 DEF InStep, TypeOK, UnderWay
  <2>6. UNCHANGED <<snapshot, raced, landed, repository, signoffs>>
    BY <1>5 DEF Consult
  <2> QED
    BY <2>3, <2>4, <2>5, <2>6 DEF TypeOK
<1>6. ASSUME NEW m \in Merge, Read(m) \/ Check(m) \/ Land(m) \/ Refuse(m) PROVE TypeOK'
  <2>1. CASE Read(m)
    <3>1. request[m] \in [branch : Branch, override : BOOLEAN] /\ stage[m] = "consulted"
      BY <2>1, RequestIsThere DEF Read, UnderWay
    <3>2. request[m].branch \in Branch
      BY <3>1
    <3>3. Current(request[m].branch) \in Snapshot /\ Current(request[m].branch) # None
      BY <3>2, CurrentIsSnapshot
    <3>4. /\ snapshot' = [snapshot EXCEPT ![m] = Current(request[m].branch)]
          /\ stage' = [stage EXCEPT ![m] = "read"]
          /\ UNCHANGED <<request, believed, raced, landed, repository, signoffs>>
      BY <2>1 DEF Read
    <3> QED
      BY <3>1, <3>3, <3>4 DEF TypeOK, InStep, UnderWay
  <2>2. CASE Check(m)
    BY <2>2 DEF Check, TypeOK, InStep, UnderWay
  <2>3. CASE Land(m)
    <3>1. base + 1 \in Bases
      BY <2>3, SizeAssumption DEF Land, MoveBase, TypeOK, Bases
    <3>2. snapshot[m] \in Snapshot /\ request[m] \in [branch : Branch, override : BOOLEAN]
      BY <2>3, RequestIsThere, SnapshotIsThere DEF Land, UnderWay
    <3>3. [of |-> snapshot[m], head |-> Merged(m), onto |-> base, on |-> believed[m],
           override |-> request[m].override, raced |-> m \in raced]
            \in [of : Snapshot, head : Commits, onto : Bases, on : SUBSET Approval,
                override : BOOLEAN, raced : BOOLEAN]
      BY <3>2 DEF TypeOK, Merged, Snapshot
    <3> QED
      BY <2>3, <3>1, <3>3 DEF Land, MoveBase, Over, TypeOK, InStep, UnderWay
  <2>4. CASE Refuse(m)
    BY <2>4 DEF Refuse, Over, TypeOK, InStep, UnderWay
  <2> QED
    BY <1>6, <2>1, <2>2, <2>3, <2>4
<1>7. CASE UNCHANGED vars
  BY <1>7 DEF vars, TypeOK, InStep, UnderWay
<1> QED
  BY <1>1, <1>2, <1>3, <1>4, <1>5, <1>6, <1>7 DEF Next

\* The daemon's and the app's records and every merge keep their shape; a merge has a
\* snapshot exactly while it is read and checked.
THEOREM TypeCorrect == Spec => []TypeOK
BY InitTypes, NextTypes, PTL DEF Spec

----------------------------------------------------------------------------
(* The gate.  A sign-off that passes the app's filter is by a pane that was    *)
(* named, before it signed or since; a merge keeps those it was given, and one *)
(* of them names the snapshot it let through.                                  *)

Known(a) == a.given # "unnamed"

SignoffsKnown ==
    \A b \in Branch :
        /\ approvals[b] # None /\ approvals[b].by \in appReviewers => Known(approvals[b])
        /\ pushed[b] # None /\ pushed[b].by \in appReviewers => Known(pushed[b])

BelievedKnown == \A m \in Merge : \A a \in believed[m] : Known(a)

SnapshotsMatched ==
    \A m \in Merge :
        snapshot[m] # None => \/ request[m].override
                              \/ \E a \in believed[m] : a.of = snapshot[m]

LandedMatched ==
    \A l \in landed : /\ l.head = l.of.head
                      /\ l.override \/ \E a \in l.on : a.of = l.of /\ Known(a)

GateInv ==
    /\ TypeOK
    /\ SignoffsKnown
    /\ BelievedKnown
    /\ SnapshotsMatched
    /\ LandedMatched

LEMMA InitGate == Init => GateInv
<1> SUFFICES ASSUME Init PROVE GateInv
  OBVIOUS
<1>1. TypeOK
  BY InitTypes
<1>2. SignoffsKnown /\ BelievedKnown /\ SnapshotsMatched /\ LandedMatched
  BY DEF Init, SignoffsKnown, BelievedKnown, SnapshotsMatched, LandedMatched
<1> QED
  BY <1>1, <1>2 DEF GateInv

\* A step that leaves the merges alone keeps what they carry.
LEMMA MergesCarryOn ==
  ASSUME GateInv, UNCHANGED <<request, believed, snapshot, landed>>
  PROVE  BelievedKnown' /\ SnapshotsMatched' /\ LandedMatched'
BY DEF GateInv, BelievedKnown, SnapshotsMatched, LandedMatched

\* Naming a slot makes its standing sign-offs early ones, and pushes them.
LEMMA NameKeepsGate ==
  ASSUME GateInv, NEW p \in Pane, NameReviewer(p)
  PROVE  SignoffsKnown'
<1>1. /\ approvals \in [Branch -> Approval \cup {None}] /\ appReviewers' = appReviewers \cup {p}
      /\ pushed' = approvals'
  BY DEF GateInv, TypeOK, NameReviewer
<1> SUFFICES ASSUME NEW b \in Branch, approvals'[b] # None, approvals'[b].by \in appReviewers'
             PROVE  Known(approvals'[b])
  BY <1>1 DEF SignoffsKnown
<1>2. CASE approvals[b] # None /\ approvals[b].by = p /\ approvals[b].given = "unnamed"
  <2>1. approvals'[b] = [approvals[b] EXCEPT !.given = "early"] /\ approvals[b] \in Approval
    BY <1>1, <1>2 DEF NameReviewer
  <2> QED
    BY <2>1 DEF Known, Approval
<1>3. CASE ~(approvals[b] # None /\ approvals[b].by = p /\ approvals[b].given = "unnamed")
  <2>1. approvals'[b] = approvals[b]
    BY <1>3 DEF NameReviewer
  <2> QED
    BY <1>1, <1>3, <2>1 DEF GateInv, SignoffsKnown, Known
<1> QED
  BY <1>2, <1>3

LEMMA ApproveKeepsGate ==
  ASSUME GateInv, NEW p \in Pane, NEW of \in Snapshot, Approve(p, of)
  PROVE  SignoffsKnown'
<1>0. \A x \in Branch : pushed'[x] # None /\ pushed'[x].by \in appReviewers' => Known(pushed'[x])
  BY DEF Approve, Pushes, GateInv, SignoffsKnown
<1> SUFFICES ASSUME NEW b \in Branch, approvals'[b] # None, approvals'[b].by \in appReviewers'
             PROVE  Known(approvals'[b])
  BY <1>0 DEF SignoffsKnown
<1>1. approvals \in [Branch -> Approval \cup {None}] /\ appReviewers' = appReviewers
  BY DEF GateInv, TypeOK, Approve
<1>2. CASE b = of.branch
  <2>1. approvals'[b] = [of |-> of, by |-> p, given |-> IF p \in appReviewers THEN "named" ELSE "unnamed"]
    BY <1>1, <1>2 DEF Approve
  <2>2. p \in appReviewers
    BY <1>1, <2>1
  <2> QED
    BY <2>1, <2>2 DEF Known
<1>3. CASE b # of.branch
  <2>1. approvals'[b] = approvals[b]
    BY <1>1, <1>3 DEF Approve
  <2> QED
    BY <1>1, <2>1 DEF GateInv, SignoffsKnown
<1> QED
  BY <1>2, <1>3

LEMMA UnapproveKeepsGate ==
  ASSUME GateInv, NEW b \in Branch, Unapprove(b)
  PROVE  SignoffsKnown'
<1>0. \A x \in Branch : pushed'[x] # None /\ pushed'[x].by \in appReviewers' => Known(pushed'[x])
  BY DEF Unapprove, Pushes, GateInv, SignoffsKnown
<1> SUFFICES ASSUME NEW x \in Branch, approvals'[x] # None, approvals'[x].by \in appReviewers'
             PROVE  Known(approvals'[x])
  BY <1>0 DEF SignoffsKnown
<1>1. approvals \in [Branch -> Approval \cup {None}]
  BY DEF GateInv, TypeOK
<1>2. approvals'[x] = approvals[x]
  BY <1>1 DEF Unapprove
<1> QED
  BY <1>2 DEF GateInv, SignoffsKnown, Unapprove

LEMMA ConsultKeepsGate ==
  ASSUME GateInv, NEW m \in Merge, NEW b \in Branch, NEW override \in BOOLEAN,
         Consult(m, b, override)
  PROVE  SignoffsKnown' /\ BelievedKnown' /\ SnapshotsMatched' /\ LandedMatched'
<1>1. UNCHANGED <<snapshot, landed, approvals, pushed, appReviewers>>
  BY DEF Consult, signoffs
<1>2. SignoffsKnown' /\ LandedMatched'
  BY <1>1 DEF GateInv, SignoffsKnown, LandedMatched
<1>3. \A list \in {approvals, pushed} : \A a \in AuthoritativeApprovals(list) : Known(a)
  BY DEF GateInv, SignoffsKnown, AuthoritativeApprovals
<1>4. BelievedKnown'
  BY <1>1, <1>3 DEF GateInv, TypeOK, BelievedKnown, Consult
<1>5. snapshot[m] = None
  BY DEF Consult, GateInv, TypeOK, InStep
<1>6. \A k \in Merge \ {m} : request'[k] = request[k] /\ believed'[k] = believed[k]
  BY DEF Consult, GateInv, TypeOK
<1>7. SnapshotsMatched'
  BY <1>1, <1>5, <1>6 DEF GateInv, SnapshotsMatched
<1> QED
  BY <1>2, <1>4, <1>7

LEMMA ReadKeepsGate ==
  ASSUME GateInv, NEW m \in Merge, Read(m)
  PROVE  SignoffsKnown' /\ BelievedKnown' /\ SnapshotsMatched' /\ LandedMatched'
<1>1. UNCHANGED <<request, believed, landed, approvals, pushed, appReviewers>>
  BY DEF Read, signoffs
<1>2. SignoffsKnown' /\ BelievedKnown' /\ LandedMatched'
  BY <1>1 DEF GateInv, SignoffsKnown, BelievedKnown, LandedMatched
<1>3. request[m].override \/ \E a \in believed[m] : a.of = Current(request[m].branch)
  BY DEF Read, ApprovalMatchesSnapshot
<1>4. SnapshotsMatched'
  BY <1>1, <1>3 DEF Read, GateInv, TypeOK, SnapshotsMatched
<1> QED
  BY <1>2, <1>4

\* An answered request leaves the others as they were.
LEMMA OverKeepsGate ==
  ASSUME GateInv, NEW m \in Merge, Over(m), UNCHANGED signoffs
  PROVE  SignoffsKnown' /\ BelievedKnown' /\ SnapshotsMatched'
<1>1. SignoffsKnown'
  BY DEF GateInv, SignoffsKnown, signoffs
<1>2. BelievedKnown'
  BY DEF Over, signoffs, GateInv, TypeOK, BelievedKnown
<1>3. SnapshotsMatched'
  BY DEF Over, signoffs, GateInv, TypeOK, SnapshotsMatched
<1> QED
  BY <1>1, <1>2, <1>3

LEMMA LandKeepsGate ==
  ASSUME GateInv, NEW m \in Merge, Land(m)
  PROVE  LandedMatched'
<1>1. snapshot[m] # None
  BY DEF Land, GateInv, TypeOK, InStep
<1>2. request[m].override \/ \E a \in believed[m] : a.of = snapshot[m] /\ Known(a)
  BY <1>1 DEF GateInv, SnapshotsMatched, BelievedKnown
<1> SUFFICES ASSUME NEW l \in landed'
             PROVE  /\ l.head = l.of.head
                    /\ l.override \/ \E a \in l.on : a.of = l.of /\ Known(a)
  BY DEF LandedMatched
<1>3. landed' = landed \cup {[of |-> snapshot[m], head |-> Merged(m), onto |-> base, on |-> believed[m],
                             override |-> request[m].override, raced |-> m \in raced]}
  BY DEF Land
<1>4. CASE l \in landed
  BY <1>4 DEF GateInv, LandedMatched
<1>5. CASE l \notin landed
  <2>1. l = [of |-> snapshot[m], head |-> Merged(m), onto |-> base, on |-> believed[m],
             override |-> request[m].override, raced |-> m \in raced]
    BY <1>3, <1>5
  <2>2. /\ l.of = snapshot[m] /\ l.head = snapshot[m].head /\ l.on = believed[m]
        /\ l.override = request[m].override
    BY <2>1 DEF Merged
  <2> QED
    BY <1>2, <2>2
<1> QED
  BY <1>4, <1>5

LEMMA NextGate == GateInv /\ [Next]_vars => GateInv'
<1> SUFFICES ASSUME GateInv, [Next]_vars PROVE GateInv'
  OBVIOUS
<1> USE DEF repository, signoffs, merges
<1>1. TypeOK'
  BY NextTypes DEF GateInv
<1>2. ASSUME NEW b \in Branch, Edit(b) \/ Commit(b) \/ Unapprove(b)
      PROVE  SignoffsKnown' /\ BelievedKnown' /\ SnapshotsMatched' /\ LandedMatched'
  <2>1. UNCHANGED merges
    BY <1>2 DEF Edit, Commit, Unapprove
  <2>2. SignoffsKnown'
    BY <1>2, UnapproveKeepsGate DEF Edit, Commit, GateInv, SignoffsKnown
  <2> QED
    BY <2>1, <2>2, MergesCarryOn
<1>3. ASSUME BaseMoves
      PROVE  SignoffsKnown' /\ BelievedKnown' /\ SnapshotsMatched' /\ LandedMatched'
  BY <1>3, MergesCarryOn DEF BaseMoves, GateInv, SignoffsKnown
<1>4. ASSUME NEW p \in Pane, NameReviewer(p) \/ SetDaemonRole(p) \/ Exit(p) \/ Close(p)
      PROVE  SignoffsKnown' /\ BelievedKnown' /\ SnapshotsMatched' /\ LandedMatched'
  <2>1. UNCHANGED merges
    BY <1>4 DEF NameReviewer, SetDaemonRole, Exit, Close
  <2>2. CASE NameReviewer(p)
    BY <2>1, <2>2, MergesCarryOn, NameKeepsGate
  <2>3. CASE SetDaemonRole(p) \/ Exit(p) \/ Close(p)
    BY <2>1, <2>3, MergesCarryOn DEF SetDaemonRole, Exit, Close, GateInv, SignoffsKnown
  <2> QED
    BY <1>4, <2>2, <2>3
<1>5. ASSUME NEW p \in Pane, NEW of \in Snapshot, Approve(p, of)
      PROVE  SignoffsKnown' /\ BelievedKnown' /\ SnapshotsMatched' /\ LandedMatched'
  BY <1>5, ApproveKeepsGate, MergesCarryOn DEF Approve
<1>6. ASSUME NEW m \in Merge, Read(m) \/ Check(m) \/ Land(m) \/ Refuse(m)
      PROVE  SignoffsKnown' /\ BelievedKnown' /\ SnapshotsMatched' /\ LandedMatched'
  <2>1. CASE Read(m)
    BY <2>1, ReadKeepsGate
  <2>2. CASE Check(m)
    BY <2>2 DEF Check, GateInv, SignoffsKnown, BelievedKnown, SnapshotsMatched, LandedMatched
  <2>3. CASE Land(m)
    BY <2>3, LandKeepsGate, OverKeepsGate DEF Land
  <2>4. CASE Refuse(m)
    BY <2>4, OverKeepsGate DEF Refuse, GateInv, LandedMatched
  <2> QED
    BY <1>6, <2>1, <2>2, <2>3, <2>4
<1>7. ASSUME UNCHANGED vars
      PROVE  SignoffsKnown' /\ BelievedKnown' /\ SnapshotsMatched' /\ LandedMatched'
  BY <1>7 DEF vars, GateInv, SignoffsKnown, BelievedKnown, SnapshotsMatched, LandedMatched
<1> QED
  BY <1>1, <1>2, <1>3, <1>4, <1>5, <1>6, <1>7, ConsultKeepsGate DEF Next, GateInv

LEMMA GateImplies == GateInv => OnlySignedWorkLands
<1> SUFFICES ASSUME GateInv, NEW l \in landed
             PROVE  l.override \/ \E a \in l.on : /\ a.of = [l.of EXCEPT !.head = l.head]
                                                  /\ a.given # "unnamed"
  BY DEF OnlySignedWorkLands
<1>1. l.of \in Snapshot /\ l.head = l.of.head
  BY DEF GateInv, TypeOK, LandedMatched
<1>2. [l.of EXCEPT !.head = l.head] = l.of
  BY <1>1 DEF Snapshot
<1> QED
  BY <1>2 DEF GateInv, LandedMatched, Known

\* Nothing lands without the override that was not signed, as it is, by a pane the user
\* has named a reviewer - before it signed, or, the exempt case, while the sign-off
\* stood: whatever commits, roles and merges do between the steps of a merge (review.ts,
\* mergeReviewedWorktree).
THEOREM OnlySignedTheorem == Spec => []OnlySignedWorkLands
<1>1. Init => GateInv
  BY InitGate
<1>2. GateInv /\ [Next]_vars => GateInv'
  BY NextGate
<1> QED
  BY <1>1, <1>2, GateImplies, PTL DEF Spec

----------------------------------------------------------------------------
(* The base.  From its comparison to its git merge, a merge that nothing raced *)
(* has the base it compared.                                                   *)

CheckedIsCurrent ==
    \A m \in Merge : stage[m] = "checked" /\ m \notin raced => snapshot[m].base = base

BaseInv == TypeOK /\ CheckedIsCurrent /\ LandsOnReviewedBase

LEMMA InitBase == Init => BaseInv
<1> SUFFICES ASSUME Init PROVE BaseInv
  OBVIOUS
<1>1. TypeOK
  BY InitTypes
<1> QED
  BY <1>1 DEF Init, BaseInv, CheckedIsCurrent, LandsOnReviewedBase

\* A step outside the merges and the base leaves both facts alone.
LEMMA BaseAlone ==
  ASSUME BaseInv, UNCHANGED <<base, merges>>
  PROVE  CheckedIsCurrent' /\ LandsOnReviewedBase'
BY DEF BaseInv, merges, CheckedIsCurrent, LandsOnReviewedBase

\* Nor does a merge that is not being checked.
LEMMA BaseUnchecked ==
  ASSUME BaseInv, NEW m \in Merge, UNCHANGED <<base, raced, landed>>,
         NEW s \in {"consulted", "read", "over"}, stage' = [stage EXCEPT ![m] = s],
         \A k \in Merge \ {m} : snapshot'[k] = snapshot[k]
  PROVE  CheckedIsCurrent' /\ LandsOnReviewedBase'
<1>1. \A k \in Merge : stage'[k] = "checked" => k # m /\ stage[k] = "checked"
  BY DEF BaseInv, TypeOK
<1>2. CheckedIsCurrent'
  BY <1>1 DEF BaseInv, CheckedIsCurrent
<1> QED
  BY <1>2 DEF BaseInv, LandsOnReviewedBase

LEMMA CheckKeepsBase ==
  ASSUME BaseInv, NEW m \in Merge, Check(m)
  PROVE  CheckedIsCurrent' /\ LandsOnReviewedBase'
<1>1. /\ stage' = [stage EXCEPT ![m] = "checked"]
      /\ UNCHANGED <<snapshot, raced, landed, base>>
      /\ snapshot[m].base = base
  BY DEF Check, Current, repository
<1> QED
  BY <1>1 DEF BaseInv, TypeOK, CheckedIsCurrent, LandsOnReviewedBase

\* When the base moves, every merge that has compared it is raced.
LEMMA MoveRaces ==
  ASSUME BaseInv, MoveBase,
         \A k \in Merge : stage'[k] = "checked" => stage[k] = "checked"
  PROVE  CheckedIsCurrent'
BY DEF MoveBase, CheckedIsCurrent

LEMMA LandKeepsBase ==
  ASSUME BaseInv, NEW m \in Merge, Land(m)
  PROVE  CheckedIsCurrent' /\ LandsOnReviewedBase'
<1>1. /\ stage[m] = "checked" /\ stage' = [stage EXCEPT ![m] = "over"] /\ MoveBase
      /\ landed' = landed \cup {[of |-> snapshot[m], head |-> Merged(m), onto |-> base, on |-> believed[m],
                                 override |-> request[m].override, raced |-> m \in raced]}
  BY DEF Land, Over
<1>2. CheckedIsCurrent'
  BY <1>1, MoveRaces DEF BaseInv, TypeOK
<1>3. snapshot[m].base = base \/ m \in raced
  BY <1>1 DEF BaseInv, CheckedIsCurrent
<1>4. ASSUME NEW l \in landed' PROVE l.onto = l.of.base \/ l.raced
  <2>1. CASE l \in landed
    BY <2>1 DEF BaseInv, LandsOnReviewedBase
  <2>2. CASE l \notin landed
    <3>1. l = [of |-> snapshot[m], head |-> Merged(m), onto |-> base, on |-> believed[m],
               override |-> request[m].override, raced |-> m \in raced]
      BY <1>1, <2>2
    <3>2. l.onto = base /\ l.of.base = snapshot[m].base /\ l.raced = (m \in raced)
      BY <3>1
    <3> QED
      BY <1>3, <3>2
  <2> QED
    BY <2>1, <2>2
<1> QED
  BY <1>2, <1>4 DEF LandsOnReviewedBase

LEMMA NextBase == BaseInv /\ [Next]_vars => BaseInv'
<1> SUFFICES ASSUME BaseInv, [Next]_vars PROVE BaseInv'
  OBVIOUS
<1> USE DEF repository, signoffs, merges
<1>1. TypeOK'
  BY NextTypes DEF BaseInv
<1>2. ASSUME NEW b \in Branch, Edit(b) \/ Commit(b) \/ Unapprove(b)
      PROVE  CheckedIsCurrent' /\ LandsOnReviewedBase'
  BY <1>2, BaseAlone DEF Edit, Commit, Unapprove
<1>3. ASSUME BaseMoves
      PROVE  CheckedIsCurrent' /\ LandsOnReviewedBase'
  BY <1>3, MoveRaces DEF BaseMoves, BaseInv, LandsOnReviewedBase
<1>4. ASSUME NEW p \in Pane, NameReviewer(p) \/ SetDaemonRole(p) \/ Exit(p) \/ Close(p)
      PROVE  CheckedIsCurrent' /\ LandsOnReviewedBase'
  BY <1>4, BaseAlone DEF NameReviewer, SetDaemonRole, Exit, Close
<1>5. ASSUME NEW p \in Pane, NEW of \in Snapshot, Approve(p, of)
      PROVE  CheckedIsCurrent' /\ LandsOnReviewedBase'
  BY <1>5, BaseAlone DEF Approve
<1>6. ASSUME NEW m \in Merge, NEW b \in Branch, NEW override \in BOOLEAN,
             Consult(m, b, override)
      PROVE  CheckedIsCurrent' /\ LandsOnReviewedBase'
  BY <1>6, BaseUnchecked DEF Consult
<1>7. ASSUME NEW m \in Merge, Read(m) \/ Check(m) \/ Land(m) \/ Refuse(m)
      PROVE  CheckedIsCurrent' /\ LandsOnReviewedBase'
  <2>1. snapshot \in [Merge -> Snapshot \cup {None}]
    BY DEF BaseInv, TypeOK
  <2>2. CASE Read(m)
    BY <2>1, <2>2, BaseUnchecked DEF Read
  <2>3. CASE Check(m)
    BY <2>3, CheckKeepsBase
  <2>4. CASE Land(m)
    BY <2>4, LandKeepsBase
  <2>5. CASE Refuse(m)
    BY <2>1, <2>5, BaseUnchecked DEF Refuse, Over
  <2> QED
    BY <1>7, <2>2, <2>3, <2>4, <2>5
<1>8. ASSUME UNCHANGED vars
      PROVE  CheckedIsCurrent' /\ LandsOnReviewedBase'
  BY <1>8, BaseAlone DEF vars
<1> QED
  BY <1>1, <1>2, <1>3, <1>4, <1>5, <1>6, <1>7, <1>8 DEF Next, BaseInv

\* A branch lands on the base it was reviewed against, however many merges are under
\* way, unless the base moved between the comparison and git merge (review/index.ts,
\* mergeBranch).
THEOREM ReviewedBaseTheorem == Spec => []LandsOnReviewedBase
<1>1. Init => BaseInv
  BY InitBase
<1>2. BaseInv /\ [Next]_vars => BaseInv'
  BY NextBase
<1>3. BaseInv => LandsOnReviewedBase
  BY DEF BaseInv
<1> QED
  BY <1>1, <1>2, <1>3, PTL DEF Spec

----------------------------------------------------------------------------
(* Roles: types.                                                            *)

Live(c) == phase[c] \in {"sent", "pause"}

Command == [t : {"spawn", "replay", "kill"}, pane : Slot] \cup [t : {"set-role"}, pane : Slot, call : Call]
Answer  == [t : {"spawned", "error", "exit", "stale exit"}, pane : Slot]
               \cup [t : {"role-set"}, pane : Slot, ok : BOOLEAN, call : Call]

RoleTypes ==
    /\ open \subseteq Slot /\ named \subseteq Slot /\ dead \subseteq Slot /\ opened \in Nat
    /\ specs \subseteq open /\ appRoles \subseteq Slot
    /\ phase \in [Call -> {"idle", "sent", "pause", "done"}]
    /\ kind \in [Call -> {"setRole", "replay"}]
    /\ target \in [Call -> Slot \cup {NoSlot}] /\ tries \in [Call -> Nat]
    /\ waiters \in [Slot -> Seq(Call)]
    /\ toD \in Seq(Command) /\ toA \in Seq(Answer)
    /\ boots \in Nat /\ sessions \subseteq Slot /\ roles \subseteq sessions
    /\ orphaned \subseteq Slot /\ unsure \subseteq Slot /\ unbound \subseteq Slot

\* A call under way has a slot, and those that wait for its answer are in line once.
CallsWait ==
    /\ \A c \in Call : Live(c) => target[c] \in Slot
    /\ \A p \in Slot : \A i, j \in DOMAIN waiters[p] :
         /\ phase[waiters[p][i]] = "sent" /\ target[waiters[p][i]] = p
         /\ waiters[p][i] = waiters[p][j] => i = j

\* Reading a queue drops its first element, and the rest moves up.
LEMMA TailAt ==
  ASSUME NEW S, NEW s \in Seq(S), s # <<>>
  PROVE  /\ Tail(s) \in Seq(S) /\ Head(s) = s[1] /\ Head(s) \in S
         /\ 1 \in DOMAIN s
         /\ \A i \in DOMAIN Tail(s) : i \in Nat /\ i + 1 \in DOMAIN s /\ Tail(s)[i] = s[i + 1]
         /\ \A i \in DOMAIN s : i \in Nat /\ (i = 1 \/ (i - 1 \in DOMAIN Tail(s) /\ Tail(s)[i - 1] = s[i]))
<1>1. /\ Head(s) \in S /\ Tail(s) \in Seq(S) /\ Len(Tail(s)) = Len(s) - 1
      /\ \A i \in 1 .. Len(Tail(s)) : Tail(s)[i] = s[i + 1]
  BY HeadTailProperties
<1>2. Len(s) \in Nat \ {0} /\ DOMAIN s = 1 .. Len(s) /\ DOMAIN Tail(s) = 1 .. Len(Tail(s))
  BY <1>1, EmptySeq, LenProperties
<1>3. Head(s) = s[1]
  OBVIOUS
<1> QED
  BY <1>1, <1>2, <1>3

\* Writing to one adds an element behind the others.
LEMMA AppendAt ==
  ASSUME NEW S, NEW s \in Seq(S), NEW e \in S
  PROVE  /\ Append(s, e) \in Seq(S)
         /\ \A i \in DOMAIN s : i \in DOMAIN Append(s, e) /\ Append(s, e)[i] = s[i] /\ i < Len(s) + 1
         /\ \A i \in DOMAIN Append(s, e) : i \in Nat /\ (i \in DOMAIN s \/ i = Len(s) + 1)
         /\ Len(s) + 1 \in DOMAIN Append(s, e) /\ Append(s, e)[Len(s) + 1] = e
         /\ Len(s) \in Nat /\ Len(s) + 1 \notin DOMAIN s
<1>1. /\ Append(s, e) \in Seq(S) /\ Len(Append(s, e)) = Len(s) + 1
      /\ \A i \in 1 .. Len(s) : Append(s, e)[i] = s[i]
      /\ Append(s, e)[Len(s) + 1] = e
  BY AppendProperties
<1>2. Len(s) \in Nat /\ DOMAIN s = 1 .. Len(s) /\ DOMAIN Append(s, e) = 1 .. Len(s) + 1
  BY <1>1, LenProperties
<1> QED
  BY <1>1, <1>2

\* w is s without its k-th element.
Lacks(w, s, k) ==
    \A i \in DOMAIN w : /\ i \in Nat
                        /\ i < k => i \in DOMAIN s /\ w[i] = s[i]
                        /\ i >= k => i + 1 \in DOMAIN s /\ w[i] = s[i + 1]

\* Withdrawing a waiter keeps the others, in their order.
LEMMA RemoveAtIs ==
  ASSUME NEW S, NEW s \in Seq(S), NEW k \in DOMAIN s
  PROVE  RemoveAt(s, k) \in Seq(S) /\ Lacks(RemoveAt(s, k), s, k)
<1>1. Len(s) \in Nat /\ DOMAIN s = 1 .. Len(s) /\ k \in 1 .. Len(s) /\ \A i \in 1 .. Len(s) : s[i] \in S
  BY LenProperties, ElementOfSeq
<1>2. PICK a : a = SubSeq(s, 1, k - 1)
  OBVIOUS
<1>3. PICK b : b = SubSeq(s, k + 1, Len(s))
  OBVIOUS
<1>4. a \in Seq(S) /\ Len(a) = k - 1 /\ \A i \in 1 .. k - 1 : a[i] = s[i]
  <2>1. \A i \in 1 .. k - 1 : s[i] \in S
    BY <1>1
  <2>2. /\ a \in Seq(S) /\ Len(a) = IF 1 <= k - 1 THEN k - 1 - 1 + 1 ELSE 0
        /\ \A i \in 1 .. k - 1 - 1 + 1 : a[i] = s[1 + i - 1]
    BY <1>1, <1>2, <2>1, SubSeqProperties
  <2> QED
    BY <1>1, <2>2
<1>5. b \in Seq(S) /\ Len(b) = Len(s) - k /\ \A i \in 1 .. Len(s) - k : b[i] = s[k + i]
  <2>1. \A i \in k + 1 .. Len(s) : s[i] \in S
    BY <1>1
  <2>2. k + 1 \in Int /\ Len(s) \in Int
    BY <1>1
  <2>3. /\ b \in Seq(S) /\ Len(b) = IF k + 1 <= Len(s) THEN Len(s) - (k + 1) + 1 ELSE 0
        /\ \A i \in 1 .. Len(s) - (k + 1) + 1 : b[i] = s[(k + 1) + i - 1]
    BY <1>3, <2>1, <2>2, SubSeqProperties
  <2>4. Len(b) = Len(s) - k
    BY <1>1, <2>3
  <2>5. ASSUME NEW i \in 1 .. Len(s) - k PROVE b[i] = s[k + i]
    <3>1. i \in 1 .. Len(s) - (k + 1) + 1 /\ (k + 1) + i - 1 = k + i
      BY <1>1
    <3>2. b[i] = s[(k + 1) + i - 1]
      BY <2>3, <3>1
    <3> QED
      BY <3>1, <3>2
  <2> QED
    BY <2>3, <2>4, <2>5
<1>6. PICK c : c = a \o b
  OBVIOUS
<1>7. /\ c \in Seq(S) /\ Len(c) = Len(a) + Len(b)
      /\ \A i \in 1 .. Len(a) + Len(b) : c[i] = IF i <= Len(a) THEN a[i] ELSE b[i - Len(a)]
  BY <1>4, <1>5, <1>6, ConcatProperties
<1>8. DOMAIN c = 1 .. Len(s) - 1
  <2>1. Len(c) = Len(s) - 1
    BY <1>1, <1>4, <1>5, <1>7
  <2> QED
    BY <1>7, <2>1, LenProperties
<1>9. ASSUME NEW i \in DOMAIN c
      PROVE  /\ i < k => c[i] = s[i]
             /\ i >= k => c[i] = s[i + 1]
  <2>1. i \in 1 .. Len(a) + Len(b)
    BY <1>1, <1>4, <1>5, <1>8
  <2>2. i < k => i <= Len(a) /\ i \in 1 .. k - 1
    BY <1>1, <1>4, <1>8
  <2>3. i >= k => ~(i <= Len(a)) /\ i - Len(a) \in 1 .. Len(s) - k /\ k + (i - Len(a)) = i + 1
    BY <1>1, <1>4, <1>8
  <2> QED
    BY <1>4, <1>5, <1>7, <2>1, <2>2, <2>3
<1>10. Lacks(c, s, k)
  BY <1>1, <1>8, <1>9 DEF Lacks
<1>11. RemoveAt(s, k) = c
  BY <1>2, <1>3, <1>6 DEF RemoveAt
<1> QED
  BY <1>7, <1>10, <1>11, Zenon

LEMMA TailLacks ==
  ASSUME NEW S, NEW s \in Seq(S), s # <<>>
  PROVE  Tail(s) \in Seq(S) /\ Lacks(Tail(s), s, 1)
<1>1. Tail(s) \in Seq(S) /\ \A i \in DOMAIN Tail(s) : i \in Nat /\ i + 1 \in DOMAIN s /\ Tail(s)[i] = s[i + 1]
  BY TailAt
<1>2. \A i \in DOMAIN Tail(s) : ~(i < 1)
  BY <1>1, LenProperties
<1> QED
  BY <1>1, <1>2 DEF Lacks

LEMMA MessageKinds ==
  ASSUME NEW p \in Slot
  PROVE  /\ Msg("spawn", p) \in Command /\ Msg("kill", p) \in Command /\ Msg("replay", p) \in Command
         /\ \A c \in Call : Bind(c, p) \in Command
         /\ Msg("spawned", p) \in Answer /\ Msg("error", p) \in Answer
         /\ Msg("exit", p) \in Answer /\ Msg("stale exit", p) \in Answer
BY DEF Msg, Bind, Command, Answer

LEMMA RoleSetKind ==
  ASSUME NEW p \in Slot, NEW c \in Call, NEW S
  PROVE  [t |-> "role-set", pane |-> p, ok |-> p \in S, call |-> c] \in Answer
<1>1. [t |-> "role-set", pane |-> p, ok |-> p \in S, call |-> c]
        \in [t : {"role-set"}, pane : Slot, ok : BOOLEAN, call : Call]
  OBVIOUS
<1> QED
  BY <1>1 DEF Answer

LEMMA CommandKinds ==
  ASSUME NEW m \in Command
  PROVE  /\ m.pane \in Slot /\ m.t \in {"spawn", "replay", "kill", "set-role"}
         /\ m.t = "set-role" => m.call \in Call
BY DEF Command

LEMMA AnswerKinds ==
  ASSUME NEW m \in Answer
  PROVE  /\ m.pane \in Slot /\ m.t \in {"spawned", "error", "exit", "stale exit", "role-set"}
         /\ m.t = "role-set" => m.call \in Call /\ m.ok \in BOOLEAN
BY DEF Answer

\* Every action that writes to the socket writes one command behind the others.
LEMMA Sends ==
  ASSUME RoleTypes, NEW m \in Command
  PROVE  Append(toD, m) \in Seq(Command)
BY AppendProperties DEF RoleTypes

LEMMA InitRoleTypes == RolesInit => RoleTypes
<1> SUFFICES ASSUME RolesInit PROVE RoleTypes
  OBVIOUS
<1>1. <<>> \in Seq(Command) /\ <<>> \in Seq(Answer) /\ <<>> \in Seq(Call)
  OBVIOUS
<1> QED
  BY <1>1 DEF RolesInit, RoleTypes, Live

LEMMA DoneTypes ==
  ASSUME RoleTypes, NEW c \in Call, Done(c)
  PROVE  /\ phase' \in [Call -> {"idle", "sent", "pause", "done"}]
         /\ kind' \in [Call -> {"setRole", "replay"}]
         /\ target' \in [Call -> Slot \cup {NoSlot}] /\ tries' \in [Call -> Nat]
<1>1. phase' \in [Call -> {"idle", "sent", "pause", "done"}]
  BY DEF RoleTypes, Done
<1>2. kind' \in [Call -> {"setRole", "replay"}]
  BY DEF RoleTypes, Done
<1>3. target' \in [Call -> Slot \cup {NoSlot}]
  <2>1. target' = [target EXCEPT ![c] = NoSlot] /\ target \in [Call -> Slot \cup {NoSlot}]
    BY DEF RoleTypes, Done
  <2> QED
    BY <2>1
<1>4. tries' \in [Call -> Nat]
  <2>1. tries' = [tries EXCEPT ![c] = 0] /\ tries \in [Call -> Nat]
    BY DEF RoleTypes, Done
  <2> QED
    BY <2>1
<1> QED
  BY <1>1, <1>2, <1>3, <1>4

\* The calls: begun, tried again, given up, timed out.
LEMMA CallTypes ==
  ASSUME RoleTypes, CallsWait, NEW c \in Call, Retry(c) \/ GiveUp(c) \/ Timeout(c)
  PROVE  RoleTypes'
<1> USE DEF renderer, daemon, history
<1>1. CASE Retry(c)
  <2>1. target[c] \in Slot /\ Live(c)
    BY <1>1 DEF Retry, CallsWait, Live
  <2>2. Append(toD, Bind(c, target[c])) \in Seq(Command)
    BY <2>1, Sends, MessageKinds
  <2>3. Append(waiters[target[c]], c) \in Seq(Call)
    BY <2>1, AppendProperties DEF RoleTypes
  <2>4. waiters' \in [Slot -> Seq(Call)]
    BY <1>1, <2>1, <2>3 DEF Retry, Try, RoleTypes
  <2> QED
    BY <1>1, <2>1, <2>2, <2>4 DEF Retry, Try, RoleTypes, Live
<1>2. CASE GiveUp(c)
  BY <1>2, DoneTypes DEF GiveUp, RoleTypes, CallsWait, Live
<1>3. CASE Timeout(c)
  <2>1. target[c] \in Slot
    BY <1>3 DEF Timeout, CallsWait, Live
  <2>2. PICK i \in DOMAIN waiters[target[c]] : waiters' = [waiters EXCEPT ![target[c]] = RemoveAt(@, i)]
    BY <1>3 DEF Timeout
  <2>3. RemoveAt(waiters[target[c]], i) \in Seq(Call)
    BY <2>1, RemoveAtIs DEF RoleTypes
  <2>4. waiters' \in [Slot -> Seq(Call)]
    BY <2>1, <2>2, <2>3 DEF RoleTypes
  <2> QED
    BY <1>3, <2>4 DEF Timeout, RoleTypes, Live
<1> QED
  BY <1>1, <1>2, <1>3

LEMMA BeginTypes ==
  ASSUME RoleTypes, NEW c \in Call, NEW p \in Slot, NEW k \in {"setRole", "replay"}, Begin(c, p, k)
  PROVE  /\ phase' \in [Call -> {"idle", "sent", "pause", "done"}]
         /\ kind' \in [Call -> {"setRole", "replay"}]
         /\ target' \in [Call -> Slot \cup {NoSlot}] /\ tries' \in [Call -> Nat]
         /\ waiters' \in [Slot -> Seq(Call)]
<1>1. Append(waiters[p], c) \in Seq(Call)
  BY AppendProperties DEF RoleTypes
<1> QED
  BY <1>1 DEF RoleTypes, Begin, Try, Live

LEMMA PaneTypes ==
  ASSUME RoleTypes, NEW p \in Slot,
         Open(p) \/ Spawn(p) \/ CloseSlot(p) \/ ShellExits(p) \/ \E c \in Call : SetRole(c, p)
  PROVE  RoleTypes'
<1> USE DEF renderer, relay, binding, daemon, history
<1>1. CASE Open(p)
  BY <1>1 DEF Open, RoleTypes, Live
<1>2. CASE Spawn(p)
  <2>1. Append(toD, Msg("spawn", p)) \in Seq(Command)
    BY Sends, MessageKinds
  <2> QED
    BY <1>2, <2>1 DEF Spawn, RoleTypes, Live
<1>3. CASE CloseSlot(p)
  <2>1. Append(toD, Msg("kill", p)) \in Seq(Command)
    BY Sends, MessageKinds
  <2>2. ExitsStale(p) \in Seq(Answer)
    <3>1. Len(toA) \in Nat /\ DOMAIN toA = 1 .. Len(toA) /\ \A i \in 1 .. Len(toA) : toA[i] \in Answer
      BY LenProperties, ElementOfSeq DEF RoleTypes
    <3>2. ExitsStale(p) \in [1 .. Len(toA) -> Answer]
      BY <3>1, MessageKinds DEF ExitsStale
    <3> QED
      BY <3>1, <3>2
  <2> QED
    BY <1>3, <2>1, <2>2 DEF CloseSlot, RoleTypes, Live
<1>4. CASE ShellExits(p)
  <2>1. Append(toA, Msg("exit", p)) \in Seq(Answer)
    BY AppendProperties, MessageKinds DEF RoleTypes
  <2> QED
    BY <1>4, <2>1 DEF ShellExits, RoleTypes, Live
<1>5. ASSUME NEW c \in Call, SetRole(c, p) PROVE RoleTypes'
  <2>1. Append(toD, Bind(c, p)) \in Seq(Command)
    BY Sends, MessageKinds
  <2>2. CASE OverLimit(p)
    BY <1>5, <2>2 DEF SetRole, RoleTypes, Live
  <2>3. CASE ~OverLimit(p)
    BY <1>5, <2>1, <2>3, BeginTypes DEF SetRole, RoleTypes
  <2> QED
    BY <2>2, <2>3
<1> QED
  BY <1>1, <1>2, <1>3, <1>4, <1>5

LEMMA DaemonReadsTypes == ASSUME RoleTypes, DaemonReads PROVE RoleTypes'
<1> DEFINE m == Head(toD)
<1>1. m \in Command /\ Tail(toD) \in Seq(Command)
  BY TailAt DEF RoleTypes, DaemonReads
<1>2. m.pane \in Slot /\ Msg("spawned", m.pane) \in Answer /\ Msg("error", m.pane) \in Answer
  BY <1>1, CommandKinds, MessageKinds
<1>3. /\ Append(toA, Msg("spawned", m.pane)) \in Seq(Answer)
      /\ Append(toA, Msg("error", m.pane)) \in Seq(Answer)
  BY <1>2, AppendProperties DEF RoleTypes
<1>4. ASSUME m.t = "set-role"
      PROVE  Append(toA, [t |-> "role-set", pane |-> m.pane, ok |-> m.pane \in sessions, call |-> m.call])
               \in Seq(Answer)
  <2>1. m.call \in Call
    BY <1>1, <1>4, CommandKinds
  <2>2. [t |-> "role-set", pane |-> m.pane, ok |-> m.pane \in sessions, call |-> m.call] \in Answer
    BY <1>2, <2>1, RoleSetKind
  <2> QED
    BY <2>2, AppendProperties DEF RoleTypes
<1> QED
  BY <1>1, <1>2, <1>3, <1>4 DEF DaemonReads, renderer, relay, binding, history, RoleTypes, Live

\* A role-set that finds a waiter answers the one that waits longest.
LEMMA AnsweredCall ==
  ASSUME RoleTypes, NEW m \in Answer, RoleSet(m), waiters[m.pane] # <<>>
  PROVE  \E c \in Call :
           /\ c = waiters[m.pane][1] /\ 1 \in DOMAIN waiters[m.pane]
           /\ waiters' = [waiters EXCEPT ![m.pane] = Tail(@)]
           /\ m.ok => Done(c)
           /\ ~m.ok => phase' = [phase EXCEPT ![c] = "pause"] /\ UNCHANGED <<kind, target, tries>>
           /\ unsure' = IF m.ok /\ c # m.call THEN unsure \cup {m.pane} ELSE unsure
           /\ appRoles' = IF m.ok /\ kind[c] = "setRole" THEN appRoles \cup {m.pane} ELSE appRoles
<1>1. m.pane \in Slot
  BY AnswerKinds
<1>2. /\ Head(waiters[m.pane]) \in Call /\ Head(waiters[m.pane]) = waiters[m.pane][1]
      /\ 1 \in DOMAIN waiters[m.pane]
  BY <1>1, TailAt DEF RoleTypes
<1> QED
  BY <1>2 DEF RoleSet

LEMMA AppReadsTypes == ASSUME RoleTypes, AppReads PROVE RoleTypes'
<1> DEFINE m == Head(toA)
<1> USE DEF binding, daemon, history
<1>1. m \in Answer /\ Tail(toA) \in Seq(Answer)
  BY TailAt DEF RoleTypes, AppReads
<1>2. m.pane \in Slot
  BY <1>1, AnswerKinds
<1>3. CASE RoleSet(m)
  <2>1. CASE waiters[m.pane] = <<>>
    BY <1>1, <1>2, <1>3, <2>1 DEF AppReads, RoleSet, RoleTypes, Live
  <2>2. CASE waiters[m.pane] # <<>>
    <3>1. PICK c \in Call :
             /\ waiters' = [waiters EXCEPT ![m.pane] = Tail(@)]
             /\ m.ok => Done(c)
             /\ ~m.ok => phase' = [phase EXCEPT ![c] = "pause"] /\ UNCHANGED <<kind, target, tries>>
             /\ unsure' = IF m.ok /\ c # m.call THEN unsure \cup {m.pane} ELSE unsure
             /\ appRoles' = IF m.ok /\ kind[c] = "setRole" THEN appRoles \cup {m.pane} ELSE appRoles
      BY <1>1, <1>3, <2>2, AnsweredCall
    <3>2. waiters' \in [Slot -> Seq(Call)]
      BY <1>2, <2>2, <3>1, TailAt DEF RoleTypes
    <3>3. /\ phase' \in [Call -> {"idle", "sent", "pause", "done"}]
          /\ kind' \in [Call -> {"setRole", "replay"}]
          /\ target' \in [Call -> Slot \cup {NoSlot}] /\ tries' \in [Call -> Nat]
      <4>1. CASE m.ok
        BY <3>1, <4>1, DoneTypes
      <4>2. CASE ~m.ok
        BY <3>1, <4>2 DEF RoleTypes
      <4> QED
        BY <4>1, <4>2
    <3>4. appRoles' \subseteq Slot /\ unsure' \subseteq Slot
      BY <1>2, <3>1 DEF RoleTypes
    <3>5. UNCHANGED <<specs, toD, unbound>>
      BY <1>3 DEF RoleSet
    <3> QED
      BY <1>1, <1>2, <3>2, <3>3, <3>4, <3>5 DEF AppReads, RoleTypes
  <2> QED
    BY <2>1, <2>2
<1>4. CASE Spawned(m)
  <2>1. CASE m.pane \in appRoles
    <3>1. PICK c \in Call : Begin(c, m.pane, "replay") /\ toD' = Append(toD, Bind(c, m.pane))
      BY <1>4, <2>1 DEF Spawned
    <3>2. Append(toD, Bind(c, m.pane)) \in Seq(Command)
      BY <1>2, Sends, MessageKinds
    <3> QED
      BY <1>1, <1>2, <1>4, <3>1, <3>2, BeginTypes DEF AppReads, Spawned, RoleTypes
  <2>2. CASE m.pane \notin appRoles
    BY <1>1, <1>2, <1>4, <2>2 DEF AppReads, Spawned, RoleTypes, Live
  <2> QED
    BY <2>1, <2>2
<1>5. CASE Exited(m) \/ Dropped(m)
  BY <1>1, <1>2, <1>5 DEF AppReads, Exited, Dropped, RoleTypes, Live
<1>6. CASE Lapsed(m)
  <2>1. /\ unbound' \subseteq Slot /\ UNCHANGED <<specs, appRoles, phase, kind, target, tries, waiters, toD, unsure>>
        /\ m.t # "exit"
    BY <1>2, <1>6 DEF Lapsed, RoleTypes
  <2>2. /\ toA' = Tail(toA) /\ dead' = dead
        /\ UNCHANGED <<open, named, opened, boots, sessions, roles, orphaned>>
    BY <2>1 DEF AppReads
  <2> QED
    BY <1>1, <2>1, <2>2 DEF RoleTypes
<1> QED
  BY <1>3, <1>4, <1>5, <1>6 DEF AppReads

\* The replays are the specs' panes in some order.
LEMMA ReplaysAre ==
  ASSUME RoleTypes, RoleSizes, DaemonDies
  PROVE  /\ toD' \in Seq(Command)
         /\ \A i \in DOMAIN toD' : i \in Nat /\ toD'[i].t = "replay" /\ toD'[i].pane \in specs
         /\ \A p \in specs : \E i \in DOMAIN toD' : toD'[i] = Msg("replay", p)
<1> DEFINE S == {ReplayOf(p) : p \in specs}
           f == [p \in specs |-> ReplayOf(p)]
           D == 1 .. Cardinality(S)
<1>1. IsFiniteSet(specs)
  BY FS_Subset DEF RoleTypes, RoleSizes
<1>2. f \in Surjection(specs, S)
  BY DEF Surjection
<1>3. IsFiniteSet(S) /\ Cardinality(S) \in Nat
  BY <1>1, <1>2, FS_Surjection, FS_CardinalityType
<1>4. toD' \in [D -> S] /\ \A i, j \in D : i # j => toD'[i] # toD'[j]
  BY DEF DaemonDies, SetToSeqs
<1>5. toD' \in Injection(D, S)
  BY <1>4 DEF Injection, IsInjective
<1>6. Cardinality(D) = Cardinality(S)
  BY <1>3, FS_Interval
<1>7. toD' \in Surjection(D, S)
  BY <1>3, <1>5, <1>6, FS_Injection
<1>8. \A p \in specs : \E i \in DOMAIN toD' : toD'[i] = Msg("replay", p)
  BY <1>4, <1>7 DEF Surjection, ReplayOf
<1>9. \A x \in S : x \in Command /\ x.t = "replay" /\ x.pane \in specs
  BY DEF RoleTypes, ReplayOf, Msg, Command
<1> HIDE DEF S
<1>10. PICK n \in Nat : n = Cardinality(S)
  BY <1>3
<1>11. toD' \in Seq(Command)
  <2>1. toD' \in [1 .. n -> Command]
    BY <1>4, <1>9, <1>10
  <2> QED
    BY <2>1
<1> HIDE DEF D
<1>12. \A i \in DOMAIN toD' : i \in Nat /\ toD'[i].t = "replay" /\ toD'[i].pane \in specs
  <2>1. \A i \in D : i \in Nat
    BY <1>3 DEF D
  <2> QED
    BY <1>4, <1>9, <2>1
<1> QED
  BY <1>8, <1>11, <1>12

LEMMA DaemonDiesTypes == ASSUME RoleTypes, RoleSizes, DaemonDies PROVE RoleTypes'
<1>1. <<>> \in Seq(Answer) /\ <<>> \in Seq(Call)
  OBVIOUS
<1>2. toD' \in Seq(Command)
  BY ReplaysAre
<1> QED
  BY <1>1, <1>2 DEF DaemonDies, renderer, history, RoleTypes, Live

----------------------------------------------------------------------------
(* Roles: the calls in line.                                                *)

LEMMA Joins ==
  ASSUME RoleTypes, CallsWait, NEW c \in Call, NEW p \in Slot, phase[c] # "sent",
         phase' = [phase EXCEPT ![c] = "sent"], target' = [target EXCEPT ![c] = p],
         waiters' = [waiters EXCEPT ![p] = Append(@, c)]
  PROVE  CallsWait'
<1>1. /\ \A d \in Call \ {c} : phase'[d] = phase[d] /\ target'[d] = target[d]
      /\ phase'[c] = "sent" /\ target'[c] = p
  BY DEF RoleTypes
<1>2. \A d \in Call : Live(d)' => target'[d] \in Slot
  BY <1>1 DEF CallsWait, Live
<1>3. \A q \in Slot : \A i, j \in DOMAIN waiters[q] :
         /\ waiters[q][i] \in Call /\ waiters[q][i] # c
         /\ phase[waiters[q][i]] = "sent" /\ target[waiters[q][i]] = q
         /\ waiters[q][i] = waiters[q][j] => i = j
  BY LenProperties, ElementOfSeq DEF RoleTypes, CallsWait
<1>4. \A q \in Slot \ {p} : waiters'[q] = waiters[q]
  BY DEF RoleTypes
<1>5. waiters'[p] = Append(waiters[p], c) /\ waiters[p] \in Seq(Call)
  BY DEF RoleTypes
<1>6. PICK n : /\ \A i \in DOMAIN waiters'[p] : i \in DOMAIN waiters[p] \/ i = n
               /\ \A i \in DOMAIN waiters[p] : waiters'[p][i] = waiters[p][i]
               /\ waiters'[p][n] = c
  BY <1>5, AppendAt
<1>7. ASSUME NEW q \in Slot, NEW i \in DOMAIN waiters'[q], NEW j \in DOMAIN waiters'[q]
      PROVE  /\ phase'[waiters'[q][i]] = "sent" /\ target'[waiters'[q][i]] = q
             /\ waiters'[q][i] = waiters'[q][j] => i = j
  <2>1. CASE q = p
    BY <1>1, <1>3, <1>6, <2>1
  <2>2. CASE q # p
    BY <1>1, <1>3, <1>4, <2>2
  <2> QED
    BY <2>1, <2>2
<1> QED
  BY <1>2, <1>7 DEF CallsWait

LEMMA Leaves ==
  ASSUME RoleTypes, CallsWait, NEW p \in Slot, NEW k \in DOMAIN waiters[p], NEW c, c = waiters[p][k],
         NEW w, waiters' = [waiters EXCEPT ![p] = w],
         Lacks(w, waiters[p], k),
         phase'[c] # "sent", phase'[c] = "pause" => target'[c] = target[c],
         \A d \in Call \ {c} : phase'[d] = phase[d] /\ target'[d] = target[d]
  PROVE  CallsWait'
<1>1. \A q \in Slot \ {p} : waiters'[q] = waiters[q]
  BY DEF RoleTypes
<1>2. waiters'[p] = w
  BY DEF RoleTypes
<1>3. \A q \in Slot : \A i, j \in DOMAIN waiters[q] :
         /\ waiters[q][i] \in Call /\ i \in Nat
         /\ phase[waiters[q][i]] = "sent" /\ target[waiters[q][i]] = q
         /\ waiters[q][i] = waiters[q][j] => i = j
  BY LenProperties, ElementOfSeq DEF RoleTypes, CallsWait
<1>4. c \in Call /\ k \in Nat /\ phase[c] = "sent" /\ target[c] = p
  BY <1>3
<1>5. \A d \in Call : Live(d)' => target'[d] \in Slot
  BY <1>4 DEF CallsWait, Live, RoleTypes
<1>6. ASSUME NEW i \in DOMAIN w
      PROVE  \E u \in DOMAIN waiters[p] : w[i] = waiters[p][u] /\ u # k /\ u = IF i < k THEN i ELSE i + 1
  <2>1. i \in Nat
    BY DEF Lacks
  <2>2. CASE i < k
    BY <1>4, <2>1, <2>2 DEF Lacks
  <2>3. CASE ~(i < k)
    <3>1. i >= k /\ i + 1 # k
      BY <1>4, <2>1, <2>3
    <3> QED
      BY <2>3, <3>1 DEF Lacks
  <2> QED
    BY <2>2, <2>3
<1>7. ASSUME NEW q \in Slot, NEW i \in DOMAIN waiters'[q], NEW j \in DOMAIN waiters'[q]
      PROVE  /\ phase'[waiters'[q][i]] = "sent" /\ target'[waiters'[q][i]] = q
             /\ waiters'[q][i] = waiters'[q][j] => i = j
  <2>1. CASE q = p
    <3>1. PICK u \in DOMAIN waiters[p] : w[i] = waiters[p][u] /\ u # k /\ u = IF i < k THEN i ELSE i + 1
      BY <1>2, <1>6, <2>1
    <3>2. PICK v \in DOMAIN waiters[p] : w[j] = waiters[p][v] /\ v # k /\ v = IF j < k THEN j ELSE j + 1
      BY <1>2, <1>6, <2>1
    <3>3. /\ waiters[p][u] \in Call \ {c} /\ phase[waiters[p][u]] = "sent" /\ target[waiters[p][u]] = p
          /\ waiters[p][u] = waiters[p][v] => u = v
      BY <1>3, <3>1
    <3>4. i \in Nat /\ j \in Nat
      BY <1>2, <2>1 DEF Lacks
    <3>5. u = v => i = j
      BY <1>4, <3>1, <3>2, <3>4
    <3> QED
      BY <1>2, <2>1, <3>1, <3>2, <3>3, <3>5
  <2>2. CASE q # p
    <3>1. waiters'[q] = waiters[q]
      BY <1>1, <2>2
    <3>2. /\ waiters[q][i] \in Call \ {c} /\ phase[waiters[q][i]] = "sent" /\ target[waiters[q][i]] = q
          /\ waiters[q][i] = waiters[q][j] => i = j
      BY <1>3, <1>4, <2>2, <3>1
    <3> QED
      BY <3>1, <3>2
  <2> QED
    BY <2>1, <2>2
<1> QED
  BY <1>5, <1>7 DEF CallsWait

LEMMA CallsWaitStep == ASSUME RoleSizes, RoleTypes, CallsWait, [RolesNext]_rolesVars PROVE CallsWait'
<1> USE DEF renderer, relay, binding, daemon, history
<1>1. ASSUME NEW p \in Slot, Open(p) \/ Spawn(p) \/ CloseSlot(p) \/ ShellExits(p) PROVE CallsWait'
  BY <1>1 DEF Open, Spawn, CloseSlot, ShellExits, CallsWait, Live
<1>2. ASSUME NEW c \in Call, NEW p \in Slot, NEW k, Begin(c, p, k) PROVE CallsWait'
  <2>1. phase[c] # "sent"
    BY <1>2 DEF Begin
  <2> QED
    BY <1>2, <2>1, Joins DEF Begin, Try
<1>3. ASSUME NEW c \in Call, NEW p \in Slot, SetRole(c, p) PROVE CallsWait'
  <2>1. CASE OverLimit(p)
    BY <1>3, <2>1 DEF SetRole, CallsWait, Live
  <2>2. CASE ~OverLimit(p)
    BY <1>2, <1>3, <2>2 DEF SetRole
  <2> QED
    BY <2>1, <2>2
<1>4. ASSUME NEW c \in Call, Retry(c) PROVE CallsWait'
  <2>1. target[c] \in Slot /\ phase[c] # "sent"
    BY <1>4 DEF Retry, CallsWait, Live
  <2>2. target' = [target EXCEPT ![c] = target[c]]
    BY <1>4 DEF Retry, RoleTypes
  <2> QED
    BY <1>4, <2>1, <2>2, Joins DEF Retry, Try
<1>5. ASSUME NEW c \in Call, GiveUp(c) PROVE CallsWait'
  <2>1. phase[c] = "pause" /\ waiters' = waiters
    BY <1>5 DEF GiveUp
  <2>2. /\ phase'[c] = "done"
        /\ \A d \in Call \ {c} : phase'[d] = phase[d] /\ target'[d] = target[d]
    BY <1>5 DEF GiveUp, Done, RoleTypes
  <2>3. \A q \in Slot : \A i \in DOMAIN waiters[q] : waiters[q][i] \in Call /\ waiters[q][i] # c
    BY <2>1, LenProperties, ElementOfSeq DEF RoleTypes, CallsWait
  <2> QED
    BY <2>1, <2>2, <2>3 DEF CallsWait, Live
<1>6. ASSUME NEW c \in Call, Timeout(c) PROVE CallsWait'
  <2>1. target[c] \in Slot
    BY <1>6 DEF Timeout, CallsWait, Live
  <2>2. PICK i \in DOMAIN waiters[target[c]] :
           /\ waiters[target[c]][i] = c
           /\ waiters' = [waiters EXCEPT ![target[c]] = RemoveAt(@, i)]
    BY <1>6 DEF Timeout
  <2>3. waiters[target[c]] \in Seq(Call)
    BY <2>1 DEF RoleTypes
  <2>4. phase' = [phase EXCEPT ![c] = "pause"] /\ target' = target
    BY <1>6 DEF Timeout
  <2>5. PICK w : w = RemoveAt(waiters[target[c]], i) /\ Lacks(w, waiters[target[c]], i)
    BY <2>3, RemoveAtIs
  <2>6. waiters' = [waiters EXCEPT ![target[c]] = w]
    BY <2>2, <2>5
  <2>7. phase'[c] # "sent" /\ (phase'[c] = "pause" => target'[c] = target[c])
    BY <2>4 DEF RoleTypes
  <2>8. \A d \in Call \ {c} : phase'[d] = phase[d] /\ target'[d] = target[d]
    BY <2>4 DEF RoleTypes
  <2> QED
    BY <2>1, <2>2, <2>5, <2>6, <2>7, <2>8, Leaves
<1>7. CASE DaemonReads
  BY <1>7 DEF DaemonReads, CallsWait, Live
<1>8. CASE AppReads
  <2> DEFINE m == Head(toA)
  <2>1. m \in Answer /\ m.pane \in Slot
    BY <1>8, TailAt, AnswerKinds DEF RoleTypes, AppReads
  <2>2. CASE RoleSet(m)
    <3>1. CASE waiters[m.pane] = <<>>
      BY <2>2, <3>1 DEF RoleSet, CallsWait, Live
    <3>2. CASE waiters[m.pane] # <<>>
      <4>1. PICK c \in Call :
               /\ c = waiters[m.pane][1] /\ 1 \in DOMAIN waiters[m.pane]
               /\ waiters' = [waiters EXCEPT ![m.pane] = Tail(@)]
               /\ m.ok => Done(c)
               /\ ~m.ok => phase' = [phase EXCEPT ![c] = "pause"] /\ UNCHANGED <<kind, target, tries>>
        BY <2>1, <2>2, <3>2, AnsweredCall
      <4>2. PICK w : w = Tail(waiters[m.pane])
        OBVIOUS
      <4>3. waiters[m.pane] \in Seq(Call)
        BY <2>1 DEF RoleTypes
      <4>4. Lacks(w, waiters[m.pane], 1)
        BY <3>2, <4>2, <4>3, TailLacks
      <4>5. phase'[c] # "sent" /\ (phase'[c] = "pause" => target'[c] = target[c])
        BY <4>1 DEF Done, RoleTypes
      <4>6. \A d \in Call \ {c} : phase'[d] = phase[d] /\ target'[d] = target[d]
        BY <4>1 DEF Done, RoleTypes
      <4>7. waiters' = [waiters EXCEPT ![m.pane] = w]
        BY <4>1, <4>2
      <4>8. c = waiters[m.pane][1] /\ 1 \in DOMAIN waiters[m.pane] /\ m.pane \in Slot
        BY <2>1, <4>1
      <4> HIDE DEF m
      <4> QED
        BY <4>4, <4>5, <4>6, <4>7, <4>8, Leaves
    <3> QED
      BY <3>1, <3>2
  <2>3. CASE Spawned(m)
    <3>1. CASE m.pane \in appRoles
      BY <1>2, <2>1, <2>3, <3>1 DEF Spawned
    <3>2. CASE m.pane \notin appRoles
      BY <2>3, <3>2 DEF Spawned, CallsWait, Live
    <3> QED
      BY <3>1, <3>2
  <2>4. CASE Lapsed(m) \/ Exited(m) \/ Dropped(m)
    <3>1. UNCHANGED <<phase, target, waiters>>
      BY <2>4 DEF Lapsed, Exited, Dropped
    <3> QED
      BY <3>1 DEF CallsWait, Live
  <2> QED
    BY <1>8, <2>2, <2>3, <2>4 DEF AppReads
<1>9. CASE DaemonDies
  <2>1. \A p \in Slot : waiters'[p] = <<>>
    BY <1>9 DEF DaemonDies
  <2>2. \A c \in Call : (Live(c)' <=> Live(c)) /\ target'[c] = target[c]
    BY <1>9 DEF DaemonDies, RoleTypes, Live
  <2> QED
    BY <2>1, <2>2 DEF CallsWait
<1>10. CASE UNCHANGED rolesVars
  BY <1>10 DEF rolesVars, CallsWait, Live
<1> QED
  BY <1>1, <1>3, <1>4, <1>5, <1>6, <1>7, <1>8, <1>9, <1>10 DEF RolesNext

----------------------------------------------------------------------------
(* Roles: what an unowned slot still has is on its way out.                 *)

Owners == named \cup orphaned

Is(s, i, k, p) == i \in DOMAIN s /\ s[i].t = k /\ s[i].pane = p

Killed(s, i, p) == \E j \in DOMAIN s : j > i /\ Is(s, j, "kill", p)

Leaving(p) ==
    /\ p \in roles => Killed(toD, 0, p)
    /\ \A i \in DOMAIN toD : Is(toD, i, "set-role", p) => Killed(toD, i, p)

OwnedInv ==
    /\ appRoles \subseteq Owners
    /\ \A c \in Call : Live(c) => target[c] \in Owners
    /\ \A p \in Slot \ Owners : Leaving(p)

LEMMA LeavingAppend ==
  ASSUME RoleTypes, NEW p \in Slot, NEW m \in Command, toD' = Append(toD, m), roles' \subseteq roles,
         ~(m.t = "set-role" /\ m.pane = p),
         (m.t = "kill" /\ m.pane = p) \/ Leaving(p)
  PROVE  Leaving(p)'
<1>1. toD \in Seq(Command)
  BY DEF RoleTypes
<1>2. PICK n \in Nat :
         /\ \A i \in DOMAIN toD : i \in DOMAIN toD' /\ toD'[i] = toD[i] /\ i < n
         /\ \A i \in DOMAIN toD' : i \in Nat /\ (i \in DOMAIN toD \/ i = n)
         /\ n \in DOMAIN toD' /\ toD'[n] = m /\ n > 0
  <2>1. Len(toD) + 1 \in Nat /\ Len(toD) + 1 > 0
    BY <1>1, LenProperties
  <2> QED
    BY <1>1, <2>1, AppendAt
<1>3. ASSUME NEW i, Killed(toD, i, p) PROVE Killed(toD', i, p)
  BY <1>2, <1>3 DEF Killed, Is
<1>4. CASE m.t = "kill" /\ m.pane = p
  <2>1. ASSUME NEW i \in DOMAIN toD', Is(toD', i, "set-role", p) PROVE Killed(toD', i, p)
    BY <1>2, <1>4, <2>1 DEF Killed, Is
  <2>2. Killed(toD', 0, p)
    BY <1>2, <1>4 DEF Killed, Is
  <2> QED
    BY <2>1, <2>2 DEF Leaving
<1>5. CASE Leaving(p)
  <2>1. ASSUME NEW i \in DOMAIN toD', Is(toD', i, "set-role", p) PROVE Killed(toD', i, p)
    <3>1. i \in DOMAIN toD /\ Is(toD, i, "set-role", p)
      BY <1>2, <2>1 DEF Is
    <3> QED
      BY <1>3, <1>5, <3>1 DEF Leaving
  <2>2. p \in roles' => Killed(toD', 0, p)
    BY <1>3, <1>5 DEF Leaving
  <2> QED
    BY <2>1, <2>2 DEF Leaving
<1> QED
  BY <1>4, <1>5

LEMMA LeavingRead == ASSUME RoleTypes, NEW p \in Slot, DaemonReads, Leaving(p) PROVE Leaving(p)'
<1>1. toD \in Seq(Command) /\ toD # <<>> /\ toD' = Tail(toD)
  BY DEF RoleTypes, DaemonReads
<1>2. /\ \A i \in DOMAIN toD' : i \in Nat /\ i + 1 \in DOMAIN toD /\ toD'[i] = toD[i + 1]
      /\ \A i \in DOMAIN toD : i \in Nat /\ (i = 1 \/ (i - 1 \in DOMAIN toD' /\ toD'[i - 1] = toD[i]))
      /\ Head(toD) = toD[1] /\ 1 \in DOMAIN toD
  BY <1>1, TailAt
<1>3. ASSUME NEW i \in Nat, Killed(toD, i + 1, p) PROVE Killed(toD', i, p)
  <2>1. PICK j \in DOMAIN toD : j > i + 1 /\ Is(toD, j, "kill", p)
    BY <1>3 DEF Killed
  <2>2. j \in Nat /\ j # 1 /\ j - 1 > i
    BY <1>2, <2>1
  <2>3. j - 1 \in DOMAIN toD' /\ Is(toD', j - 1, "kill", p)
    BY <1>2, <2>1, <2>2 DEF Is
  <2> QED
    BY <2>2, <2>3 DEF Killed
<1>4. ASSUME NEW i \in DOMAIN toD', Is(toD', i, "set-role", p) PROVE Killed(toD', i, p)
  <2>1. i \in Nat /\ i + 1 \in DOMAIN toD /\ Is(toD, i + 1, "set-role", p)
    BY <1>2, <1>4 DEF Is
  <2> QED
    BY <1>3, <2>1 DEF Leaving
<1>5. ASSUME p \in roles' PROVE Killed(toD', 0, p)
  <2>1. ~Is(toD, 1, "kill", p) /\ (p \in roles \/ Is(toD, 1, "set-role", p))
    BY <1>2, <1>5 DEF DaemonReads, Is
  <2>2. CASE p \in roles
    <3>1. PICK j \in DOMAIN toD : j > 0 /\ Is(toD, j, "kill", p)
      BY <2>2 DEF Leaving, Killed
    <3>2. j > 1
      BY <1>2, <2>1, <3>1
    <3>3. Killed(toD, 0 + 1, p)
      BY <3>1, <3>2 DEF Killed
    <3> QED
      BY <1>3, <3>3
  <2>3. CASE Is(toD, 1, "set-role", p)
    <3>1. Killed(toD, 0 + 1, p)
      BY <1>2, <2>3 DEF Leaving
    <3> QED
      BY <1>3, <3>1
  <2> QED
    BY <2>1, <2>2, <2>3
<1> QED
  BY <1>4, <1>5 DEF Leaving

\* A command that is not a set-role of an unowned slot leaves every owner its slot.
LEMMA OwnersAppend ==
  ASSUME RoleTypes, OwnedInv, NEW m \in Command, toD' = Append(toD, m), roles' \subseteq roles,
         Owners \subseteq Owners', m.t = "set-role" => m.pane \in Owners'
  PROVE  \A p \in Slot \ Owners' : Leaving(p)'
BY LeavingAppend DEF OwnedInv

LEMMA OwnersSame ==
  ASSUME OwnedInv, toD' = toD, roles' \subseteq roles, Owners \subseteq Owners'
  PROVE  \A p \in Slot \ Owners' : Leaving(p)'
BY DEF OwnedInv, Leaving, Killed, Is

LEMMA OwnersBegin ==
  ASSUME RoleTypes, OwnedInv, NEW c \in Call, NEW p \in Slot, NEW k, Begin(c, p, k),
         toD' = Append(toD, Bind(c, p)), UNCHANGED roles, appRoles' \subseteq appRoles,
         Owners \subseteq Owners', p \in Owners'
  PROVE  OwnedInv'
<1>1. Bind(c, p) \in Command /\ Bind(c, p).pane = p
  BY MessageKinds DEF Bind
<1>2. \A q \in Slot \ Owners' : Leaving(q)'
  BY <1>1, OwnersAppend
<1>3. \A d \in Call : Live(d)' => target'[d] \in Owners'
  BY DEF OwnedInv, Begin, Try, RoleTypes, Live
<1>4. appRoles' \subseteq Owners'
  BY DEF OwnedInv
<1> QED
  BY <1>2, <1>3, <1>4 DEF OwnedInv

LEMMA OwnedByPane ==
  ASSUME RoleTypes, OwnedInv, NEW p \in Slot, Open(p) \/ Spawn(p) \/ CloseSlot(p) \/ ShellExits(p)
  PROVE  OwnedInv'
<1> USE DEF renderer, relay, binding, daemon, history
<1>1. CASE Open(p)
  <2>1. toD' = toD /\ roles' = roles /\ Owners' = Owners
    BY <1>1 DEF Open, Owners
  <2>2. UNCHANGED <<appRoles, phase, target>>
    BY <1>1 DEF Open
  <2> QED
    BY <2>1, <2>2, OwnersSame DEF OwnedInv, Live
<1>2. CASE Spawn(p)
  <2>1. /\ toD' = Append(toD, Msg("spawn", p)) /\ roles' = roles /\ Owners' = Owners
        /\ UNCHANGED <<appRoles, phase, target>>
    BY <1>2 DEF Spawn, Owners
  <2>2. Msg("spawn", p) \in Command /\ Msg("spawn", p).t # "set-role"
    BY MessageKinds DEF Msg
  <2> QED
    BY <2>1, <2>2, OwnersAppend DEF OwnedInv, Live
<1>3. CASE CloseSlot(p)
  <2>1. /\ toD' = Append(toD, Msg("kill", p)) /\ roles' = roles
        /\ named' = named \ {p} /\ appRoles' = appRoles \ {p}
        /\ orphaned' = (IF Binding(p) THEN orphaned \cup {p} ELSE orphaned)
        /\ UNCHANGED <<phase, target>>
    BY <1>3 DEF CloseSlot
  <2>2. /\ Msg("kill", p) \in Command /\ Msg("kill", p).t = "kill" /\ Msg("kill", p).pane = p
    BY MessageKinds DEF Msg
  <2>3. \A q \in Slot \ Owners' : q = p \/ q \notin Owners
    BY <2>1 DEF Owners
  <2>4. ASSUME NEW q \in Slot \ Owners' PROVE Leaving(q)'
    BY <2>1, <2>2, <2>3, LeavingAppend DEF OwnedInv
  <2>5. \A c \in Call : Live(c)' => target'[c] \in Owners'
    BY <2>1 DEF OwnedInv, Owners, Binding, Live
  <2>6. appRoles' \subseteq Owners'
    BY <2>1 DEF OwnedInv, Owners
  <2> QED
    BY <2>4, <2>5, <2>6 DEF OwnedInv
<1>4. CASE ShellExits(p)
  <2>1. toD' = toD /\ roles' \subseteq roles /\ Owners' = Owners /\ UNCHANGED <<appRoles, phase, target>>
    BY <1>4 DEF ShellExits, Owners
  <2> QED
    BY <2>1, OwnersSame DEF OwnedInv, Live
<1> QED
  BY <1>1, <1>2, <1>3, <1>4

LEMMA OwnedByCall ==
  ASSUME RoleTypes, CallsWait, OwnedInv, NEW c \in Call,
         Retry(c) \/ GiveUp(c) \/ Timeout(c) \/ \E p \in Slot : SetRole(c, p)
  PROVE  OwnedInv'
<1> USE DEF renderer, relay, binding, daemon, history
<1>1. CASE Retry(c)
  <2>1. /\ toD' = Append(toD, Bind(c, target[c])) /\ roles' = roles /\ Owners' = Owners
        /\ UNCHANGED <<appRoles, target>> /\ Live(c) /\ phase' = [phase EXCEPT ![c] = "sent"]
    BY <1>1 DEF Retry, Try, Owners, Live
  <2>2. Bind(c, target[c]) \in Command /\ Bind(c, target[c]).pane \in Owners'
    BY <2>1, MessageKinds DEF CallsWait, OwnedInv, Bind
  <2>3. \A d \in Call : Live(d)' => Live(d)
    BY <2>1 DEF Live, RoleTypes
  <2> QED
    BY <2>1, <2>2, <2>3, OwnersAppend DEF OwnedInv
<1>2. CASE GiveUp(c) \/ Timeout(c)
  <2>1. toD' = toD /\ roles' = roles /\ Owners' = Owners /\ appRoles' = appRoles
    BY <1>2 DEF GiveUp, Timeout, Owners
  <2>2. \A d \in Call : Live(d)' => Live(d) /\ target'[d] = target[d]
    BY <1>2 DEF GiveUp, Timeout, Done, Live, RoleTypes
  <2> QED
    BY <2>1, <2>2, OwnersSame DEF OwnedInv
<1>3. ASSUME NEW p \in Slot, SetRole(c, p) PROVE OwnedInv'
  <2>1. /\ roles' = roles /\ appRoles' = appRoles /\ Owners \subseteq Owners' /\ p \in Owners'
    BY <1>3 DEF SetRole, Owners
  <2>2. CASE OverLimit(p)
    <3>1. toD' = toD /\ UNCHANGED <<phase, target>>
      BY <1>3, <2>2 DEF SetRole
    <3> QED
      BY <2>1, <3>1, OwnersSame DEF OwnedInv, Live
  <2>3. CASE ~OverLimit(p)
    <3>1. Begin(c, p, "setRole") /\ toD' = Append(toD, Bind(c, p))
      BY <1>3, <2>3 DEF SetRole
    <3> QED
      BY <2>1, <3>1, OwnersBegin
  <2> QED
    BY <2>2, <2>3
<1> QED
  BY <1>1, <1>2, <1>3

LEMMA OwnedByAnswer == ASSUME RoleTypes, CallsWait, OwnedInv, AppReads PROVE OwnedInv'
<1> DEFINE m == Head(toA)
<1> USE DEF renderer, relay, binding, daemon, history
<1>1. m \in Answer /\ m.pane \in Slot
  BY TailAt, AnswerKinds DEF RoleTypes, AppReads
<1>2. roles' = roles /\ Owners' = Owners
  BY DEF AppReads, Owners
<1>3. CASE RoleSet(m)
  <2>1. toD' = toD
    BY <1>3 DEF RoleSet
  <2>2. CASE waiters[m.pane] = <<>>
    <3>1. UNCHANGED <<appRoles, phase, target>>
      BY <1>3, <2>2 DEF RoleSet
    <3> QED
      BY <1>2, <2>1, <3>1, OwnersSame DEF OwnedInv, Live
  <2>3. CASE waiters[m.pane] # <<>>
    <3>1. PICK c \in Call :
             /\ c = waiters[m.pane][1] /\ 1 \in DOMAIN waiters[m.pane]
             /\ m.ok => Done(c)
             /\ ~m.ok => phase' = [phase EXCEPT ![c] = "pause"] /\ UNCHANGED <<kind, target, tries>>
             /\ appRoles' = IF m.ok /\ kind[c] = "setRole" THEN appRoles \cup {m.pane} ELSE appRoles
      BY <1>1, <1>3, <2>3, AnsweredCall
    <3>2. phase[c] = "sent" /\ target[c] = m.pane
      BY <1>1, <3>1 DEF CallsWait
    <3>3. m.pane \in Owners
      BY <3>2 DEF OwnedInv, Live
    <3>4. \A d \in Call : Live(d)' => Live(d) /\ target'[d] = target[d]
      <4>1. CASE m.ok
        BY <3>1, <4>1 DEF Done, Live, RoleTypes
      <4>2. CASE ~m.ok
        BY <3>1, <3>2, <4>2 DEF Live, RoleTypes
      <4> QED
        BY <4>1, <4>2
    <3>5. appRoles' \subseteq Owners
      BY <3>1, <3>3 DEF OwnedInv
    <3> QED
      BY <1>2, <2>1, <3>4, <3>5, OwnersSame DEF OwnedInv
  <2> QED
    BY <2>2, <2>3
<1>4. CASE Spawned(m)
  <2>1. appRoles' = appRoles
    BY <1>4 DEF Spawned
  <2>2. CASE m.pane \in appRoles
    <3>1. PICK c \in Call : Begin(c, m.pane, "replay") /\ toD' = Append(toD, Bind(c, m.pane))
      BY <1>4, <2>2 DEF Spawned
    <3>2. m.pane \in Owners'
      BY <1>2, <2>2 DEF OwnedInv
    <3> QED
      BY <1>1, <1>2, <2>1, <3>1, <3>2, OwnersBegin
  <2>3. CASE m.pane \notin appRoles
    <3>1. toD' = toD /\ UNCHANGED <<phase, target>>
      BY <1>4, <2>3 DEF Spawned
    <3> QED
      BY <1>2, <2>1, <3>1, OwnersSame DEF OwnedInv, Live
  <2> QED
    BY <2>2, <2>3
<1>5. CASE Lapsed(m) \/ Exited(m) \/ Dropped(m)
  <2>1. toD' = toD /\ UNCHANGED <<appRoles, phase, target>>
    BY <1>5 DEF Lapsed, Exited, Dropped
  <2> QED
    BY <1>2, <2>1, OwnersSame DEF OwnedInv, Live
<1> QED
  BY <1>3, <1>4, <1>5 DEF AppReads

LEMMA OwnedStep == ASSUME RoleTypes, CallsWait, OwnedInv, [RolesNext]_rolesVars PROVE OwnedInv'
<1> USE DEF renderer, relay, binding, daemon, history
<1>1. CASE DaemonReads
  <2>1. Owners' = Owners /\ UNCHANGED <<appRoles, phase, target>>
    BY <1>1 DEF DaemonReads, Owners
  <2> QED
    BY <1>1, <2>1, LeavingRead DEF OwnedInv, Live
<1>2. CASE DaemonDies
  <2>1. Owners' = Owners /\ UNCHANGED <<appRoles, target>> /\ roles' = {}
    BY <1>2 DEF DaemonDies, Owners
  <2>2. \A c \in Call : Live(c)' => Live(c)
    BY <1>2 DEF DaemonDies, Live
  <2>3. \A i \in DOMAIN toD' : toD'[i].t = "replay"
    BY <1>2, RoleSizes, ReplaysAre
  <2>4. \A p \in Slot : Leaving(p)'
    BY <2>1, <2>3 DEF Leaving, Is
  <2> QED
    BY <2>1, <2>2, <2>4 DEF OwnedInv
<1>3. CASE UNCHANGED rolesVars
  <2>1. Owners' = Owners /\ UNCHANGED <<appRoles, phase, target, toD, roles>>
    BY <1>3 DEF rolesVars, Owners
  <2> QED
    BY <2>1, OwnersSame DEF OwnedInv, Live
<1> QED
  BY <1>1, <1>2, <1>3, OwnedByPane, OwnedByCall, OwnedByAnswer DEF RolesNext

LEMMA NextRoleTypes == ASSUME RoleTypes, CallsWait, [RolesNext]_rolesVars PROVE RoleTypes'
<1>1. CASE UNCHANGED rolesVars
  BY <1>1 DEF rolesVars, renderer, relay, binding, daemon, history, RoleTypes
<1> QED
  BY <1>1, RoleSizes, CallTypes, PaneTypes, DaemonReadsTypes, AppReadsTypes, DaemonDiesTypes DEF RolesNext

\* Every variable keeps its type, and a call waits in the line of its own slot once.
THEOREM RolesTyped == RolesSpec => [](RoleTypes /\ CallsWait)
<1>1. RolesInit => RoleTypes /\ CallsWait
  BY InitRoleTypes DEF RolesInit, CallsWait, Live
<1>2. RoleTypes /\ CallsWait /\ [RolesNext]_rolesVars => (RoleTypes /\ CallsWait)'
  BY NextRoleTypes, CallsWaitStep, RoleSizes
<1> QED
  BY <1>1, <1>2, PTL DEF RolesSpec

\* A role follows its pane and not its slot: a record that names a pane the manifest has
\* not named is of one closed while its role was being bound, and what the daemon still
\* has for an unnamed slot has a kill on its way behind it.
THEOREM RolesStay == RolesSpec => []RolesBelongToTheirPane
<1>1. RolesInit => OwnedInv
  BY DEF RolesInit, OwnedInv, Owners, Leaving, Live
<1>2. RoleTypes /\ CallsWait /\ OwnedInv /\ [RolesNext]_rolesVars => OwnedInv'
  BY OwnedStep
<1>3. RoleTypes /\ OwnedInv => RolesBelongToTheirPane
  <2> SUFFICES ASSUME RoleTypes, OwnedInv, toD = <<>> PROVE roles \subseteq Owners
    BY DEF RolesBelongToTheirPane, OwnedInv, Owners
  <2>1. DOMAIN toD = {}
    OBVIOUS
  <2> QED
    BY <2>1 DEF OwnedInv, Leaving, Killed, Is, RoleTypes
<1> QED
  BY <1>1, <1>2, <1>3, RolesTyped, PTL DEF RolesSpec

----------------------------------------------------------------------------
(* Roles: what is under way of a call.                                      *)

\* t is s with m behind it, at n.
Adds(t, s, m, n) ==
    /\ n \in Nat /\ n > 0 /\ n \in DOMAIN t /\ t[n] = m /\ n \notin DOMAIN s
    /\ \A i \in DOMAIN s : i \in DOMAIN t /\ t[i] = s[i] /\ i < n
    /\ \A i \in DOMAIN t : i \in Nat /\ (i \in DOMAIN s \/ i = n)

\* t is s without its first element.
Rests(t, s) ==
    /\ 1 \in DOMAIN s
    /\ \A i \in DOMAIN t : i \in Nat /\ i + 1 \in DOMAIN s /\ t[i] = s[i + 1]
    /\ \A i \in DOMAIN s : i \in Nat /\ (i = 1 \/ (i - 1 \in DOMAIN t /\ t[i - 1] = s[i]))

LEMMA AppendAdds ==
  ASSUME NEW S, NEW s \in Seq(S), NEW e \in S
  PROVE  \E n \in Nat : Adds(Append(s, e), s, e, n)
<1>1. Len(s) + 1 \in Nat /\ Len(s) + 1 > 0
  BY LenProperties
<1>2. Adds(Append(s, e), s, e, Len(s) + 1)
  BY <1>1, AppendAt DEF Adds
<1> QED
  BY <1>2

LEMMA TailRests ==
  ASSUME NEW S, NEW s \in Seq(S), s # <<>>
  PROVE  Rests(Tail(s), s) /\ Head(s) = s[1]
BY TailAt DEF Rests

\* A call takes its turn once: what it is for is fixed while it is under way.
CallsKeep ==
    \A c \in Call : phase[c] # "idle" =>
        /\ phase'[c] # "idle"
        /\ Live(c)' => Live(c) /\ target'[c] = target[c]

\* A call, begun or tried again, sends its command.
Binds(c, p) ==
    /\ toD' = Append(toD, Bind(c, p))
    /\ phase[c] = "idle" \/ (Live(c) /\ target[c] = p)
    /\ phase' = [phase EXCEPT ![c] = "sent"] /\ target' = [target EXCEPT ![c] = p]
    /\ UNCHANGED <<dead, specs, appRoles, sessions, roles, orphaned, unsure>>

LEMMA CallBinds ==
  ASSUME RoleTypes, CallsWait, NEW c \in Call, Retry(c)
  PROVE  target[c] \in Slot /\ Binds(c, target[c]) /\ toA' = toA
<1>1. target[c] \in Slot /\ Live(c)
  BY DEF Retry, CallsWait, Live
<1>2. target' = [target EXCEPT ![c] = target[c]]
  BY DEF Retry, RoleTypes
<1> QED
  BY <1>1, <1>2 DEF Retry, Try, Binds, renderer, daemon, history

LEMMA UserBinds ==
  ASSUME RoleTypes, NEW c \in Call, NEW p \in Slot, SetRole(c, p)
  PROVE  \/ Binds(c, p) /\ toA' = toA
         \/ UNCHANGED <<phase, target, toD, toA, dead, specs, appRoles, sessions, roles, orphaned, unsure>>
BY DEF SetRole, Begin, Try, Binds, binding, daemon, history

LEMMA ReplayBinds ==
  ASSUME RoleTypes, AppReads, Spawned(Head(toA)), Head(toA).pane \in appRoles
  PROVE  \E c \in Call : Binds(c, Head(toA).pane)
<1>1. PICK c \in Call : Begin(c, Head(toA).pane, "replay") /\ toD' = Append(toD, Bind(c, Head(toA).pane))
  BY DEF Spawned
<1>2. Binds(c, Head(toA).pane)
  BY <1>1 DEF AppReads, Spawned, Begin, Try, Binds, daemon
<1> QED
  BY <1>2

LEMMA BindsKeeps ==
  ASSUME RoleTypes, NEW c \in Call, NEW p \in Slot, Binds(c, p)
  PROVE  /\ CallsKeep
         /\ Bind(c, p) \in Command /\ Bind(c, p).t = "set-role" /\ Bind(c, p).pane = p /\ Bind(c, p).call = c
         /\ phase'[c] = "sent" /\ target'[c] = p
         /\ \A d \in Call \ {c} : phase'[d] = phase[d] /\ target'[d] = target[d]
         /\ \E n \in Nat : Adds(toD', toD, Bind(c, p), n)
<1>1. /\ phase'[c] = "sent" /\ target'[c] = p
      /\ \A d \in Call \ {c} : phase'[d] = phase[d] /\ target'[d] = target[d]
  BY DEF Binds, RoleTypes
<1>2. CallsKeep
  BY <1>1 DEF CallsKeep, Binds, Live
<1>3. Bind(c, p) \in Command /\ Bind(c, p).t = "set-role" /\ Bind(c, p).pane = p /\ Bind(c, p).call = c
  BY MessageKinds DEF Bind
<1>4. \E n \in Nat : Adds(toD', toD, Bind(c, p), n)
  BY <1>3, AppendAdds DEF Binds, RoleTypes
<1> QED
  BY <1>1, <1>2, <1>3, <1>4

\* What the answer leaves of the call that takes it.
LEMMA AnswerKeeps ==
  ASSUME RoleTypes, CallsWait, AppReads, RoleSet(Head(toA))
  PROVE  CallsKeep
<1> DEFINE m == Head(toA)
<1>1. m \in Answer /\ m.pane \in Slot
  BY TailAt, AnswerKinds DEF RoleTypes, AppReads
<1>2. CASE waiters[m.pane] = <<>>
  BY <1>2 DEF RoleSet, binding, CallsKeep, Live
<1>3. CASE waiters[m.pane] # <<>>
  <2>1. PICK c \in Call :
           /\ c = waiters[m.pane][1] /\ 1 \in DOMAIN waiters[m.pane]
           /\ m.ok => Done(c)
           /\ ~m.ok => phase' = [phase EXCEPT ![c] = "pause"] /\ UNCHANGED <<kind, target, tries>>
    BY <1>1, <1>3, AnsweredCall
  <2>2. Live(c)
    BY <1>1, <2>1 DEF CallsWait, Live
  <2> QED
    BY <2>1, <2>2 DEF CallsKeep, Done, Live, RoleTypes
<1> QED
  BY <1>2, <1>3

LEMMA CallsKeepStep == ASSUME RoleTypes, CallsWait, [RolesNext]_rolesVars PROVE CallsKeep
<1> USE DEF renderer, relay, binding, daemon, history
<1>1. ASSUME NEW p \in Slot, Open(p) \/ Spawn(p) \/ CloseSlot(p) \/ ShellExits(p) PROVE CallsKeep
  BY <1>1 DEF Open, Spawn, CloseSlot, ShellExits, CallsKeep, Live
<1>2. ASSUME NEW c \in Call, Retry(c) PROVE CallsKeep
  BY <1>2, CallBinds, BindsKeeps
<1>3. ASSUME NEW c \in Call, GiveUp(c) \/ Timeout(c) PROVE CallsKeep
  BY <1>3 DEF GiveUp, Timeout, Done, CallsKeep, Live, RoleTypes
<1>4. ASSUME NEW c \in Call, NEW p \in Slot, SetRole(c, p) PROVE CallsKeep
  <2>1. CASE Binds(c, p)
    BY <2>1, BindsKeeps
  <2>2. CASE UNCHANGED <<phase, target>>
    BY <2>2 DEF CallsKeep, Live
  <2> QED
    BY <1>4, <2>1, <2>2, UserBinds
<1>5. CASE AppReads
  <2> DEFINE m == Head(toA)
  <2>1. m.pane \in Slot
    BY <1>5, TailAt, AnswerKinds DEF RoleTypes, AppReads
  <2>2. CASE RoleSet(m)
    BY <1>5, <2>2, AnswerKeeps
  <2>3. CASE Spawned(m) /\ m.pane \in appRoles
    BY <1>5, <2>1, <2>3, ReplayBinds, BindsKeeps
  <2>4. CASE (Spawned(m) /\ m.pane \notin appRoles) \/ Lapsed(m) \/ Exited(m) \/ Dropped(m)
    BY <2>4 DEF Spawned, Lapsed, Exited, Dropped, CallsKeep, Live
  <2> QED
    BY <1>5, <2>2, <2>3, <2>4 DEF AppReads
<1>6. CASE DaemonDies
  BY <1>6 DEF DaemonDies, CallsKeep, Live, RoleTypes
<1>7. CASE DaemonReads \/ UNCHANGED rolesVars
  BY <1>7 DEF DaemonReads, rolesVars, CallsKeep, Live
<1> QED
  BY <1>1, <1>2, <1>3, <1>4, <1>5, <1>6, <1>7 DEF RolesNext

\* What a step does to the commands under way.
LEMMA QueueSteps ==
  ASSUME RoleTypes, CallsWait, [RolesNext]_rolesVars
  PROVE  /\ orphaned \subseteq orphaned'
         /\ \/ toD' = toD /\ sessions' \subseteq sessions
            \/ \E p \in Slot : Spawn(p) \/ CloseSlot(p)
            \/ \E c \in Call, p \in Slot : Binds(c, p)
            \/ DaemonReads
            \/ DaemonDies
<1> DEFINE Goal == /\ orphaned \subseteq orphaned'
                   /\ \/ toD' = toD /\ sessions' \subseteq sessions
                      \/ \E p \in Slot : Spawn(p) \/ CloseSlot(p)
                      \/ \E c \in Call, p \in Slot : Binds(c, p)
                      \/ DaemonReads
                      \/ DaemonDies
<1> USE DEF renderer, relay, binding, daemon, history
<1>1. ASSUME NEW p \in Slot, Open(p) \/ ShellExits(p) PROVE Goal
  BY <1>1 DEF Open, ShellExits
<1>2. ASSUME NEW p \in Slot, Spawn(p) \/ CloseSlot(p) PROVE Goal
  <2>1. orphaned \subseteq orphaned'
    BY <1>2 DEF Spawn, CloseSlot
  <2> QED
    BY <1>2, <2>1
<1>3. ASSUME NEW c \in Call, NEW p \in Slot, Binds(c, p) PROVE Goal
  <2>1. orphaned' = orphaned
    BY <1>3 DEF Binds
  <2> QED
    BY <1>3, <2>1
<1>4. ASSUME NEW c \in Call, Retry(c) PROVE Goal
  BY <1>3, <1>4, CallBinds
<1>5. ASSUME NEW c \in Call, NEW p \in Slot, SetRole(c, p) PROVE Goal
  <2>1. CASE Binds(c, p)
    BY <1>3, <2>1
  <2>2. CASE UNCHANGED <<toD, sessions, orphaned>>
    BY <2>2
  <2> QED
    BY <1>5, <2>1, <2>2, UserBinds
<1>6. ASSUME NEW c \in Call, GiveUp(c) \/ Timeout(c) PROVE Goal
  BY <1>6 DEF GiveUp, Timeout
<1>7. CASE DaemonReads
  <2>1. orphaned' = orphaned
    BY <1>7 DEF DaemonReads
  <2> QED
    BY <1>7, <2>1
<1>8. CASE DaemonDies
  <2>1. orphaned' = orphaned
    BY <1>8 DEF DaemonDies
  <2> QED
    BY <1>8, <2>1
<1>9. CASE UNCHANGED rolesVars
  BY <1>9 DEF rolesVars
<1>10. CASE AppReads
  <2> DEFINE m == Head(toA)
  <2>1. m.pane \in Slot
    BY <1>10, TailAt, AnswerKinds DEF RoleTypes, AppReads
  <2>2. CASE Spawned(m) /\ m.pane \in appRoles
    BY <1>3, <1>10, <2>1, <2>2, ReplayBinds
  <2>3. CASE \/ RoleSet(m) \/ (Spawned(m) /\ m.pane \notin appRoles)
             \/ Lapsed(m) \/ Exited(m) \/ Dropped(m)
    BY <1>10, <2>3 DEF AppReads, RoleSet, Spawned, Lapsed, Exited, Dropped
  <2> QED
    BY <1>10, <2>2, <2>3 DEF AppReads
<1> QED
  BY <1>1, <1>2, <1>4, <1>5, <1>6, <1>7, <1>8, <1>9, <1>10 DEF RolesNext

AnswerTo(m) == [t |-> "role-set", pane |-> m.pane, ok |-> m.pane \in sessions, call |-> m.call]

\* Where the answers under way come from.
LEMMA AnswerSteps ==
  ASSUME RoleTypes, CallsWait, [RolesNext]_rolesVars,
         NEW i \in DOMAIN toA', toA'[i].t \in {"role-set", "spawned"}
  PROVE  \/ \E j \in DOMAIN toA : toA'[i] = toA[j]
         \/ DaemonReads /\ toD[1].t = "set-role" /\ toA'[i] = AnswerTo(toD[1])
         \/ DaemonReads /\ toD[1].t = "replay" /\ toA'[i] = Msg("spawned", toD[1].pane)
<1> DEFINE Goal == \/ \E j \in DOMAIN toA : toA'[i] = toA[j]
                   \/ DaemonReads /\ toD[1].t = "set-role" /\ toA'[i] = AnswerTo(toD[1])
                   \/ DaemonReads /\ toD[1].t = "replay" /\ toA'[i] = Msg("spawned", toD[1].pane)
<1> USE DEF renderer, relay, binding, daemon, history
<1>1. ASSUME toA' = toA PROVE Goal
  BY <1>1
<1>2. ASSUME NEW m \in Answer, toA' = Append(toA, m), ~(\E j \in DOMAIN toA : toA'[i] = toA[j])
      PROVE  toA'[i] = m
  <2>1. PICK n : Adds(toA', toA, m, n)
    BY <1>2, AppendAdds DEF RoleTypes
  <2> QED
    BY <1>2, <2>1 DEF Adds
<1>3. ASSUME NEW p \in Slot, Open(p) \/ Spawn(p) PROVE Goal
  BY <1>1, <1>3 DEF Open, Spawn
<1>4. ASSUME NEW p \in Slot, CloseSlot(p) PROVE Goal
  <2>1. i \in DOMAIN toA /\ toA'[i] = IF toA[i] = Msg("exit", p) THEN Msg("stale exit", p) ELSE toA[i]
    BY <1>4 DEF CloseSlot, ExitsStale
  <2>2. toA[i] # Msg("exit", p)
    <3>1. Msg("stale exit", p).t = "stale exit"
      BY DEF Msg
    <3> QED
      BY <2>1, <3>1
  <2> QED
    BY <2>1, <2>2
<1>5. ASSUME NEW p \in Slot, ShellExits(p) PROVE Goal
  <2>1. CASE toA' = Append(toA, Msg("exit", p))
    <3>1. Msg("exit", p) \in Answer /\ Msg("exit", p).t = "exit"
      BY MessageKinds DEF Msg
    <3>2. toA'[i] # Msg("exit", p)
      BY <3>1
    <3> QED
      BY <1>2, <2>1, <3>1, <3>2
  <2> QED
    BY <1>1, <1>5, <2>1 DEF ShellExits
<1>6. ASSUME NEW c \in Call, Retry(c) \/ GiveUp(c) \/ Timeout(c) \/ \E p \in Slot : SetRole(c, p) PROVE Goal
  BY <1>1, <1>6 DEF Retry, GiveUp, Timeout, SetRole
<1>7. CASE DaemonReads
  <2>1. toD # <<>> /\ Head(toD) = toD[1] /\ toD[1] \in Command
    BY <1>7, TailAt DEF RoleTypes, DaemonReads
  <2>2. toD[1].pane \in Slot
    BY <2>1, CommandKinds
  <2>3. CASE toD[1].t = "set-role"
    <3>1. toA' = Append(toA, AnswerTo(toD[1]))
      BY <1>7, <2>1, <2>3 DEF DaemonReads, AnswerTo
    <3>2. AnswerTo(toD[1]) \in Answer
      BY <2>1, <2>2, <2>3, CommandKinds, RoleSetKind DEF AnswerTo
    <3> QED
      BY <1>2, <1>7, <2>3, <3>1, <3>2
  <2>4. CASE toD[1].t = "replay"
    <3>1. CASE toA' = Append(toA, Msg("spawned", toD[1].pane))
      BY <1>2, <1>7, <2>2, <2>4, <3>1, MessageKinds
    <3>2. CASE toA' = Append(toA, Msg("error", toD[1].pane))
      <4>1. Msg("error", toD[1].pane) \in Answer /\ Msg("error", toD[1].pane).t = "error"
        BY <2>2, MessageKinds DEF Msg
      <4>2. toA'[i] # Msg("error", toD[1].pane)
        BY <4>1
      <4> QED
        BY <1>2, <3>2, <4>1, <4>2
    <3> QED
      BY <1>7, <2>1, <2>4, <3>1, <3>2 DEF DaemonReads
  <2>5. CASE toD[1].t \in {"spawn", "kill"}
    BY <1>1, <1>7, <2>1, <2>5 DEF DaemonReads
  <2> QED
    BY <2>1, <2>3, <2>4, <2>5, CommandKinds
<1>8. CASE AppReads
  <2>1. toA' = Tail(toA) /\ toA # <<>>
    BY <1>8 DEF AppReads
  <2>2. Rests(toA', toA)
    BY <2>1, TailRests DEF RoleTypes
  <2>3. i + 1 \in DOMAIN toA /\ toA'[i] = toA[i + 1]
    BY <2>2 DEF Rests
  <2> QED
    BY <2>3
<1>9. CASE DaemonDies
  BY <1>9 DEF DaemonDies
<1>10. CASE UNCHANGED rolesVars
  BY <1>1, <1>10 DEF rolesVars
<1> QED
  BY <1>3, <1>4, <1>5, <1>6, <1>7, <1>8, <1>9, <1>10 DEF RolesNext

\* A command or answer of a call names the pane the call is for.
OfCall(m) ==
    m.t \in {"set-role", "role-set"} =>
        /\ phase[m.call] # "idle"
        /\ Live(m.call) => target[m.call] = m.pane

Sent ==
    /\ \A i \in DOMAIN toD : OfCall(toD[i])
    /\ \A i \in DOMAIN toA : OfCall(toA[i])

\* While a call is under way a kill behind one of its commands orphans it.
KillsOrphan ==
    \A i \in DOMAIN toD :
        toD[i].t = "set-role" /\ Live(toD[i].call) /\ Killed(toD, i, toD[i].pane) => toD[i].pane \in orphaned

ReplaysFirst ==
    \A i, j \in DOMAIN toD : i < j /\ toD[j].t = "replay" => toD[i].t = "replay"

LEMMA OfCallKeeps ==
  ASSUME CallsKeep, NEW m \in Command \cup Answer, OfCall(m)
  PROVE  OfCall(m)'
BY CommandKinds, AnswerKinds DEF CallsKeep, OfCall

LEMMA AtQueues ==
  ASSUME RoleTypes
  PROVE  /\ \A i \in DOMAIN toD : i \in Nat /\ toD[i] \in Command
         /\ \A i \in DOMAIN toA : i \in Nat /\ toA[i] \in Answer
BY LenProperties, ElementOfSeq DEF RoleTypes

\* What a spawn and a close send.
LEMMA PaneSends ==
  ASSUME RoleTypes, NEW p \in Slot, Spawn(p) \/ CloseSlot(p)
  PROVE  \E m \in Command, n \in Nat :
           Adds(toD', toD, m, n) /\ m.pane = p /\ m.t = IF CloseSlot(p) THEN "kill" ELSE "spawn"
<1>1. CASE CloseSlot(p)
  <2>1. toD' = Append(toD, Msg("kill", p)) /\ Msg("kill", p) \in Command
    BY <1>1, MessageKinds DEF CloseSlot
  <2> QED
    BY <1>1, <2>1, AppendAdds DEF RoleTypes, Msg
<1>2. CASE ~CloseSlot(p)
  <2>1. toD' = Append(toD, Msg("spawn", p)) /\ Msg("spawn", p) \in Command
    BY <1>2, MessageKinds DEF Spawn
  <2> QED
    BY <1>2, <2>1, AppendAdds DEF RoleTypes, Msg
<1> QED
  BY <1>1, <1>2

LEMMA ReadsFirst ==
  ASSUME RoleTypes, DaemonReads
  PROVE  Rests(toD', toD) /\ Head(toD) = toD[1] /\ toD[1] \in Command /\ toD # <<>> /\ toD[1].pane \in Slot
<1>1. toD # <<>> /\ toD' = Tail(toD)
  BY DEF DaemonReads
<1>2. Rests(toD', toD) /\ Head(toD) = toD[1]
  BY <1>1, TailRests DEF RoleTypes
<1> QED
  BY <1>1, <1>2, AtQueues, CommandKinds DEF Rests

LEMMA SentStep == ASSUME RoleSizes, RoleTypes, CallsWait, Sent, [RolesNext]_rolesVars PROVE Sent'
<1>1. \A m \in Command \cup Answer : OfCall(m) => OfCall(m)'
  BY CallsKeepStep, OfCallKeeps
<1>2. /\ \A m : (\E i \in DOMAIN toD : m = toD[i]) => OfCall(m)'
      /\ \A m : (\E i \in DOMAIN toA : m = toA[i]) => OfCall(m)'
  BY <1>1, AtQueues DEF Sent
<1>3. ASSUME NEW i \in DOMAIN toD', NEW e, e = toD'[i] PROVE OfCall(e)'
  <2>1. CASE toD' = toD
    BY <1>2, <1>3, <2>1
  <2>2. ASSUME NEW p \in Slot, Spawn(p) \/ CloseSlot(p) PROVE OfCall(e)'
    <3>1. PICK m \in Command, n \in Nat : Adds(toD', toD, m, n) /\ m.t \in {"kill", "spawn"}
      BY <2>2, PaneSends
    <3>2. CASE i \in DOMAIN toD
      BY <1>2, <1>3, <3>1, <3>2 DEF Adds
    <3>3. CASE i = n
      BY <1>3, <3>1, <3>3 DEF Adds, OfCall
    <3> QED
      BY <3>1, <3>2, <3>3 DEF Adds
  <2>3. ASSUME NEW c \in Call, NEW p \in Slot, Binds(c, p) PROVE OfCall(e)'
    <3>1. PICK m, n : /\ Adds(toD', toD, m, n)
                      /\ m.call = c /\ m.pane = p /\ phase'[c] = "sent" /\ target'[c] = p
      BY <2>3, BindsKeeps
    <3>2. CASE i \in DOMAIN toD
      BY <1>2, <1>3, <3>1, <3>2 DEF Adds
    <3>3. CASE i = n
      BY <1>3, <3>1, <3>3 DEF Adds, OfCall
    <3> QED
      BY <3>1, <3>2, <3>3 DEF Adds
  <2>4. CASE DaemonReads
    BY <1>2, <1>3, <2>4, ReadsFirst DEF Rests
  <2>5. CASE DaemonDies
    BY <1>3, <2>5, ReplaysAre DEF OfCall
  <2> QED
    BY <2>1, <2>2, <2>3, <2>4, <2>5, QueueSteps
<1>4. ASSUME NEW i \in DOMAIN toA', NEW e, e = toA'[i] PROVE OfCall(e)'
  <2>1. CASE \E j \in DOMAIN toA : toA'[i] = toA[j]
    BY <1>2, <1>4, <2>1
  <2>2. CASE DaemonReads /\ toD[1].t = "set-role" /\ toA'[i] = AnswerTo(toD[1])
    <3>1. PICK m : m = toD[1] /\ OfCall(m)' /\ m.t = "set-role"
      BY <1>2, <2>2, ReadsFirst DEF Rests
    <3>2. e.call = m.call /\ e.pane = m.pane
      BY <1>4, <2>2, <3>1 DEF AnswerTo
    <3> QED
      BY <3>1, <3>2 DEF OfCall
  <2>3. e.t # "set-role"
    <3>1. RoleTypes'
      BY NextRoleTypes
    <3>2. e \in Answer
      BY <1>4, <3>1, LenProperties, ElementOfSeq DEF RoleTypes
    <3> QED
      BY <3>2, AnswerKinds
  <2>4. CASE e.t # "role-set"
    BY <2>3, <2>4 DEF OfCall
  <2>5. CASE DaemonReads /\ toD[1].t = "replay" /\ toA'[i] = Msg("spawned", toD[1].pane)
    BY <1>4, <2>5 DEF OfCall, Msg
  <2> QED
    BY <1>4, <2>1, <2>2, <2>4, <2>5, AnswerSteps
<1> QED
  BY <1>3, <1>4 DEF Sent

LEMMA ReplaysFirstStep ==
  ASSUME RoleSizes, RoleTypes, CallsWait, ReplaysFirst, [RolesNext]_rolesVars
  PROVE  ReplaysFirst'
<1>1. CASE toD' = toD
  BY <1>1 DEF ReplaysFirst
<1>2. ASSUME NEW m, NEW n, Adds(toD', toD, m, n), m.t # "replay" PROVE ReplaysFirst'
  <2> SUFFICES ASSUME NEW i \in DOMAIN toD', NEW j \in DOMAIN toD', i < j, toD'[j].t = "replay"
               PROVE  toD'[i].t = "replay"
    BY DEF ReplaysFirst
  <2>1. j \in DOMAIN toD /\ toD'[j] = toD[j] /\ j < n
    BY <1>2 DEF Adds
  <2>2. i \in DOMAIN toD /\ toD'[i] = toD[i]
    BY <1>2, <2>1, AtQueues DEF Adds
  <2> QED
    BY <2>1, <2>2 DEF ReplaysFirst
<1>3. ASSUME NEW p \in Slot, Spawn(p) \/ CloseSlot(p) PROVE ReplaysFirst'
  <2>1. PICK m \in Command, n \in Nat : Adds(toD', toD, m, n) /\ m.t \in {"kill", "spawn"}
    BY <1>3, PaneSends
  <2> QED
    BY <1>2, <2>1
<1>4. ASSUME NEW c \in Call, NEW p \in Slot, Binds(c, p) PROVE ReplaysFirst'
  <2>1. PICK m, n : Adds(toD', toD, m, n) /\ m.t = "set-role"
    BY <1>4, BindsKeeps
  <2> QED
    BY <1>2, <2>1
<1>5. CASE DaemonReads
  BY <1>5, ReadsFirst DEF Rests, ReplaysFirst
<1>6. CASE DaemonDies
  BY <1>6, ReplaysAre DEF ReplaysFirst
<1> QED
  BY <1>1, <1>3, <1>4, <1>5, <1>6, QueueSteps

\* A kill behind an element of the queue stays behind it.
LEMMA KilledRests ==
  ASSUME NEW s, NEW t, Rests(t, s), NEW i \in Nat, NEW p
  PROVE  /\ Killed(t, i, p) => Killed(s, i + 1, p)
         /\ Killed(s, i + 1, p) => Killed(t, i, p)
         /\ Killed(s, 0, p) => Killed(t, 0, p) \/ Is(s, 1, "kill", p)
<1>1. ASSUME Killed(t, i, p) PROVE Killed(s, i + 1, p)
  <2>1. PICK k \in DOMAIN t : k > i /\ Is(t, k, "kill", p)
    BY <1>1 DEF Killed
  <2>2. k \in Nat /\ k + 1 \in DOMAIN s /\ t[k] = s[k + 1]
    BY DEF Rests
  <2> QED
    BY <2>1, <2>2 DEF Killed, Is
<1>2. ASSUME NEW j \in Nat, NEW k \in DOMAIN s, k > j + 1, Is(s, k, "kill", p) PROVE Killed(t, j, p)
  <2>1. k \in Nat /\ k # 1
    BY <1>2 DEF Rests
  <2>2. k - 1 \in DOMAIN t /\ t[k - 1] = s[k] /\ k - 1 > j
    BY <1>2, <2>1 DEF Rests
  <2> QED
    BY <1>2, <2>2 DEF Killed, Is
<1>3. ASSUME Killed(s, 0, p), ~Is(s, 1, "kill", p) PROVE Killed(t, 0, p)
  <2>1. PICK k \in DOMAIN s : k > 0 /\ Is(s, k, "kill", p)
    BY <1>3 DEF Killed
  <2>2. k \in Nat /\ k > 0 + 1
    BY <1>3, <2>1 DEF Rests
  <2> QED
    BY <1>2, <2>1, <2>2
<1>4. Killed(s, i + 1, p) => Killed(t, i, p)
  BY <1>2 DEF Killed
<1> QED
  BY <1>1, <1>3, <1>4

LEMMA KilledAdds ==
  ASSUME NEW s, NEW t, NEW m, NEW n, Adds(t, s, m, n), NEW i, NEW p
  PROVE  /\ Killed(s, i, p) => Killed(t, i, p)
         /\ Killed(t, i, p) => Killed(s, i, p) \/ (m.t = "kill" /\ m.pane = p)
         /\ m.t = "kill" /\ m.pane = p /\ i < n => Killed(t, i, p)
BY DEF Adds, Killed, Is

LEMMA KillsOrphanStep ==
  ASSUME RoleSizes, RoleTypes, CallsWait, Sent, KillsOrphan, [RolesNext]_rolesVars
  PROVE  KillsOrphan'
<1>1. orphaned \subseteq orphaned'
  BY QueueSteps
<1>2. \A i \in DOMAIN toD : toD[i].t = "set-role" =>
          /\ toD[i].call \in Call
          /\ Live(toD[i].call) => target[toD[i].call] = toD[i].pane
          /\ \A c : c = toD[i].call /\ Live(c)' => Live(c)
  BY AtQueues, CommandKinds, CallsKeepStep DEF Sent, OfCall, CallsKeep
<1>3. ASSUME NEW i \in DOMAIN toD, toD[i].t = "set-role", NEW c, c = toD[i].call, Live(c)',
             NEW p, p = toD[i].pane, Killed(toD, i, p)
      PROVE  p \in orphaned'
  BY <1>1, <1>2, <1>3 DEF KillsOrphan
<1> SUFFICES ASSUME NEW i \in DOMAIN toD', toD'[i].t = "set-role", NEW c, c = toD'[i].call, Live(c)',
                    NEW p, p = toD'[i].pane, Killed(toD', i, p)
             PROVE  p \in orphaned'
  BY DEF KillsOrphan
<1>4. CASE toD' = toD
  BY <1>3, <1>4
<1>5. ASSUME NEW m, NEW n, Adds(toD', toD, m, n), ~(m.t = "kill" /\ m.pane = p) PROVE p \in orphaned'
  <2>1. Killed(toD, i, p)
    BY <1>5, KilledAdds
  <2>2. i \in DOMAIN toD
    BY <1>5, <2>1, AtQueues DEF Killed, Adds
  <2> QED
    BY <1>3, <1>5, <2>1, <2>2 DEF Adds
<1>6. ASSUME NEW q \in Slot, CloseSlot(q), q = p PROVE p \in orphaned'
  <2>1. PICK m \in Command, n \in Nat : Adds(toD', toD, m, n) /\ m.t = "kill"
    BY <1>6, PaneSends
  <2>2. i \in DOMAIN toD /\ toD'[i] = toD[i]
    BY <2>1 DEF Adds
  <2>3. target[c] = p /\ Live(c) /\ c \in Call
    BY <1>2, <2>2
  <2>4. Binding(p)
    BY <2>3 DEF Binding, Live
  <2> QED
    BY <1>6, <2>4 DEF CloseSlot
<1>7. ASSUME NEW q \in Slot, Spawn(q) \/ CloseSlot(q), ~(CloseSlot(q) /\ q = p) PROVE p \in orphaned'
  <2>1. PICK m \in Command, n \in Nat :
           Adds(toD', toD, m, n) /\ m.pane = q /\ m.t = IF CloseSlot(q) THEN "kill" ELSE "spawn"
    BY <1>7, PaneSends
  <2> QED
    BY <1>5, <1>7, <2>1
<1>8. ASSUME NEW d \in Call, NEW q \in Slot, Binds(d, q) PROVE p \in orphaned'
  <2>1. PICK m, n : Adds(toD', toD, m, n) /\ m.t = "set-role"
    BY <1>8, BindsKeeps
  <2> QED
    BY <1>5, <2>1
<1>9. CASE DaemonReads
  <2>1. i \in Nat /\ i + 1 \in DOMAIN toD /\ toD'[i] = toD[i + 1]
    BY <1>9, ReadsFirst DEF Rests
  <2>2. Killed(toD, i + 1, p)
    BY <1>9, <2>1, ReadsFirst, KilledRests
  <2> QED
    BY <1>3, <2>1, <2>2
<1>10. CASE DaemonDies
  BY <1>10, ReplaysAre
<1> QED
  BY <1>4, <1>6, <1>7, <1>8, <1>9, <1>10, QueueSteps

----------------------------------------------------------------------------
(* Roles: the session a pane's role is for.                                 *)

Starts(s, i, p) == i \in DOMAIN s /\ s[i].t \in {"spawn", "replay"} /\ s[i].pane = p

\* What starts p at i - the session that runs, at 0, or a command - is killed again.
Doomed(i, p) == (i = 0 /\ p \in sessions) \/ Starts(toD, i, p) => Killed(toD, i, p)

\* A slot that no pane has spawned keeps no session of an earlier one.
Gone(p) == p \notin specs \cup dead => \A i \in Nat : Doomed(i, p)

\* The first spawn of a pane finds no session of an earlier one.
First(p) ==
    p \notin unsure =>
        \A j \in DOMAIN toD : Is(toD, j, "spawn", p) => \A i \in Nat : i < j => Doomed(i, p)

DoomInv == \A p \in Slot : Gone(p) /\ First(p)

LEMMA DoomedAdds ==
  ASSUME NEW m, NEW n, Adds(toD', toD, m, n), sessions' \subseteq sessions, NEW i \in Nat, NEW p,
         \/ m.t = "kill" /\ m.pane = p
         \/ Doomed(i, p) /\ (i # n \/ ~(m.t \in {"spawn", "replay"} /\ m.pane = p))
  PROVE  Doomed(i, p)'
<1> SUFFICES ASSUME (i = 0 /\ p \in sessions') \/ Starts(toD', i, p) PROVE Killed(toD', i, p)
  BY DEF Doomed
<1>1. CASE m.t = "kill" /\ m.pane = p
  <2>1. i < n
    BY <1>1 DEF Starts, Adds
  <2> QED
    BY <1>1, <2>1, KilledAdds
<1>2. CASE Doomed(i, p) /\ (i # n \/ ~(m.t \in {"spawn", "replay"} /\ m.pane = p))
  <2>1. (i = 0 /\ p \in sessions) \/ Starts(toD, i, p)
    BY <1>2 DEF Starts, Adds
  <2> QED
    BY <1>2, <2>1, KilledAdds DEF Doomed
<1> QED
  BY <1>1, <1>2

LEMMA DoomedReads ==
  ASSUME RoleTypes, DaemonReads, NEW i \in Nat, NEW p, Doomed(i + 1, p), i = 0 => Doomed(0, p)
  PROVE  Doomed(i, p)'
<1> SUFFICES ASSUME (i = 0 /\ p \in sessions') \/ Starts(toD', i, p) PROVE Killed(toD', i, p)
  BY DEF Doomed
<1>1. Rests(toD', toD) /\ Head(toD) = toD[1]
  BY ReadsFirst
<1>2. CASE Starts(toD', i, p)
  <2>1. Starts(toD, i + 1, p)
    BY <1>1, <1>2 DEF Starts, Rests
  <2> QED
    BY <1>1, <2>1, KilledRests DEF Doomed
<1>3. CASE i = 0 /\ p \in sessions'
  <2>1. ~Is(toD, 1, "kill", p) /\ (p \in sessions \/ Starts(toD, 1, p))
    BY <1>1, <1>3 DEF DaemonReads, Is, Starts, Rests
  <2>2. CASE p \in sessions
    BY <1>1, <1>3, <2>1, <2>2, KilledRests DEF Doomed
  <2>3. CASE Starts(toD, 1, p)
    <3>1. Killed(toD, 0 + 1, p)
      BY <1>3, <2>3 DEF Doomed
    <3> QED
      BY <1>1, <1>3, <3>1, KilledRests
  <2> QED
    BY <2>1, <2>2, <2>3
<1> QED
  BY <1>2, <1>3

\* Only the pane's own spawn and close take its slot's marks away.
LEMMA MarksKeep ==
  ASSUME RoleTypes, CallsWait, [RolesNext]_rolesVars, NEW p \in Slot, ~Spawn(p), ~CloseSlot(p)
  PROVE  /\ p \in specs \cup dead => p \in specs' \cup dead'
         /\ p \in unsure => p \in unsure'
         /\ p \in orphaned => p \in orphaned'
         /\ p \in orphaned' => p \in orphaned
         /\ p \in unbound /\ ~DaemonDies => p \in unbound'
<1> DEFINE Goal == /\ p \in specs \cup dead => p \in specs' \cup dead'
                   /\ p \in unsure => p \in unsure'
                   /\ p \in orphaned => p \in orphaned'
                   /\ p \in orphaned' => p \in orphaned
                   /\ p \in unbound /\ ~DaemonDies => p \in unbound'
<1> USE DEF renderer, relay, binding, daemon, history
<1>1. ASSUME NEW q \in Slot, Open(q) \/ ShellExits(q) PROVE Goal
  BY <1>1 DEF Open, ShellExits
<1>2. ASSUME NEW q \in Slot \ {p}, Spawn(q) \/ CloseSlot(q) PROVE Goal
  BY <1>2 DEF Spawn, CloseSlot
<1>3. ASSUME NEW c \in Call, Retry(c) \/ GiveUp(c) \/ Timeout(c) \/ \E q \in Slot : SetRole(c, q) PROVE Goal
  BY <1>3 DEF Retry, GiveUp, Timeout, SetRole
<1>4. CASE DaemonReads \/ UNCHANGED rolesVars
  BY <1>4 DEF DaemonReads, rolesVars
<1>6. CASE DaemonDies
  <2>1. UNCHANGED <<specs, dead, unsure, orphaned>>
    BY <1>6 DEF DaemonDies
  <2> QED
    BY <1>6, <2>1
<1>5. CASE AppReads
  <2> DEFINE m == Head(toA)
  <2>1. m \in Answer /\ m.pane \in Slot
    BY <1>5, TailAt, AnswerKinds DEF RoleTypes, AppReads
  <2>2. orphaned' = orphaned
    BY <1>5 DEF AppReads
  <2>3. CASE RoleSet(m)
    <3>1. unsure \subseteq unsure'
      BY <2>3 DEF RoleSet
    <3> QED
      BY <1>5, <2>2, <2>3, <3>1 DEF AppReads, RoleSet
  <2>4. CASE Spawned(m) \/ Lapsed(m) \/ Dropped(m)
    BY <1>5, <2>2, <2>4 DEF AppReads, Spawned, Lapsed, Dropped
  <2>5. CASE Exited(m)
    BY <1>5, <2>1, <2>2, <2>5 DEF AppReads, Exited, RoleTypes
  <2> QED
    BY <1>5, <2>3, <2>4, <2>5 DEF AppReads
<1> QED
  BY <1>1, <1>2, <1>3, <1>4, <1>5, <1>6 DEF RolesNext

LEMMA DoomStep ==
  ASSUME RoleSizes, RoleTypes, CallsWait, DoomInv, [RolesNext]_rolesVars
  PROVE  DoomInv'
<1> SUFFICES ASSUME NEW p \in Slot PROVE Gone(p)' /\ First(p)'
  BY DEF DoomInv
<1>1. Gone(p) /\ First(p)
  BY DEF DoomInv
<1>2. ASSUME ~Spawn(p), ~CloseSlot(p), \A i \in Nat : Doomed(i, p) => Doomed(i, p)',
             \A j \in DOMAIN toD' : Is(toD', j, "spawn", p) => Is(toD, j, "spawn", p)
      PROVE  Gone(p)' /\ First(p)'
  <2>1. (p \in specs \cup dead => p \in specs' \cup dead') /\ (p \in unsure => p \in unsure')
    BY <1>2, MarksKeep
  <2>2. Gone(p)'
    BY <1>1, <1>2, <2>1 DEF Gone
  <2>3. \A j \in DOMAIN toD' : Is(toD', j, "spawn", p) => j \in DOMAIN toD /\ Is(toD, j, "spawn", p)
    BY <1>2 DEF Is
  <2>4. First(p)'
    BY <1>1, <1>2, <2>1, <2>3 DEF First
  <2> QED
    BY <2>2, <2>4
<1>3. CASE Spawn(p)
  <2>1. PICK m \in Command, n \in Nat :
           Adds(toD', toD, m, n) /\ m.pane = p /\ m.t = IF CloseSlot(p) THEN "kill" ELSE "spawn"
    BY <1>3, PaneSends
  <2>2. /\ specs' = specs \cup {p} /\ sessions' = sessions
        /\ unsure' = IF p \in dead THEN unsure \cup {p} ELSE unsure
        /\ p \in dead \/ p \notin specs \cup dead
    BY <1>3 DEF Spawn, daemon
  <2>3. Gone(p)'
    BY <2>2 DEF Gone
  <2>4. ASSUME p \notin unsure' PROVE First(p)'
    <3>1. \A i \in Nat : Doomed(i, p)
      BY <1>1, <2>2, <2>4 DEF Gone
    <3>2. \A i \in Nat : i # n => Doomed(i, p)'
      BY <2>1, <2>2, <3>1, DoomedAdds
    <3>3. \A j \in DOMAIN toD' : j \in Nat /\ (j < n \/ j = n)
      BY <2>1 DEF Adds
    <3>4. \A j \in DOMAIN toD' : \A i \in Nat : i < j => i # n
      BY <2>1, <3>3 DEF Adds
    <3> QED
      BY <3>2, <3>4 DEF First
  <2> QED
    BY <2>3, <2>4 DEF First
<1>4. CASE CloseSlot(p)
  <2>1. PICK m \in Command, n \in Nat : Adds(toD', toD, m, n) /\ m.pane = p /\ m.t = "kill"
    BY <1>4, PaneSends
  <2>2. sessions' = sessions
    BY <1>4 DEF CloseSlot, daemon
  <2>3. \A i \in Nat : Doomed(i, p)'
    BY <2>1, <2>2, DoomedAdds
  <2> QED
    BY <2>3 DEF Gone, First
<1>5. ASSUME ~Spawn(p), ~CloseSlot(p), NEW m, NEW n, Adds(toD', toD, m, n), sessions' \subseteq sessions,
             ~(m.t \in {"spawn", "replay"} /\ m.pane = p)
      PROVE  Gone(p)' /\ First(p)'
  <2>1. \A i \in Nat : Doomed(i, p) => Doomed(i, p)'
    BY <1>5, DoomedAdds
  <2>2. \A j \in DOMAIN toD' : Is(toD', j, "spawn", p) => Is(toD, j, "spawn", p)
    BY <1>5 DEF Adds, Is
  <2> QED
    BY <1>2, <1>5, <2>1, <2>2
<1>6. ASSUME ~Spawn(p), ~CloseSlot(p), NEW q \in Slot, Spawn(q) \/ CloseSlot(q) PROVE Gone(p)' /\ First(p)'
  <2>1. q # p
    BY <1>6
  <2>2. PICK m \in Command, n \in Nat : Adds(toD', toD, m, n) /\ m.pane = q
    BY <1>6, PaneSends
  <2>3. sessions' = sessions
    BY <1>6 DEF Spawn, CloseSlot, daemon
  <2> QED
    BY <1>5, <1>6, <2>1, <2>2, <2>3
<1>7. ASSUME ~Spawn(p), ~CloseSlot(p), NEW c \in Call, NEW q \in Slot, Binds(c, q) PROVE Gone(p)' /\ First(p)'
  <2>1. PICK m \in Command, n \in Nat : Adds(toD', toD, m, n) /\ m.t = "set-role"
    BY <1>7, BindsKeeps
  <2>2. sessions' = sessions
    BY <1>7 DEF Binds
  <2> QED
    BY <1>5, <1>7, <2>1, <2>2
<1>8. ASSUME ~Spawn(p), ~CloseSlot(p), toD' = toD, sessions' \subseteq sessions PROVE Gone(p)' /\ First(p)'
  <2>1. \A i \in Nat : Doomed(i, p) => Doomed(i, p)'
    BY <1>8 DEF Doomed, Starts, Killed, Is
  <2>2. \A j \in DOMAIN toD' : Is(toD', j, "spawn", p) => Is(toD, j, "spawn", p)
    BY <1>8
  <2> QED
    BY <1>2, <1>8, <2>1, <2>2
<1>9. ASSUME ~Spawn(p), ~CloseSlot(p), DaemonReads PROVE Gone(p)' /\ First(p)'
  <2>1. (p \in specs \cup dead => p \in specs' \cup dead') /\ (p \in unsure => p \in unsure')
    BY <1>9, MarksKeep
  <2>2. Gone(p)'
    BY <1>1, <1>9, <2>1, DoomedReads DEF Gone
  <2>3. Rests(toD', toD)
    BY <1>9, ReadsFirst
  <2>4. ASSUME p \notin unsure, NEW j \in DOMAIN toD', Is(toD', j, "spawn", p), NEW i \in Nat, i < j
        PROVE  Doomed(i, p)'
    <3>1. j \in Nat /\ j + 1 \in DOMAIN toD /\ Is(toD, j + 1, "spawn", p)
      BY <2>3, <2>4 DEF Rests, Is
    <3>2. i + 1 < j + 1 /\ i < j + 1 /\ i + 1 \in Nat
      BY <2>4, <3>1
    <3>3. Doomed(i, p) /\ Doomed(i + 1, p)
      BY <1>1, <2>4, <3>1, <3>2 DEF First
    <3> QED
      BY <1>9, <3>3, DoomedReads
  <2>5. First(p)'
    BY <2>1, <2>4 DEF First
  <2> QED
    BY <2>2, <2>5
<1>10. ASSUME ~Spawn(p), ~CloseSlot(p), DaemonDies PROVE Gone(p)' /\ First(p)'
  <2>1. /\ \A i \in DOMAIN toD' : toD'[i].t = "replay" /\ toD'[i].pane \in specs
        /\ sessions' \subseteq specs /\ specs' = specs
    BY <1>10, ReplaysAre DEF DaemonDies
  <2>2. p \notin specs => \A i \in Nat : Doomed(i, p)'
    BY <2>1 DEF Doomed, Starts
  <2>3. Gone(p)'
    BY <2>1, <2>2 DEF Gone
  <2>4. First(p)'
    BY <2>1 DEF First, Is
  <2> QED
    BY <2>3, <2>4
<1> QED
  BY <1>3, <1>4, <1>6, <1>7, <1>8, <1>9, <1>10, QueueSteps

----------------------------------------------------------------------------
(* Roles: what the daemon holds.                                            *)

Sure(p) == p \notin unsure \cup orphaned

\* The daemon has the role of the session it has, and nothing under way changes that.
Held(p) ==
    /\ p \in specs \cup dead
    /\ \A i \in DOMAIN toD : toD[i].pane = p => toD[i].t = "set-role"
    /\ p \in sessions => p \in roles

\* A daemon that took a call's role still has it when the call hears of it.
Acks ==
    \A i \in DOMAIN toA :
        toA[i].t = "role-set" /\ toA[i].ok /\ Live(toA[i].call) /\ Sure(toA[i].pane) => Held(toA[i].pane)

\* A replay or its answer is under way, after which the role is sent, unless it lapses.
Coming(p) ==
    \/ \E i \in DOMAIN toD : Is(toD, i, "replay", p)
    \/ \E i \in DOMAIN toA : Is(toA, i, "spawned", p) \/ Is(toA, i, "error", p)

Replayed(p) == p \in specs \cup dead /\ (Coming(p) \/ p \in unbound)

Kept == \A p \in appRoles : Sure(p) => Binding(p) \/ Held(p) \/ Replayed(p)

\* A slot that is sure after a step was before it, and its shell was not restarted.
LEMMA SureBefore ==
  ASSUME RoleTypes, CallsWait, [RolesNext]_rolesVars, NEW p \in Slot, ~CloseSlot(p), Sure(p)'
  PROVE  Sure(p) /\ (Spawn(p) => p \notin specs \cup dead)
<1>1. CASE Spawn(p)
  BY <1>1 DEF Spawn, Sure
<1>2. CASE ~Spawn(p)
  BY <1>2, MarksKeep DEF Sure
<1> QED
  BY <1>1, <1>2

LEMMA RolesKeep ==
  ASSUME [RolesNext]_rolesVars, ~DaemonReads, ~DaemonDies,
         NEW p, p \in sessions', p \in roles \/ p \notin sessions
  PROVE  p \in roles'
<1> USE DEF renderer, relay, binding, daemon, history
<1>1. ASSUME NEW q \in Slot, ShellExits(q) PROVE p \in roles'
  BY <1>1 DEF ShellExits
<1>2. CASE UNCHANGED <<sessions, roles>>
  BY <1>2
<1>3. ASSUME NEW q \in Slot, Open(q) \/ Spawn(q) \/ CloseSlot(q) PROVE UNCHANGED <<sessions, roles>>
  BY <1>3 DEF Open, Spawn, CloseSlot
<1>4. ASSUME NEW c \in Call, Retry(c) \/ GiveUp(c) \/ Timeout(c) \/ \E q \in Slot : SetRole(c, q)
      PROVE  UNCHANGED <<sessions, roles>>
  BY <1>4 DEF Retry, GiveUp, Timeout, SetRole
<1>5. AppReads \/ UNCHANGED rolesVars => UNCHANGED <<sessions, roles>>
  BY DEF AppReads, rolesVars
<1> QED
  BY <1>1, <1>2, <1>3, <1>4, <1>5 DEF RolesNext

LEMMA HeldStep ==
  ASSUME RoleTypes, CallsWait, [RolesNext]_rolesVars,
         NEW p \in Slot, ~CloseSlot(p), ~DaemonDies, Sure(p)', Held(p)
  PROVE  Held(p)'
<1>1. p \in specs \cup dead /\ ~Spawn(p)
  BY SureBefore DEF Held
<1>2. p \in specs' \cup dead'
  BY <1>1, MarksKeep
<1>3. ASSUME NEW m, NEW n, Adds(toD', toD, m, n), m.pane = p => m.t = "set-role", ~DaemonReads PROVE Held(p)'
  <2>1. \A i \in DOMAIN toD' : toD'[i].pane = p => toD'[i].t = "set-role"
    BY <1>3 DEF Adds, Held
  <2> QED
    BY <1>2, <1>3, <2>1, RolesKeep DEF Held
<1>4. CASE DaemonReads
  <2>1. Rests(toD', toD) /\ Head(toD) = toD[1]
    BY <1>4, ReadsFirst
  <2>2. \A i \in DOMAIN toD' : toD'[i].pane = p => toD'[i].t = "set-role"
    BY <2>1 DEF Rests, Held
  <2>3. toD[1].pane = p => toD[1].t = "set-role"
    BY <2>1 DEF Rests, Held
  <2>4. p \in sessions' => p \in roles'
    BY <1>4, <2>1, <2>3 DEF DaemonReads, Held
  <2> QED
    BY <1>2, <2>2, <2>4 DEF Held
<1>5. CASE ~DaemonReads /\ toD' = toD
  BY <1>2, <1>5, RolesKeep DEF Held
<1>6. ASSUME ~DaemonReads, NEW q \in Slot, Spawn(q) \/ CloseSlot(q) PROVE Held(p)'
  <2>1. q # p
    BY <1>1, <1>6
  <2>2. PICK m \in Command, n \in Nat : Adds(toD', toD, m, n) /\ m.pane = q
    BY <1>6, PaneSends
  <2> QED
    BY <1>3, <1>6, <2>1, <2>2
<1>7. ASSUME ~DaemonReads, NEW c \in Call, NEW q \in Slot, Binds(c, q) PROVE Held(p)'
  <2>1. PICK m, n : Adds(toD', toD, m, n) /\ m.t = "set-role"
    BY <1>7, BindsKeeps
  <2> QED
    BY <1>3, <1>7, <2>1
<1> QED
  BY <1>4, <1>5, <1>6, <1>7, QueueSteps

\* When the daemon takes a call's role, it is for the session of the pane that is there.
LEMMA TakenIsHeld ==
  ASSUME RoleTypes, CallsWait, Sent, KillsOrphan, ReplaysFirst, DoomInv, DaemonReads,
         toD[1].t = "set-role", toD[1].pane \in sessions, Live(toD[1].call), Sure(toD[1].pane)
  PROVE  \A p : p = toD[1].pane => Held(p)'
<1> SUFFICES ASSUME NEW p, p = toD[1].pane PROVE Held(p)'
  OBVIOUS
<1>1. Rests(toD', toD) /\ Head(toD) = toD[1] /\ p \in Slot
  BY ReadsFirst
<1>2. ~Killed(toD, 1, p)
  BY <1>1 DEF KillsOrphan, Sure, Rests
<1>3. ~Killed(toD, 0, p)
  <2>1. \A k \in DOMAIN toD : k \in Nat /\ (k > 0 /\ k # 1 => k > 1)
    BY AtQueues
  <2> QED
    BY <1>2, <2>1 DEF Killed, Is
<1>4. ~Doomed(0, p)
  BY <1>3 DEF Doomed
<1>5. p \in specs \cup dead
  BY <1>1, <1>4 DEF DoomInv, Gone
<1>6. ASSUME NEW i \in DOMAIN toD, toD[i].pane = p PROVE toD[i].t = "set-role"
  <2>1. i \in Nat /\ i >= 1
    BY AtQueues, LenProperties DEF RoleTypes
  <2>2. CASE i = 1
    BY <2>2
  <2>3. CASE i > 1
    <3>1. toD[i].t # "kill"
      BY <1>2, <1>6, <2>3 DEF Killed, Is
    <3>2. toD[i].t # "replay"
      BY <1>1, <2>3 DEF ReplaysFirst, Rests
    <3>3. toD[i].t # "spawn"
      <4>1. 0 \in Nat /\ 0 < i
        BY <2>1
      <4> QED
        BY <1>1, <1>4, <1>6, <4>1 DEF DoomInv, First, Sure, Is
    <3> QED
      BY <3>1, <3>2, <3>3, AtQueues, CommandKinds
  <2> QED
    BY <2>1, <2>2, <2>3
<1>7. \A i \in DOMAIN toD' : toD'[i].pane = p => toD'[i].t = "set-role"
  BY <1>1, <1>6 DEF Rests
<1>8. p \in roles' /\ specs' = specs /\ dead' = dead
  BY <1>1 DEF DaemonReads, renderer, relay
<1> QED
  BY <1>5, <1>7, <1>8 DEF Held

LEMMA AcksStep ==
  ASSUME RoleSizes, RoleTypes, CallsWait, Sent, KillsOrphan, ReplaysFirst, DoomInv, Acks,
         [RolesNext]_rolesVars
  PROVE  Acks'
<1> SUFFICES ASSUME NEW i \in DOMAIN toA', toA'[i].t = "role-set", toA'[i].ok,
                    NEW c, c = toA'[i].call, Live(c)', NEW p, p = toA'[i].pane, Sure(p)'
             PROVE  Held(p)'
  BY DEF Acks
<1>1. p \in Slot /\ ~DaemonDies
  <2>1. RoleTypes'
    BY NextRoleTypes
  <2>2. toA'[i] \in Answer
    BY <2>1, LenProperties, ElementOfSeq DEF RoleTypes
  <2>3. DaemonDies => DOMAIN toA' = {}
    BY DEF DaemonDies
  <2> QED
    BY <2>2, <2>3, AnswerKinds
<1>2. CallsKeep
  BY CallsKeepStep
<1>3. ASSUME NEW j \in DOMAIN toA, toA'[i] = toA[j] PROVE Held(p)'
  <2>1. toA[j].call = c /\ toA[j].pane = p /\ toA[j].t = "role-set" /\ toA[j].ok /\ c \in Call
    BY <1>3, AtQueues, AnswerKinds
  <2>2. Live(c) /\ target[c] = p
    BY <1>2, <1>3, <2>1 DEF Sent, OfCall, CallsKeep
  <2>3. ~CloseSlot(p)
    BY <2>1, <2>2 DEF CloseSlot, Binding, Live, Sure
  <2>4. Sure(p)
    BY <1>1, <2>3, SureBefore
  <2>5. Held(p)
    BY <1>3, <2>1, <2>2, <2>4 DEF Acks
  <2> QED
    BY <1>1, <2>3, <2>5, HeldStep
<1>4. CASE DaemonReads /\ toD[1].t = "set-role" /\ toA'[i] = AnswerTo(toD[1])
  <2>1. toD[1].pane = p /\ toD[1].call = c /\ p \in sessions
    <3>1. AnswerTo(toD[1]).pane = toD[1].pane /\ AnswerTo(toD[1]).call = toD[1].call
      BY DEF AnswerTo
    <3>2. AnswerTo(toD[1]).ok = (toD[1].pane \in sessions)
      BY Zenon DEF AnswerTo
    <3> QED
      BY <1>4, <3>1, <3>2, Zenon
  <2>2. c \in Call /\ 1 \in DOMAIN toD
    BY <1>4, <2>1, ReadsFirst, CommandKinds DEF Rests
  <2>3. Live(c)
    BY <1>2, <1>4, <2>1, <2>2 DEF Sent, OfCall, CallsKeep
  <2>4. Sure(p)
    BY <1>4 DEF DaemonReads, history, Sure
  <2> QED
    BY <1>4, <2>1, <2>3, <2>4, TakenIsHeld
<1>5. toA'[i] # Msg("spawned", toD[1].pane)
  BY DEF Msg
<1> QED
  BY <1>3, <1>4, <1>5, AnswerSteps

\* The answer of a daemon that took the role is being read.
Answered(p) ==
    AppReads /\ \E i \in DOMAIN toA : /\ toA[i].t = "role-set" /\ toA[i].ok /\ toA[i].pane = p
                                      /\ Live(toA[i].call)

\* What a call's answer does, as far as the role's slot goes.
LEMMA AnswerSettles ==
  ASSUME RoleTypes, CallsWait, AppReads, RoleSet(Head(toA)), NEW p \in Slot, Sure(p)',
         (Binding(p) /\ ~Binding(p)') \/ (p \in appRoles' /\ p \notin appRoles)
  PROVE  Answered(p)
<1> DEFINE m == Head(toA)
<1>1. m \in Answer /\ m = toA[1] /\ 1 \in DOMAIN toA
  BY TailAt DEF RoleTypes, AppReads
<1>2. m.pane \in Slot /\ m.t = "role-set" /\ m.ok \in BOOLEAN
  BY <1>1, AnswerKinds DEF RoleSet
<1>3. waiters[m.pane] # <<>>
  BY DEF RoleSet, binding, Binding
<1>4. PICK c \in Call :
         /\ c = waiters[m.pane][1] /\ 1 \in DOMAIN waiters[m.pane]
         /\ m.ok => Done(c)
         /\ ~m.ok => phase' = [phase EXCEPT ![c] = "pause"] /\ UNCHANGED <<kind, target, tries>>
         /\ unsure' = IF m.ok /\ c # m.call THEN unsure \cup {m.pane} ELSE unsure
         /\ appRoles' = IF m.ok /\ kind[c] = "setRole" THEN appRoles \cup {m.pane} ELSE appRoles
  BY <1>1, <1>3, AnsweredCall
<1>5. Live(c) /\ target[c] = m.pane
  BY <1>2, <1>4 DEF CallsWait, Live
<1>6. CASE m.ok
  <2>1. \A d \in Call \ {c} : phase'[d] = phase[d] /\ target'[d] = target[d]
    BY <1>4, <1>6 DEF Done, RoleTypes
  <2>2. m.pane = p
    BY <1>4, <1>5, <2>1 DEF Binding, Live
  <2>3. c = m.call
    BY <1>4, <1>6, <2>2 DEF Sure
  <2> QED
    BY <1>1, <1>2, <1>5, <1>6, <2>2, <2>3 DEF Answered
<1>7. CASE ~m.ok
  <2>1. Binding(p) => Binding(p)'
    BY <1>4, <1>5, <1>7 DEF Binding, Live, RoleTypes
  <2> QED
    BY <1>4, <1>7, <2>1
<1> QED
  BY <1>2, <1>6, <1>7

LEMMA BindingStep ==
  ASSUME RoleTypes, CallsWait, [RolesNext]_rolesVars, NEW p \in Slot, Sure(p)', Binding(p)
  PROVE  Binding(p)' \/ Answered(p)
<1>1. PICK c \in Call : Live(c) /\ target[c] = p
  BY DEF Binding, Live
<1>2. CallsKeep /\ phase[c] # "idle"
  BY <1>1, CallsKeepStep DEF Live
<1>3. Live(c)' => Binding(p)'
  BY <1>1, <1>2 DEF CallsKeep, Binding, Live
<1> USE DEF renderer, relay, binding, daemon, history
<1>4. ASSUME NEW q \in Slot, Open(q) \/ Spawn(q) \/ CloseSlot(q) \/ ShellExits(q) PROVE Live(c)'
  BY <1>1, <1>4 DEF Open, Spawn, CloseSlot, ShellExits, Live
<1>5. ASSUME NEW d \in Call, Retry(d) \/ Timeout(d) \/ \E q \in Slot : SetRole(d, q) PROVE Live(c)'
  <2>1. CASE Retry(d) \/ Timeout(d)
    BY <1>1, <2>1 DEF Retry, Try, Timeout, Live, RoleTypes
  <2>2. ASSUME NEW q \in Slot, SetRole(d, q) PROVE Live(c)'
    <3>1. CASE Binds(d, q)
      BY <1>1, <3>1 DEF Binds, Live, RoleTypes
    <3>2. CASE UNCHANGED phase
      BY <1>1, <3>2 DEF Live
    <3> QED
      BY <2>2, <3>1, <3>2, UserBinds
  <2> QED
    BY <1>5, <2>1, <2>2
<1>6. ASSUME NEW d \in Call, GiveUp(d) PROVE Live(c)'
  <2>1. d # c
    BY <1>1, <1>6 DEF GiveUp, Sure
  <2> QED
    BY <1>1, <1>6, <2>1 DEF GiveUp, Done, Live, RoleTypes
<1>7. DaemonReads \/ DaemonDies \/ UNCHANGED rolesVars => Live(c)'
  BY <1>1 DEF DaemonReads, DaemonDies, rolesVars, Live, RoleTypes
<1>8. CASE AppReads
  <2> DEFINE m == Head(toA)
  <2>1. m.pane \in Slot
    BY <1>8, TailAt, AnswerKinds DEF RoleTypes, AppReads
  <2>2. CASE RoleSet(m)
    BY <1>8, <2>2, AnswerSettles
  <2>3. CASE Spawned(m) /\ m.pane \in appRoles
    <3>1. PICK d \in Call : Binds(d, m.pane)
      BY <1>8, <2>3, ReplayBinds
    <3>2. Live(c)'
      BY <1>1, <3>1 DEF Binds, Live, RoleTypes
    <3> QED
      BY <1>3, <3>2
  <2>4. CASE (Spawned(m) /\ m.pane \notin appRoles) \/ Lapsed(m) \/ Exited(m) \/ Dropped(m)
    BY <1>1, <1>3, <2>4 DEF Spawned, Lapsed, Exited, Dropped, Live
  <2> QED
    BY <1>8, <2>2, <2>3, <2>4 DEF AppReads
<1> QED
  BY <1>3, <1>4, <1>5, <1>6, <1>7, <1>8 DEF RolesNext

LEMMA RecordStep ==
  ASSUME RoleTypes, CallsWait, [RolesNext]_rolesVars,
         NEW p \in Slot, Sure(p)', p \in appRoles', p \notin appRoles
  PROVE  Answered(p)
<1> USE DEF renderer, relay, binding, daemon, history
<1>1. ASSUME NEW q \in Slot, Open(q) \/ Spawn(q) \/ CloseSlot(q) \/ ShellExits(q) PROVE FALSE
  BY <1>1 DEF Open, Spawn, CloseSlot, ShellExits
<1>2. ASSUME NEW c \in Call, Retry(c) \/ GiveUp(c) \/ Timeout(c) \/ \E q \in Slot : SetRole(c, q) PROVE FALSE
  BY <1>2 DEF Retry, GiveUp, Timeout, SetRole
<1>3. CASE DaemonReads \/ DaemonDies \/ UNCHANGED rolesVars
  BY <1>3 DEF DaemonReads, DaemonDies, rolesVars
<1>4. CASE AppReads
  BY <1>4, AnswerSettles DEF AppReads, Spawned, Lapsed, Exited, Dropped
<1> QED
  BY <1>1, <1>2, <1>3, <1>4 DEF RolesNext

LEMMA ReplayStep ==
  ASSUME RoleTypes, CallsWait, [RolesNext]_rolesVars, ~DaemonDies, NEW p \in Slot,
         NEW i \in DOMAIN toD, Is(toD, i, "replay", p)
  PROVE  Coming(p)'
<1>1. CASE toD' = toD
  BY <1>1 DEF Coming, Is
<1>2. ASSUME NEW m, NEW n, Adds(toD', toD, m, n) PROVE Coming(p)'
  BY <1>2 DEF Coming, Adds, Is
<1>3. CASE DaemonReads
  <2>1. Rests(toD', toD) /\ Head(toD) = toD[1]
    BY <1>3, ReadsFirst
  <2>2. CASE i = 1
    <3>1. PICK k \in {"spawned", "error"} : toA' = Append(toA, Msg(k, p))
      BY <1>3, <2>1, <2>2 DEF DaemonReads, Is
    <3>2. PICK m \in Answer : m = Msg(k, p) /\ m.t = k /\ m.pane = p
      BY MessageKinds DEF Msg
    <3>3. PICK n : Adds(toA', toA, m, n)
      BY <3>1, <3>2, AppendAdds DEF RoleTypes
    <3> QED
      BY <3>2, <3>3 DEF Adds, Coming, Is
  <2>3. CASE i # 1
    <3>1. i - 1 \in DOMAIN toD' /\ toD'[i - 1] = toD[i]
      BY <2>1, <2>3 DEF Rests
    <3> QED
      BY <3>1 DEF Coming, Is
  <2> QED
    BY <2>2, <2>3
<1> QED
  BY <1>1, <1>2, <1>3, QueueSteps, PaneSends, BindsKeeps

LEMMA RepliedStep ==
  ASSUME RoleTypes, CallsWait, [RolesNext]_rolesVars, ~DaemonDies, NEW p \in appRoles,
         NEW i \in DOMAIN toA, Is(toA, i, "spawned", p) \/ Is(toA, i, "error", p)
  PROVE  Coming(p)' \/ Binding(p)' \/ p \in unbound'
<1> USE DEF renderer, relay, binding, daemon, history
<1>1. ASSUME toA' = toA PROVE Coming(p)'
  BY <1>1 DEF Coming, Is
<1>2. ASSUME NEW m \in Answer, toA' = Append(toA, m) PROVE Coming(p)'
  <2>1. PICK n : Adds(toA', toA, m, n)
    BY <1>2, AppendAdds DEF RoleTypes
  <2> QED
    BY <2>1 DEF Adds, Coming, Is
<1>3. ASSUME NEW q \in Slot, Open(q) \/ Spawn(q) PROVE Coming(p)'
  BY <1>1, <1>3 DEF Open, Spawn
<1>4. ASSUME NEW q \in Slot, CloseSlot(q) PROVE Coming(p)'
  <2>1. toA[i] # Msg("exit", q)
    BY DEF Is, Msg
  <2>2. i \in DOMAIN toA' /\ toA'[i] = toA[i]
    BY <1>4, <2>1 DEF CloseSlot, ExitsStale
  <2> QED
    BY <2>2 DEF Coming, Is
<1>5. ASSUME NEW q \in Slot, ShellExits(q) PROVE Coming(p)'
  BY <1>1, <1>2, <1>5, MessageKinds DEF ShellExits
<1>6. ASSUME NEW c \in Call, Retry(c) \/ GiveUp(c) \/ Timeout(c) \/ \E q \in Slot : SetRole(c, q)
      PROVE  Coming(p)'
  BY <1>1, <1>6 DEF Retry, GiveUp, Timeout, SetRole
<1>7. CASE DaemonReads
  <2>1. toD # <<>> /\ Head(toD) = toD[1] /\ toD[1] \in Command /\ toD[1].pane \in Slot
    BY <1>7, ReadsFirst
  <2>2. CASE toD[1].t = "set-role"
    <3>1. toA' = Append(toA, AnswerTo(toD[1]))
      BY <1>7, <2>1, <2>2 DEF DaemonReads, AnswerTo
    <3>2. AnswerTo(toD[1]) \in Answer
      BY <2>1, <2>2, CommandKinds, RoleSetKind DEF AnswerTo
    <3> QED
      BY <1>2, <3>1, <3>2
  <2>3. CASE toD[1].t = "replay"
    <3>1. PICK k \in {"spawned", "error"} : toA' = Append(toA, Msg(k, toD[1].pane))
      BY <1>7, <2>1, <2>3 DEF DaemonReads
    <3> QED
      BY <1>2, <2>1, <3>1, MessageKinds
  <2>4. CASE toD[1].t \in {"spawn", "kill"}
    BY <1>1, <1>7, <2>1, <2>4 DEF DaemonReads
  <2> QED
    BY <2>1, <2>2, <2>3, <2>4, CommandKinds
<1>8. CASE AppReads
  <2>1. toA' = Tail(toA) /\ toA # <<>>
    BY <1>8 DEF AppReads
  <2>2. Rests(toA', toA) /\ Head(toA) = toA[1]
    BY <2>1, TailRests DEF RoleTypes
  <2>3. CASE i = 1
    <3>1. (Spawned(Head(toA)) \/ Lapsed(Head(toA))) /\ Head(toA).pane = p
      BY <1>8, <2>2, <2>3 DEF AppReads, RoleSet, Exited, Dropped, Is
    <3>2. CASE Spawned(Head(toA))
      <4>1. PICK c \in Call : Binds(c, p)
        BY <1>8, <3>1, <3>2, ReplayBinds
      <4>2. phase'[c] = "sent" /\ target'[c] = p
        BY <4>1, BindsKeeps DEF RoleTypes
      <4> QED
        BY <4>2 DEF Binding
    <3>3. CASE Lapsed(Head(toA))
      BY <3>1, <3>3 DEF Lapsed
    <3> QED
      BY <3>1, <3>2, <3>3
  <2>4. CASE i # 1
    <3>1. i - 1 \in DOMAIN toA' /\ toA'[i - 1] = toA[i]
      BY <2>2, <2>4 DEF Rests
    <3> QED
      BY <3>1 DEF Coming, Is
  <2> QED
    BY <2>3, <2>4
<1>9. CASE UNCHANGED rolesVars
  BY <1>1, <1>9 DEF rolesVars
<1> QED
  BY <1>3, <1>4, <1>5, <1>6, <1>7, <1>8, <1>9 DEF RolesNext

\* A daemon that dies is told of the panes again, and knows nothing of the others.
LEMMA DiesHolds ==
  ASSUME RoleSizes, RoleTypes, DaemonDies, NEW p \in specs \cup dead
  PROVE  Held(p)' \/ Replayed(p)'
<1>1. /\ \A i \in DOMAIN toD' : toD'[i].pane \in specs
      /\ p \in specs => \E i \in DOMAIN toD' : toD'[i] = Msg("replay", p)
      /\ sessions' \subseteq specs /\ specs' = specs /\ dead' = dead
  BY ReplaysAre DEF DaemonDies, renderer
<1>2. CASE p \in specs
  BY <1>1, <1>2 DEF Replayed, Coming, Is, Msg
<1>3. CASE p \notin specs
  BY <1>1, <1>3 DEF Held
<1> QED
  BY <1>2, <1>3

LEMMA KeptStep ==
  ASSUME RoleSizes, RoleTypes, CallsWait, Acks, Kept, [RolesNext]_rolesVars
  PROVE  Kept'
<1> SUFFICES ASSUME NEW p \in appRoles', Sure(p)'
             PROVE  Binding(p)' \/ Held(p)' \/ Replayed(p)'
  BY DEF Kept
<1>1. p \in Slot /\ ~CloseSlot(p)
  <2>1. RoleTypes'
    BY NextRoleTypes
  <2>2. ~CloseSlot(p)
    BY DEF CloseSlot
  <2> QED
    BY <2>1, <2>2 DEF RoleTypes
<1>2. Sure(p) /\ (Spawn(p) => p \notin specs \cup dead)
  BY <1>1, SureBefore
<1>3. ASSUME Answered(p) PROVE Held(p)'
  <2>1. Held(p)
    BY <1>2, <1>3 DEF Answered, Acks
  <2>2. CASE ~DaemonDies
    BY <1>1, <2>1, <2>2, HeldStep
  <2>3. CASE DaemonDies
    <3>1. p \notin sessions' \/ p \in specs
      BY <2>3 DEF DaemonDies
    <3>2. boots' = boots + 1 /\ boots' = boots /\ boots \in Nat
      BY <1>3, <2>3 DEF DaemonDies, Answered, AppReads, daemon, RoleTypes
    <3> QED
      BY <3>2
  <2> QED
    BY <2>2, <2>3
<1>4. CASE p \notin appRoles
  BY <1>1, <1>3, <1>4, RecordStep
<1>5. CASE p \in appRoles /\ Binding(p)
  BY <1>1, <1>3, <1>5, BindingStep
<1>6. CASE DaemonDies /\ p \in specs \cup dead
  BY <1>6, DiesHolds
<1>7. CASE Held(p) /\ ~DaemonDies
  BY <1>1, <1>7, HeldStep
<1>8. CASE p \in appRoles /\ Replayed(p) /\ ~DaemonDies
  <2>1. p \in specs' \cup dead' /\ (p \in unbound => p \in unbound')
    BY <1>1, <1>2, <1>8, MarksKeep DEF Replayed
  <2>2. CASE Coming(p)
    <3>1. Coming(p)' \/ Binding(p)' \/ p \in unbound'
      BY <1>1, <1>8, <2>2, ReplayStep, RepliedStep DEF Coming
    <3> QED
      BY <2>1, <3>1 DEF Replayed
  <2>3. CASE p \in unbound
    BY <2>1, <2>3 DEF Replayed
  <2> QED
    BY <1>8, <2>2, <2>3 DEF Replayed
<1> QED
  BY <1>2, <1>4, <1>5, <1>6, <1>7, <1>8 DEF Kept, Held, Replayed

AgreeInv == Sent /\ KillsOrphan /\ ReplaysFirst /\ DoomInv /\ Acks /\ Kept

\* What the app has on record for a pane is what the daemon labels it with, once
\* everything has settled: every way a bound role can get lost - a session that was not
\* there yet, a daemon that died, a pane that went and came - is followed by another
\* attempt, or leaves its mark on the slot: an attempt given up, an answer mistaken, a
\* replay that lapsed.
THEOREM RolesAgree == RolesSpec => []DaemonAgrees
<1>1. RolesInit => AgreeInv
  <2> SUFFICES ASSUME RolesInit PROVE AgreeInv
    OBVIOUS
  <2>1. DOMAIN toD = {} /\ DOMAIN toA = {} /\ appRoles = {} /\ sessions = {}
    BY DEF RolesInit
  <2> QED
    BY <2>1 DEF AgreeInv, Sent, KillsOrphan, ReplaysFirst, DoomInv, Gone, First, Doomed, Starts, Acks, Kept
<1>2. RoleTypes /\ CallsWait /\ AgreeInv /\ [RolesNext]_rolesVars => AgreeInv'
  <2> SUFFICES ASSUME RoleTypes, CallsWait, AgreeInv, [RolesNext]_rolesVars PROVE AgreeInv'
    OBVIOUS
  <2>1. Sent' /\ KillsOrphan' /\ ReplaysFirst' /\ DoomInv'
    BY RoleSizes, SentStep, KillsOrphanStep, ReplaysFirstStep, DoomStep DEF AgreeInv
  <2>2. Acks' /\ Kept'
    BY RoleSizes, AcksStep, KeptStep DEF AgreeInv
  <2> QED
    BY <2>1, <2>2 DEF AgreeInv
<1>3. AgreeInv => DaemonAgrees
  <2> SUFFICES ASSUME AgreeInv, Settled, NEW p \in appRoles, p \in sessions, Sure(p), p \notin unbound
               PROVE  p \in roles
    BY DEF DaemonAgrees, Sure
  <2>1. ~Binding(p) /\ ~Coming(p)
    BY DEF Settled, Binding, Coming
  <2> QED
    BY <2>1 DEF AgreeInv, Kept, Held, Replayed
<1> QED
  BY <1>1, <1>2, <1>3, RolesTyped, PTL DEF RolesSpec
==============================================================================
