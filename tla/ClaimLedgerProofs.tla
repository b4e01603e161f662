------------------------- MODULE ClaimLedgerProofs -------------------------
(***************************************************************************)
(* Theorems about ClaimLedger for any panes, workspaces, patterns and      *)
(* paths: the referee is conservative, so that claims that are not         *)
(* contested cover no file together; and the ledger holds what the live    *)
(* sessions claimed.                                                       *)
(***************************************************************************)
EXTENDS ClaimLedger, SequenceTheorems, FiniteSetTheorems, TLAPS

\* Which of two patterns is asked about does not matter.
LEMMA OverlapIsSymmetric ==
  ASSUME NEW a \in Pattern, NEW b \in Pattern
  PROVE  ClaimsOverlap(a, b) <=> ClaimsOverlap(b, a)
<1>1. Len(a) \in Nat /\ Len(b) \in Nat
  BY DEF Pattern
<1>2. Compared(a, b) = Compared(b, a)
  BY <1>1 DEF Compared
<1> QED
  BY <1>2 DEF ClaimsOverlap, Diverge

\* Without a "." the segments of a pattern are those of the paths it covers.
LEMMA PlainDepth ==
  ASSUME NEW a \in Pattern, Plain(a), NEW i \in Fixed(a)
  PROVE  Depth(a, i) = i
<1>1. i \in 1 .. Len(a) /\ Len(a) \in Nat
  BY DEF Pattern, Fixed
<1>2. {j \in 1 .. i : a[j] # "."} = 1 .. i
  BY <1>1 DEF Plain
<1>3. Cardinality(1 .. i) = i
  BY <1>1, FS_Interval
<1> QED
  BY <1>2, <1>3 DEF Depth

\* A file that two patterns without a "." cover leaves the referee nothing that tells
\* them apart.
LEMMA RefereeIsConservative ==
  ASSUME NEW a \in Pattern, NEW b \in Pattern, NEW path \in Path,
         Plain(a), Plain(b), Covers(a, path), Covers(b, path)
  PROVE  ClaimsOverlap(a, b)
<1> SUFFICES ASSUME NEW i \in Compared(a, b), IsLiteral(a[i]), IsLiteral(b[i])
             PROVE  a[i] = b[i]
  BY DEF ClaimsOverlap, Diverge
<1>1. Len(a) \in Nat /\ Len(b) \in Nat
  BY DEF Pattern
<1>2. i \in Fixed(a) /\ i \in Fixed(b)
  BY <1>1 DEF Compared, Fixed, Plain
<1>3. Depth(a, i) = i /\ Depth(b, i) = i
  BY <1>2, PlainDepth
<1> QED
  BY <1>2, <1>3 DEF Covers

\* A normalised pattern is a pattern.
LEMMA NormalizedIsPattern ==
  ASSUME NEW raw \in Raw
  PROVE  NormalizeClaimPattern(raw) \in Pattern
<1>1. raw \in Seq(Segment) /\ raw # <<>>
  BY SizeAssumption DEF Pattern
<1>2. CASE Len(raw) > 1 /\ raw[1] = "."
  <2>1. Tail(raw) \in Seq(Segment) /\ Len(Tail(raw)) = Len(raw) - 1
    BY <1>1
  <2>2. Len(Tail(raw)) # 0
    BY <1>1, <1>2, <2>1
  <2> QED
    BY <1>2, <2>1, <2>2, EmptySeq DEF NormalizeClaimPattern, Pattern
<1>3. CASE ~(Len(raw) > 1 /\ raw[1] = ".")
  BY <1>1, <1>3 DEF NormalizeClaimPattern, Pattern
<1> QED
  BY <1>2, <1>3

----------------------------------------------------------------------------
\* The inductive invariant.  Exclusion and liveness of the claims need the map: an id
\* names a session of its own, and a session not yet created has no claim.
SessionsAreOwn == \A p \in Pane : panes[p] # 0 => panes[p] < nextGen /\ paneOf[panes[p]] = p

IInv ==
    /\ TypeOK
    /\ SessionsAreOwn
    /\ NoContest
    /\ ClaimsAreLive

LEMMA InitIInv == Init => IInv
<1> SUFFICES ASSUME Init PROVE IInv
  OBVIOUS
<1>1. (CHOOSE p \in Pane : TRUE) \in Pane
  BY SizeAssumption
<1>2. TypeOK
  BY <1>1, SizeAssumption DEF Init, TypeOK
<1>3. SessionsAreOwn /\ NoContest /\ ClaimsAreLive
  BY DEF Init, SessionsAreOwn, NoContest, ClaimsAreLive
<1> QED
  BY <1>2, <1>3 DEF IInv

\* Taking claims out contests nothing.
LEMMA FewerClaims ==
  ASSUME NoContest, claims' \subseteq claims
  PROVE  NoContest'
BY DEF NoContest

\* A session that has its id is in range.
LEMMA BoundSession ==
  ASSUME IInv, NEW g \in Gen, BoundToPane(g)
  PROVE  paneOf[g] \in Pane /\ panes[paneOf[g]] = g
BY DEF IInv, TypeOK, BoundToPane

----------------------------------------------------------------------------
LEMMA CreateTypes ==
  ASSUME TypeOK, NEW p \in Pane, Create(p)
  PROVE  /\ panes' \in [Pane -> 0 .. MaxGen]
         /\ nextGen' \in 1 .. MaxGen + 1
         /\ paneOf' \in [Gen -> Pane]
<1>1. nextGen \in 0 .. MaxGen /\ nextGen + 1 \in 1 .. MaxGen + 1
  BY SizeAssumption DEF Create, Gen
<1> QED
  BY <1>1 DEF Create, TypeOK

LEMMA CreateOwns ==
  ASSUME TypeOK, SessionsAreOwn, NEW p \in Pane, Create(p)
  PROVE  SessionsAreOwn'
<1> SUFFICES ASSUME NEW q \in Pane, panes'[q] # 0
             PROVE  panes'[q] < nextGen' /\ paneOf'[panes'[q]] = q
  BY DEF SessionsAreOwn
<1>1. nextGen \in Gen /\ nextGen' = nextGen + 1 /\ nextGen \in Nat
  BY SizeAssumption DEF Create, Gen
<1>2. CASE q = p
  BY <1>1, <1>2 DEF Create, TypeOK
<1>3. CASE q # p
  <2>1. panes'[q] = panes[q] /\ panes[q] \in 0 .. MaxGen
    BY <1>3 DEF Create, TypeOK
  <2>2. panes[q] < nextGen /\ paneOf[panes[q]] = q /\ panes[q] \in Gen
    BY <2>1, SizeAssumption DEF SessionsAreOwn, Gen
  <2>3. paneOf'[panes[q]] = q
    BY <1>1, <2>2 DEF Create, TypeOK
  <2> QED
    BY <1>1, <2>1, <2>2, <2>3
<1> QED
  BY <1>2, <1>3

LEMMA StepSpawn ==
  ASSUME IInv, NEW p \in Pane, Spawn(p)
  PROVE  IInv'
<1>1. TypeOK' /\ SessionsAreOwn'
  BY CreateTypes, CreateOwns DEF IInv, Spawn, TypeOK
<1>2. NoContest'
  BY FewerClaims DEF IInv, Spawn
<1>3. ClaimsAreLive'
  <2> SUFFICES ASSUME NEW c \in claims PROVE panes'[c.pane] = c.gen
    BY DEF Spawn, ClaimsAreLive
  <2>1. c.pane \in Pane /\ c.gen \in Gen /\ panes[c.pane] = c.gen
    BY DEF IInv, TypeOK, ClaimsAreLive
  <2>2. c.pane # p
    BY <2>1, SizeAssumption DEF Spawn, Gen
  <2> QED
    BY <2>1, <2>2 DEF Spawn, Create, IInv, TypeOK
<1> QED
  BY <1>1, <1>2, <1>3 DEF IInv

LEMMA StepReplace ==
  ASSUME IInv, NEW p \in Pane, Replace(p)
  PROVE  IInv'
<1>0. panes[p] \in Gen
  BY SizeAssumption DEF IInv, TypeOK, Replace, Gen
<1>1. TypeOK' /\ SessionsAreOwn'
  BY <1>0, CreateTypes, CreateOwns DEF IInv, Replace, ClearPane, TypeOK
<1>2. NoContest'
  BY FewerClaims DEF IInv, Replace, ClearPane
<1>3. ClaimsAreLive'
  BY DEF IInv, TypeOK, Replace, Create, ClearPane, ClaimsAreLive
<1> QED
  BY <1>1, <1>2, <1>3 DEF IInv

LEMMA StepRemove ==
  ASSUME IInv, NEW p \in Pane, Remove(p)
  PROVE  IInv'
<1>0. panes[p] \in Gen /\ 0 \in 0 .. MaxGen
  BY SizeAssumption DEF IInv, TypeOK, Remove, Gen
<1>1. TypeOK'
  BY <1>0 DEF IInv, TypeOK, Remove, ClearPane
<1>2. SessionsAreOwn'
  BY DEF IInv, TypeOK, SessionsAreOwn, Remove
<1>3. NoContest'
  BY FewerClaims DEF IInv, Remove, ClearPane
<1>4. ClaimsAreLive'
  BY DEF IInv, TypeOK, Remove, ClearPane, ClaimsAreLive
<1> QED
  BY <1>1, <1>2, <1>3, <1>4 DEF IInv

LEMMA StepExit ==
  ASSUME IInv, NEW g \in Gen, Exit(g)
  PROVE  IInv'
<1>0. 0 \in 0 .. MaxGen /\ paneOf[g] \in Pane
  BY SizeAssumption DEF IInv, TypeOK
<1>1. CASE panes[paneOf[g]] = g
  <2>1. TypeOK'
    BY <1>0, <1>1 DEF IInv, TypeOK, Exit, ClearPane
  <2>2. SessionsAreOwn'
    BY <1>1 DEF IInv, TypeOK, SessionsAreOwn, Exit
  <2>3. NoContest'
    BY <1>1, FewerClaims DEF IInv, Exit, ClearPane
  <2>4. ClaimsAreLive'
    BY <1>0, <1>1 DEF IInv, TypeOK, Exit, ClearPane, ClaimsAreLive
  <2> QED
    BY <2>1, <2>2, <2>3, <2>4 DEF IInv
<1>2. CASE panes[paneOf[g]] # g
  BY <1>2 DEF IInv, TypeOK, SessionsAreOwn, NoContest, ClaimsAreLive, Exit
<1> QED
  BY <1>1, <1>2

\* A pattern that is granted is contested by no claim of another pane, in either order.
LEMMA StepClaim ==
  ASSUME IInv, NEW g \in Gen, NEW raw \in Raw, Claim(g, raw)
  PROVE  IInv'
<1> DEFINE p == paneOf[g]
           pattern == NormalizeClaimPattern(raw)
           new == [pane |-> p, pattern |-> pattern, gen |-> g]
<1>1. p \in Pane /\ panes[p] = g
  BY BoundSession DEF Claim
<1>2. pattern \in Pattern
  BY NormalizedIsPattern
<1>3. /\ claims' = claims \cup {new} /\ Contested(p, pattern) = {}
      /\ UNCHANGED <<panes, nextGen, paneOf, dying>>
  BY DEF Claim
<1> HIDE DEF p, pattern
<1>4. TypeOK'
  BY <1>1, <1>2, <1>3 DEF IInv, TypeOK
<1>5. ClaimsAreLive' /\ SessionsAreOwn'
  BY <1>1, <1>3 DEF IInv, ClaimsAreLive, SessionsAreOwn
<1>6. \A c \in claims : c.pane # p /\ GroupOf[c.pane] = GroupOf[p] =>
          ~ClaimsOverlap(pattern, c.pattern) /\ ~ClaimsOverlap(c.pattern, pattern)
  <2> SUFFICES ASSUME NEW c \in claims, c.pane # p, GroupOf[c.pane] = GroupOf[p]
               PROVE  ~ClaimsOverlap(pattern, c.pattern) /\ ~ClaimsOverlap(c.pattern, pattern)
    OBVIOUS
  <2>1. ~ClaimsOverlap(pattern, c.pattern)
    BY <1>3 DEF Contested
  <2>2. c.pattern \in Pattern
    BY DEF IInv, TypeOK
  <2> QED
    BY <1>2, <2>1, <2>2, OverlapIsSymmetric
<1>7. NoContest'
  <2> SUFFICES ASSUME NEW c \in claims \cup {new}, NEW d \in claims \cup {new},
                      c.pane # d.pane, GroupOf[c.pane] = GroupOf[d.pane]
               PROVE  ~ClaimsOverlap(c.pattern, d.pattern)
    BY <1>3 DEF NoContest
  <2>1. CASE c \in claims /\ d \in claims
    BY <2>1 DEF IInv, NoContest
  <2>2. CASE c = new /\ d \in claims
    BY <1>6, <2>2
  <2>3. CASE c \in claims /\ d = new
    BY <1>6, <2>3
  <2> QED
    BY <2>1, <2>2, <2>3
<1> QED
  BY <1>4, <1>5, <1>7 DEF IInv

\* A release takes some claims out.
LEMMA StepRelease ==
  ASSUME IInv, claims' \subseteq claims, UNCHANGED <<panes, nextGen, paneOf, dying>>
  PROVE  IInv'
<1>1. NoContest'
  BY FewerClaims DEF IInv
<1> QED
  BY <1>1 DEF IInv, TypeOK, SessionsAreOwn, ClaimsAreLive

LEMMA StepIInv ==
  ASSUME IInv, [Next]_vars
  PROVE  IInv'
<1>1. ASSUME NEW p \in Pane, Spawn(p) \/ Replace(p) \/ Remove(p) PROVE IInv'
  BY <1>1, StepSpawn, StepReplace, StepRemove
<1>2. ASSUME NEW g \in Gen, Exit(g) PROVE IInv'
  BY <1>2, StepExit
<1>3. ASSUME NEW g \in Gen, ReleaseAll(g) PROVE IInv'
  BY <1>3, StepRelease DEF ReleaseAll, ClearPane
<1>4. ASSUME NEW g \in Gen, NEW raw \in Raw, Claim(g, raw) PROVE IInv'
  BY <1>4, StepClaim
<1>5. ASSUME NEW g \in Gen, NEW raw \in Raw, Release(g, raw) PROVE IInv'
  BY <1>5, StepRelease DEF Release
<1>6. CASE UNCHANGED vars
  BY <1>6, StepRelease DEF vars
<1> QED
  BY <1>1, <1>2, <1>3, <1>4, <1>5, <1>6 DEF Next

THEOREM Invariance == Spec => []IInv
<1>1. Init => IInv
  BY InitIInv
<1>2. IInv /\ [Next]_vars => IInv'
  BY StepIInv
<1> QED
  BY <1>1, <1>2, PTL DEF Spec

\* Every variable of the ledger keeps its type.
THEOREM TypeCorrect == Spec => []TypeOK
<1>1. IInv => TypeOK
  BY DEF IInv
<1> QED
  BY <1>1, Invariance, PTL

\* No two panes of a workspace hold claims that the referee says overlap (ledger.ts,
\* claim).
THEOREM ContestsAreDenied == Spec => []NoContest
<1>1. IInv => NoContest
  BY DEF IInv
<1> QED
  BY <1>1, Invariance, PTL

\* A claim's session is the one its id names (session.ts, onExit and remove).
THEOREM TerritoryDiesWithItsSession == Spec => []ClaimsAreLive
<1>1. IInv => ClaimsAreLive
  BY DEF IInv
<1> QED
  BY <1>1, Invariance, PTL

----------------------------------------------------------------------------
\* A file is covered by the claims of at most one pane of a workspace, of the claims that
\* have no "." inside, for any patterns and any paths (claims.ts, claimsOverlap; ledger.ts,
\* claim).
THEOREM TerritoryIsExclusive == Spec => []OneOwner
<1>1. IInv => OneOwner
  <2> SUFFICES ASSUME IInv, NEW c \in claims, NEW d \in claims, NEW path \in Path,
                      GroupOf[c.pane] = GroupOf[d.pane],
                      Plain(c.pattern), Covers(c.pattern, path),
                      Plain(d.pattern), Covers(d.pattern, path)
               PROVE  c.pane = d.pane
    BY DEF OneOwner
  <2>1. c.pattern \in Pattern /\ d.pattern \in Pattern
    BY DEF IInv, TypeOK
  <2>2. ClaimsOverlap(c.pattern, d.pattern)
    BY <2>1, RefereeIsConservative
  <2> QED
    BY <2>2 DEF IInv, NoContest
<1> QED
  BY <1>1, Invariance, PTL

\* A session that ends takes no other session's claims (session.ts, onExit: "pane ids
\* are reused").
THEOREM TerritoryIsKept == Spec => ClaimsAreKept
<1> DEFINE Kept == \A c \in claims \ claims' : panes'[c.pane] # c.gen \/ UNCHANGED <<panes, dying>>
<1>1. ASSUME IInv, Next PROVE Kept
  <2> SUFFICES ASSUME NEW c \in claims, c \notin claims'
               PROVE  panes'[c.pane] # c.gen \/ UNCHANGED <<panes, dying>>
    OBVIOUS
  <2>a. c \in claims /\ claims \subseteq [pane : Pane, pattern : Pattern, gen : Gen]
    BY <1>1 DEF IInv, TypeOK
  <2>b. c.pane \in Pane /\ c.gen \in Gen /\ panes[c.pane] = c.gen
    BY <1>1, <2>a DEF IInv, ClaimsAreLive
  <2>0. c.pane \in Pane /\ c.gen \in Gen /\ panes[c.pane] = c.gen /\ c.gen # 0
        /\ panes \in [Pane -> 0 .. MaxGen]
    BY <1>1, <2>b DEF Gen, IInv, TypeOK
  <2>1. ASSUME NEW p \in Pane, Spawn(p) PROVE FALSE
    BY <2>1 DEF Spawn
  <2>2. ASSUME NEW p \in Pane, Replace(p) PROVE panes'[c.pane] # c.gen
    <3>1. c.pane = p
      BY <2>2, <2>a DEF Replace, ClearPane
    <3>2. panes'[p] = nextGen
      BY <2>2, <2>0 DEF Replace, Create
    <3>3. panes[p] < nextGen /\ panes[p] \in Nat /\ nextGen \in Nat
      BY <1>1, <2>2, <2>0, <3>1, SizeAssumption DEF IInv, TypeOK, SessionsAreOwn, Replace, Gen
    <3> QED
      BY <2>0, <3>1, <3>2, <3>3
  <2>3. ASSUME NEW p \in Pane, Remove(p) PROVE panes'[c.pane] # c.gen
    BY <2>3, <2>a, <2>0 DEF Remove, ClearPane
  <2>4. ASSUME NEW g \in Gen, Exit(g) PROVE panes'[c.pane] # c.gen
    BY <2>4, <2>a, <2>0 DEF Exit, ClearPane
  <2>5. ASSUME NEW g \in Gen, ReleaseAll(g) PROVE UNCHANGED <<panes, dying>>
    BY <2>5 DEF ReleaseAll
  <2>6. ASSUME NEW g \in Gen, NEW raw \in Raw, Claim(g, raw) \/ Release(g, raw)
        PROVE UNCHANGED <<panes, dying>>
    BY <2>6 DEF Claim, Release
  <2> QED
    BY <1>1, <2>1, <2>2, <2>3, <2>4, <2>5, <2>6 DEF Next
<1>2. IInv /\ [Next]_vars => [Kept]_vars
  BY <1>1
<1> QED
  BY <1>2, Invariance, PTL DEF Spec, ClaimsAreKept
============================================================================
