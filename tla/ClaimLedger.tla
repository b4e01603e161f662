---------------------------- MODULE ClaimLedger ----------------------------
(***************************************************************************)
(* The swarm's file-ownership ledger (src/pty-daemon/ledger.ts), the       *)
(* referee of its patterns (src/contracts/daemon/claims.ts), and what      *)
(* writes to it in the daemon: the claim and release commands of the       *)
(* agents in the panes, and the end of a session, by a kill, a replacement *)
(* or its own exit.                                                        *)
(*                                                                         *)
(* A pattern is the sequence of its segments: a literal is a name of Name, *)
(* "**" stands for any number of segments, "*" for any segment with a      *)
(* wildcard, and "." is a segment that a file system does not see.         *)
(* Absolute, empty and ".." patterns, which are refused, are left out, and *)
(* claims that differ only by their id are one claim.                      *)
(***************************************************************************)
EXTENDS Naturals, Sequences, FiniteSets

CONSTANTS
    Pane,     \* pane ids
    GroupOf,  \* groupOf(): the workspace ordinal a pane id was born in
    Raw,      \* the patterns that agents send
    Name,     \* literal segments
    Path,     \* files, as sequences of names
    MaxGen    \* bound on the sessions created

Wild    == {"*", "**"}
Segment == Name \cup Wild \cup {"."}
Pattern == Seq(Segment) \ {<<>>}
Gen     == 1 .. MaxGen

ASSUME SizeAssumption ==
    /\ MaxGen \in Nat /\ Pane # {}
    /\ GroupOf \in [Pane -> Nat]
    /\ Raw \subseteq Pattern /\ Path \subseteq Seq(Name)
    /\ Name \cap (Wild \cup {"."}) = {}

VARIABLES
    panes,    \* the session each id names, 0 for none
    nextGen,  \* the next session to be created
    paneOf,   \* the id a session was created under, any id before
    dying,    \* sessions whose pty was killed and has not reported its exit
    claims    \* the ledger: who claims what; gen is history, the session that claimed

vars == <<panes, nextGen, paneOf, dying, claims>>

TypeOK ==
    /\ panes \in [Pane -> 0 .. MaxGen]
    /\ nextGen \in 1 .. MaxGen + 1
    /\ paneOf \in [Gen -> Pane]
    /\ dying \subseteq Gen
    /\ claims \subseteq [pane : Pane, pattern : Pattern, gen : Gen]

Init ==
    /\ panes = [p \in Pane |-> 0] /\ nextGen = 1
    /\ paneOf = [g \in Gen |-> CHOOSE p \in Pane : TRUE]
    /\ dying = {} /\ claims = {}

----------------------------------------------------------------------------
(* The referee.                                                             *)

\* One leading "./" is taken off.
NormalizeClaimPattern(raw) ==
    IF Len(raw) > 1 /\ raw[1] = "." THEN Tail(raw) ELSE raw

IsLiteral(segment) == segment \notin Wild

\* Segments are compared until one pattern ends or a "**" is met.
Compared(a, b) ==
    {i \in 1 .. Len(a) : i <= Len(b) /\ \A j \in 1 .. i : a[j] # "**" /\ b[j] # "**"}

\* Mutant: a wildcard is compared like a literal.
MutDiverge(a, b) == \E i \in Compared(a, b) : a[i] # b[i]

Diverge(a, b) ==
    \E i \in Compared(a, b) : IsLiteral(a[i]) /\ IsLiteral(b[i]) /\ a[i] # b[i]

ClaimsOverlap(a, b) == ~Diverge(a, b)

\* The claims that deny a pattern to a pane.
Contested(p, pattern) ==
    {c \in claims : /\ c.pane # p
                    /\ GroupOf[c.pane] = GroupOf[p]
                    /\ ClaimsOverlap(pattern, c.pattern)}

----------------------------------------------------------------------------
(* The daemon's handlers.                                                   *)

\* A session is created for the id: a spawn, or the replacement of a session whose
\* host changed, which remove() has taken out of the map first.
Create(p) ==
    /\ nextGen \in Gen
    /\ panes' = [panes EXCEPT ![p] = nextGen]
    /\ paneOf' = [paneOf EXCEPT ![nextGen] = p]
    /\ nextGen' = nextGen + 1

ClearPane(p) == claims' = {c \in claims : c.pane # p}

Spawn(p) == panes[p] = 0 /\ Create(p) /\ UNCHANGED <<dying, claims>>

Replace(p) ==
    /\ panes[p] # 0
    /\ dying' = dying \cup {panes[p]}
    /\ ClearPane(p)
    /\ Create(p)

\* remove(): the app closed the pane.
Remove(p) ==
    /\ panes[p] # 0
    /\ dying' = dying \cup {panes[p]}
    /\ panes' = [panes EXCEPT ![p] = 0]
    /\ ClearPane(p)
    /\ UNCHANGED <<nextGen, paneOf>>

\* Mutant: a late exit is taken for the exit of the session that has the id now.
MutExit(g) ==
    /\ g \in dying \/ panes[paneOf[g]] = g
    /\ dying' = dying \ {g}
    /\ ClearPane(paneOf[g])
    /\ UNCHANGED <<panes, nextGen, paneOf>>

\* onExit: an exit that comes after the id went to another session changes nothing.
Exit(g) ==
    /\ g \in dying \/ panes[paneOf[g]] = g
    /\ dying' = dying \ {g}
    /\ IF panes[paneOf[g]] = g
       THEN panes' = [panes EXCEPT ![paneOf[g]] = 0] /\ ClearPane(paneOf[g])
       ELSE UNCHANGED <<panes, claims>>
    /\ UNCHANGED <<nextGen, paneOf>>

\* Mutant: the id is taken at its word.
MutBoundToPane(g) == g < nextGen /\ panes[paneOf[g]] # 0

\* boundToPane(): a process presents the token of the session it was started in, which
\* may be over.
BoundToPane(g) == g < nextGen /\ panes[paneOf[g]] = g

Claim(g, raw) ==
    LET p == paneOf[g]
        pattern == NormalizeClaimPattern(raw)
    IN  /\ BoundToPane(g)
        /\ Contested(p, pattern) = {}
        /\ claims' = claims \cup {[pane |-> p, pattern |-> pattern, gen |-> g]}
        /\ UNCHANGED <<panes, nextGen, paneOf, dying>>

Release(g, raw) ==
    /\ BoundToPane(g)
    /\ claims' = {c \in claims : c.pane # paneOf[g] \/ c.pattern # NormalizeClaimPattern(raw)}
    /\ UNCHANGED <<panes, nextGen, paneOf, dying>>

ReleaseAll(g) ==
    /\ BoundToPane(g)
    /\ ClearPane(paneOf[g])
    /\ UNCHANGED <<panes, nextGen, paneOf, dying>>

Next ==
    \/ \E p \in Pane : Spawn(p) \/ Replace(p) \/ Remove(p)
    \/ \E g \in Gen : Exit(g) \/ ReleaseAll(g)
    \/ \E g \in Gen, raw \in Raw : Claim(g, raw) \/ Release(g, raw)

Spec == Init /\ [][Next]_vars

----------------------------------------------------------------------------
\* The files a claim may be read to cover, as generously as any dialect of globs: the
\* path agrees with the pattern up to its end or its first "**", a directory covers
\* what is beneath it, and "." is the directory itself.
Fixed(pattern) ==
    {i \in 1 .. Len(pattern) : pattern[i] # "." /\ \A j \in 1 .. i : pattern[j] # "**"}

\* The segment of a path that the pattern's i-th is about.
Depth(pattern, i) == Cardinality({j \in 1 .. i : pattern[j] # "."})

Covers(pattern, path) ==
    \A i \in Fixed(pattern) :
        /\ Depth(pattern, i) <= Len(path)
        /\ IsLiteral(pattern[i]) => path[Depth(pattern, i)] = pattern[i]

\* No two panes of a workspace hold claims that the referee says overlap, however
\* sessions end, ids are reused and claims are released in between.
NoContest ==
    \A c, d \in claims :
        c.pane # d.pane /\ GroupOf[c.pane] = GroupOf[d.pane] => ~ClaimsOverlap(c.pattern, d.pattern)

\* A file is covered by the claims of at most one pane of a workspace, of those that name
\* their files without a "." inside: the referee takes that one for a literal, and grants
\* "a/./b" to one pane and "a/b", the same file, to another.
Plain(pattern) == \A i \in 1 .. Len(pattern) : pattern[i] # "."

OneOwner ==
    \A c, d \in claims : \A path \in Path :
        /\ GroupOf[c.pane] = GroupOf[d.pane]
        /\ Plain(c.pattern) /\ Covers(c.pattern, path)
        /\ Plain(d.pattern) /\ Covers(d.pattern, path)
        => c.pane = d.pane

\* A pane's territory is its session's: it is gone when the session is, it does not
\* pass to the next session with that id, and a late exit does not take it.
ClaimsAreLive == \A c \in claims : panes[c.pane] = c.gen

\* A session that ends takes its own claims and no other: a claim whose session goes
\* on is lost only by a release, in which no session ends.
ClaimsAreKept ==
    [][\A c \in claims \ claims' : panes'[c.pane] # c.gen \/ UNCHANGED <<panes, dying>>]_vars
============================================================================
