-------------------------- MODULE PaneRelayProofs --------------------------
(***************************************************************************)
(* Proofs about PaneRelay and RelayReplay: a pane's output gate, its spec  *)
(* and its session over reused ids, lost kills and replaced daemons, and   *)
(* what a painted pane shows after a reconnect.                            *)
(***************************************************************************)
EXTENDS PaneRelay, RelayReplay, FiniteSetTheorems, SequenceTheorems, TLAPS

----------------------------------------------------------------------------
(* Sequences.                                                               *)

\* t is s with m behind it, at n.
Adds(t, s, m, n) ==
    /\ n \in Nat /\ n > 0 /\ n \in DOMAIN t /\ t[n] = m /\ n \notin DOMAIN s
    /\ \A i \in DOMAIN s : i \in Nat /\ i \in DOMAIN t /\ t[i] = s[i] /\ i < n
    /\ \A i \in DOMAIN t : i \in Nat /\ (i \in DOMAIN s \/ i = n)

\* t is s without its first element.
Rests(t, s) ==
    /\ 1 \in DOMAIN s
    /\ \A i \in DOMAIN t : i \in Nat /\ i > 0 /\ i + 1 \in DOMAIN s /\ t[i] = s[i + 1]
    /\ \A i \in DOMAIN s : i \in Nat /\ (i = 1 \/ (i - 1 \in DOMAIN t /\ t[i - 1] = s[i]))

LEMMA AppendAdds ==
  ASSUME NEW S, NEW s \in Seq(S), NEW e \in S
  PROVE  Append(s, e) \in Seq(S) /\ \E n \in Nat : Adds(Append(s, e), s, e, n)
<1>1. /\ Append(s, e) \in Seq(S) /\ Len(Append(s, e)) = Len(s) + 1
      /\ \A i \in 1 .. Len(s) : Append(s, e)[i] = s[i]
      /\ Append(s, e)[Len(s) + 1] = e
  BY AppendProperties
<1>2. Len(s) \in Nat /\ DOMAIN s = 1 .. Len(s) /\ DOMAIN Append(s, e) = 1 .. Len(s) + 1
  BY <1>1, LenProperties
<1>3. Adds(Append(s, e), s, e, Len(s) + 1)
  BY <1>1, <1>2 DEF Adds
<1>4. Len(s) + 1 \in Nat
  BY <1>2
<1> QED
  BY <1>1, <1>3, <1>4

LEMMA TailRests ==
  ASSUME NEW S, NEW s \in Seq(S), s # <<>>
  PROVE  Tail(s) \in Seq(S) /\ Rests(Tail(s), s) /\ Head(s) = s[1] /\ s[1] \in S
<1>1. /\ Head(s) \in S /\ Tail(s) \in Seq(S) /\ Len(Tail(s)) = Len(s) - 1
      /\ \A i \in 1 .. Len(Tail(s)) : Tail(s)[i] = s[i + 1]
  BY HeadTailProperties
<1>2. Len(s) \in Nat \ {0} /\ DOMAIN s = 1 .. Len(s) /\ DOMAIN Tail(s) = 1 .. Len(Tail(s))
  BY <1>1, EmptySeq, LenProperties
<1>3. Head(s) = s[1]
  OBVIOUS
<1> QED
  BY <1>1, <1>2, <1>3 DEF Rests

----------------------------------------------------------------------------
(* Types.                                                                   *)

Gen0 == Gen \cup {0}

Command ==
    [t : {"spawn"}, pane : Pane, token : Nat \ {0}, gen : {0}]
        \cup [t : {"input"}, pane : Pane, token : Nat, gen : Gen0] \cup [t : {"kill"}, pane : Pane]
Event ==
    [t : {"spawned", "error", "data", "exit"}, pane : Pane, gen : Gen, token : Nat]
        \cup [t : {"welcome"}, list : [Pane -> Gen0]]
Waiter == [pane : Pane, token : Nat \ {0}, lost : BOOLEAN]

RendererTypes ==
    /\ view \in [Pane -> {"none", "open", "dead"}] /\ token \in [Pane -> Nat]
RelayTypes ==
    /\ gens \in [Pane -> Gen0 \cup {Killed}] /\ specs \in [Pane -> Nat]
    /\ nextToken \in Nat \ {0} /\ livePanes \subseteq Pane /\ waiters \subseteq Waiter
    /\ greeted \in BOOLEAN
SocketTypes ==
    /\ link \in {"up", "cut", "dead", "down"} /\ toD \in Seq(Command) /\ toA \in Seq(Event)
    /\ cuts \in Nat
DaemonTypes ==
    /\ boot \in Nat /\ nextGen \in Nat \ {0}
    /\ live \in [Pane -> Gen0] /\ dying \subseteq Pane \X Gen /\ subs \in [Pane -> Gen0]
    /\ rows \in [Pane -> Nat] /\ serves \in [Gen -> Nat]
ClosingTypes ==
    /\ closedAt \in [Pane -> Nat] /\ early \subseteq Pane /\ adopted \subseteq Pane /\ dropped \subseteq Pane

TypeOK == RendererTypes /\ RelayTypes /\ SocketTypes /\ DaemonTypes /\ ClosingTypes

LEMMA Gens == 0 \notin Gen /\ Killed \notin Gen0 /\ Killed # 0 /\ Gen \subseteq Gen0 /\ Gen \subseteq Nat
              /\ \A g \in Gen0 : g \in Nat
BY KilledAssumption, SizeAssumption DEF Gen, Gen0

LEMMA Commands ==
  ASSUME NEW p \in Pane
  PROVE  /\ KillCmd(p) \in Command /\ KillCmd(p).t = "kill" /\ KillCmd(p).pane = p
         /\ \A n \in Nat \ {0} : /\ SpawnCmd(p, n) \in Command /\ SpawnCmd(p, n).t = "spawn"
                                 /\ SpawnCmd(p, n).pane = p /\ SpawnCmd(p, n).token = n
         /\ \A n \in Nat, g \in Gen0 : /\ InputCmd(p, n, g) \in Command
                                       /\ InputCmd(p, n, g).t = "input"
BY DEF KillCmd, SpawnCmd, InputCmd, Command, Gen0

LEMMA CommandKinds ==
  ASSUME NEW m \in Command
  PROVE  /\ m.pane \in Pane /\ m.t \in {"spawn", "input", "kill"}
         /\ m.t = "spawn" => m.token \in Nat \ {0}
BY DEF Command

LEMMA EventKinds ==
  ASSUME NEW m \in Event
  PROVE  \/ m.t = "welcome" /\ m.list \in [Pane -> Gen0]
         \/ m.t \in {"spawned", "error", "data", "exit"} /\ m.pane \in Pane /\ m.gen \in Gen /\ m.token \in Nat
BY DEF Event

\* What is sent is behind what was under way, or lost.
LEMMA Sends ==
  ASSUME SocketTypes, NEW m \in Command, Send(m)
  PROVE  /\ toD' \in Seq(Command)
         /\ link = "up" /\ greeted => \E n \in Nat : Adds(toD', toD, m, n)
         /\ ~(link = "up" /\ greeted) => toD' = toD
<1>1. toD \o <<m>> = Append(toD, m)
  BY DEF SocketTypes
<1> QED
  BY <1>1, AppendAdds DEF SocketTypes, Send, SendAll

LEMMA Emits ==
  ASSUME SocketTypes, NEW t \in {"spawned", "error", "data", "exit"}, NEW p \in Pane, NEW g \in Gen, NEW n \in Nat,
         Emit(t, p, g, n)
  PROVE  \E m \in Event :
            /\ m.t = t /\ m.pane = p /\ m.gen = g /\ m.token = n
            /\ toA' \in Seq(Event)
            /\ link = "up" => \E k \in Nat : Adds(toA', toA, m, k)
            /\ link # "up" => toA' = toA
<1> DEFINE m == [t |-> t, pane |-> p, gen |-> g, token |-> n]
<1>1. m \in Event /\ m.t = t /\ m.pane = p /\ m.gen = g /\ m.token = n
  BY DEF Event
<1>2. toA' = IF link = "up" THEN Append(toA, m) ELSE toA
  BY DEF Emit
<1> HIDE DEF m
<1> QED
  BY <1>1, <1>2, AppendAdds DEF SocketTypes

LEMMA Reads ==
  ASSUME SocketTypes, CanRead
  PROVE  /\ toA # <<>> /\ Next1 = toA[1] /\ toA[1] \in Event
         /\ Tail(toA) \in Seq(Event) /\ Rests(Tail(toA), toA)
BY TailRests DEF SocketTypes, CanRead, Next1

LEMMA InitTypes == Init => TypeOK
<1> SUFFICES ASSUME Init PROVE TypeOK
  OBVIOUS
<1>1. <<>> \in Seq(Command) /\ <<>> \in Seq(Event)
  OBVIOUS
<1> QED
  BY <1>1 DEF Init, TypeOK, RendererTypes, RelayTypes, SocketTypes, DaemonTypes, ClosingTypes, Gen0

LEMMA BuryTypes ==
  ASSUME TypeOK, NEW p \in Pane, Bury(p)
  PROVE  /\ specs' \in [Pane -> Nat] /\ gens' \in [Pane -> Gen0 \cup {Killed}] /\ livePanes' \subseteq Pane
         /\ closedAt' \in [Pane -> Nat] /\ early' \subseteq Pane /\ toD' \in Seq(Command)
<1>1. toD' \in Seq(Command)
  BY Commands, Sends DEF TypeOK, Bury
<1> QED
  BY <1>1 DEF TypeOK, RendererTypes, RelayTypes, ClosingTypes, Bury

LEMMA UserTypes ==
  ASSUME TypeOK, NEW p \in Pane, Open(p) \/ Close(p) \/ Input(p)
  PROVE  TypeOK'
<1> USE DEF TypeOK
<1>1. CASE Open(p)
  <2>1. nextToken \in Nat \ {0}
    BY DEF RelayTypes
  <2>2. toD' \in Seq(Command)
    BY <1>1, <2>1, Commands, Sends DEF Open
  <2>3. [pane |-> p, token |-> nextToken, lost |-> ~greeted] \in Waiter
    BY <2>1 DEF Waiter, RelayTypes
  <2>4. RendererTypes'
    BY <1>1, <2>1 DEF Open, RendererTypes
  <2>5. RelayTypes'
    BY <1>1, <2>1, <2>3 DEF Open, RelayTypes
  <2> QED
    BY <1>1, <2>2, <2>4, <2>5 DEF Open, SocketTypes, DaemonTypes, ClosingTypes, daemon, closings, lapses
<1>2. CASE Close(p)
  <2>1. RendererTypes'
    BY <1>2 DEF Close, RendererTypes
  <2> QED
    BY <1>2, <2>1, BuryTypes DEF Close, RelayTypes, SocketTypes, DaemonTypes, ClosingTypes, daemon, lapses
<1>3. CASE Input(p)
  <2>1. token[p] \in Nat /\ gens[p] \in Gen0
    BY <1>3 DEF Input, StampGen, RendererTypes, RelayTypes
  <2>2. toD' \in Seq(Command)
    BY <1>3, <2>1, Commands, Sends DEF Input, StampGen
  <2> QED
    BY <1>3, <2>2 DEF Input, RendererTypes, RelayTypes, SocketTypes, DaemonTypes, ClosingTypes,
                      renderer, relay, daemon, closings, lapses
<1> QED
  BY <1>1, <1>2, <1>3

LEMMA FailTypes ==
  ASSUME TypeOK, NEW w \in waiters, SpawnFails(w)
  PROVE  TypeOK' /\ w \in Waiter
<1> USE DEF TypeOK
<1>1. w \in Waiter /\ w.pane \in Pane
  BY DEF RelayTypes, Waiter
<1>2. RendererTypes'
  BY <1>1 DEF SpawnFails, RendererTypes
<1>3. CASE specs[w.pane] = w.token
  BY <1>1, <1>2, <1>3, BuryTypes DEF SpawnFails, RelayTypes, SocketTypes, DaemonTypes, ClosingTypes, daemon, lapses
<1>4. CASE specs[w.pane] # w.token
  BY <1>1, <1>2, <1>4 DEF SpawnFails, RelayTypes, SocketTypes, DaemonTypes, ClosingTypes, daemon, closings, lapses
<1> QED
  BY <1>1, <1>3, <1>4

LEMMA AppReadTypes ==
  ASSUME TypeOK, ReadSpawned \/ ReadError \/ ReadData \/ ReadExit
  PROVE  TypeOK'
<1> USE DEF TypeOK
<1>1. Next1 \in Event /\ Tail(toA) \in Seq(Event)
  BY Reads DEF ReadSpawned, ReadError, ReadData, ReadExit
<1>2. CASE ReadSpawned
  <2>1. Next1.pane \in Pane /\ Next1.gen \in Gen0
    BY <1>1, <1>2, EventKinds DEF ReadSpawned, Gen0
  <2> QED
    BY <1>1, <1>2, <2>1 DEF ReadSpawned, RendererTypes, RelayTypes, SocketTypes, DaemonTypes, ClosingTypes,
                            renderer, daemon, closings, lapses
<1>3. CASE ReadData
  BY <1>1, <1>3 DEF ReadData, RendererTypes, RelayTypes, SocketTypes, DaemonTypes, ClosingTypes,
                    renderer, relay, daemon, closings, lapses
<1>4. CASE ReadExit
  <2>1. Next1.pane \in Pane
    BY <1>1, <1>4, EventKinds DEF ReadExit
  <2>2. view' \in [Pane -> {"none", "open", "dead"}] /\ specs' \in [Pane -> Nat] /\ livePanes' \subseteq Pane
    BY <1>4, <2>1 DEF ReadExit, RendererTypes, RelayTypes
  <2> QED
    BY <1>1, <1>4, <2>2 DEF ReadExit, RendererTypes, RelayTypes, SocketTypes, DaemonTypes, ClosingTypes,
                            daemon, closings, lapses
<1>5. CASE ReadError
  <2>1. Next1.pane \in Pane
    BY <1>1, <1>5, EventKinds DEF ReadError
  <2>2. waiters' \subseteq Waiter
    BY <1>5 DEF ReadError, RelayTypes, Waiter
  <2>3. dropped' \subseteq Pane
    BY <1>5, <2>1 DEF ReadError, ClosingTypes
  <2> QED
    BY <1>1, <1>5, <2>2, <2>3 DEF ReadError, RendererTypes, RelayTypes, SocketTypes, DaemonTypes, ClosingTypes,
                                  renderer, daemon, closings
<1> QED
  BY <1>2, <1>3, <1>4, <1>5

\* c is a, then b.
Joins(c, a, b, k) ==
    /\ \A i \in DOMAIN a : i \in Nat /\ i <= k /\ i \in DOMAIN c /\ c[i] = a[i]
    /\ \A i \in DOMAIN b : i \in Nat /\ i > 0 /\ k + i \in DOMAIN c /\ c[k + i] = b[i]
    /\ \A i \in DOMAIN c : i \in Nat /\ (i \in DOMAIN a \/ (i > k /\ i - k \in DOMAIN b /\ c[i] = b[i - k]))

LEMMA ConcatJoins ==
  ASSUME NEW S, NEW a \in Seq(S), NEW b \in Seq(S)
  PROVE  a \o b \in Seq(S) /\ \E k \in Nat : Joins(a \o b, a, b, k)
<1> DEFINE c == a \o b
<1>1. /\ c \in Seq(S) /\ Len(c) = Len(a) + Len(b)
      /\ \A i \in 1 .. Len(a) + Len(b) : c[i] = IF i <= Len(a) THEN a[i] ELSE b[i - Len(a)]
  BY ConcatProperties
<1> HIDE DEF c
<1>2. /\ Len(a) \in Nat /\ DOMAIN a = 1 .. Len(a) /\ Len(b) \in Nat /\ DOMAIN b = 1 .. Len(b)
      /\ DOMAIN c = 1 .. Len(a) + Len(b)
  BY <1>1, LenProperties
<1>3. Joins(c, a, b, Len(a))
  BY <1>1, <1>2 DEF Joins
<1> QED
  BY <1>1, <1>2, <1>3 DEF c

\* A list of kills of the panes of K, and one of the specs of the panes of R.
Kills(a, K) ==
    /\ a \in Seq(Command)
    /\ \A i \in DOMAIN a : a[i].t = "kill" /\ a[i].pane \in K
    /\ \A p \in K : \E i \in DOMAIN a : a[i].t = "kill" /\ a[i].pane = p
Specs(b, R) ==
    /\ b \in Seq(Command)
    /\ \A i \in DOMAIN b : b[i].t = "spawn" /\ b[i].pane \in R /\ b[i].token = specs[b[i].pane]

LEMMA ListsKills ==
  ASSUME NEW K \in SUBSET Pane, NEW ks \in Bijection(1 .. Cardinality(K), K)
  PROVE  Kills([i \in DOMAIN ks |-> KillCmd(ks[i])], K)
<1>1. Cardinality(K) \in Nat
  BY SizeAssumption, FS_Subset, FS_CardinalityType
<1> DEFINE n == Cardinality(K)
           a == [i \in DOMAIN ks |-> KillCmd(ks[i])]
<1>2. n \in Nat /\ ks \in [1 .. n -> K] /\ \A p \in K : \E i \in 1 .. n : ks[i] = p
  BY <1>1 DEF Bijection, Injection, Surjection
<1>3. DOMAIN a = 1 .. n /\ \A i \in 1 .. n : a[i] = KillCmd(ks[i])
  BY <1>2
<1> HIDE DEF n
<1>4. \A i \in 1 .. n : a[i] \in Command /\ a[i].t = "kill" /\ a[i].pane = ks[i]
  BY <1>2, <1>3, Commands
<1>5. a \in [1 .. n -> Command]
  BY <1>2, <1>4, <1>3
<1> HIDE DEF a
<1>6. a \in Seq(Command)
  BY <1>2, <1>5
<1> QED
  BY <1>2, <1>3, <1>4, <1>6 DEF Kills, a

LEMMA ListsSpecs ==
  ASSUME RelayTypes, NEW R \in SUBSET Pane, \A p \in R : specs[p] # 0,
         NEW rs \in Bijection(1 .. Cardinality(R), R)
  PROVE  Specs([i \in DOMAIN rs |-> SpawnCmd(rs[i], specs[rs[i]])], R)
<1>1. Cardinality(R) \in Nat
  BY SizeAssumption, FS_Subset, FS_CardinalityType
<1> DEFINE n == Cardinality(R)
           b == [i \in DOMAIN rs |-> SpawnCmd(rs[i], specs[rs[i]])]
<1>2. n \in Nat /\ rs \in [1 .. n -> R]
  BY <1>1 DEF Bijection, Injection
<1>3. DOMAIN b = 1 .. n /\ \A i \in 1 .. n : b[i] = SpawnCmd(rs[i], specs[rs[i]])
  BY <1>2
<1> HIDE DEF n
<1>4. \A i \in 1 .. n : rs[i] \in Pane /\ rs[i] \in R /\ specs[rs[i]] \in Nat \ {0}
  BY <1>2 DEF RelayTypes
<1>5. \A i \in 1 .. n : b[i] \in Command /\ b[i].t = "spawn" /\ b[i].pane = rs[i] /\ b[i].token = specs[rs[i]]
  BY <1>3, <1>4, Commands
<1>6. b \in [1 .. n -> Command]
  BY <1>2, <1>5, <1>3
<1> HIDE DEF b
<1>7. b \in Seq(Command)
  BY <1>2, <1>6
<1> QED
  BY <1>2, <1>3, <1>4, <1>5, <1>7 DEF Specs, b

\* What a client sends once it is welcome: kills of the listed panes that were closed
\* meanwhile, then every spec.
Greets(list, k) ==
    \E a \in Seq(Command), b \in Seq(Command) :
       /\ Kills(a, {p \in Pane : list[p] # 0 /\ gens[p] = Killed})
       /\ Specs(b, Replayed)
       /\ toD' = (toD \o a) \o b
       /\ toD = <<>> => Joins(toD', a, b, k)

LEMMA SendsSpecs ==
  ASSUME RelayTypes, SocketTypes, ReadWelcome, link = "up"
  PROVE  toD' \in Seq(Command) /\ \E k \in Nat : Greets(Next1.list, k)
<1> DEFINE K == {p \in Pane : Next1.list[p] # 0 /\ gens[p] = Killed}
<1>1. K = {p \in {q \in Pane : Next1.list[q] # 0} : gens[p] = Killed}
  OBVIOUS
<1>2. PICK ks \in Bijection(1 .. Cardinality(K), K),
           rs \in Bijection(1 .. Cardinality(Replayed), Replayed) :
         toD' = toD \o [i \in DOMAIN ks |-> KillCmd(ks[i])]
                    \o [i \in DOMAIN rs |-> SpawnCmd(rs[i], specs[rs[i]])]
  BY <1>1 DEF ReadWelcome
<1> DEFINE a == [i \in DOMAIN ks |-> KillCmd(ks[i])]
           b == [i \in DOMAIN rs |-> SpawnCmd(rs[i], specs[rs[i]])]
<1>3. Replayed \in SUBSET Pane /\ \A p \in Replayed : specs[p] # 0
  BY DEF Replayed
<1>4. K \in SUBSET Pane
  OBVIOUS
<1> HIDE DEF K
<1>5. Kills(a, K) /\ Specs(b, Replayed)
  BY <1>3, <1>4, ListsKills, ListsSpecs
<1>6. toD' = (toD \o a) \o b
  BY <1>2
<1> HIDE DEF a, b
<1>7. a \in Seq(Command) /\ b \in Seq(Command)
  BY <1>5 DEF Kills, Specs
<1>8. PICK k \in Nat : Joins(a \o b, a, b, k)
  BY <1>7, ConcatJoins
<1>9. toD' \in Seq(Command)
  BY <1>6, <1>7, ConcatProperties DEF SocketTypes
<1>10. toD = <<>> => toD \o a = a
  BY <1>7, ConcatEmptySeq
<1>11. toD = <<>> => Joins(toD', a, b, k)
  BY <1>6, <1>8, <1>10
<1>12. Greets(Next1.list, k)
  BY <1>5, <1>6, <1>7, <1>11 DEF Greets, K
<1> QED
  BY <1>9, <1>12

LEMMA WelcomeTypes ==
  ASSUME TypeOK, ReadWelcome
  PROVE  TypeOK'
<1> USE DEF TypeOK
<1>1. Next1 \in Event /\ Tail(toA) \in Seq(Event)
  BY Reads DEF ReadWelcome
<1>2. Next1.list \in [Pane -> Gen0]
  BY <1>1, EventKinds DEF ReadWelcome
<1>3. toD' \in Seq(Command)
  BY SendsSpecs DEF ReadWelcome, SocketTypes
<1>4. gens' \in [Pane -> Gen0 \cup {Killed}] /\ livePanes' \subseteq Pane /\ greeted' \in BOOLEAN
  BY <1>2 DEF ReadWelcome, RelayTypes
<1>5. /\ UNCHANGED <<view, token, specs, nextToken, waiters, link, cuts, closedAt, early>>
      /\ UNCHANGED <<boot, nextGen, live, dying, subs, rows, serves>>
  BY DEF ReadWelcome, renderer, daemon, closings
<1>7. adopted' \subseteq Pane /\ dropped' \subseteq Pane
  BY DEF ReadWelcome, ClosingTypes
<1>6. toA' \in Seq(Event)
  BY <1>1 DEF ReadWelcome
<1> QED
  BY <1>6, <1>7, <1>3, <1>4, <1>5 DEF RendererTypes, RelayTypes, SocketTypes, DaemonTypes, ClosingTypes

LEMMA LinkTypes ==
  ASSUME TypeOK, Cut \/ SeeCut \/ SeeDeath \/ Connect
  PROVE  TypeOK'
<1> USE DEF TypeOK
<1>1. <<>> \in Seq(Command) /\ <<>> \in Seq(Event)
  OBVIOUS
<1>2. Abandoned \subseteq Waiter
  BY DEF Abandoned, RelayTypes, Waiter
<1>3. CASE Cut
  <2>1. SocketTypes'
    BY <1>1, <1>3 DEF Cut, SocketTypes
  <2>2. RelayTypes'
    BY <1>2, <1>3 DEF Cut, RelayTypes
  <2> QED
    BY <1>3, <2>1, <2>2 DEF Cut, RendererTypes, DaemonTypes, ClosingTypes, renderer, daemon, closings, lapses
<1>4. CASE SeeCut
  BY <1>1, <1>4 DEF SeeCut, NoSubs, RendererTypes, RelayTypes, SocketTypes, DaemonTypes, ClosingTypes,
                    renderer, relay, closings, lapses, Gen0
<1>5. CASE SeeDeath
  BY <1>1, <1>2, <1>5 DEF SeeDeath, RendererTypes, RelayTypes, SocketTypes, DaemonTypes, ClosingTypes,
                          renderer, daemon, closings, lapses
<1>6. CASE Connect
  <2>1. [t |-> "welcome", list |-> live] \in Event
    BY DEF DaemonTypes, Event
  <2>2. toA' \in Seq(Event)
    BY <1>6, <2>1 DEF Connect
  <2> QED
    BY <1>6, <2>2 DEF Connect, RendererTypes, RelayTypes, SocketTypes, DaemonTypes, ClosingTypes,
                      renderer, relay, daemon, closings, lapses
<1> QED
  BY <1>3, <1>4, <1>5, <1>6

\* The daemon takes the first command.
LEMMA Takes ==
  ASSUME SocketTypes, ReadCommand
  PROVE  /\ toD # <<>> /\ 1 \in DOMAIN toD /\ Head(toD) = toD[1] /\ toD[1] \in Command
         /\ toD' \in Seq(Command) /\ Rests(toD', toD)
BY TailRests DEF SocketTypes, ReadCommand, Rests

LEMMA CommandTypes ==
  ASSUME TypeOK, ReadCommand
  PROVE  TypeOK'
<1> USE DEF TypeOK
<1> DEFINE c == Head(toD)
<1>1. c \in Command /\ c.pane \in Pane /\ toD' \in Seq(Command) /\ (c.t = "spawn" => c.token \in Nat)
  BY Takes, CommandKinds
<1>2. toA' \in Seq(Event) /\ DaemonTypes'
  <2>1. CASE c.t = "spawn" /\ DoSpawn(c.pane, c.token)
    <3> DEFINE g == IF live[c.pane] # 0 THEN live[c.pane] ELSE nextGen
    <3>1. g \in Gen /\ Emit("spawned", c.pane, g, c.token)
      BY <2>1 DEF DoSpawn
    <3>2. toA' \in Seq(Event)
      BY <1>1, <2>1, <3>1, Emits
    <3>3. boot' \in Nat /\ dying' \subseteq Pane \X Gen
      BY <2>1 DEF DoSpawn, DaemonTypes, ReadCommand
    <3>4. nextGen' \in Nat \ {0} /\ rows' \in [Pane -> Nat]
      BY <1>1, <2>1 DEF DoSpawn, DaemonTypes
    <3>5. live' \in [Pane -> Gen0] /\ serves' \in [Gen -> Nat] /\ subs' \in [Pane -> Gen0]
      BY <1>1, <2>1, <3>1 DEF DoSpawn, Subscribe, DaemonTypes, Gen0
    <3> QED
      BY <3>2, <3>3, <3>4, <3>5 DEF DaemonTypes
  <2>2. CASE c.t = "kill" /\ DoKill(c.pane)
    <3>1. live[c.pane] # 0 => live[c.pane] \in Gen
      BY <1>1 DEF DaemonTypes, Gen0
    <3> QED
      BY <1>1, <2>2, <3>1 DEF DoKill, DaemonTypes, ReadCommand, SocketTypes, Gen0
  <2>3. CASE c.t = "input" /\ UNCHANGED <<nextGen, live, dying, subs, rows, serves, toA>>
    BY <2>3 DEF ReadCommand, DaemonTypes, SocketTypes
  <2>4. CASE c.t = "spawn" /\ Refuse(c.pane, c.token)
    <3>1. nextGen \in Gen /\ Emit("error", c.pane, nextGen, c.token)
      BY <2>4 DEF Refuse
    <3>2. toA' \in Seq(Event)
      BY <1>1, <2>4, <3>1, Emits
    <3> QED
      BY <2>4, <3>2 DEF Refuse, DaemonTypes, ReadCommand
  <2> QED
    BY <2>1, <2>2, <2>3, <2>4 DEF ReadCommand
<1> QED
  BY <1>1, <1>2 DEF ReadCommand, RendererTypes, RelayTypes, SocketTypes, ClosingTypes, renderer, relay, closings, lapses

LEMMA PtyTypes ==
  ASSUME TypeOK, NEW p \in Pane, NEW g \in Gen, PtyData(p, g) \/ PtyExit(p, g)
  PROVE  TypeOK'
<1> USE DEF TypeOK
<1>1. serves[g] \in Nat
  BY DEF DaemonTypes
<1>2. CASE PtyData(p, g)
  <2>1. toA' \in Seq(Event)
    BY <1>1, <1>2, Emits DEF PtyData
  <2> QED
    BY <1>2, <2>1 DEF PtyData, RendererTypes, RelayTypes, SocketTypes, DaemonTypes, ClosingTypes,
                      renderer, relay, daemon, closings, lapses
<1>3. CASE PtyExit(p, g)
  <2>1. toA' \in Seq(Event)
    BY <1>1, <1>3, Emits DEF PtyExit, SocketTypes
  <2>2. subs' \in [Pane -> Gen0]
    BY <1>3 DEF PtyExit, DaemonTypes, Gen0
  <2> QED
    BY <1>3, <2>1, <2>2 DEF PtyExit, RendererTypes, RelayTypes, SocketTypes, DaemonTypes, ClosingTypes,
                            renderer, relay, closings, lapses, Gen0
<1> QED
  BY <1>2, <1>3

\* What the daemon that takes over has of the stored panes: the restored ones, numbered by num.
Restored(restored, num, n) ==
    /\ nextGen' = n + 1 /\ n \in Nat
    /\ \A p \in restored : p \in Pane /\ rows[p] # 0 /\ num[p] \in Gen /\ num[p] <= n
    /\ \A p, q \in restored : num[p] = num[q] => p = q
    /\ live' = [p \in Pane |-> IF p \in restored THEN num[p] ELSE 0]
    /\ \A p \in restored : serves'[num[p]] = rows[p]

LEMMA Restores ==
  ASSUME TypeOK, Restart
  PROVE  /\ serves' \in [Gen -> Nat]
         /\ \E restored \in SUBSET Pane, n \in Nat : \E num \in [restored -> Gen] : Restored(restored, num, n)
<1> DEFINE stored == {p \in Pane : rows[p] # 0}
           n == Cardinality(stored)
<1>1. PICK num \in Bijection(stored, 1 .. n), restored \in SUBSET stored :
               /\ n <= MaxGen /\ nextGen' = n + 1
               /\ live' = [p \in Pane |-> IF p \in restored THEN num[p] ELSE 0]
               /\ serves' = [g \in Gen |-> IF \E p \in restored : num[p] = g
                                           THEN rows[CHOOSE p \in restored : num[p] = g] ELSE 0]
  BY DEF Restart
<1>2. n \in Nat
  BY SizeAssumption, FS_Subset, FS_CardinalityType
<1>3. num \in [stored -> 1 .. n] /\ \A p, q \in stored : num[p] = num[q] => p = q
  BY DEF Bijection, Injection, IsInjective
<1>4. \A p \in stored : p \in Pane /\ rows[p] # 0
  OBVIOUS
<1> HIDE DEF n, stored
<1>5. num \in [stored -> Gen] /\ \A p \in stored : num[p] <= n
  BY <1>1, <1>2, <1>3, SizeAssumption DEF Gen
<1> DEFINE nums == [p \in restored |-> num[p]]
<1>6. nums \in [restored -> Gen] /\ \A p \in restored : nums[p] = num[p] /\ p \in stored
  BY <1>5
<1> HIDE DEF nums
<1>7. \A p \in restored : serves'[num[p]] = rows[p]
  <2> TAKE p \in restored
  <2>1. num[p] \in Gen
    BY <1>5, <1>6
  <2>2. serves'[num[p]] = rows[CHOOSE q \in restored : num[q] = num[p]]
    BY <1>1, <2>1
  <2>3. (CHOOSE q \in restored : num[q] = num[p]) = p
    BY <1>3, <1>6
  <2> QED
    BY <2>2, <2>3
<1>8. serves' \in [Gen -> Nat]
  <2>1. \A p \in restored : rows[p] \in Nat
    BY <1>4, <1>6 DEF TypeOK, DaemonTypes
  <2> QED
    BY <1>1, <2>1
<1>9. live' = [p \in Pane |-> IF p \in restored THEN nums[p] ELSE 0]
  BY <1>1, <1>6
<1>10. \A p, q \in restored : nums[p] = nums[q] => p = q
  BY <1>3, <1>6
<1>11. Restored(restored, nums, n)
  BY <1>1, <1>2, <1>4, <1>5, <1>6, <1>7, <1>9, <1>10 DEF Restored
<1>12. restored \in SUBSET Pane
  BY <1>4, <1>6
<1> QED
  BY <1>2, <1>6, <1>8, <1>11, <1>12

LEMMA RestartTypes ==
  ASSUME TypeOK, Restart
  PROVE  TypeOK'
<1> USE DEF TypeOK
<1>1. PICK restored \in SUBSET Pane, n \in Nat : \E num \in [restored -> Gen] : Restored(restored, num, n)
  BY Restores
<1>2. nextGen' \in Nat \ {0} /\ live' \in [Pane -> Gen0] /\ serves' \in [Gen -> Nat]
  BY <1>1, Restores DEF Restored, Gen0
<1>3. <<>> \in Seq(Command)
  OBVIOUS
<1> QED
  BY <1>2, <1>3 DEF Restart, NoSubs, RendererTypes, RelayTypes, SocketTypes, DaemonTypes, ClosingTypes,
                    renderer, relay, closings, lapses, Gen0

LEMMA NextTypes == TypeOK /\ [Next]_vars => TypeOK'
<1> SUFFICES ASSUME TypeOK, [Next]_vars PROVE TypeOK'
  OBVIOUS
<1>1. CASE UNCHANGED vars
  BY <1>1 DEF vars, renderer, relay, socket, daemon, closings, lapses, TypeOK, RendererTypes, RelayTypes, SocketTypes,
              DaemonTypes, ClosingTypes
<1>2. CASE Save
  <2>1. rows' \in [Pane -> Nat]
    BY <1>2 DEF Save, TypeOK, DaemonTypes, Gen0
  <2> QED
    BY <1>2, <2>1 DEF Save, TypeOK, RendererTypes, RelayTypes, SocketTypes, DaemonTypes, ClosingTypes,
                      renderer, relay, socket, closings, lapses
<1> QED
  BY <1>1, <1>2, UserTypes, FailTypes, AppReadTypes, WelcomeTypes, LinkTypes, CommandTypes, PtyTypes, RestartTypes
     DEF Next
----------------------------------------------------------------------------
(* The inductive invariant.                                                 *)

SpawnAt(p, i)    == i \in DOMAIN toD /\ toD[i].t = "spawn" /\ toD[i].pane = p
KillAt(p, i)     == i \in DOMAIN toD /\ toD[i].t = "kill" /\ toD[i].pane = p
AnswerAt(p, i)   == i \in DOMAIN toA /\ toA[i].t = "spawned" /\ toA[i].pane = p
TraceAt(p, g, i) == i \in DOMAIN toA /\ toA[i].t \in {"data", "exit"} /\ toA[i].pane = p /\ toA[i].gen = g

\* A pane's issue tokens rise, and an open one was not closed since its last.
Tokens ==
    \A p \in Pane : /\ closedAt[p] <= token[p] /\ token[p] < nextToken
                    /\ view[p] = "open" => token[p] > closedAt[p]

\* No two ids name one session, and no id names a killed one.
Distinct ==
    /\ \A p, q \in Pane : live[p] # 0 /\ live[p] = live[q] => p = q
    /\ \A p \in Pane : live[p] < nextGen
    /\ \A d \in dying : d[2] < nextGen /\ \A q \in Pane : live[q] # d[2]

Unbound == \A p \in Pane : subs[p] = 0

\* A connection begins with the welcome, which lists what the daemon has, and
\* nothing else crosses it before that was read.
Greeting ==
    /\ link = "up" /\ ~greeted => toD = <<>>
    /\ link = "down" => toD = <<>> /\ toA = <<>> /\ ~greeted /\ Unbound
    /\ link = "cut" => toA = <<>> /\ ~greeted
    /\ link = "dead" => toD = <<>> /\ dying = {} /\ Unbound
    /\ link \in {"up", "dead"} /\ ~greeted =>
          /\ Unbound
          /\ 1 \in DOMAIN toA /\ toA[1].t = "welcome" /\ \A i \in DOMAIN toA : i = 1
          /\ link = "up" => \A p \in Pane : /\ live[p] # 0 => toA[1].list[p] = live[p]
                                            /\ <<p, toA[1].list[p]>> \notin dying
    /\ greeted => \A i \in DOMAIN toA : toA[i].t # "welcome"

\* What the id names is of a pane that was not closed.
Fresh(p) == live[p] # 0 => serves[live[p]] > closedAt[p]

\* Or it was taken over with the welcome, and no one hears it before a spawn is handed it.
Adopted(p) == p \in adopted /\ subs[p] # live[p]

SpawnsAreLater(p) == \A i \in DOMAIN toD : SpawnAt(p, i) => toD[i].token > closedAt[p]

\* An answer under way is of a session of the present pane, as is all it prints after it.
AnswersAreFresh(p) ==
    \A i \in DOMAIN toA : AnswerAt(p, i) =>
       /\ toA[i].token > closedAt[p] /\ (link = "dead" \/ Fresh(p)) /\ <<p, toA[i].gen>> \notin dying
       /\ \A j \in DOMAIN toA : j > i /\ TraceAt(p, toA[i].gen, j) => toA[j].token > closedAt[p]

\* As is the generation the gate lets through, and whatever is under way that it would.
GateIsFresh(p) ==
    /\ gens[p] # Killed => /\ link = "up" /\ greeted => Fresh(p) \/ Adopted(p)
                           /\ \A i \in DOMAIN toA : TraceAt(p, gens[p], i) => toA[i].token > closedAt[p]
    /\ <<p, gens[p]>> \notin dying

\* A stale session is about to be killed, before any spawn could be handed it, or was taken over.
KillsStale(p) ==
    ~Fresh(p) /\ p \notin adopted =>
                /\ link = "up" /\ greeted => \E i \in DOMAIN toD : KillAt(p, i)
                /\ \A i \in DOMAIN toD : SpawnAt(p, i) => \E j \in DOMAIN toD : j < i /\ KillAt(p, j)

\* A kill is sent of a pane with a tombstone, with no spawn or answer of it under way.
KillsAreFinal(p) ==
    \A j \in DOMAIN toD : KillAt(p, j) =>
       /\ gens[p] = Killed /\ \A i \in DOMAIN toA : ~AnswerAt(p, i)
       /\ \A i \in DOMAIN toD : i < j => ~SpawnAt(p, i)

PaneInv(p) ==
    SpawnsAreLater(p) /\ AnswersAreFresh(p) /\ GateIsFresh(p) /\ KillsStale(p) /\ KillsAreFinal(p)

PanesAreGated == \A p \in Pane \ early : PaneInv(p)

RelayInv == TypeOK /\ SpecsFollowPanes /\ Tokens /\ Distinct /\ Greeting /\ PanesAreGated

----------------------------------------------------------------------------
(* Specs and tokens.                                                        *)

Books == Tokens /\ SpecsFollowPanes

LEMMA BooksKept ==
  ASSUME TypeOK, Books, [Next]_vars
  PROVE  Books'
<1> USE DEF Books
<1>1. CASE UNCHANGED <<view, token, specs, nextToken, closedAt>>
  BY <1>1 DEF Tokens, SpecsFollowPanes
<1>2. ASSUME NEW p \in Pane, Open(p) PROVE Books'
  BY <1>2 DEF TypeOK, RendererTypes, RelayTypes, ClosingTypes, Tokens, SpecsFollowPanes, Open, closings, lapses
<1>3. ASSUME NEW p \in Pane, Close(p) PROVE Books'
  BY <1>3 DEF TypeOK, RendererTypes, RelayTypes, ClosingTypes, Tokens, SpecsFollowPanes, Close, Bury
<1>4. ASSUME NEW w \in waiters, SpawnFails(w) PROVE Books'
  <2>1. w.pane \in Pane /\ w.token \in Nat \ {0}
    BY DEF TypeOK, RelayTypes, Waiter
  <2>2. CASE specs[w.pane] = w.token
    <3>1. view[w.pane] = "open" /\ token[w.pane] = w.token
      BY <2>1, <2>2 DEF SpecsFollowPanes
    <3> QED
      BY <1>4, <2>1, <2>2, <3>1
         DEF TypeOK, RendererTypes, RelayTypes, ClosingTypes, Tokens, SpecsFollowPanes, SpawnFails, Bury
  <2>3. CASE specs[w.pane] # w.token
    <3>1. ~(view[w.pane] = "open" /\ token[w.pane] = w.token)
      BY <2>1, <2>3 DEF SpecsFollowPanes
    <3> QED
      BY <1>1, <1>4, <2>3, <3>1 DEF SpawnFails, closings, lapses
  <2> QED
    BY <2>2, <2>3
<1>5. ASSUME ReadExit PROVE Books'
  <2>1. CASE ~Current(Next1)
    BY <1>1, <1>5, <2>1 DEF ReadExit, closings, lapses
  <2>2. CASE Current(Next1)
    BY <1>5, <2>2 DEF TypeOK, RendererTypes, RelayTypes, ClosingTypes, Tokens, SpecsFollowPanes, ReadExit, closings, lapses
  <2> QED
    BY <2>1, <2>2
<1>6. ASSUME NEW p \in Pane, Input(p) PROVE Books'
  BY <1>1, <1>6 DEF Input, renderer, relay, closings, lapses
<1>7. ASSUME ReadSpawned \/ ReadError \/ ReadData \/ ReadWelcome PROVE Books'
  BY <1>1, <1>7 DEF ReadSpawned, ReadError, ReadData, ReadWelcome, renderer, relay, closings, lapses
<1>8. ASSUME Cut \/ SeeCut \/ SeeDeath \/ Connect PROVE Books'
  BY <1>1, <1>8 DEF Cut, SeeCut, SeeDeath, Connect, renderer, relay, closings, lapses
<1>9. ASSUME ReadCommand \/ Save \/ Restart PROVE Books'
  BY <1>1, <1>9 DEF ReadCommand, Save, Restart, renderer, relay, closings, lapses
<1>10. ASSUME NEW p \in Pane, NEW g \in Gen, PtyData(p, g) \/ PtyExit(p, g) PROVE Books'
  BY <1>1, <1>10 DEF PtyData, PtyExit, renderer, relay, closings, lapses
<1>11. ASSUME UNCHANGED vars PROVE Books'
  BY <1>1, <1>11 DEF vars, renderer, relay, closings, lapses
<1> QED
  BY <1>2, <1>3, <1>4, <1>5, <1>6, <1>7, <1>8, <1>9, <1>10, <1>11 DEF Next

----------------------------------------------------------------------------
(* Sessions.                                                                *)

\* What the daemon does with the first command.
Handles(c) ==
    \/ c.t = "spawn" /\ DoSpawn(c.pane, c.token)
    \/ c.t = "spawn" /\ Refuse(c.pane, c.token)
    \/ c.t = "kill" /\ DoKill(c.pane)
    \/ c.t = "input" /\ UNCHANGED <<nextGen, live, dying, subs, rows, serves, toA>>

LEMMA DistinctKept ==
  ASSUME TypeOK, Distinct, [Next]_vars
  PROVE  Distinct'
<1>1. CASE UNCHANGED <<live, nextGen, dying>>
  BY <1>1 DEF Distinct
<1>2. ASSUME ReadCommand PROVE Distinct'
  <2> DEFINE c == Head(toD)
  <2>1. c \in Command /\ c.pane \in Pane /\ Handles(c)
    BY <1>2, Takes, CommandKinds DEF TypeOK, ReadCommand, Handles
  <2> HIDE DEF c
  <2>2. CASE c.t = "spawn" /\ DoSpawn(c.pane, c.token)
    <3>1. CASE live[c.pane] # 0
      <4>1. live' = live /\ nextGen' = nextGen /\ dying' = dying
        BY <2>1, <2>2, <3>1 DEF DoSpawn, TypeOK, DaemonTypes
      <4> QED
        BY <1>1, <4>1
    <3>2. CASE live[c.pane] = 0
      <4>1. live' = [live EXCEPT ![c.pane] = nextGen] /\ nextGen' = nextGen + 1 /\ dying' = dying
        BY <2>1, <2>2, <3>2 DEF DoSpawn
      <4>2. \A d \in dying : d[2] \in Nat
        BY Gens DEF TypeOK, DaemonTypes
      <4>3. \A q \in Pane : live[q] \in Nat
        BY Gens DEF TypeOK, DaemonTypes
      <4>6. \A q \in Pane : live'[q] = IF q = c.pane THEN nextGen ELSE live[q]
        BY <2>1, <4>1 DEF TypeOK, DaemonTypes
      <4>4. nextGen' = nextGen + 1 /\ nextGen \in Nat /\ nextGen > 0
        BY <4>1 DEF TypeOK, DaemonTypes
      <4>5. dying' = dying
        BY <4>1
      <4> HIDE <4>1
      <4> QED
        BY <2>1, <4>2, <4>3, <4>4, <4>5, <4>6 DEF Distinct
    <3> QED
      BY <3>1, <3>2
  <2>3. CASE c.t = "kill" /\ DoKill(c.pane)
    <3>1. CASE live[c.pane] = 0
      BY <2>1, <2>3, <3>1 DEF DoKill, TypeOK, DaemonTypes, Distinct
    <3>2. CASE live[c.pane] # 0
      <4>1. dying' = dying \cup {<<c.pane, live[c.pane]>>} /\ live' = [live EXCEPT ![c.pane] = 0] /\ nextGen' = nextGen
        BY <2>3, <3>2 DEF DoKill
      <4>2. \A d \in dying' : d \in dying \/ d[2] = live[c.pane]
        BY <4>1
      <4>3. \A d \in dying : d[2] # 0
        BY Gens DEF TypeOK, DaemonTypes
      <4> HIDE <4>1
      <4>4. \A q \in Pane : live'[q] = IF q = c.pane THEN 0 ELSE live[q]
        BY <2>1, <4>1 DEF TypeOK, DaemonTypes
      <4>5. nextGen' = nextGen /\ nextGen \in Nat /\ nextGen > 0
        BY <4>1 DEF TypeOK, DaemonTypes
      <4> QED
        BY <2>1, <3>2, <4>2, <4>3, <4>4, <4>5 DEF Distinct
    <3> QED
      BY <3>1, <3>2
  <2>4. CASE c.t = "spawn" /\ Refuse(c.pane, c.token)
    <3>1. live' = live /\ dying' = dying /\ nextGen' = nextGen + 1 /\ nextGen \in Nat
      BY <2>4 DEF Refuse, TypeOK, DaemonTypes
    <3>2. (\A d \in dying : d[2] \in Nat) /\ \A q \in Pane : live[q] \in Nat
      BY Gens DEF TypeOK, DaemonTypes
    <3> QED
      BY <3>1, <3>2 DEF Distinct
  <2> QED
    BY <1>1, <2>1, <2>2, <2>3, <2>4 DEF Handles
<1>3. ASSUME Restart PROVE Distinct'
  <2>1. PICK restored \in SUBSET Pane, n \in Nat : \E num \in [restored -> Gen] : Restored(restored, num, n)
    BY <1>3, Restores
  <2>2. PICK num \in [restored -> Gen] : Restored(restored, num, n)
    BY <2>1
  <2>3. dying' = {}
    BY <1>3 DEF Restart
  <2>4. \A p \in restored : num[p] \in Nat /\ num[p] > 0 /\ num[p] <= n
    BY <2>2 DEF Restored, Gen
  <2>5. \A p \in Pane : live'[p] = IF p \in restored THEN num[p] ELSE 0
    BY <2>2 DEF Restored
  <2>6. /\ \A p, q \in restored : num[p] = num[q] => p = q
        /\ nextGen' = n + 1 /\ n \in Nat
    BY <2>2 DEF Restored
  <2> QED
    BY <2>3, <2>4, <2>5, <2>6 DEF Distinct
<1>4. ASSUME NEW p \in Pane, NEW g \in Gen, PtyExit(p, g) PROVE Distinct'
  <2>1. \A q \in Pane : live'[q] = live[q] \/ live'[q] = 0
    BY <1>4 DEF PtyExit, TypeOK, DaemonTypes
  <2>2. dying' \subseteq dying /\ nextGen' = nextGen /\ nextGen \in Nat \ {0}
    BY <1>4 DEF PtyExit, TypeOK, DaemonTypes
  <2>3. \A d \in dying : d[2] # 0
    BY Gens DEF TypeOK, DaemonTypes
  <2> QED
    BY <2>1, <2>2, <2>3 DEF Distinct
<1>5. ASSUME NEW p \in Pane, Open(p) \/ Close(p) \/ Input(p) PROVE Distinct'
  BY <1>1, <1>5 DEF Open, Close, Input, daemon, lapses
<1>6. ASSUME NEW w \in waiters, SpawnFails(w) PROVE Distinct'
  BY <1>1, <1>6 DEF SpawnFails, daemon, lapses
<1>7. ASSUME ReadSpawned \/ ReadError \/ ReadData \/ ReadExit \/ ReadWelcome PROVE Distinct'
  BY <1>1, <1>7 DEF ReadSpawned, ReadError, ReadData, ReadExit, ReadWelcome, daemon, lapses
<1>8. ASSUME Cut \/ SeeCut \/ SeeDeath \/ Connect PROVE Distinct'
  BY <1>1, <1>8 DEF Cut, SeeCut, SeeDeath, Connect, daemon, lapses
<1>9. ASSUME NEW p \in Pane, NEW g \in Gen, PtyData(p, g) PROVE Distinct'
  BY <1>1, <1>9 DEF PtyData, daemon, lapses
<1>10. ASSUME UNCHANGED vars PROVE Distinct'
  BY <1>1, <1>10 DEF vars, daemon
<1>11. ASSUME Save PROVE Distinct'
  BY <1>1, <1>11 DEF Save
<1> QED
  BY <1>2, <1>3, <1>4, <1>5, <1>6, <1>7, <1>8, <1>9, <1>10, <1>11 DEF Next
----------------------------------------------------------------------------
(* The welcome.                                                             *)

LEMMA GreetingKept ==
  ASSUME TypeOK, Distinct, Greeting, [Next]_vars
  PROVE  Greeting'
<1>1. CASE /\ UNCHANGED <<link, greeted, toA, live, dying, subs>>
           /\ link # "up" \/ ~greeted => toD' = toD
  BY <1>1 DEF Greeting, Unbound, TypeOK, SocketTypes
<1>2. ASSUME NEW p \in Pane, Open(p) \/ Close(p) \/ Input(p) PROVE Greeting'
  <2>1. link # "up" \/ ~greeted => toD' = toD
    BY <1>2 DEF Open, Close, Bury, Input, Send, SendAll
  <2> QED
    BY <1>1, <1>2, <2>1 DEF Open, Close, Input, relay, daemon, lapses
<1>3. ASSUME NEW w \in waiters, SpawnFails(w) PROVE Greeting'
  <2>1. link # "up" \/ ~greeted => toD' = toD
    BY <1>3 DEF SpawnFails, Bury, Send, SendAll
  <2> QED
    BY <1>1, <1>3, <2>1 DEF SpawnFails, relay, daemon, lapses
<1>4. ASSUME ReadSpawned \/ ReadError \/ ReadData \/ ReadExit PROVE Greeting'
  <2>1. CanRead /\ toA' = Tail(toA) /\ Next1.t # "welcome"
    BY <1>4 DEF ReadSpawned, ReadError, ReadData, ReadExit
  <2>2. Next1 = toA[1] /\ Rests(toA', toA)
    BY <2>1, Reads DEF TypeOK
  <2>3. link \in {"up", "dead"} /\ greeted
    BY <2>1, <2>2 DEF CanRead, Greeting
  <2>4. \A i \in DOMAIN toA' : toA'[i].t # "welcome"
    BY <2>2, <2>3 DEF Rests, Greeting
  <2>5. UNCHANGED <<link, greeted, toD, dying, subs>>
    BY <1>4 DEF ReadSpawned, ReadError, ReadData, ReadExit, relay, daemon, lapses
  <2> QED
    BY <2>3, <2>4, <2>5 DEF Greeting, Unbound
<1>5. ASSUME ReadWelcome PROVE Greeting'
  <2>1. CanRead /\ toA' = Tail(toA) /\ Next1.t = "welcome" /\ greeted'
    BY <1>5 DEF ReadWelcome
  <2>2. Next1 = toA[1] /\ Rests(toA', toA) /\ 1 \in DOMAIN toA
    BY <2>1, Reads DEF TypeOK, Rests
  <2>3. link \in {"up", "dead"} /\ ~greeted
    BY <2>1, <2>2 DEF CanRead, Greeting
  <2>4. \A i \in DOMAIN toA' : FALSE
    BY <2>2, <2>3 DEF Rests, Greeting
  <2>5. UNCHANGED <<link, dying, subs>> /\ (link # "up" => toD' = toD)
    BY <1>5 DEF ReadWelcome, daemon, lapses
  <2> QED
    BY <2>1, <2>3, <2>4, <2>5 DEF Greeting, Unbound
<1>6. ASSUME Cut \/ SeeCut \/ SeeDeath PROVE Greeting'
  <2>1. CASE Cut
    BY <2>1 DEF Cut, Greeting
  <2>2. CASE SeeCut
    <3>1. toA = <<>> /\ ~greeted
      BY <2>2 DEF SeeCut, Greeting
    <3> QED
      BY <2>2, <3>1 DEF SeeCut, NoSubs, Greeting, Unbound, relay
  <2>3. CASE SeeDeath
    BY <2>3 DEF SeeDeath, Greeting, Unbound, daemon, lapses
  <2> QED
    BY <1>6, <2>1, <2>2, <2>3
<1>7. ASSUME Connect PROVE Greeting'
  <2>1. toD = <<>> /\ ~greeted /\ Unbound
    BY <1>7 DEF Connect, Greeting
  <2>2. /\ link' = "up" /\ 1 \in DOMAIN toA' /\ toA'[1].t = "welcome" /\ toA'[1].list = live
        /\ \A i \in DOMAIN toA' : i = 1
    BY <1>7 DEF Connect
  <2>3. \A p \in Pane : <<p, live[p]>> \notin dying
    BY DEF Distinct
  <2>4. UNCHANGED <<greeted, toD, subs, live, dying>>
    BY <1>7 DEF Connect, relay, daemon, lapses
  <2> QED
    BY <2>1, <2>2, <2>3, <2>4 DEF Greeting, Unbound
<1>8. ASSUME ReadCommand PROVE Greeting'
  <2> DEFINE c == Head(toD)
  <2>1. c \in Command /\ c.pane \in Pane /\ Handles(c) /\ toD # <<>> /\ (c.t = "spawn" => c.token \in Nat)
    BY <1>8, Takes, CommandKinds DEF TypeOK, ReadCommand, Handles
  <2>2. UNCHANGED <<link, greeted>> /\ link \in {"up", "cut"}
    BY <1>8 DEF ReadCommand, relay
  <2> HIDE DEF c
  <2>3. CASE link = "cut"
    <3>1. toA' = toA
      BY <2>1, <2>3 DEF Handles, DoSpawn, Refuse, DoKill, Emit
    <3> QED
      BY <2>2, <2>3, <3>1 DEF Greeting
  <2>4. CASE link = "up"
    <3>1. greeted
      BY <2>1, <2>4 DEF Greeting
    <3>2. \A i \in DOMAIN toA' : toA'[i].t # "welcome"
      <4>1. CASE c.t = "spawn" /\ DoSpawn(c.pane, c.token)
        <5>1. PICK g \in Gen : Emit("spawned", c.pane, g, c.token)
          BY <4>1 DEF DoSpawn
        <5>2. PICK m \in Event, k \in Nat : m.t = "spawned" /\ Adds(toA', toA, m, k)
          BY <2>1, <2>4, <4>1, <5>1, Emits DEF TypeOK
        <5> QED
          BY <3>1, <5>2 DEF Adds, Greeting
      <4>3. CASE c.t = "spawn" /\ Refuse(c.pane, c.token)
        <5>1. nextGen \in Gen /\ Emit("error", c.pane, nextGen, c.token)
          BY <4>3 DEF Refuse
        <5>2. PICK m \in Event, k \in Nat : m.t = "error" /\ Adds(toA', toA, m, k)
          BY <2>1, <2>4, <4>3, <5>1, Emits DEF TypeOK
        <5> QED
          BY <3>1, <5>2 DEF Adds, Greeting
      <4>2. CASE c.t # "spawn"
        BY <2>1, <3>1, <4>2 DEF Handles, DoKill, Greeting
      <4> QED
        BY <2>1, <4>1, <4>2, <4>3 DEF Handles
    <3> QED
      BY <2>2, <2>4, <3>1, <3>2 DEF Greeting
  <2> QED
    BY <2>2, <2>3, <2>4
<1>9. ASSUME Restart PROVE Greeting'
  <2>1. toD' = <<>> /\ dying' = {} /\ Unbound' /\ UNCHANGED <<greeted, toA>>
        /\ link' = (IF link = "up" THEN "dead" ELSE IF link = "cut" THEN "down" ELSE link)
    BY <1>9 DEF Restart, NoSubs, Unbound, relay
  <2> QED
    BY <2>1 DEF Greeting, TypeOK, SocketTypes
<1>10. ASSUME NEW p \in Pane, NEW g \in Gen, PtyData(p, g) \/ PtyExit(p, g) PROVE Greeting'
  <2>1. UNCHANGED <<link, greeted, toD>> /\ dying' \subseteq dying
    BY <1>10 DEF PtyData, PtyExit, relay, daemon, lapses
  <2>2. \A q \in Pane : (live'[q] = live[q] \/ live'[q] = 0) /\ (subs'[q] = subs[q] \/ subs'[q] = 0)
    BY <1>10 DEF PtyData, PtyExit, daemon, TypeOK, DaemonTypes
  <2>3. CASE subs[p] # g \/ link # "up"
    <3>1. toA' = toA
      BY <1>10, <2>3 DEF PtyData, PtyExit, Emit
    <3> QED
      BY <2>1, <2>2, <3>1 DEF Greeting, Unbound
  <2>4. CASE subs[p] = g /\ link = "up"
    <3>1. greeted
      BY <2>4, Gens DEF Greeting, Unbound
    <3>2. serves[g] \in Nat
      BY DEF TypeOK, DaemonTypes
    <3>3. PICK t \in {"data", "exit"} : Emit(t, p, g, serves[g])
      BY <1>10, <2>4 DEF PtyData, PtyExit
    <3>4. PICK m \in Event, k \in Nat : m.t = t /\ Adds(toA', toA, m, k)
      BY <2>4, <3>2, <3>3, Emits DEF TypeOK
    <3>5. \A i \in DOMAIN toA' : toA'[i].t # "welcome"
      BY <3>1, <3>4 DEF Adds, Greeting
    <3> QED
      BY <2>1, <2>4, <3>1, <3>5 DEF Greeting
  <2> QED
    BY <2>3, <2>4
<1>11. ASSUME UNCHANGED vars PROVE Greeting'
  BY <1>1, <1>11 DEF vars, relay, socket, daemon
<1>12. ASSUME Save PROVE Greeting'
  BY <1>1, <1>12 DEF Save, relay, socket
<1> QED
  BY <1>2, <1>3, <1>4, <1>5, <1>6, <1>7, <1>8, <1>9, <1>10, <1>11, <1>12 DEF Next
----------------------------------------------------------------------------
(* The gate of a pane.                                                      *)

\* Nothing that the daemon or the relay knows of p gets worse.
KeepsFresh(p) ==
    /\ closedAt'[p] = closedAt[p]
    /\ Fresh(p) => Fresh(p)'
    /\ Adopted(p) => Adopted(p)' \/ Fresh(p)'
    /\ p \in adopted => p \in adopted'
    /\ \A g \in Gen : <<p, g>> \in dying' => <<p, g>> \in dying

\* The spawns and kills of p are what they were but for d places, or the
\* connection is gone and they with it.
KeepsCommands(p) ==
    \/ \E d \in {0, 1} :
          /\ \A i \in DOMAIN toD : i \in Nat
                /\ (toD[i].t \in {"spawn", "kill"} /\ toD[i].pane = p
                       => i - d \in DOMAIN toD' /\ toD'[i - d] = toD[i])
          /\ \A i \in DOMAIN toD' : i \in Nat
                /\ (toD'[i].t \in {"spawn", "kill"} /\ toD'[i].pane = p
                       => i + d \in DOMAIN toD /\ toD'[i] = toD[i + d])
          /\ link' = "up" /\ greeted' => link = "up" /\ greeted
    \/ toD' = <<>> /\ ~(link' = "up" /\ greeted')

\* No answer or trace of p is under way that was not, and they keep their order.
KeepsEvents(p) ==
    /\ \E d \in {0, 1} :
          \A i \in DOMAIN toA' : i \in Nat
             /\ (toA'[i].t \in {"spawned", "data", "exit"} /\ toA'[i].pane = p
                    => i + d \in DOMAIN toA /\ toA'[i] = toA[i + d])
    /\ link = "dead" => link' = "dead" \/ \A i \in DOMAIN toA' : ~AnswerAt(p, i)'

LEMMA CommandsKept ==
  ASSUME NEW p \in Pane, KeepsFresh(p), KeepsCommands(p), SpawnsAreLater(p), KillsStale(p)
  PROVE  SpawnsAreLater(p)' /\ KillsStale(p)'
<1>1. CASE toD' = <<>> /\ ~(link' = "up" /\ greeted')
  BY <1>1 DEF SpawnsAreLater, KillsStale, SpawnAt, KillAt
<1>2. CASE ~(toD' = <<>> /\ ~(link' = "up" /\ greeted'))
  <2>1. PICK d \in {0, 1} :
          /\ \A i \in DOMAIN toD : i \in Nat
                /\ (toD[i].t \in {"spawn", "kill"} /\ toD[i].pane = p
                       => i - d \in DOMAIN toD' /\ toD'[i - d] = toD[i])
          /\ \A i \in DOMAIN toD' : i \in Nat
                /\ (toD'[i].t \in {"spawn", "kill"} /\ toD'[i].pane = p
                       => i + d \in DOMAIN toD /\ toD'[i] = toD[i + d])
          /\ link' = "up" /\ greeted' => link = "up" /\ greeted
    BY <1>2 DEF KeepsCommands
  <2>2. SpawnsAreLater(p)'
    BY <2>1 DEF KeepsFresh, SpawnsAreLater, SpawnAt
  <2>3. ASSUME ~Fresh(p)', p \notin adopted', link' = "up", greeted' PROVE \E i \in DOMAIN toD' : KillAt(p, i)'
    <3>1. PICK i \in DOMAIN toD : KillAt(p, i)
      BY <2>1, <2>3 DEF KillsStale, KeepsFresh
    <3>2. i - d \in DOMAIN toD' /\ toD'[i - d] = toD[i]
      BY <2>1, <3>1 DEF KillAt
    <3> QED
      BY <3>1, <3>2 DEF KillAt
  <2>4. ASSUME ~Fresh(p)', p \notin adopted', NEW i \in DOMAIN toD', SpawnAt(p, i)'
        PROVE  \E j \in DOMAIN toD' : j < i /\ KillAt(p, j)'
    <3>1. i \in Nat /\ i + d \in DOMAIN toD /\ toD'[i] = toD[i + d] /\ SpawnAt(p, i + d)
      BY <2>1, <2>4 DEF SpawnAt
    <3>2. PICK j \in DOMAIN toD : j < i + d /\ KillAt(p, j)
      BY <2>4, <3>1 DEF KillsStale, KeepsFresh
    <3>3. j \in Nat /\ j - d \in DOMAIN toD' /\ toD'[j - d] = toD[j]
      BY <2>1, <3>2 DEF KillAt
    <3>4. j - d < i
      BY <3>1, <3>2, <3>3
    <3> QED
      BY <3>2, <3>3, <3>4 DEF KillAt
  <2> QED
    BY <2>2, <2>3, <2>4 DEF KillsStale
<1> QED
  BY <1>1, <1>2

LEMMA AnswersKept ==
  ASSUME NEW p \in Pane, KeepsFresh(p), KeepsEvents(p), TypeOK', AnswersAreFresh(p)
  PROVE  AnswersAreFresh(p)'
<1>1. PICK d \in {0, 1} :
       \A i \in DOMAIN toA' : i \in Nat
          /\ (toA'[i].t \in {"spawned", "data", "exit"} /\ toA'[i].pane = p
                 => i + d \in DOMAIN toA /\ toA'[i] = toA[i + d])
  BY DEF KeepsEvents
<1>2. ASSUME NEW i \in DOMAIN toA', AnswerAt(p, i)'
      PROVE  /\ toA'[i].token > closedAt'[p] /\ (link' = "dead" \/ Fresh(p)') /\ <<p, toA'[i].gen>> \notin dying'
             /\ \A j \in DOMAIN toA' : j > i /\ TraceAt(p, toA[i].gen, j)' => toA'[j].token > closedAt'[p]
  <2>1. /\ i \in Nat /\ i + d \in DOMAIN toA /\ toA'[i] = toA[i + d] /\ AnswerAt(p, i + d)
    BY <1>1, <1>2 DEF AnswerAt
  <2>2. toA[i + d].token > closedAt[p] /\ (link = "dead" \/ Fresh(p)) /\ <<p, toA[i + d].gen>> \notin dying
    BY <2>1 DEF AnswersAreFresh
  <2>3. toA'[i] \in Event /\ toA'[i].gen \in Gen
    <3>1. toA'[i] \in Event
      BY <1>2 DEF TypeOK, SocketTypes
    <3> QED
      BY <3>1, <1>2, EventKinds DEF AnswerAt
  <2>4. ASSUME NEW j \in DOMAIN toA', j > i, TraceAt(p, toA[i].gen, j)' PROVE toA'[j].token > closedAt'[p]
    <3>1. j \in Nat /\ j + d \in DOMAIN toA /\ toA'[j] = toA[j + d] /\ TraceAt(p, toA[i + d].gen, j + d)
      BY <1>1, <2>1, <2>4 DEF TraceAt
    <3>2. j + d > i + d
      BY <2>1, <2>4, <3>1
    <3> QED
      BY <2>1, <3>1, <3>2 DEF AnswersAreFresh, KeepsFresh
  <2>5. link = "dead" => link' = "dead"
    BY <1>2 DEF KeepsEvents
  <2> QED
    BY <2>1, <2>2, <2>3, <2>4, <2>5 DEF KeepsFresh
<1> QED
  BY <1>2 DEF AnswersAreFresh

LEMMA GateKept ==
  ASSUME NEW p \in Pane, KeepsFresh(p), KeepsEvents(p), TypeOK', gens'[p] = gens[p], GateIsFresh(p),
         link' = "up" /\ greeted' => link = "up" /\ greeted
  PROVE  GateIsFresh(p)'
<1>1. <<p, gens'[p]>> \notin dying'
  BY DEF TypeOK, DaemonTypes, GateIsFresh, KeepsFresh
<1>2. ASSUME gens'[p] # Killed, NEW i \in DOMAIN toA', TraceAt(p, gens[p], i)' PROVE toA'[i].token > closedAt'[p]
  <2>1. PICK j \in DOMAIN toA : toA'[i] = toA[j]
    BY <1>2 DEF KeepsEvents, TraceAt
  <2>2. TraceAt(p, gens[p], j)
    BY <1>2, <2>1 DEF TraceAt
  <2> QED
    BY <1>2, <2>1, <2>2 DEF GateIsFresh, KeepsFresh
<1> QED
  BY <1>1, <1>2 DEF GateIsFresh, KeepsFresh

LEMMA KillsKept ==
  ASSUME NEW p \in Pane, KeepsCommands(p), KeepsEvents(p), gens'[p] = gens[p], KillsAreFinal(p)
  PROVE  KillsAreFinal(p)'
<1>1. CASE toD' = <<>>
  BY <1>1 DEF KillsAreFinal, KillAt
<1>2. CASE toD' # <<>>
  <2>1. PICK d \in {0, 1} : \A i \in DOMAIN toD' : i \in Nat
                /\ (toD'[i].t \in {"spawn", "kill"} /\ toD'[i].pane = p
                       => i + d \in DOMAIN toD /\ toD'[i] = toD[i + d])
    BY <1>2 DEF KeepsCommands
  <2>2. ASSUME NEW j \in DOMAIN toD', KillAt(p, j)'
        PROVE  /\ gens'[p] = Killed /\ \A i \in DOMAIN toA' : ~AnswerAt(p, i)'
               /\ \A i \in DOMAIN toD' : i < j => ~SpawnAt(p, i)'
    <3>1. j \in Nat /\ j + d \in DOMAIN toD /\ KillAt(p, j + d)
      BY <2>1, <2>2 DEF KillAt
    <3>2. ASSUME NEW i \in DOMAIN toA', AnswerAt(p, i)' PROVE FALSE
      <4>1. PICK k \in DOMAIN toA : toA'[i] = toA[k]
        BY <3>2 DEF KeepsEvents, AnswerAt
      <4> QED
        BY <3>1, <3>2, <4>1 DEF KillsAreFinal, AnswerAt
    <3>3. ASSUME NEW i \in DOMAIN toD', i < j, SpawnAt(p, i)' PROVE FALSE
      <4>1. i \in Nat /\ i + d \in DOMAIN toD /\ SpawnAt(p, i + d)
        BY <2>1, <3>3 DEF SpawnAt
      <4>2. i + d < j + d
        BY <3>1, <3>3, <4>1
      <4> QED
        BY <3>1, <4>1, <4>2 DEF KillsAreFinal
    <3> QED
      BY <3>1, <3>2, <3>3 DEF KillsAreFinal
  <2> QED
    BY <2>2 DEF KillsAreFinal
<1> QED
  BY <1>1, <1>2

\* A step that is not about p.
LEMMA PaneKept ==
  ASSUME NEW p \in Pane, PaneInv(p), TypeOK', KeepsFresh(p), KeepsCommands(p), KeepsEvents(p), gens'[p] = gens[p]
  PROVE  PaneInv(p)'
<1>1. link' = "up" /\ greeted' => link = "up" /\ greeted
  BY DEF KeepsCommands
<1> QED
  BY <1>1, CommandsKept, AnswersKept, GateKept, KillsKept DEF PaneInv

LEMMA FreshKept ==
  ASSUME TypeOK, TypeOK', NEW p \in Pane, closedAt'[p] = closedAt[p], adopted \subseteq adopted',
         subs'[p] \in {subs[p], 0}, live'[p] = 0 \/ (live'[p] = live[p] /\ serves'[live[p]] = serves[live[p]]),
         \A g \in Gen : <<p, g>> \in dying' => <<p, g>> \in dying
  PROVE  KeepsFresh(p)
BY DEF KeepsFresh, Fresh, Adopted

LEMMA SameCommands ==
  ASSUME TypeOK, NEW p \in Pane, toD' = toD, link' = "up" /\ greeted' => link = "up" /\ greeted
  PROVE  KeepsCommands(p)
<1>1. \A i \in DOMAIN toD : i \in Nat /\ i - 0 = i /\ i + 0 = i
  BY LenProperties DEF TypeOK, SocketTypes
<1> QED
  BY <1>1 DEF KeepsCommands

LEMMA OtherCommand ==
  ASSUME TypeOK, NEW p \in Pane, NEW m \in Command, Send(m), m.t = "input" \/ m.pane # p, UNCHANGED <<link, greeted>>
  PROVE  KeepsCommands(p)
<1>1. CASE ~(link = "up" /\ greeted)
  BY <1>1, SameCommands, Sends DEF TypeOK
<1>2. CASE link = "up" /\ greeted
  <2>1. PICK n \in Nat : Adds(toD', toD, m, n)
    BY <1>2, Sends DEF TypeOK
  <2>2. /\ \A i \in DOMAIN toD : i \in Nat /\ i - 0 \in DOMAIN toD' /\ toD'[i - 0] = toD[i]
        /\ \A i \in DOMAIN toD' : i \in Nat
              /\ (toD'[i].t \in {"spawn", "kill"} /\ toD'[i].pane = p
                     => i + 0 \in DOMAIN toD /\ toD'[i] = toD[i + 0])
    BY <2>1 DEF Adds
  <2> QED
    BY <1>2, <2>2 DEF KeepsCommands
<1> QED
  BY <1>1, <1>2

LEMMA OtherTaken ==
  ASSUME TypeOK, NEW p \in Pane, ReadCommand, Head(toD).t = "input" \/ Head(toD).pane # p
  PROVE  KeepsCommands(p)
<1>1. Rests(toD', toD) /\ Head(toD) = toD[1]
  BY Takes DEF TypeOK
<1>2. UNCHANGED <<link, greeted>>
  BY DEF ReadCommand, relay
<1> QED
  BY <1>1, <1>2 DEF KeepsCommands, Rests

LEMMA SameEvents ==
  ASSUME TypeOK, NEW p \in Pane, toA' = toA, link = "dead" => link' = "dead" \/ toA = <<>>
  PROVE  KeepsEvents(p)
<1>1. \A i \in DOMAIN toA : i \in Nat /\ i + 0 = i
  BY LenProperties DEF TypeOK, SocketTypes
<1> QED
  BY <1>1 DEF KeepsEvents

LEMMA FewerEvents ==
  ASSUME NEW p \in Pane, (Rests(toA', toA) /\ link' = link) \/ toA' = <<>>
  PROVE  KeepsEvents(p)
BY DEF KeepsEvents, Rests, AnswerAt

LEMMA OtherEvent ==
  ASSUME NEW p \in Pane, NEW m, NEW k \in Nat, Adds(toA', toA, m, k), link' = link,
         m.t \notin {"spawned", "data", "exit"} \/ m.pane # p
  PROVE  KeepsEvents(p)
<1>1. \A i \in DOMAIN toA' : i \in Nat /\ i + 0 = i
          /\ (toA'[i].t \in {"spawned", "data", "exit"} /\ toA'[i].pane = p
                 => i + 0 \in DOMAIN toA /\ toA'[i] = toA[i + 0])
  BY DEF Adds
<1> QED
  BY <1>1 DEF KeepsEvents

----------------------------------------------------------------------------
(* What each action does to a pane that was not closed early.               *)

LEMMA OpenGated ==
  ASSUME RelayInv, TypeOK', NEW q \in Pane, Open(q), NEW p \in Pane \ early'
  PROVE  PaneInv(p)'
<1>1. /\ UNCHANGED <<gens, greeted, link, toA, live, dying, subs, serves, closedAt, early, adopted>>
      /\ Send(SpawnCmd(q, nextToken))
  BY DEF Open, daemon, closings, lapses
<1>2. PaneInv(p)
  BY <1>1 DEF RelayInv, PanesAreGated
<1>3. KeepsFresh(p) /\ KeepsEvents(p)
  BY <1>1, FreshKept, SameEvents DEF RelayInv
<1>4. /\ nextToken \in Nat \ {0} /\ SpawnCmd(q, nextToken) \in Command /\ SpawnCmd(q, nextToken).pane = q
      /\ SpawnCmd(q, nextToken).t = "spawn" /\ SpawnCmd(q, nextToken).token = nextToken
  <2>1. nextToken \in Nat \ {0}
    BY DEF RelayInv, TypeOK, RelayTypes
  <2> QED
    BY <2>1, Commands
<1>5. CASE q # p
  BY <1>1, <1>2, <1>3, <1>4, <1>5, OtherCommand, PaneKept DEF RelayInv
<1>6. CASE ~(link = "up" /\ greeted)
  <2>1. toD' = toD
    BY <1>1, <1>4, <1>6, Sends DEF RelayInv, TypeOK
  <2> QED
    BY <1>1, <1>2, <1>3, <2>1, SameCommands, PaneKept DEF RelayInv
<1>7. CASE q = p /\ link = "up" /\ greeted
  <2> DEFINE m == SpawnCmd(q, nextToken)
  <2>1. PICK n \in Nat : Adds(toD', toD, m, n)
    BY <1>1, <1>4, <1>7, Sends DEF RelayInv, TypeOK
  <2>2. m.t = "spawn" /\ m.pane = p /\ m.token = nextToken
    BY <1>4, <1>7
  <2> HIDE DEF m
  <2>3. nextToken > closedAt[p]
    BY <1>4 DEF RelayInv, Tokens, TypeOK, RendererTypes, ClosingTypes
  <2>4. SpawnsAreLater(p)'
    BY <1>1, <1>2, <2>1, <2>2, <2>3 DEF PaneInv, SpawnsAreLater, SpawnAt, Adds
  <2>5. KillsStale(p)'
    <3> DEFINE S == ~Fresh(p) /\ p \notin adopted
    <3>1. ~Fresh(p)' /\ p \notin adopted' => S
      BY <1>3 DEF KeepsFresh
    <3>2. ASSUME S PROVE \E j \in DOMAIN toD : j \in DOMAIN toD' /\ j < n /\ toD'[j] = toD[j] /\ KillAt(p, j)
      BY <1>2, <1>7, <2>1, <3>2 DEF PaneInv, KillsStale, Adds
    <3>3. ASSUME S, NEW i \in DOMAIN toD', SpawnAt(p, i)'
          PROVE  \E j \in DOMAIN toD' : j < i /\ KillAt(p, j)'
      <4>1. CASE i = n
        BY <3>2, <3>3, <4>1 DEF KillAt
      <4>2. CASE i \in DOMAIN toD
        <5>1. SpawnAt(p, i)
          BY <2>1, <3>3, <4>2 DEF Adds, SpawnAt
        <5>2. PICK j \in DOMAIN toD : j < i /\ KillAt(p, j)
          BY <1>2, <3>3, <5>1 DEF PaneInv, KillsStale, SpawnAt
        <5> QED
          BY <2>1, <5>2 DEF Adds, KillAt
      <4> QED
        BY <2>1, <3>3, <4>1, <4>2 DEF Adds
    <3>4. ASSUME S PROVE \E i \in DOMAIN toD' : KillAt(p, i)'
      BY <3>2, <3>4 DEF KillAt
    <3> QED
      BY <3>1, <3>3, <3>4 DEF KillsStale
  <2>6. KillsAreFinal(p)'
    BY <1>1, <1>2, <2>1, <2>2 DEF PaneInv, KillsAreFinal, KillAt, SpawnAt, AnswerAt, Adds
  <2> QED
    BY <1>1, <1>2, <1>3, <2>4, <2>5, <2>6, AnswersKept, GateKept DEF PaneInv
<1> QED
  BY <1>5, <1>6, <1>7

LEMMA BuryGated ==
  ASSUME RelayInv, TypeOK', NEW q \in Pane, Bury(q),
         UNCHANGED <<greeted, link, toA, live, dying, subs, serves, adopted>>, NEW p \in Pane \ early'
  PROVE  PaneInv(p)'
<1>1. p \notin early /\ (p = q => ~Unanswered(p)) /\ Send(KillCmd(q))
  BY DEF Bury
<1>2. PaneInv(p)
  BY <1>1 DEF RelayInv, PanesAreGated
<1>3. KillCmd(q) \in Command /\ KillCmd(q).t = "kill" /\ KillCmd(q).pane = q
  BY Commands
<1>4. CASE q # p
  <2>1. closedAt'[p] = closedAt[p] /\ gens'[p] = gens[p]
    BY <1>4 DEF Bury, RelayInv, TypeOK, ClosingTypes, RelayTypes
  <2>2. KeepsFresh(p) /\ KeepsEvents(p) /\ KeepsCommands(p)
    BY <1>1, <1>3, <1>4, <2>1, FreshKept, SameEvents, OtherCommand DEF RelayInv
  <2> QED
    BY <1>2, <2>1, <2>2, PaneKept
<1>5. CASE q = p
  <2>1. (\A i \in DOMAIN toD : ~SpawnAt(p, i)) /\ (\A i \in DOMAIN toA : ~AnswerAt(p, i))
    BY <1>1, <1>5 DEF Unanswered, SpawnAt, AnswerAt
  <2>2. gens'[p] = Killed
    BY <1>5 DEF Bury, RelayInv, TypeOK, RelayTypes
  <2>3. \A i \in DOMAIN toA' : ~AnswerAt(p, i)'
    BY <2>1 DEF AnswerAt
  <2>4. (\A i \in DOMAIN toD' : ~SpawnAt(p, i)') /\ (link' = "up" /\ greeted' => \E i \in DOMAIN toD' : KillAt(p, i)')
    <3>1. CASE ~(link = "up" /\ greeted)
      <4>1. toD' = toD
        BY <1>1, <1>3, <3>1, Sends DEF RelayInv, TypeOK
      <4> QED
        BY <2>1, <3>1, <4>1 DEF SpawnAt
    <3>2. CASE link = "up" /\ greeted
      <4>1. PICK m \in Command, n \in Nat : m.t = "kill" /\ m.pane = p /\ Adds(toD', toD, m, n)
        BY <1>1, <1>3, <1>5, <3>2, Sends DEF RelayInv, TypeOK
      <4> QED
        BY <2>1, <4>1 DEF SpawnAt, KillAt, Adds
    <3> QED
      BY <3>1, <3>2
  <2>5. SpawnsAreLater(p)' /\ AnswersAreFresh(p)' /\ KillsStale(p)' /\ KillsAreFinal(p)'
    BY <2>2, <2>3, <2>4 DEF SpawnsAreLater, AnswersAreFresh, KillsStale, KillsAreFinal, SpawnAt, AnswerAt
  <2>6. <<p, gens'[p]>> \notin dying'
    BY <2>2, Gens DEF TypeOK, DaemonTypes
  <2> QED
    BY <2>2, <2>5, <2>6 DEF PaneInv, GateIsFresh
<1> QED
  BY <1>4, <1>5

LEMMA UserGated ==
  ASSUME RelayInv, TypeOK', NEW q \in Pane, Close(q) \/ Input(q), NEW p \in Pane \ early'
  PROVE  PaneInv(p)'
<1>1. CASE Close(q)
  BY <1>1, BuryGated DEF Close, daemon, lapses
<1>2. CASE Input(q)
  <2>1. /\ UNCHANGED <<gens, greeted, link, toA, live, dying, subs, serves, closedAt, early, adopted>>
        /\ Send(InputCmd(q, token[q], gens[q]))
    BY <1>2 DEF Input, StampGen, relay, daemon, closings, lapses
  <2>2. gens[q] \in Gen0 /\ token[q] \in Nat
    BY <1>2 DEF Input, StampGen, RelayInv, TypeOK, RelayTypes, RendererTypes
  <2>3. InputCmd(q, token[q], gens[q]) \in Command /\ InputCmd(q, token[q], gens[q]).t = "input"
    BY <2>2, Commands
  <2>4. KeepsFresh(p) /\ KeepsEvents(p) /\ KeepsCommands(p)
    BY <2>1, <2>3, FreshKept, SameEvents, OtherCommand DEF RelayInv
  <2> QED
    BY <2>1, <2>4, PaneKept DEF RelayInv, PanesAreGated
<1> QED
  BY <1>1, <1>2

LEMMA FailGated ==
  ASSUME RelayInv, TypeOK', NEW w \in waiters, SpawnFails(w), NEW p \in Pane \ early'
  PROVE  PaneInv(p)'
<1>1. w.pane \in Pane
  BY DEF RelayInv, TypeOK, RelayTypes, Waiter
<1>2. CASE specs[w.pane] = w.token
  BY <1>1, <1>2, BuryGated DEF SpawnFails, daemon, lapses
<1>3. CASE specs[w.pane] # w.token
  <2>1. UNCHANGED <<gens, greeted, link, toD, toA, live, dying, subs, serves, closedAt, early, adopted>>
    BY <1>3 DEF SpawnFails, daemon, closings, lapses
  <2>2. KeepsFresh(p) /\ KeepsEvents(p) /\ KeepsCommands(p)
    BY <2>1, FreshKept, SameEvents, SameCommands DEF RelayInv
  <2> QED
    BY <2>1, <2>2, PaneKept DEF RelayInv, PanesAreGated
<1> QED
  BY <1>2, <1>3
LEMMA AppReadGated ==
  ASSUME RelayInv, TypeOK', ReadSpawned \/ ReadError \/ ReadData \/ ReadExit, NEW p \in Pane \ early'
  PROVE  PaneInv(p)'
<1>1. /\ UNCHANGED <<greeted, link, toD, live, dying, subs, serves, closedAt, early, adopted>>
      /\ CanRead /\ toA' = Tail(toA) /\ Next1.t \in {"spawned", "error", "data", "exit"}
  BY DEF ReadSpawned, ReadError, ReadData, ReadExit, relay, daemon, closings, lapses
<1>2. PaneInv(p)
  BY <1>1 DEF RelayInv, PanesAreGated
<1>3. Next1 = toA[1] /\ toA[1] \in Event /\ Rests(toA', toA)
  BY <1>1, Reads DEF RelayInv, TypeOK
<1>4. KeepsFresh(p) /\ KeepsEvents(p) /\ KeepsCommands(p)
  BY <1>1, <1>3, FreshKept, FewerEvents, SameCommands DEF RelayInv
<1>5. CASE gens'[p] = gens[p]
  BY <1>2, <1>4, <1>5, PaneKept
<1>6. CASE gens'[p] # gens[p]
  <2>1. AnswerAt(p, 1) /\ gens'[p] = toA[1].gen
    BY <1>1, <1>3, <1>6 DEF ReadSpawned, ReadError, ReadData, ReadExit, relay, AnswerAt, RelayInv, TypeOK, RelayTypes, Rests
  <2>2. /\ (link = "dead" \/ Fresh(p)) /\ <<p, toA[1].gen>> \notin dying
        /\ \A j \in DOMAIN toA : j > 1 /\ TraceAt(p, toA[1].gen, j) => toA[j].token > closedAt[p]
    BY <1>2, <2>1 DEF PaneInv, AnswersAreFresh, AnswerAt
  <2>3. ASSUME NEW i \in DOMAIN toA', TraceAt(p, gens[p], i)' PROVE toA'[i].token > closedAt'[p]
    <3>1. i \in Nat /\ i + 1 > 1 /\ toA'[i] = toA[i + 1] /\ TraceAt(p, toA[1].gen, i + 1)
      BY <1>3, <2>1, <2>3 DEF Rests, TraceAt
    <3> QED
      BY <1>1, <2>2, <3>1 DEF TraceAt
  <2>4. GateIsFresh(p)'
    BY <1>1, <1>4, <2>1, <2>2, <2>3 DEF GateIsFresh, KeepsFresh
  <2>5. \A j \in DOMAIN toD : ~KillAt(p, j)
    BY <1>2, <2>1 DEF PaneInv, KillsAreFinal, AnswerAt
  <2>6. KillsAreFinal(p)'
    BY <1>1, <2>5 DEF KillsAreFinal, KillAt
  <2> QED
    BY <1>2, <1>4, <2>4, <2>6, CommandsKept, AnswersKept DEF PaneInv
<1> QED
  BY <1>5, <1>6

LEMMA WelcomeGated ==
  ASSUME RelayInv, TypeOK', ReadWelcome, NEW p \in Pane \ early'
  PROVE  PaneInv(p)'
<1>1. /\ UNCHANGED <<link, live, dying, subs, serves, closedAt, early>> /\ adopted \subseteq adopted'
      /\ CanRead /\ toA' = Tail(toA) /\ Next1.t = "welcome" /\ greeted'
  BY DEF ReadWelcome, daemon, closings, lapses
<1>2. PaneInv(p)
  BY <1>1 DEF RelayInv, PanesAreGated
<1>3. Next1 = toA[1] /\ toA[1] \in Event /\ Rests(toA', toA) /\ 1 \in DOMAIN toA
  BY <1>1, Reads DEF RelayInv, TypeOK, Rests
<1>4. /\ link \in {"up", "dead"} /\ ~greeted /\ \A i \in DOMAIN toA : i = 1
      /\ link = "up" => toD = <<>> /\ (live[p] # 0 => toA[1].list[p] = live[p])
      /\ <<p, toA[1].list[p]>> \notin dying
      /\ link = "dead" => toD = <<>>
  BY <1>1, <1>3 DEF RelayInv, Greeting, CanRead
<1>5. \A i \in DOMAIN toA' : FALSE
  BY <1>3, <1>4 DEF Rests
<1> DEFINE list == toA[1].list
<1>6. /\ link = "up" /\ list[p] # 0 /\ gens[p] # Killed /\ OfClosed(p) => p \in adopted'
      /\ gens'[p] = IF list[p] # 0 /\ gens[p] # Killed THEN list[p] ELSE gens[p]
  BY <1>3 DEF ReadWelcome
<1>7. toA[1].list \in [Pane -> Gen0]
  BY <1>1, <1>3, EventKinds
<1>8. KeepsFresh(p)
  BY <1>1, FreshKept DEF RelayInv
<1> HIDE DEF list
<1>9. ~Fresh(p) /\ link = "up" => live[p] # 0 /\ list[p] # 0 /\ (gens[p] = Killed \/ p \in adopted')
  <2>1. ~Fresh(p) => live[p] # 0 /\ OfClosed(p)
    <3>1. live[p] # 0 => serves[live[p]] \in Nat
      BY DEF RelayInv, TypeOK, DaemonTypes, Gen0
    <3> QED
      BY <3>1 DEF Fresh, OfClosed, RelayInv, TypeOK, ClosingTypes
  <2> QED
    BY <1>4, <1>6, <2>1 DEF list
<1>10. GateIsFresh(p)'
  <2>1. <<p, gens'[p]>> \notin dying'
    BY <1>1, <1>2, <1>4, <1>6 DEF PaneInv, GateIsFresh, list
  <2>2. gens'[p] # Killed /\ link' = "up" => Fresh(p)' \/ Adopted(p)'
    <3>1. ASSUME gens'[p] # Killed, link = "up", ~Fresh(p) PROVE Adopted(p)'
      <4>1. p \in adopted' /\ live[p] # 0 /\ subs[p] = 0
        BY <1>4, <1>6, <1>9, <3>1 DEF RelayInv, Greeting, Unbound
      <4> QED
        BY <1>1, <4>1 DEF Adopted
    <3> QED
      BY <1>1, <1>8, <3>1 DEF KeepsFresh
  <2> QED
    BY <1>5, <2>1, <2>2 DEF GateIsFresh
<1>11. AnswersAreFresh(p)'
  BY <1>5 DEF AnswersAreFresh
<1>12. CASE link = "dead"
  <2>1. toD' = <<>>
    BY <1>4, <1>12 DEF ReadWelcome
  <2> QED
    BY <1>1, <1>10, <1>11, <1>12, <2>1
       DEF PaneInv, SpawnsAreLater, KillsStale, KillsAreFinal, SpawnAt, KillAt
<1>13. CASE link = "up"
  <2>1. PICK k \in Nat : Greets(list, k)
    BY <1>3, <1>13, SendsSpecs DEF RelayInv, TypeOK, list
  <2>2. PICK a \in Seq(Command), b \in Seq(Command) :
           /\ Kills(a, {q \in Pane : list[q] # 0 /\ gens[q] = Killed})
           /\ Specs(b, Replayed) /\ Joins(toD', a, b, k)
    BY <1>4, <1>13, <2>1 DEF Greets
  <2>3. ASSUME NEW i \in DOMAIN toD', SpawnAt(p, i)'
        PROVE  i \in Nat /\ i > k /\ toD'[i].token = specs[p] /\ specs[p] # 0
    BY <2>2, <2>3 DEF Joins, Kills, Specs, SpawnAt, Replayed
  <2>4. ASSUME NEW j \in DOMAIN toD', KillAt(p, j)' PROVE j \in Nat /\ j <= k /\ gens[p] = Killed
    BY <2>2, <2>4 DEF Joins, Kills, Specs, KillAt
  <2>5. ~Fresh(p) /\ p \notin adopted' => \E j \in DOMAIN toD' : KillAt(p, j)' /\ j \in Nat /\ j <= k
    <3>1. ~Fresh(p) /\ p \notin adopted' => p \in {q \in Pane : list[q] # 0 /\ gens[q] = Killed}
      BY <1>9, <1>13
    <3> QED
      BY <2>2, <3>1 DEF Kills, Joins, KillAt
  <2>6. specs[p] # 0 => specs[p] > closedAt[p]
    BY DEF RelayInv, SpecsFollowPanes, Tokens
  <2>7. SpawnsAreLater(p)'
    BY <1>1, <2>3, <2>6 DEF SpawnsAreLater
  <2>8. KillsStale(p)'
    <3>1. ASSUME ~Fresh(p), p \notin adopted', NEW i \in DOMAIN toD', SpawnAt(p, i)'
          PROVE  \E j \in DOMAIN toD' : j < i /\ KillAt(p, j)'
      <4>1. PICK j \in DOMAIN toD' : KillAt(p, j)' /\ j \in Nat /\ j <= k
        BY <2>5, <3>1
      <4> QED
        BY <2>3, <3>1, <4>1
    <3> QED
      BY <1>8, <2>5, <3>1 DEF KillsStale, KeepsFresh
  <2>9. KillsAreFinal(p)'
    <3>1. ASSUME NEW i \in DOMAIN toD', NEW j \in DOMAIN toD', KillAt(p, j)', SpawnAt(p, i)' PROVE ~(i < j)
      <4>1. i \in Nat /\ i > k /\ j \in Nat /\ j <= k
        BY <2>3, <2>4, <3>1
      <4> QED
        BY <4>1
    <3> QED
      BY <1>5, <1>6, <2>4, <3>1 DEF KillsAreFinal
  <2> QED
    BY <1>10, <1>11, <2>7, <2>8, <2>9 DEF PaneInv
<1> QED
  BY <1>4, <1>12, <1>13

LEMMA LinkGated ==
  ASSUME RelayInv, TypeOK', Cut \/ SeeCut \/ SeeDeath \/ Connect, NEW p \in Pane \ early'
  PROVE  PaneInv(p)'
<1>1. UNCHANGED <<gens, live, dying, serves, closedAt, early, adopted>> /\ subs'[p] \in {subs[p], 0}
  BY DEF Cut, SeeCut, SeeDeath, Connect, NoSubs, relay, daemon, closings, lapses
<1>2. PaneInv(p) /\ KeepsFresh(p)
  BY <1>1, FreshKept DEF RelayInv, PanesAreGated
<1>3. KeepsCommands(p)
  <2>1. CASE toD' = <<>>
    BY <2>1 DEF KeepsCommands, Cut, SeeCut, SeeDeath, Connect, RelayInv, Greeting, relay
  <2>2. CASE toD' # <<>>
    <3>1. toD' = toD
      BY <2>2 DEF Cut, SeeCut, SeeDeath, Connect
    <3>2. ~(link' = "up" /\ greeted')
      BY <2>2, <3>1 DEF Cut, SeeCut, SeeDeath, Connect, RelayInv, Greeting
    <3> QED
      BY <3>1, <3>2, SameCommands DEF RelayInv
  <2> QED
    BY <2>1, <2>2
<1>4. KeepsEvents(p)
  <2>1. CASE Cut \/ SeeDeath
    BY <2>1, FewerEvents DEF Cut, SeeDeath
  <2>3. CASE SeeCut
    BY <2>3, SameEvents DEF SeeCut, RelayInv
  <2>2. CASE Connect
    <3>1. \A i \in DOMAIN toA' : i \in Nat /\ toA'[i].t = "welcome"
      BY <2>2 DEF Connect
    <3> QED
      BY <2>2, <3>1 DEF KeepsEvents, Connect
  <2> QED
    BY <2>1, <2>2, <2>3
<1> QED
  BY <1>1, <1>2, <1>3, <1>4, PaneKept

LEMMA RestartGated ==
  ASSUME RelayInv, TypeOK', Restart, NEW p \in Pane \ early'
  PROVE  PaneInv(p)'
<1>1. /\ UNCHANGED <<gens, greeted, toA, closedAt, early>> /\ toD' = <<>> /\ dying' = {}
      /\ link' # "up" /\ (link \in {"up", "dead"} => link' = "dead")
  BY DEF Restart, relay, closings, lapses, RelayInv, TypeOK, SocketTypes
<1>2. PaneInv(p)
  BY <1>1 DEF RelayInv, PanesAreGated
<1>3. link \in {"cut", "down"} => toA = <<>>
  BY DEF RelayInv, Greeting
<1>4. link' = "dead" \/ \A i \in DOMAIN toA : FALSE
  BY <1>1, <1>3 DEF RelayInv, TypeOK, SocketTypes
<1>7. SpawnsAreLater(p)' /\ KillsStale(p)' /\ KillsAreFinal(p)'
  BY <1>1 DEF SpawnsAreLater, KillsStale, KillsAreFinal, SpawnAt, KillAt
<1>8. GateIsFresh(p)'
  BY <1>1, <1>2 DEF PaneInv, GateIsFresh, TraceAt
<1>9. AnswersAreFresh(p)'
  BY <1>1, <1>2, <1>4 DEF PaneInv, AnswersAreFresh, AnswerAt, TraceAt
<1> QED
  BY <1>7, <1>8, <1>9 DEF PaneInv

\* A save touches the store only.
LEMMA SaveGated ==
  ASSUME RelayInv, TypeOK', Save, NEW p \in Pane \ early'
  PROVE  PaneInv(p)'
<1>1. UNCHANGED <<gens, greeted, link, toD, toA, live, dying, subs, serves, closedAt, early, adopted>>
  BY DEF Save, relay, socket, closings, lapses
<1>2. KeepsFresh(p) /\ KeepsEvents(p) /\ KeepsCommands(p)
  BY <1>1, FreshKept, SameEvents, SameCommands DEF RelayInv
<1> QED
  BY <1>1, <1>2, PaneKept DEF RelayInv, PanesAreGated

\* The command at the head was the first.
LEMMA HeadFirst ==
  ASSUME RelayInv, ReadCommand
  PROVE  LET c == Head(toD)
         IN /\ c = toD[1] /\ 1 \in DOMAIN toD /\ c \in Command /\ c.pane \in Pane /\ Handles(c)
            /\ c.t = "spawn" => c.token \in Nat
            /\ \A j \in DOMAIN toD : ~(j < 1)
            /\ Rests(toD', toD)
<1>1. /\ 1 \in DOMAIN toD /\ Head(toD) = toD[1] /\ toD[1] \in Command /\ Rests(toD', toD)
  BY Takes DEF RelayInv, TypeOK
<1>2. \A j \in DOMAIN toD : ~(j < 1)
  BY LenProperties DEF RelayInv, TypeOK, SocketTypes
<1>3. Handles(Head(toD))
  BY DEF ReadCommand, Handles
<1> QED
  BY <1>1, <1>2, <1>3, CommandKinds

LEMMA SpawnGated ==
  ASSUME RelayInv, TypeOK', ReadCommand, NEW c, c = Head(toD), c.t = "spawn", DoSpawn(c.pane, c.token),
         NEW p \in Pane \ early'
  PROVE  PaneInv(p)'
<1>1. UNCHANGED <<gens, greeted, link, dying, closedAt, early, adopted>>
  BY DEF ReadCommand, DoSpawn, relay, closings, lapses
<1>2. PaneInv(p)
  BY <1>1 DEF RelayInv, PanesAreGated
<1>3. /\ c = toD[1] /\ 1 \in DOMAIN toD /\ c.pane \in Pane /\ c.token \in Nat
      /\ (\A j \in DOMAIN toD : ~(j < 1)) /\ Rests(toD', toD)
  BY HeadFirst
<1>4. PICK g \in Gen : /\ g = (IF live[c.pane] # 0 THEN live[c.pane] ELSE nextGen)
                       /\ live' = [live EXCEPT ![c.pane] = g] /\ serves' = [serves EXCEPT ![g] = c.token]
                       /\ subs' = [subs EXCEPT ![c.pane] = g]
                       /\ Emit("spawned", c.pane, g, c.token)
  BY DEF DoSpawn, Subscribe
<1>5. PICK m \in Event : /\ m.t = "spawned" /\ m.pane = c.pane /\ m.gen = g /\ m.token = c.token
                         /\ link = "up" => \E k \in Nat : Adds(toA', toA, m, k)
                         /\ link # "up" => toA' = toA
  BY <1>3, <1>4, Emits DEF RelayInv, TypeOK
<1>6. CASE c.pane # p
  <2>1. KeepsCommands(p)
    BY <1>6, OtherTaken DEF RelayInv
  <2>2. KeepsEvents(p)
    BY <1>1, <1>5, <1>6, SameEvents, OtherEvent DEF RelayInv
  <2>3. live[p] # 0 => live[p] # g
    BY <1>3, <1>4, <1>6 DEF RelayInv, Distinct, TypeOK, DaemonTypes
  <2>4. live'[p] = live[p] /\ (live[p] # 0 => serves'[live[p]] = serves[live[p]]) /\ subs'[p] = subs[p]
    <3>1. live'[p] = live[p] /\ subs'[p] = subs[p]
      BY <1>3, <1>4, <1>6 DEF RelayInv, TypeOK, DaemonTypes
    <3>2. live[p] # 0 => live[p] \in Gen
      BY DEF RelayInv, TypeOK, DaemonTypes, Gen0
    <3> QED
      BY <1>4, <2>3, <3>1, <3>2 DEF RelayInv, TypeOK, DaemonTypes
  <2>5. KeepsFresh(p)
    BY <1>1, <2>4, FreshKept DEF RelayInv
  <2> QED
    BY <1>1, <1>2, <2>1, <2>2, <2>5, PaneKept
<1>7. CASE c.pane = p
  <2>1. SpawnAt(p, 1) /\ c.token > closedAt[p]
    BY <1>2, <1>3, <1>7 DEF PaneInv, SpawnsAreLater, SpawnAt
  <2>2. live'[p] = g /\ g # 0 /\ serves'[g] = c.token
    BY <1>4, <1>7, Gens DEF RelayInv, TypeOK, DaemonTypes
  <2>3. Fresh(p)'
    BY <1>1, <2>1, <2>2 DEF Fresh
  <2>4. /\ \A j \in DOMAIN toD' : j \in Nat /\ j + 1 \in DOMAIN toD /\ toD'[j] = toD[j + 1] /\ 1 < j + 1
    BY <1>3 DEF Rests
  <2>5. \A j \in DOMAIN toD' : ~KillAt(p, j)'
    BY <1>2, <2>1, <2>4 DEF PaneInv, KillsAreFinal, KillAt, SpawnAt
  <2>6. SpawnsAreLater(p)'
    BY <1>1, <1>2, <2>4 DEF PaneInv, SpawnsAreLater, SpawnAt
  <2>7. <<p, g>> \notin dying'
    BY <1>1, <1>4, <1>7, Gens DEF RelayInv, Distinct, TypeOK, DaemonTypes
  <2>8. ASSUME NEW i \in DOMAIN toA', toA'[i].t # "spawned" PROVE i \in DOMAIN toA /\ toA'[i] = toA[i]
    BY <1>5, <2>8 DEF Adds
  <2>9. AnswersAreFresh(p)'
    <3>1. ASSUME NEW i \in DOMAIN toA', AnswerAt(p, i)'
          PROVE  /\ toA'[i].token > closedAt'[p] /\ <<p, toA'[i].gen>> \notin dying'
                 /\ \A j \in DOMAIN toA' : j > i /\ TraceAt(p, toA[i].gen, j)' => toA'[j].token > closedAt'[p]
      <4>1. CASE i \in DOMAIN toA /\ toA'[i] = toA[i]
        <5>1. AnswerAt(p, i)
          BY <3>1, <4>1 DEF AnswerAt
        <5> QED
          BY <1>1, <1>2, <2>8, <4>1, <5>1 DEF PaneInv, AnswersAreFresh, TraceAt
      <4>2. CASE ~(i \in DOMAIN toA /\ toA'[i] = toA[i])
        <5>1. PICK k \in Nat : Adds(toA', toA, m, k)
          BY <1>5, <4>2
        <5>2. i = k /\ toA'[i] = m /\ \A j \in DOMAIN toA' : ~(j > i)
          BY <3>1, <4>2, <5>1 DEF Adds
        <5> QED
          BY <1>1, <1>5, <2>1, <2>7, <5>2
      <4> QED
        BY <4>1, <4>2
    <3> QED
      BY <2>3, <3>1 DEF AnswersAreFresh
  <2>10. GateIsFresh(p)'
    <3>1. ASSUME gens'[p] # Killed, NEW i \in DOMAIN toA', TraceAt(p, gens[p], i)' PROVE toA'[i].token > closedAt'[p]
      <4>1. i \in DOMAIN toA /\ toA'[i] = toA[i] /\ TraceAt(p, gens[p], i)
        BY <1>1, <2>8, <3>1 DEF TraceAt
      <4> QED
        BY <1>1, <1>2, <3>1, <4>1 DEF PaneInv, GateIsFresh
    <3> QED
      BY <1>1, <1>2, <2>3, <3>1 DEF PaneInv, GateIsFresh
  <2> QED
    BY <2>3, <2>5, <2>6, <2>9, <2>10 DEF PaneInv, KillsStale, KillsAreFinal
<1> QED
  BY <1>6, <1>7

LEMMA RefuseGated ==
  ASSUME RelayInv, TypeOK', ReadCommand, NEW c, c = Head(toD), c.t = "spawn", Refuse(c.pane, c.token),
         NEW p \in Pane \ early'
  PROVE  PaneInv(p)'
<1>1. UNCHANGED <<gens, greeted, link, live, dying, subs, serves, closedAt, early, adopted>>
  BY DEF ReadCommand, Refuse, relay, closings, lapses
<1>2. PaneInv(p)
  BY <1>1 DEF RelayInv, PanesAreGated
<1>3. /\ c = toD[1] /\ 1 \in DOMAIN toD /\ c.pane \in Pane /\ c.token \in Nat
      /\ (\A j \in DOMAIN toD : ~(j < 1)) /\ Rests(toD', toD)
  BY HeadFirst
<1>4. nextGen \in Gen /\ Emit("error", c.pane, nextGen, c.token)
  BY DEF Refuse
<1>5. PICK m \in Event : /\ m.t = "error" /\ (link = "up" => \E k \in Nat : Adds(toA', toA, m, k))
                         /\ link # "up" => toA' = toA
  BY <1>3, <1>4, Emits DEF RelayInv, TypeOK
<1>6. KeepsFresh(p)
  BY <1>1, FreshKept DEF RelayInv
<1>7. KeepsEvents(p)
  BY <1>1, <1>5, SameEvents, OtherEvent DEF RelayInv
<1>8. CASE c.pane # p
  BY <1>1, <1>2, <1>6, <1>7, <1>8, OtherTaken, PaneKept DEF RelayInv
<1>9. CASE c.pane = p
  <2>1. SpawnAt(p, 1) /\ live[p] = 0
    BY <1>3, <1>9 DEF SpawnAt, Refuse
  <2>2. Fresh(p) /\ Fresh(p)'
    BY <1>1, <2>1 DEF Fresh
  <2>3. \A j \in DOMAIN toD' : j \in Nat /\ j + 1 \in DOMAIN toD /\ toD'[j] = toD[j + 1] /\ 1 < j + 1
    BY <1>3 DEF Rests
  <2>4. \A j \in DOMAIN toD' : ~KillAt(p, j)'
    BY <1>2, <2>1, <2>3 DEF PaneInv, KillsAreFinal, KillAt, SpawnAt
  <2>5. SpawnsAreLater(p)'
    BY <1>1, <1>2, <2>3 DEF PaneInv, SpawnsAreLater, SpawnAt
  <2>6. KillsStale(p)' /\ KillsAreFinal(p)'
    BY <2>2, <2>4 DEF KillsStale, KillsAreFinal
  <2>7. AnswersAreFresh(p)'
    BY <1>2, <1>6, <1>7, AnswersKept DEF PaneInv
  <2>8. GateIsFresh(p)'
    <3>1. \A i \in DOMAIN toA' : TraceAt(p, gens[p], i)' => i \in DOMAIN toA /\ toA'[i] = toA[i] /\ TraceAt(p, gens[p], i)
      BY <1>1, <1>5 DEF Adds, TraceAt
    <3> QED
      BY <1>1, <1>2, <2>2, <3>1 DEF PaneInv, GateIsFresh
  <2> QED
    BY <2>5, <2>6, <2>7, <2>8 DEF PaneInv
<1> QED
  BY <1>8, <1>9

LEMMA KillGated ==
  ASSUME RelayInv, TypeOK', ReadCommand, NEW c, c = Head(toD), c.t = "kill", DoKill(c.pane), NEW p \in Pane \ early'
  PROVE  PaneInv(p)'
<1>1. UNCHANGED <<gens, greeted, link, toA, subs, serves, closedAt, early, adopted>>
  BY DEF ReadCommand, DoKill, relay, closings, lapses
<1>2. PaneInv(p)
  BY <1>1 DEF RelayInv, PanesAreGated
<1>3. c = toD[1] /\ 1 \in DOMAIN toD /\ c.pane \in Pane /\ Rests(toD', toD)
  BY HeadFirst
<1>4. live'[p] = IF p = c.pane THEN 0 ELSE live[p]
  BY <1>3 DEF DoKill, RelayInv, TypeOK, DaemonTypes
<1>5. CASE c.pane # p
  <2>1. KeepsCommands(p) /\ KeepsEvents(p)
    BY <1>1, <1>5, OtherTaken, SameEvents DEF RelayInv
  <2>2. \A h \in Gen : <<p, h>> \in dying' => <<p, h>> \in dying
    BY <1>5 DEF DoKill
  <2>3. KeepsFresh(p)
    BY <1>1, <1>4, <1>5, <2>2, FreshKept DEF RelayInv
  <2> QED
    BY <1>1, <1>2, <2>1, <2>3, PaneKept
<1>6. CASE c.pane = p
  <2>1. gens[p] = Killed /\ \A i \in DOMAIN toA : ~AnswerAt(p, i)
    BY <1>2, <1>3, <1>6 DEF PaneInv, KillsAreFinal, KillAt
  <2>2. \A i \in DOMAIN toA' : ~AnswerAt(p, i)'
    BY <1>1, <2>1 DEF AnswerAt
  <2>3. Fresh(p)'
    BY <1>4, <1>6 DEF Fresh
  <2>4. <<p, gens'[p]>> \notin dying'
    BY <1>1, <2>1, Gens DEF TypeOK, DaemonTypes
  <2>5. \A j \in DOMAIN toD' : j \in Nat /\ j + 1 \in DOMAIN toD /\ toD'[j] = toD[j + 1]
    BY <1>3 DEF Rests
  <2>6. SpawnsAreLater(p)'
    BY <1>1, <1>2, <2>5 DEF PaneInv, SpawnsAreLater, SpawnAt
  <2>7. ASSUME NEW i \in DOMAIN toD', NEW j \in DOMAIN toD', KillAt(p, j)', SpawnAt(p, i)', i < j PROVE FALSE
    <3>1. KillAt(p, j + 1) /\ SpawnAt(p, i + 1) /\ i + 1 < j + 1
      BY <2>5, <2>7 DEF KillAt, SpawnAt
    <3> QED
      BY <1>2, <3>1 DEF PaneInv, KillsAreFinal, KillAt, SpawnAt
  <2>8. KillsAreFinal(p)'
    BY <1>1, <2>1, <2>2, <2>7 DEF KillsAreFinal
  <2> QED
    BY <1>1, <2>1, <2>2, <2>3, <2>4, <2>6, <2>8 DEF PaneInv, AnswersAreFresh, GateIsFresh, KillsStale
<1> QED
  BY <1>5, <1>6

LEMMA CommandGated ==
  ASSUME RelayInv, TypeOK', ReadCommand, NEW p \in Pane \ early'
  PROVE  PaneInv(p)'
<1> DEFINE c == Head(toD)
<1>1. Handles(c)
  BY HeadFirst
<1>2. CASE c.t = "input" /\ UNCHANGED <<nextGen, live, dying, subs, rows, serves, toA>>
  <2>1. UNCHANGED <<gens, link, closedAt, early, adopted>>
    BY DEF ReadCommand, relay, closings, lapses
  <2>2. KeepsCommands(p) /\ KeepsEvents(p) /\ KeepsFresh(p)
    BY <1>2, <2>1, OtherTaken, SameEvents, FreshKept DEF RelayInv
  <2> QED
    BY <2>1, <2>2, PaneKept DEF RelayInv, PanesAreGated
<1> QED
  BY <1>1, <1>2, SpawnGated, RefuseGated, KillGated DEF Handles

\* A session that lives, of a pane whose gate or answer names it, is the pane's own.
LEMMA PrintsFresh ==
  ASSUME RelayInv, NEW p \in Pane, NEW g \in Gen, Fresh(p), Alive(p, g), <<p, g>> \notin dying
  PROVE  serves[g] > closedAt[p]
BY Gens DEF Alive, Fresh

LEMMA PtyGated ==
  ASSUME RelayInv, TypeOK', NEW q \in Pane, NEW g \in Gen, PtyData(q, g) \/ PtyExit(q, g), NEW p \in Pane \ early'
  PROVE  PaneInv(p)'
<1>1. UNCHANGED <<gens, greeted, link, toD, closedAt, early, adopted>> /\ dying' \subseteq dying /\ Alive(q, g)
  BY DEF PtyData, PtyExit, relay, daemon, closings, lapses
<1>2. PaneInv(p)
  BY <1>1 DEF RelayInv, PanesAreGated
<1>3. live'[p] = 0 \/ (live'[p] = live[p] /\ serves'[live[p]] = serves[live[p]])
  <2>1. CASE PtyData(q, g)
    BY <2>1 DEF PtyData, daemon, lapses
  <2>2. CASE PtyExit(q, g)
    <3>1. live' = [live EXCEPT ![q] = IF @ = g THEN 0 ELSE @] /\ serves' = [serves EXCEPT ![g] = 0]
      BY <2>2 DEF PtyExit
    <3>2. CASE live[p] = g
      <4>1. p = q
        BY <1>1, <3>2, Gens DEF Alive, RelayInv, Distinct
      <4> QED
        BY <3>1, <3>2, <4>1 DEF RelayInv, TypeOK, DaemonTypes
    <3>3. CASE live[p] # g
      <4>1. live'[p] = live[p]
        BY <3>1, <3>3 DEF RelayInv, TypeOK, DaemonTypes
      <4>2. live[p] # 0 => live[p] \in Gen
        BY DEF RelayInv, TypeOK, DaemonTypes, Gen0
      <4> QED
        BY <3>1, <3>3, <4>1, <4>2 DEF RelayInv, TypeOK, DaemonTypes
    <3> QED
      BY <3>2, <3>3
  <2> QED
    BY <2>1, <2>2
<1>7. subs'[p] \in {subs[p], 0}
  BY DEF PtyData, PtyExit, daemon, RelayInv, TypeOK, DaemonTypes
<1>4. KeepsFresh(p) /\ KeepsCommands(p)
  BY <1>1, <1>3, <1>7, FreshKept, SameCommands DEF RelayInv
<1>5. CASE subs[q] # g \/ link # "up"
  <2>1. toA' = toA
    BY <1>5 DEF PtyData, PtyExit, Emit
  <2> QED
    BY <1>1, <1>2, <1>4, <2>1, SameEvents, PaneKept DEF RelayInv
<1>6. CASE subs[q] = g /\ link = "up"
  <2>1. serves[g] \in Nat
    BY DEF RelayInv, TypeOK, DaemonTypes
  <2>2. PICK t \in {"data", "exit"} : Emit(t, q, g, serves[g])
    BY <1>6 DEF PtyData, PtyExit
  <2>3. PICK m \in Event, k \in Nat :
           m.t = t /\ m.pane = q /\ m.gen = g /\ m.token = serves[g] /\ Adds(toA', toA, m, k)
    BY <1>6, <2>1, <2>2, Emits DEF RelayInv, TypeOK
  <2>4. CASE q # p
    BY <1>1, <1>2, <1>4, <2>3, <2>4, OtherEvent, PaneKept
  <2>5. CASE q = p
    <3>1. \A i \in DOMAIN toA' : (i \in DOMAIN toA /\ toA'[i] = toA[i]) \/ (i = k /\ toA'[i] = m)
      BY <2>3 DEF Adds
    <3>2. AnswersAreFresh(p)'
      <4>1. ASSUME NEW i \in DOMAIN toA', AnswerAt(p, i)'
            PROVE  i \in DOMAIN toA /\ toA'[i] = toA[i] /\ AnswerAt(p, i)
        BY <2>3, <3>1, <4>1 DEF AnswerAt
      <4>2. ASSUME NEW i \in DOMAIN toA', AnswerAt(p, i)', NEW j \in DOMAIN toA', j > i, TraceAt(p, toA[i].gen, j)'
            PROVE  toA'[j].token > closedAt[p]
        <5>1. CASE j \in DOMAIN toA /\ toA'[j] = toA[j]
          BY <1>2, <4>1, <4>2, <5>1 DEF PaneInv, AnswersAreFresh, TraceAt
        <5>2. CASE j = k /\ toA'[j] = m
          <6>1. toA[i].gen = g
            BY <2>3, <4>1, <4>2, <5>2 DEF TraceAt
          <6>2. Fresh(p) /\ <<p, g>> \notin dying
            BY <1>2, <1>6, <4>1, <4>2, <6>1 DEF PaneInv, AnswersAreFresh
          <6> QED
            BY <1>1, <2>3, <2>5, <5>2, <6>2, PrintsFresh
        <5> QED
          BY <3>1, <5>1, <5>2
      <4>3. ASSUME NEW i \in DOMAIN toA', AnswerAt(p, i)'
            PROVE  toA'[i].token > closedAt'[p] /\ Fresh(p)' /\ <<p, toA'[i].gen>> \notin dying'
        BY <1>1, <1>2, <1>4, <1>6, <4>1, <4>3 DEF PaneInv, AnswersAreFresh, KeepsFresh
      <4> QED
        BY <1>1, <4>2, <4>3 DEF AnswersAreFresh
    <3>3. GateIsFresh(p)'
      <4>1. ASSUME gens'[p] # Killed, NEW i \in DOMAIN toA', TraceAt(p, gens[p], i)' PROVE toA'[i].token > closedAt'[p]
        <5>1. CASE i \in DOMAIN toA /\ toA'[i] = toA[i]
          BY <1>1, <1>2, <4>1, <5>1 DEF PaneInv, GateIsFresh, TraceAt
        <5>2. CASE i = k /\ toA'[i] = m
          <6>1. gens[p] = g
            BY <1>1, <2>3, <4>1, <5>2 DEF TraceAt
          <6>2. greeted /\ <<p, g>> \notin dying
            BY <1>2, <1>6, <2>5, <4>1, <6>1, Gens DEF PaneInv, GateIsFresh, RelayInv, Greeting, Unbound
          <6>3. Fresh(p)
            <7>1. live[p] = g
              BY <1>1, <2>5, <6>2 DEF Alive
            <7>2. ~Adopted(p)
              BY <1>6, <2>5, <7>1 DEF Adopted
            <7> QED
              BY <1>1, <1>2, <1>6, <4>1, <6>2, <7>2 DEF PaneInv, GateIsFresh
          <6> QED
            BY <1>1, <2>3, <2>5, <5>2, <6>2, <6>3, PrintsFresh
        <5> QED
          BY <3>1, <5>1, <5>2
      <4> QED
        BY <1>1, <1>2, <1>4, <4>1 DEF PaneInv, GateIsFresh, KeepsFresh
    <3>4. KillsAreFinal(p)'
      <4>1. \A i \in DOMAIN toA' : AnswerAt(p, i)' => AnswerAt(p, i)
        BY <2>3, <3>1 DEF AnswerAt
      <4> QED
        BY <1>1, <1>2, <4>1 DEF PaneInv, KillsAreFinal, KillAt, SpawnAt, AnswerAt
    <3> QED
      BY <1>2, <1>4, <3>2, <3>3, <3>4, CommandsKept DEF PaneInv
  <2> QED
    BY <2>4, <2>5
<1> QED
  BY <1>5, <1>6

LEMMA PanesKept ==
  ASSUME RelayInv, TypeOK', [Next]_vars
  PROVE  PanesAreGated'
<1>1. ASSUME UNCHANGED vars, NEW p \in Pane \ early' PROVE PaneInv(p)'
  <2>1. UNCHANGED <<gens, greeted, link, toD, toA, live, dying, subs, serves, closedAt, early, adopted>>
    BY <1>1 DEF vars, relay, socket, daemon, closings, lapses
  <2>2. KeepsFresh(p) /\ KeepsEvents(p) /\ KeepsCommands(p)
    BY <2>1, FreshKept, SameEvents, SameCommands DEF RelayInv
  <2> QED
    BY <2>1, <2>2, PaneKept DEF RelayInv, PanesAreGated
<1> QED
  BY <1>1, OpenGated, UserGated, FailGated, AppReadGated, WelcomeGated, LinkGated, CommandGated, SaveGated, RestartGated,
     PtyGated DEF Next, PanesAreGated

LEMMA InitGated == Init => RelayInv
<1> SUFFICES ASSUME Init PROVE RelayInv
  OBVIOUS
<1>1. TypeOK
  BY InitTypes
<1>2. DOMAIN toD = {} /\ DOMAIN toA = {}
  BY DEF Init
<1>3. PanesAreGated
  BY <1>2, KilledAssumption
     DEF Init, PanesAreGated, PaneInv, SpawnsAreLater, AnswersAreFresh, GateIsFresh, KillsStale, KillsAreFinal,
         Fresh
<1>4. Greeting
  BY <1>2 DEF Init, Greeting
<1> QED
  BY <1>1, <1>3, <1>4 DEF Init, RelayInv, SpecsFollowPanes, Tokens, Distinct

LEMMA RelayInvKept == RelayInv /\ [Next]_vars => RelayInv'
BY NextTypes, BooksKept, DistinctKept, GreetingKept, PanesKept DEF RelayInv, Books

\* In every state of every execution the relay's, the socket's and the daemon's
\* books are of their types, whatever order the spawns, kills, cuts and deaths come in.
THEOREM RelayTyped == Spec => []TypeOK
<1>1. Init => TypeOK
  BY InitTypes
<1>2. TypeOK /\ [Next]_vars => TypeOK'
  BY NextTypes
<1> QED
  BY <1>1, <1>2, PTL DEF Spec

\* The inductive invariant, for the ids whose panes were closed after their spawns were
\* answered: while a greeted client is connected, what the id names, the answers under way
\* and the events the gate would let through are of a pane younger than the last close,
\* unless the kill of the older session is under way ahead of every spawn or a welcome took
\* that session over (onGen, onWelcome and the kill handler).
THEOREM RelayInvariant == Spec => []RelayInv
BY InitGated, RelayInvKept, PTL DEF Spec

\* An open pane keeps the spec a reconnect replays, and a pane that was closed, died or
\* failed leaves none, however late a superseded spawn's rejection or an old exit arrives
\* (the spawn handler's catch and onExit).
THEOREM SpecsFollow == Spec => []SpecsFollowPanes
BY RelayInvariant, PTL DEF RelayInv

\* No output or exit of a closed pane's session passes the relay's generation gate to
\* the pane that reuses its id, unless the pane was closed before its spawn was answered.
THEOREM GateHolds == Spec => []GateIsTight
<1>1. RelayInv => GateIsTight
  <2> SUFFICES ASSUME RelayInv, StrangerAtGate, Next1.pane \notin early PROVE FALSE
    BY DEF GateIsTight
  <2>1. Next1 = toA[1] /\ toA[1] \in Event /\ 1 \in DOMAIN toA /\ toA[1].t \in {"data", "exit"}
    BY Reads DEF StrangerAtGate, RelayInv, TypeOK, Rests
  <2>2. toA[1].pane \in Pane /\ toA[1].gen \in Gen /\ toA[1].token \in Nat
    BY <2>1, EventKinds
  <2> DEFINE p == toA[1].pane
  <2>3. PaneInv(p)
    BY <2>1, <2>2 DEF RelayInv, PanesAreGated
  <2>4. gens[p] = toA[1].gen /\ toA[1].token <= closedAt[p]
    BY <2>1 DEF StrangerAtGate, Current
  <2>5. toA[1].token > closedAt[p]
    BY <2>1, <2>2, <2>3, <2>4, Gens DEF PaneInv, GateIsFresh, TraceAt
  <2>6. closedAt[p] \in Nat
    BY <2>2 DEF RelayInv, TypeOK, ClosingTypes
  <2> QED
    BY <2>2, <2>4, <2>5, <2>6
<1> QED
  BY <1>1, RelayInvariant, PTL

\* Nor does the daemon's ensure hand a reused id the session of the pane that was closed
\* before it: a kill the socket dropped is repeated ahead of any spawn, and so is that of a
\* session restored from a row the close had not reached, as long as the tombstone of the
\* close is there; once a later spawn was answered, the welcome takes it over (onWelcome).
THEOREM FreshSessions == Spec => FreshPaneGetsFreshSession
<1> DEFINE Reused(p) ==
             live[p] # 0 /\ live'[p] = live[p] /\ serves'[live[p]] # serves[live[p]] /\ boot' = boot
             => \/ serves[live[p]] > closedAt[p] \/ serves'[live[p]] <= closedAt[p]
                \/ p \in early \cup adopted
<1>1. RelayInv /\ [Next]_vars => [\A p \in Pane : Reused(p)]_vars
  <2> SUFFICES ASSUME RelayInv, Next, NEW p \in Pane, live[p] # 0, live'[p] = live[p],
                      serves'[live[p]] # serves[live[p]], boot' = boot, p \notin early \cup adopted
               PROVE  serves[live[p]] > closedAt[p] \/ serves'[live[p]] <= closedAt[p]
    OBVIOUS
  <2> DEFINE g == live[p]
  <2>1. g \in Gen /\ boot \in Nat /\ closedAt[p] \in Nat
    BY DEF RelayInv, TypeOK, DaemonTypes, ClosingTypes, Gen0
  <2> HIDE DEF g
  <2>2. ASSUME ReadCommand PROVE serves[g] > closedAt[p]
    <3> DEFINE c == Head(toD)
    <3>1. /\ c = toD[1] /\ 1 \in DOMAIN toD /\ c.pane \in Pane /\ Handles(c)
          /\ \A j \in DOMAIN toD : ~(j < 1)
      BY <2>2, HeadFirst
    <3> HIDE DEF c
    <3>2. c.t = "spawn" /\ DoSpawn(c.pane, c.token)
      BY <3>1 DEF Handles, Refuse, DoKill
    <3>3. PICK h \in Gen : /\ h = (IF live[c.pane] # 0 THEN live[c.pane] ELSE nextGen)
                           /\ serves' = [serves EXCEPT ![h] = c.token]
      BY <3>2 DEF DoSpawn
    <3>4. h = g
      BY <2>1, <3>3 DEF RelayInv, TypeOK, DaemonTypes, g
    <3>5. c.pane = p
      BY <3>1, <3>3, <3>4 DEF RelayInv, Distinct, TypeOK, DaemonTypes, g
    <3>6. SpawnAt(p, 1) /\ PaneInv(p)
      BY <3>1, <3>2, <3>5 DEF SpawnAt, RelayInv, PanesAreGated
    <3>7. Fresh(p)
      BY <3>1, <3>6 DEF PaneInv, KillsStale, SpawnAt
    <3> QED
      BY <3>7 DEF Fresh, g
  <2>3. ASSUME NEW q \in Pane, NEW h \in Gen, PtyData(q, h) \/ PtyExit(q, h) PROVE serves'[g] <= closedAt[p]
    <3>1. serves' = [serves EXCEPT ![h] = 0]
      BY <2>3 DEF PtyData, PtyExit, daemon, g
    <3>2. h = g /\ serves'[g] = 0
      BY <2>1, <3>1 DEF RelayInv, TypeOK, DaemonTypes, g
    <3> QED
      BY <2>1, <3>2
  <2>4. ~Restart
    BY <2>1 DEF Restart
  <2>5. ASSUME NEW q \in Pane, Open(q) \/ Close(q) \/ Input(q) PROVE FALSE
    BY <2>5 DEF Open, Close, Input, daemon, lapses
  <2>6. ASSUME NEW w \in waiters, SpawnFails(w) PROVE FALSE
    BY <2>6 DEF SpawnFails, daemon, lapses
  <2>7. ~(ReadSpawned \/ ReadError \/ ReadData \/ ReadExit \/ ReadWelcome \/ Cut \/ SeeCut \/ SeeDeath \/ Connect \/ Save)
    BY DEF Save, ReadSpawned, ReadError, ReadData, ReadExit, ReadWelcome, Cut, SeeCut, SeeDeath, Connect, daemon, lapses
  <2> QED
    BY <2>2, <2>3, <2>4, <2>5, <2>6, <2>7 DEF Next, g
<1> QED
  BY <1>1, RelayInvariant, PTL DEF Spec, FreshPaneGetsFreshSession

----------------------------------------------------------------------------
(* What a painted pane shows.                                               *)

Message == [t : {"data", "spawned"}, at : Painted]

ScreenTypes ==
    /\ ring \in Painted /\ screen \in Painted \cup {Spliced}
    /\ phase \in {"connected", "lost", "candidate", "replaying"}
    /\ daemonPid \in 1 .. MaxDaemons /\ prevPid \in 1 .. MaxDaemons
    /\ waiter \in {"none", "suppress", "reset"} /\ wire \in Seq(Message) /\ losses \in Nat
    /\ unheard \in BOOLEAN /\ misled \in BOOLEAN /\ late \in BOOLEAN

\* What is on the wire ends with what the session has printed last.
Trails ==
    \A i \in 1 .. Len(wire) :
       /\ wire[i].at.pid = ring.pid /\ wire[i].at.n + Len(wire) = ring.n + i
       /\ wire[i].t = IF phase = "replaying" /\ i = 1 THEN "spawned" ELSE "data"

\* What the relay and the screen have, in each phase of a reconnect.
Tracks ==
    /\ daemonPid <= ring.pid
    /\ phase # "lost" => daemonPid = ring.pid
    /\ phase \in {"lost", "candidate"} => wire = <<>>
    /\ phase = "replaying" => wire # <<>> /\ waiter \in {"none", ReplayMode}

\* Until output went unheard, an attempt misled the relay or a reply came late, the
\* screen has all but what is on the wire of the session it will be taken to show.
Shows ==
    Faithful =>
       /\ phase = "connected" => screen \in Painted /\ screen.pid = ring.pid /\ screen.n + Len(wire) = ring.n
       /\ phase = "lost" /\ daemonPid = ring.pid => screen = ring
       /\ phase = "candidate" /\ prevPid = daemonPid => screen = ring
       /\ phase = "replaying" /\ prevPid = daemonPid => screen = wire[1].at

ScreenInv == ScreenTypes /\ Trails /\ Tracks /\ Shows

LEMMA Paintings ==
  ASSUME NEW a \in Painted
  PROVE  /\ a.pid \in Nat /\ a.n \in Nat /\ a.pid \in 1 .. MaxDaemons /\ a.n \in 0 .. MaxOut
         /\ \A b \in Painted : a.pid = b.pid /\ a.n = b.n => a = b
         /\ \A b \in Painted : a.pid = b.pid /\ a.n + 1 = b.n => a = [b EXCEPT !.n = @ - 1]
         /\ a # Spliced
BY ReplaySizes, SplicedAssumption DEF Painted

LEMMA Sums ==
  ASSUME NEW x \in Nat, NEW n \in Nat, NEW r \in Nat, NEW i \in Nat
  PROVE  /\ x + (n + 1) = r + (i + 1) => x + n = r + i
         /\ x + (n + 1) = r + 1 => x + n = r
         /\ n # 0 /\ ~(2 \in 1 .. n) => n = 1
OBVIOUS

LEMMA Messages ==
  ASSUME NEW m \in Message
  PROVE  m.at \in Painted /\ m.t \in {"data", "spawned"}
BY DEF Message

LEMMA InitShows == ReplayInit => ScreenInv
<1> SUFFICES ASSUME ReplayInit PROVE ScreenInv
  OBVIOUS
<1>1. ring \in Painted /\ ring.pid = 1 /\ ring.n = 0
  BY ReplaySizes DEF ReplayInit, Painted
<1>2. wire \in Seq(Message) /\ Len(wire) = 0
  BY DEF ReplayInit
<1>3. screen = ring /\ 1 \in 1 .. MaxDaemons /\ 0 \in Nat
  BY ReplaySizes DEF ReplayInit
<1>4. daemonPid = 1 /\ prevPid = 1 /\ losses = 0 /\ phase = "connected" /\ ~unheard /\ ~misled /\ ~late
      /\ unheard \in BOOLEAN /\ misled \in BOOLEAN /\ late \in BOOLEAN /\ waiter = "none"
  BY DEF ReplayInit
<1>5. ScreenTypes
  BY <1>1, <1>2, <1>3, <1>4 DEF ScreenTypes
<1> QED
  BY <1>1, <1>2, <1>3, <1>4, <1>5 DEF ScreenInv, Trails, Tracks, Shows

LEMMA PrintShows ==
  ASSUME ScreenInv, PtyPrints
  PROVE  ScreenInv'
<1>1. /\ ring \in Painted /\ ring.n \in Nat /\ ring.n < MaxOut /\ ring.pid \in 1 .. MaxDaemons
      /\ wire \in Seq(Message) /\ Len(wire) \in Nat
  BY Paintings, LenProperties DEF ScreenInv, ScreenTypes, PtyPrints
<1>2. ring' \in Painted /\ ring'.n = ring.n + 1 /\ ring'.pid = ring.pid
  BY <1>1, ReplaySizes DEF Painted, PtyPrints
<1>3. UNCHANGED <<screen, phase, daemonPid, prevPid, waiter, losses, misled, late>>
  BY DEF PtyPrints
<1>4. unheard' \in BOOLEAN
  BY DEF PtyPrints, ScreenInv, ScreenTypes
<1>5. CASE Bound
  <2> DEFINE m == [t |-> "data", at |-> ring']
  <2>1. wire' = Append(wire, m) /\ unheard' = unheard
    BY <1>5 DEF PtyPrints, ScreenInv, ScreenTypes
  <2>2. m \in Message /\ m.t = "data" /\ m.at = ring'
    BY <1>2 DEF Message
  <2> HIDE DEF m
  <2>3. /\ wire' \in Seq(Message) /\ Len(wire') = Len(wire) + 1
        /\ \A i \in 1 .. Len(wire) : wire'[i] = wire[i]
        /\ wire'[Len(wire) + 1] = m
    BY <1>1, <2>1, <2>2, AppendProperties
  <2>4. ScreenTypes'
    BY <1>2, <1>3, <1>4, <2>3 DEF ScreenInv, ScreenTypes
  <2>10. \A i \in 1 .. Len(wire) : i \in Nat /\ wire[i].at.n \in Nat /\ wire[i].at.n + Len(wire) = ring.n + i
    BY <1>1, ElementOfSeq, Messages, Paintings DEF ScreenInv, Trails
  <2>11. \A i \in 1 .. Len(wire) : wire[i].at.n + Len(wire') = ring'.n + i
    <3> TAKE i \in 1 .. Len(wire)
    <3>1. PICK x \in Nat : x = wire[i].at.n
      BY <2>10
    <3>2. PICK n \in Nat : n = Len(wire)
      BY <1>1
    <3>3. PICK r \in Nat : r = ring.n
      BY <1>1
    <3>4. i \in Nat /\ x + n = r + i
      BY <2>10, <3>1, <3>2, <3>3
    <3>5. x + (n + 1) = (r + 1) + i
      BY <3>4
    <3>6. Len(wire') = n + 1 /\ ring'.n = r + 1
      BY <1>2, <2>3, <3>2, <3>3
    <3> QED
      BY <3>1, <3>5, <3>6
  <2>5. ASSUME NEW i \in 1 .. Len(wire')
        PROVE  /\ wire'[i].at.pid = ring'.pid /\ wire'[i].at.n + Len(wire') = ring'.n + i
               /\ wire'[i].t = IF phase' = "replaying" /\ i = 1 THEN "spawned" ELSE "data"
    <3>1. CASE i = Len(wire) + 1
      <4>1. phase = "replaying" => i # 1
        BY <1>1, <3>1, EmptySeq DEF ScreenInv, Tracks
      <4> QED
        BY <1>1, <1>2, <1>3, <2>2, <2>3, <3>1, <4>1
    <3>2. CASE i \in 1 .. Len(wire)
      <4>3. /\ wire[i].at.pid = ring.pid /\ wire[i].at.n + Len(wire) = ring.n + i
            /\ wire[i].t = IF phase = "replaying" /\ i = 1 THEN "spawned" ELSE "data"
        BY <3>2 DEF ScreenInv, Trails
      <4>4. wire'[i] = wire[i] /\ Len(wire') = Len(wire) + 1 /\ i \in Nat
        BY <1>1, <2>3, <3>2
      <4>5. wire'[i].at.n + Len(wire') = ring'.n + i
        BY <1>2, <2>11, <3>2, <4>4
      <4>6. wire'[i].t = IF phase' = "replaying" /\ i = 1 THEN "spawned" ELSE "data"
        BY <1>3, <4>3, <4>4
      <4> QED
        BY <1>2, <4>3, <4>4, <4>5, <4>6
    <3> QED
      BY <1>1, <2>3, <3>1, <3>2
  <2>6. Trails'
    BY <2>5 DEF Trails
  <2>7. wire # <<>> => wire' # <<>> /\ wire'[1] = wire[1]
    BY <1>1, <2>3, EmptySeq
  <2>8. Tracks'
    BY <1>2, <1>3, <1>5, <2>7 DEF ScreenInv, Tracks, Bound, ReplayMode
  <2>9. Shows'
    <3>1. phase = "connected" /\ Faithful =>
             screen \in Painted /\ screen.pid = ring.pid /\ screen.n + Len(wire) = ring.n /\ screen.n \in Nat
      BY Paintings DEF ScreenInv, Shows
    <3>2. phase = "connected" /\ Faithful => screen.n + Len(wire') = ring'.n
      BY <1>1, <1>2, <2>3, <3>1
    <3>3. phase = "replaying" /\ Faithful /\ prevPid = daemonPid => screen = wire'[1].at
      BY <2>7 DEF ScreenInv, Shows, Tracks
    <3> QED
      BY <1>2, <1>3, <1>5, <2>1, <3>1, <3>2, <3>3 DEF Shows, Bound, Faithful
  <2> QED
    BY <2>4, <2>6, <2>8, <2>9 DEF ScreenInv
<1>6. CASE ~Bound
  <2>1. wire' = wire /\ unheard' /\ wire = <<>>
    BY <1>6 DEF PtyPrints, ScreenInv, ScreenTypes, Tracks, Bound
  <2> QED
    BY <1>1, <1>2, <1>3, <1>4, <1>6, <2>1
       DEF ScreenInv, ScreenTypes, Trails, Tracks, Shows, Bound, Faithful
<1> QED
  BY <1>5, <1>6

LEMMA LossShows ==
  ASSUME ScreenInv, Lose
  PROVE  ScreenInv'
<1>1. /\ wire' = <<>> /\ phase' = "lost" /\ UNCHANGED <<ring, screen, daemonPid, prevPid, late>> /\ losses' = losses + 1
      /\ Bound /\ waiter' = "none"
  BY DEF Lose
<1>2. wire' \in Seq(Message) /\ Len(wire') = 0 /\ losses' \in Nat
  BY <1>1 DEF ScreenInv, ScreenTypes
<1>3. unheard' \in BOOLEAN /\ misled' \in BOOLEAN
  BY DEF Lose, AttemptFails, ScreenInv, ScreenTypes
<1>4. ScreenTypes'
  BY <1>1, <1>2, <1>3 DEF ScreenInv, ScreenTypes
<1>5. Trails' /\ Tracks'
  BY <1>1, <1>2 DEF ScreenInv, Trails, Tracks
<1>6. ASSUME Faithful', daemonPid = ring.pid PROVE screen = ring
  <2>1. Faithful /\ \A i \in DOMAIN wire : wire[i].t # "data"
    BY <1>6 DEF Lose, AttemptFails, Faithful, ScreenInv, ScreenTypes
  <2>2. wire \in Seq(Message) /\ Len(wire) \in Nat /\ DOMAIN wire = 1 .. Len(wire) /\ ring \in Painted
    BY LenProperties DEF ScreenInv, ScreenTypes
  <2>3. CASE phase = "connected"
    <3>1. Len(wire) = 0
      BY <2>1, <2>2, <2>3 DEF ScreenInv, Trails
    <3>2. screen \in Painted /\ screen.pid = ring.pid /\ screen.n + Len(wire) = ring.n
      BY <2>1, <2>3 DEF ScreenInv, Shows
    <3> QED
      BY <2>2, <3>1, <3>2, Paintings
  <2>4. CASE phase = "replaying"
    <3>1. daemonPid = prevPid
      BY <1>6, <2>4 DEF Lose, AttemptFails, Faithful, ScreenInv, ScreenTypes
    <3>2. screen = wire[1].at /\ wire # <<>>
      BY <2>1, <2>4, <3>1 DEF ScreenInv, Shows, Tracks
    <3>3. Len(wire) \in Nat \ {0}
      BY <2>2, <3>2, EmptySeq
    <3>4. Len(wire) = 1
      <4>1. ~(2 \in 1 .. Len(wire))
        BY <2>1, <2>2, <2>4 DEF ScreenInv, Trails
      <4> QED
        BY <3>3, <4>1, Sums
    <3>5. wire[1].at \in Painted
      BY <2>2, <3>4, ElementOfSeq, Messages
    <3>6. wire[1].at.pid = ring.pid /\ wire[1].at.n + 1 = ring.n + 1
      BY <3>4 DEF ScreenInv, Trails
    <3>7. wire[1].at.n \in Nat /\ ring.n \in Nat
      BY <2>2, <3>5, Paintings
    <3>8. wire[1].at.n = ring.n
      BY <3>6, <3>7
    <3> QED
      BY <2>2, <3>2, <3>5, <3>6, <3>8, Paintings
  <2> QED
    BY <1>1, <2>3, <2>4 DEF Bound
<1>7. Shows'
  BY <1>1, <1>6 DEF Shows, Faithful
<1> QED
  BY <1>4, <1>5, <1>7 DEF ScreenInv

LEMMA AttemptShows ==
  ASSUME ScreenInv, Replace \/ Discover \/ CandidateFails
  PROVE  ScreenInv'
<1>1. phase \in {"lost", "candidate"} /\ wire = <<>>
  BY DEF Replace, Discover, CandidateFails, ScreenInv, Tracks
<1>2. /\ UNCHANGED <<wire, screen, unheard, waiter, late>> /\ phase' \in {"lost", "candidate"}
  BY DEF Replace, Discover, CandidateFails, history
<1>3. ring \in Painted /\ ring.pid \in Nat /\ ring.pid \in 1 .. MaxDaemons /\ daemonPid \in Nat /\ losses \in Nat
  BY Paintings DEF ScreenInv, ScreenTypes
<1>4. Trails'
  BY <1>1, <1>2 DEF Trails
<1>5. misled' \in BOOLEAN
  BY DEF Replace, Discover, CandidateFails, AttemptFails, history, ScreenInv, ScreenTypes
<1>6. CASE Replace
  <2>1. ring' \in Painted /\ ring'.pid = ring.pid + 1
    BY <1>3, <1>6, ReplaySizes DEF Replace, Painted
  <2>2. UNCHANGED <<daemonPid, prevPid, losses>> /\ phase' = "lost"
    BY <1>6 DEF Replace
  <2>3. ScreenTypes'
    BY <1>2, <1>5, <2>1, <2>2 DEF ScreenInv, ScreenTypes
  <2>4. daemonPid' <= ring'.pid /\ daemonPid' # ring'.pid
    BY <1>3, <2>1, <2>2 DEF ScreenInv, Tracks
  <2> QED
    BY <1>1, <1>2, <1>4, <2>2, <2>3, <2>4 DEF ScreenInv, Tracks, Shows
<1>7. CASE Discover
  <2>1. ring' = ring /\ daemonPid' = ring.pid /\ prevPid' = daemonPid /\ losses' = losses /\ misled' = misled
        /\ phase = "lost" /\ phase' = "candidate"
    BY <1>7 DEF Discover, history
  <2>2. ScreenTypes'
    BY <1>2, <1>3, <2>1 DEF ScreenInv, ScreenTypes
  <2> QED
    BY <1>1, <1>2, <1>3, <1>4, <2>1, <2>2 DEF ScreenInv, Tracks, Shows, Faithful
<1>8. CASE CandidateFails
  <2>1. /\ UNCHANGED <<ring, daemonPid, prevPid>> /\ losses' = losses + 1 /\ phase = "candidate" /\ phase' = "lost"
        /\ misled' = (misled \/ daemonPid # prevPid)
    BY <1>8 DEF CandidateFails, AttemptFails
  <2>2. ScreenTypes'
    BY <1>2, <1>3, <1>5, <2>1 DEF ScreenInv, ScreenTypes
  <2>3. Faithful' => Faithful /\ daemonPid = prevPid
    BY <1>2, <2>1 DEF Faithful, ScreenInv, ScreenTypes
  <2> QED
    BY <1>1, <1>2, <1>4, <2>1, <2>2, <2>3 DEF ScreenInv, Tracks, Shows
<1> QED
  BY <1>6, <1>7, <1>8

LEMMA ReplayShows ==
  ASSUME ScreenInv, Replay
  PROVE  ScreenInv'
<1> DEFINE m == [t |-> "spawned", at |-> ring]
<1>1. /\ phase = "candidate" /\ phase' = "replaying" /\ wire' = <<m>>
      /\ UNCHANGED <<ring, screen, daemonPid, prevPid, losses, unheard, misled, late>>
  BY DEF Replay, history
<1>2. m \in Message /\ m.t = "spawned" /\ m.at = ring
  BY DEF ScreenInv, ScreenTypes, Message
<1>9. waiter' = ReplayMode /\ waiter' \in {"suppress", "reset"}
  BY DEF Replay, ReplayMode
<1> HIDE DEF m
<1>3. wire' \in Seq(Message) /\ Len(wire') = 1 /\ wire'[1] = m /\ wire' # <<>>
  BY <1>1, <1>2
<1>4. ring.n \in Nat
  BY Paintings DEF ScreenInv, ScreenTypes
<1>5. ScreenTypes'
  BY <1>1, <1>3, <1>9 DEF ScreenInv, ScreenTypes
<1>6. Trails'
  BY <1>1, <1>2, <1>3, <1>4 DEF Trails
<1>7. Tracks'
  BY <1>1, <1>3, <1>9 DEF ScreenInv, Tracks, ReplayMode
<1>8. Shows'
  BY <1>1, <1>2, <1>3 DEF ScreenInv, Shows, Faithful
<1> QED
  BY <1>5, <1>6, <1>7, <1>8 DEF ScreenInv

\* A waiter's time runs out: the screen and the wire are as they were.
LEMMA TimeoutShows ==
  ASSUME ScreenInv, ReplayTimesOut
  PROVE  ScreenInv'
<1>1. /\ UNCHANGED <<ring, screen, phase, daemonPid, prevPid, wire, losses, unheard, misled, late>>
      /\ waiter' = "none"
  BY DEF ReplayTimesOut, history
<1> QED
  BY <1>1 DEF ScreenInv, ScreenTypes, Trails, Tracks, Shows, Faithful

\* What the app reads is the first message, and the rest still trails the session.
LEMMA Hears ==
  ASSUME ScreenInv, wire # <<>>, wire' = Tail(wire), UNCHANGED ring
  PROVE  /\ Head(wire) = wire[1] /\ wire[1] \in Message /\ wire[1].at \in Painted
         /\ wire[1].at.pid = ring.pid /\ wire[1].at.n + Len(wire') = ring.n
         /\ wire' \in Seq(Message) /\ Len(wire') \in Nat /\ ring \in Painted
         /\ phase' # "replaying" => Trails'
<1>1. /\ wire \in Seq(Message) /\ ring \in Painted
      /\ wire' \in Seq(Message) /\ Len(wire') = Len(wire) - 1
      /\ \A i \in 1 .. Len(wire') : wire'[i] = wire[i + 1]
  BY HeadTailProperties DEF ScreenInv, ScreenTypes
<1>2. Len(wire) \in Nat \ {0} /\ Len(wire') \in Nat /\ Head(wire) = wire[1]
  BY <1>1, EmptySeq, LenProperties
<1>3. \A i \in 1 .. Len(wire) : wire[i] \in Message /\ wire[i].at \in Painted /\ wire[i].at.n \in Nat
  BY <1>1, ElementOfSeq, Messages, Paintings
<1>4. ring.n \in Nat
  BY <1>1, Paintings
<1>5. 1 \in 1 .. Len(wire) /\ wire[1].at.pid = ring.pid /\ wire[1].at.n + Len(wire) = ring.n + 1
  BY <1>2 DEF ScreenInv, Trails
<1>6. wire[1].at.n + Len(wire') = ring.n
  <2>1. Len(wire) = Len(wire') + 1 /\ wire[1].at.n \in Nat
    BY <1>1, <1>2, <1>3, <1>5
  <2>2. wire[1].at.n + (Len(wire') + 1) = ring.n + 1
    BY <1>5, <2>1
  <2> QED
    BY <1>2, <1>4, <2>1, <2>2, Sums
<1>7. ASSUME NEW i \in 1 .. Len(wire'), phase' # "replaying"
      PROVE  /\ wire'[i].at.pid = ring'.pid /\ wire'[i].at.n + Len(wire') = ring'.n + i
             /\ wire'[i].t = IF phase' = "replaying" /\ i = 1 THEN "spawned" ELSE "data"
  <2>1. i + 1 \in 1 .. Len(wire) /\ i + 1 # 1 /\ i \in Nat /\ wire'[i] = wire[i + 1] /\ Len(wire) = Len(wire') + 1
    BY <1>1, <1>2
  <2>2. wire[i + 1].at.pid = ring.pid /\ wire[i + 1].at.n + Len(wire) = ring.n + (i + 1) /\ wire[i + 1].t = "data"
    BY <2>1 DEF ScreenInv, Trails
  <2>3. wire[i + 1].at.n \in Nat
    BY <1>3, <2>1
  <2>4. wire[i + 1].at.n + Len(wire') = ring.n + i
    <3>1. wire[i + 1].at.n + (Len(wire') + 1) = ring.n + (i + 1)
      BY <2>1, <2>2
    <3> QED
      BY <1>2, <1>4, <2>1, <2>3, <3>1, Sums
  <2> QED
    BY <1>7, <2>1, <2>2, <2>4
<1>8. phase' # "replaying" => Trails'
  BY <1>7 DEF Trails
<1> QED
  BY <1>1, <1>2, <1>3, <1>5, <1>6, <1>8

LEMMA ReplyShows ==
  ASSUME ScreenInv, HearSpawned
  PROVE  ScreenInv'
<1>1. /\ wire # <<>> /\ wire' = Tail(wire) /\ UNCHANGED <<ring, daemonPid, prevPid, losses>> /\ phase' = "connected"
      /\ Head(wire).t = "spawned" /\ screen' = Repaint(Head(wire).at) /\ waiter' = "none"
      /\ unheard' = (unheard /\ waiter # "reset") /\ misled' = (misled /\ waiter # "reset")
      /\ late' = (waiter = "none" \/ (late /\ waiter # "reset"))
  BY DEF HearSpawned
<1>2. /\ Head(wire) = wire[1] /\ wire[1].at \in Painted /\ wire[1].at.pid = ring.pid /\ wire[1].at.n + Len(wire') = ring.n
      /\ wire' \in Seq(Message) /\ Trails'
  BY <1>1, Hears
<1>3. 1 \in 1 .. Len(wire)
  <2>1. Len(wire) \in Nat \ {0}
    BY <1>1, EmptySeq DEF ScreenInv, ScreenTypes
  <2> QED
    BY <2>1
<1>4. phase = "replaying"
  BY <1>1, <1>2, <1>3 DEF ScreenInv, Trails
<1>5. waiter \in {"none", IF daemonPid = prevPid THEN "suppress" ELSE "reset"} /\ daemonPid = ring.pid
  BY <1>4 DEF ScreenInv, Tracks, ReplayMode
<1>6. unheard' \in BOOLEAN /\ misled' \in BOOLEAN /\ late' \in BOOLEAN
  BY <1>1 DEF ScreenInv, ScreenTypes
<1>7. CASE waiter = "suppress"
  <2>1. screen' = screen /\ (Faithful' => Faithful) /\ daemonPid = prevPid
    BY <1>1, <1>2, <1>5, <1>7 DEF Repaint, Faithful
  <2>2. ScreenTypes'
    BY <1>1, <1>2, <1>6, <2>1 DEF ScreenInv, ScreenTypes
  <2>3. Faithful' => screen' = wire[1].at
    BY <1>4, <1>7, <2>1 DEF ScreenInv, Shows
  <2> QED
    BY <1>1, <1>2, <1>4, <1>5, <2>2, <2>3 DEF ScreenInv, Tracks, Shows
<1>8. CASE waiter = "reset"
  <2>1. screen' = wire[1].at
    BY <1>1, <1>2, <1>8 DEF Repaint
  <2>2. ScreenTypes'
    BY <1>1, <1>2, <1>6, <2>1 DEF ScreenInv, ScreenTypes
  <2> QED
    BY <1>1, <1>2, <1>4, <1>5, <2>1, <2>2 DEF ScreenInv, Tracks, Shows
\* The waiter has timed out: what is appended is spliced, and the reply is late.
<1>9. CASE waiter = "none"
  <2>1. screen' \in Painted \cup {Spliced} /\ late'
    BY <1>1, <1>2, <1>9 DEF Repaint, ScreenInv, ScreenTypes
  <2>2. ScreenTypes'
    BY <1>1, <1>2, <1>6, <2>1 DEF ScreenInv, ScreenTypes
  <2> QED
    BY <1>1, <1>2, <1>4, <1>5, <2>1, <2>2 DEF ScreenInv, Tracks, Shows, Faithful
<1> QED
  BY <1>5, <1>7, <1>8, <1>9

LEMMA DataShows ==
  ASSUME ScreenInv, HearData
  PROVE  ScreenInv'
<1>1. /\ wire # <<>> /\ wire' = Tail(wire) /\ UNCHANGED <<ring, phase, daemonPid, prevPid, waiter, losses, unheard, misled, late>>
      /\ Head(wire).t = "data"
      /\ screen' = IF screen = [Head(wire).at EXCEPT !.n = @ - 1] THEN Head(wire).at ELSE Spliced
  BY DEF HearData, history
<1>2. /\ Head(wire) = wire[1] /\ wire[1].at \in Painted /\ wire[1].at.pid = ring.pid /\ wire[1].at.n + Len(wire') = ring.n
      /\ wire' \in Seq(Message) /\ Len(wire') \in Nat /\ ring \in Painted /\ (phase # "replaying" => Trails')
  BY <1>1, Hears
<1>3. 1 \in 1 .. Len(wire) /\ Len(wire) = Len(wire') + 1
  <2>1. Len(wire) \in Nat \ {0} /\ Len(wire') = Len(wire) - 1
    BY <1>1, EmptySeq, HeadTailProperties DEF ScreenInv, ScreenTypes
  <2> QED
    BY <2>1
<1>4. phase = "connected"
  BY <1>1, <1>2, <1>3 DEF ScreenInv, Trails, ScreenTypes, Tracks
<1>5. ScreenTypes'
  BY <1>1, <1>2 DEF ScreenInv, ScreenTypes
<1>6. Faithful => screen' = wire[1].at
  <2>1. Faithful => screen \in Painted /\ screen.pid = ring.pid /\ screen.n + Len(wire) = ring.n
    BY <1>4 DEF ScreenInv, Shows
  <2>2. wire[1].at.n \in Nat /\ ring.n \in Nat /\ (Faithful => screen.n \in Nat)
    BY <1>2, <2>1, Paintings
  <2>3. Faithful => screen.n + 1 = wire[1].at.n
    BY <1>2, <1>3, <2>1, <2>2
  <2>4. Faithful => screen = [wire[1].at EXCEPT !.n = @ - 1]
    BY <1>2, <2>1, <2>3, Paintings
  <2> QED
    BY <1>1, <1>2, <2>4
<1>7. Shows'
  BY <1>1, <1>2, <1>4, <1>6 DEF Shows, Faithful
<1> QED
  BY <1>1, <1>2, <1>4, <1>5, <1>7 DEF ScreenInv, Tracks

LEMMA ScreenInvKept == ScreenInv /\ [ReplayNext]_replayVars => ScreenInv'
<1>1. ScreenInv /\ UNCHANGED replayVars => ScreenInv'
  BY DEF replayVars, history, ScreenInv, ScreenTypes, Trails, Tracks, Shows, Faithful, ReplayMode
<1> QED
  BY <1>1, PrintShows, LossShows, AttemptShows, ReplayShows, TimeoutShows, ReplyShows, DataShows DEF ReplayNext

\* The relay's and the renderer's books of a painted pane are of their types, and what
\* the screen has, what is on the wire and what the relay believes of the daemon fit
\* together in every phase of a reconnect (makeClient, reconnect, onClose).
THEOREM ScreenInvariant == ReplaySpec => []ScreenInv
BY InitShows, ScreenInvKept, PTL DEF ReplaySpec

\* Whatever is lost, replaced, retried and printed, a connected pane with nothing on
\* the wire shows its session's ring and nothing else, until output went unheard, an
\* attempt failed that had found a new daemon (reconnect's choice of suppress or reset)
\* or a reply was read after its waiter had timed out (DaemonClient.spawn).
THEOREM PaneShowsRing == ReplaySpec => []ScreenShowsRing
<1>1. ScreenInv => ScreenShowsRing
  <2> SUFFICES ASSUME ScreenInv, phase = "connected", wire = <<>>, Faithful PROVE screen = ring
    BY DEF ScreenShowsRing
  <2>1. Len(wire) = 0 /\ ring \in Painted
    BY DEF ScreenInv, ScreenTypes
  <2>2. screen \in Painted /\ screen.pid = ring.pid /\ screen.n + 0 = ring.n
    BY <2>1 DEF ScreenInv, Shows
  <2> QED
    BY <2>1, <2>2, Paintings
<1> QED
  BY <1>1, ScreenInvariant, PTL

============================================================================
