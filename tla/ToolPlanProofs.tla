--------------------------- MODULE ToolPlanProofs ---------------------------
(***************************************************************************)
(* Theorems about ToolPlan for any launches, rows and plans: the           *)
(* coordinator implements the register of ConfigRegister, whoever is told  *)
(* of a success has on disk what was asked for, and a launch that has its  *)
(* plan keeps it when another launch is refused.                           *)
(*                                                                         *)
(* All rest on who may be where in the queue: one transaction at a time    *)
(* has read the file (Holder), nobody else is past its first read while a  *)
(* caller takes its result (SettledAlone), and from the second comparison  *)
(* to the rename only the CLI touches the file (Compared).                 *)
(***************************************************************************)
EXTENDS ToolPlan, SequenceTheorems, TLAPS

Holding == {"read", "reread", "write", "renamed"}

Holder ==
    \A w \in Writer : phase[w] \in Holding => queue # <<>> /\ Head(queue) = w

SettledAlone ==
    \A w \in Writer : phase[w] = "settled" =>
        \A v \in Writer \ {w} : phase[v] \in {"none", "queued", "read"}

\* What each transaction in the queue is for.
Shape ==
    \A w \in Writer : phase[w] # "none" =>
        \/ /\ pc[w] = "wait"
           /\ req[w].part = OwnPart(w) /\ req[w].value = want[w]
        \/ /\ pc[w] = "undoing"
           /\ req[w].part = "whole" /\ req[w].whole = snap[w] /\ snap[w] \in Doc

\* Only a launch that found a file has it put back.
UndoHasFile == \A w \in Writer : pc[w] = "undo" => snap[w] \in Doc

SameButCli(f, g) == \A p \in Part \ {"cli"} : Content(f)[p] = Content(g)[p]

Compared ==
    \A w \in Writer : phase[w] = "write" =>
        /\ SameButCli(file, cur[w])
        /\ \/ file = cur[w]
           \/ file \in Doc /\ file["cli"] > Content(cur[w])["cli"]

IInv ==
    /\ TypeOK
    /\ Holder
    /\ SettledAlone
    /\ Shape
    /\ UndoHasFile
    /\ Compared

----------------------------------------------------------------------------
\* Contents, requests and what they make of a file have their types.
LEMMA ContentType == ASSUME NEW f \in File PROVE Content(f) \in Doc
BY DEF File, Content, Blank, Doc

LEMMA DocIsContent == ASSUME NEW d \in Doc PROVE Content(d) = d /\ d \in File
BY AbsentAssumption DEF Content, File

LEMMA BlankType == Blank \in Doc
BY DEF Blank, Doc

LEMMA TransformType == ASSUME NEW r \in Request, NEW f \in File PROVE Transform(r, f) \in Doc
<1>1. Content(f) \in Doc
  BY ContentType
<1> QED
  BY <1>1 DEF Transform, Request, Doc

LEMMA RequestTypes ==
  ASSUME NEW w \in Writer, NEW v \in Nat, NEW f \in File
  PROVE  /\ SetPart(OwnPart(w), v, f) \in Request
         /\ f \in Doc => SetWhole(f) \in Request
         /\ NoRequest \in Request
<1>1. OwnPart(w) \in Part
  BY DEF OwnPart, Part
<1> QED
  BY <1>1, BlankType DEF SetPart, SetWhole, NoRequest, Request

----------------------------------------------------------------------------
\* What a step of the writers does to the coordinator.
Quiet         == UNCHANGED <<file, coordinator>>
Asks(w)       == Turn /\ UNCHANGED file /\ \E r \in Request : Enqueue(w, r)
Runs(w)       == Transact(w) \/ Fail(w)
Takes(w)      == phase[w] = "settled" /\ Taken(w)

LEMMA StepKinds ==
  ASSUME TypeOK, UndoHasFile, Next
  PROVE  \/ Quiet
         \/ \E w \in Writer : Asks(w) \/ Runs(w) \/ (Takes(w) /\ (UNCHANGED file \/ file' = Absent))
         \/ OutsideWrites
<1>1. CASE \E l \in Launch, p \in 1 .. MaxPlan : Begin(l, p)
  BY <1>1 DEF Begin, Quiet, coordinator
<1>2. CASE \E r \in Row, v \in 0 .. MaxValue : Reconcile(r, v)
  BY <1>2 DEF Reconcile, Quiet, coordinator
<1>3. CASE \E w \in Writer : Step(w)
  <2> PICK w \in Writer : Step(w)
    BY <1>3
  <2>1. CASE Snapshot(w)
    BY <2>1 DEF Snapshot, Quiet, coordinator
  <2>2. CASE Call(w)
    <3>1. SetPart(OwnPart(w), want[w], snap[w]) \in Request
      BY RequestTypes DEF TypeOK
    <3> QED
      BY <2>2, <3>1 DEF Call, Asks
  <2>3. CASE Transaction(w)
    BY <2>3 DEF Transaction, Runs
  <2>4. CASE Undo(w)
    <3>1. SetWhole(snap[w]) \in Request
      BY <2>4, RequestTypes DEF TypeOK, UndoHasFile, Undo, Goto
    <3> QED
      BY <2>4, <3>1 DEF Undo, Asks
  <2>5. CASE LaunchServed(w)
    BY <2>5 DEF LaunchServed, Materialized, HideFails, LostCas, NotWritten, Undone, Settled, Takes
  <2>6. CASE NothingToUnset(w)
    BY <2>6 DEF NothingToUnset, Quiet, coordinator
  <2>7. CASE Reconciled(w)
    BY <2>7 DEF Reconciled, Settled, Takes
  <2> QED
    BY <2>1, <2>2, <2>3, <2>4, <2>5, <2>6, <2>7 DEF Step
<1>4. CASE Outside
  BY <1>4 DEF Outside
<1> QED
  BY <1>1, <1>2, <1>3, <1>4 DEF Next

----------------------------------------------------------------------------
\* A running transaction goes through its phases and keeps the queue a queue.
LEMMA SettleTypes ==
  ASSUME TypeOK, Holder, NEW w \in Writer, phase[w] \in Holding,
         NEW how \in {"same", "changed", "conflict", "failed"}, Settle(w, how)
  PROVE  /\ queue' \in Seq(Writer)
         /\ phase' \in [Writer -> Phase]
         /\ result' \in [Writer -> {"none", "same", "changed", "conflict", "failed"}]
<1>1. queue \in Seq(Writer) /\ queue # <<>>
  BY DEF TypeOK, Holder
<1>2. Tail(queue) \in Seq(Writer)
  BY <1>1
<1> QED
  BY <1>2 DEF Settle, TypeOK, Phase

LEMMA RunsTypes ==
  ASSUME TypeOK, Holder, NEW w \in Writer, Runs(w)
  PROVE  /\ file' \in File
         /\ queue' \in Seq(Writer)
         /\ phase' \in [Writer -> Phase]
         /\ req' \in [Writer -> Request]
         /\ cur' \in [Writer -> File]
         /\ result' \in [Writer -> {"none", "same", "changed", "conflict", "failed"}]
<1>1. CASE ReadCurrent(w)
  BY <1>1 DEF ReadCurrent, TypeOK, Phase
<1>2. CASE Decide(w)
  <2>1. Verdict(req[w], cur[w]) \in {"same", "conflict", "go"}
    BY DEF Verdict
  <2>2. CASE Verdict(req[w], cur[w]) = "go"
    BY <1>2, <2>2 DEF Decide, TypeOK, Phase
  <2>3. CASE Verdict(req[w], cur[w]) # "go"
    <3>1. phase[w] \in Holding /\ Settle(w, Verdict(req[w], cur[w]))
      BY <1>2, <2>3 DEF Decide, Holding
    <3>2. Verdict(req[w], cur[w]) \in {"same", "changed", "conflict", "failed"}
      BY <2>1, <2>3
    <3> QED
      BY <1>2, <3>1, <3>2, SettleTypes DEF Decide, TypeOK
  <2> QED
    BY <2>2, <2>3
<1>3. CASE Reread(w)
  <2>1. CASE file = cur[w]
    BY <1>3, <2>1 DEF Reread, TypeOK, Phase
  <2>2. CASE file # cur[w]
    <3>1. phase[w] \in Holding /\ Settle(w, "conflict")
      BY <1>3, <2>2 DEF Reread, Holding
    <3> QED
      BY <1>3, <3>1, SettleTypes DEF Reread, TypeOK
  <2> QED
    BY <2>1, <2>2
<1>4. CASE Rename(w)
  <2>1. Transform(req[w], cur[w]) \in Doc
    BY TransformType DEF TypeOK
  <2> QED
    BY <1>4, <2>1 DEF Rename, TypeOK, Phase, File
<1>5. CASE Renamed(w)
  <2>1. phase[w] \in Holding /\ Settle(w, "changed")
    BY <1>5 DEF Renamed, Holding
  <2> QED
    BY <1>5, <2>1, SettleTypes DEF Renamed, TypeOK
<1>6. CASE Fail(w)
  <2>1. phase[w] \in Holding /\ Settle(w, "failed")
    BY <1>6 DEF Fail, Holding
  <2> QED
    BY <1>6, <2>1, SettleTypes DEF Fail, TypeOK
<1> QED
  BY <1>1, <1>2, <1>3, <1>4, <1>5, <1>6 DEF Runs, Transact

LEMMA EnqueueTypes ==
  ASSUME TypeOK, NEW w \in Writer, NEW r \in Request, Enqueue(w, r)
  PROVE  /\ queue' \in Seq(Writer)
         /\ phase' \in [Writer -> Phase]
         /\ req' \in [Writer -> Request]
         /\ UNCHANGED <<cur, result>>
BY DEF Enqueue, TypeOK, Phase

LEMMA TakenTypes ==
  ASSUME TypeOK, NEW w \in Writer, Taken(w)
  PROVE  /\ queue' \in Seq(Writer)
         /\ phase' \in [Writer -> Phase]
         /\ req' \in [Writer -> Request]
         /\ cur' \in [Writer -> File]
         /\ result' \in [Writer -> {"none", "same", "changed", "conflict", "failed"}]
BY RequestTypes DEF Taken, TypeOK, Phase, File

----------------------------------------------------------------------------
LEMMA LaunchServedTypes ==
  ASSUME TypeOK, NEW l \in Launch, LaunchServed(l)
  PROVE  TypeOK'
<1> USE DEF Goto
<1>1. l \in Writer /\ Taken(l)
  BY WriterAssumption DEF LaunchServed, Materialized, HideFails, LostCas, NotWritten, Undone, Settled
<1>2. /\ queue' \in Seq(Writer)
      /\ phase' \in [Writer -> Phase]
      /\ req' \in [Writer -> Request]
      /\ cur' \in [Writer -> File]
      /\ result' \in [Writer -> {"none", "same", "changed", "conflict", "failed"}]
  BY <1>1, TakenTypes
<1>3. CASE Materialized(l)
  BY <1>1, <1>2, <1>3 DEF Materialized, TypeOK, history
<1>4. CASE HideFails(l)
  <2>1. file' \in File /\ putBack' \in Nat /\ robbed' \subseteq Writer
    BY <1>4 DEF HideFails, TypeOK, File, Satisfied
  <2>2. pc' \in [Writer -> {"idle", "ok", "refused"} \cup Going]
    BY <1>4 DEF HideFails, TypeOK, Going
  <2>3. moved' \in BOOLEAN
    BY <1>4 DEF HideFails, Moves
  <2> QED
    BY <1>2, <1>4, <2>1, <2>2, <2>3 DEF HideFails, TypeOK
<1>5. CASE LostCas(l)
  <2>1. pc' \in [Writer -> {"idle", "ok", "refused"} \cup Going]
    BY <1>5 DEF LostCas, TypeOK, Going
  <2>2. retried' \subseteq Launch /\ memo' \in Nat
    BY <1>5 DEF LostCas, TypeOK
  <2> QED
    BY <1>2, <1>5, <2>1, <2>2 DEF LostCas, TypeOK, history
<1>6. CASE NotWritten(l)
  BY <1>2, <1>6 DEF NotWritten, TypeOK, history, Going
<1>7. CASE Undone(l)
  BY <1>2, <1>7 DEF Undone, TypeOK, Going
<1> QED
  BY <1>3, <1>4, <1>5, <1>6, <1>7 DEF LaunchServed

LEMMA TransactionTypes ==
  ASSUME TypeOK, Holder, NEW w \in Writer, Transaction(w)
  PROVE  TypeOK'
<1>1. Runs(w)
  BY DEF Transaction, Runs
<1>2. moved' \in BOOLEAN /\ putBack' \in Nat /\ robbed' \subseteq Writer
  BY WriterAssumption DEF Transaction, Moves, TypeOK, Sharing
<1> QED
  BY <1>1, <1>2, RunsTypes DEF Transaction, TypeOK, clients

LEMMA TypeStep ==
  ASSUME TypeOK, Holder, UndoHasFile, [Next]_vars
  PROVE  TypeOK'
<1> USE DEF Goto
<1>1. ASSUME NEW l \in Launch, NEW p \in 1 .. MaxPlan, Begin(l, p)
      PROVE  TypeOK'
  <2>0. p \in Nat
    BY ValueAssumption
  <2>1. want' \in [Writer -> Nat]
    BY <1>1, <2>0 DEF Begin, TypeOK
  <2>3. memo' \in Nat
    BY <1>1 DEF Begin, TypeOK
  <2>4. UNCHANGED <<file, queue, phase, req, cur, result, snap, retried, moved, putBack, leftover, robbed>>
    BY <1>1 DEF Begin, coordinator, history
  <2>2. pc' \in [Writer -> {"idle", "ok", "refused"} \cup Going]
    BY <1>1 DEF Begin, TypeOK, Going
  <2> QED
    BY <2>1, <2>2, <2>3, <2>4 DEF TypeOK
<1>2. ASSUME NEW r \in Row, NEW v \in 0 .. MaxValue, Reconcile(r, v)
      PROVE  TypeOK'
  <2>1. v \in Nat
    BY ValueAssumption
  <2> QED
    BY <1>2, <2>1 DEF Reconcile, TypeOK, coordinator, history, Going
<1>3. ASSUME NEW w \in Writer, Step(w)
      PROVE  TypeOK'
  <2>1. CASE Snapshot(w)
    BY <2>1 DEF Snapshot, TypeOK, coordinator, history, Going
  <2>2. CASE Call(w)
    <3>1. SetPart(OwnPart(w), want[w], snap[w]) \in Request
      BY RequestTypes DEF TypeOK
    <3>2. /\ queue' \in Seq(Writer)
          /\ phase' \in [Writer -> Phase]
          /\ req' \in [Writer -> Request]
          /\ UNCHANGED <<cur, result>>
      BY <2>2, <3>1, EnqueueTypes DEF Call
    <3> QED
      BY <2>2, <3>2 DEF Call, TypeOK, history, Going
  <2>3. CASE Transaction(w)
    BY <2>3, TransactionTypes
  <2>4. CASE Undo(w)
    <3>1. SetWhole(snap[w]) \in Request
      BY <2>4, RequestTypes DEF TypeOK, UndoHasFile, Undo
    <3> QED
      BY <2>4, <3>1, EnqueueTypes DEF Undo, TypeOK, history, Going
  <2>5. CASE w \in Launch /\ LaunchServed(w)
    BY <2>5, LaunchServedTypes
  <2>6. CASE NothingToUnset(w)
    BY <2>6 DEF NothingToUnset, TypeOK, coordinator, history, Going
  <2>7. CASE Reconciled(w)
    <3>1. Taken(w)
      BY <2>7 DEF Reconciled, Settled
    <3> QED
      BY <2>7, <3>1, TakenTypes DEF Reconciled, TypeOK, history, Going
  <2> QED
    BY <1>3, <2>1, <2>2, <2>3, <2>4, <2>5, <2>6, <2>7 DEF Step
<1>4. CASE Outside
  <2>1. Content(file) \in [Part -> Nat] /\ Content(file)["cli"] + 1 \in Nat
    BY ContentType DEF TypeOK, Doc, Part
  <2>3. file' = [Content(file) EXCEPT !["cli"] = Content(file)["cli"] + 1]
    BY <1>4 DEF Outside, OutsideWrites
  <2>2. file' \in File
    BY <2>1, <2>3 DEF File, Doc
  <2> QED
    BY <1>4, <2>2 DEF Outside, OutsideWrites, Moves, TypeOK, coordinator, clients, history
<1>5. CASE UNCHANGED vars
  BY <1>5 DEF vars, coordinator, clients, history, TypeOK
<1> QED
  BY <1>1, <1>2, <1>3, <1>4, <1>5 DEF Next

----------------------------------------------------------------------------
\* One transaction at a time: whoever holds the file is the first in the queue.
LEMMA HolderStep ==
  ASSUME TypeOK, Holder, SettledAlone, UndoHasFile, [Next]_vars
  PROVE  Holder' /\ SettledAlone'
<1>1. CASE Quiet \/ OutsideWrites
  BY <1>1 DEF Quiet, OutsideWrites, coordinator, Holder, SettledAlone
<1>2. ASSUME NEW w \in Writer, Asks(w)
      PROVE  Holder' /\ SettledAlone'
  <2>1. PICK r \in Request : Enqueue(w, r)
    BY <1>2 DEF Asks
  <2>2. queue # <<>> => queue' # <<>> /\ Head(queue') = Head(queue)
    BY <2>1 DEF Enqueue, TypeOK
  <2>3. Holder'
    BY <2>1, <2>2 DEF Enqueue, TypeOK, Holder, Holding
  <2>4. SettledAlone'
    BY <1>2, <2>1 DEF Asks, Turn, Enqueue, TypeOK, SettledAlone
  <2> QED
    BY <2>3, <2>4
<1>3. ASSUME NEW w \in Writer, Runs(w)
      PROVE  Holder' /\ SettledAlone'
  <2>1. CASE ReadCurrent(w)
    BY <2>1 DEF ReadCurrent, Running, TypeOK, Holder, SettledAlone, Holding
  <2> SUFFICES ASSUME ~ReadCurrent(w) PROVE Holder' /\ SettledAlone'
    BY <2>1
  <2>2. phase[w] \in Holding /\ Turn
    BY <1>3 DEF Runs, Transact, Decide, Reread, Rename, Renamed, Fail, Holding
  <2>3. \A v \in Writer \ {w} : phase[v] \in {"none", "queued"}
    BY <2>2 DEF Holder, Turn, TypeOK, Phase, Holding
  <2>4. \E to \in Phase : phase' = [phase EXCEPT ![w] = to] /\ (to = "settled" \/ UNCHANGED queue)
    BY <1>3 DEF Runs, Transact, Decide, Reread, Rename, Renamed, Fail, Settle, Phase
  <2> QED
    BY <2>2, <2>3, <2>4 DEF TypeOK, Holder, SettledAlone, Holding
<1>4. ASSUME NEW w \in Writer, Takes(w)
      PROVE  Holder' /\ SettledAlone'
  BY <1>4 DEF Takes, Taken, TypeOK, Holder, SettledAlone, Holding
<1>5. CASE UNCHANGED vars
  BY <1>5 DEF vars, coordinator, Holder, SettledAlone
<1> QED
  BY <1>1, <1>2, <1>3, <1>4, <1>5, StepKinds

----------------------------------------------------------------------------
\* A transaction in the queue is the one its caller waits for.
LEMMA ShapeStep ==
  ASSUME TypeOK, Shape, UndoHasFile, [Next]_vars
  PROVE  Shape' /\ UndoHasFile'
<1> USE DEF Goto
<1>1. ASSUME NEW l \in Launch, NEW p \in 1 .. MaxPlan, Begin(l, p)
      PROVE  Shape' /\ UndoHasFile'
  <2>1. l \in Writer /\ pc[l] = "idle" /\ phase[l] = "none"
    BY <1>1, WriterAssumption DEF Begin, Shape
  <2>2. UNCHANGED <<phase, req, snap>> /\ want' = [want EXCEPT ![l] = p]
    BY <1>1 DEF Begin, coordinator
  <2>3. \E to \in {"ok", "read", "refused"} : pc' = [pc EXCEPT ![l] = to]
    BY <1>1 DEF Begin
  <2> QED
    BY <2>1, <2>2, <2>3 DEF TypeOK, Shape, UndoHasFile
<1>2. ASSUME NEW r \in Row, NEW v \in 0 .. MaxValue, Reconcile(r, v)
      PROVE  Shape' /\ UndoHasFile'
  BY <1>2, WriterAssumption DEF Reconcile, TypeOK, Shape, UndoHasFile, coordinator
<1>3. ASSUME NEW w \in Writer, Step(w)
      PROVE  Shape' /\ UndoHasFile'
  <2>1. CASE Snapshot(w)
    BY <2>1 DEF Snapshot, TypeOK, Shape, UndoHasFile, coordinator
  <2>2. CASE Call(w)
    BY <2>2 DEF Call, Enqueue, SetPart, TypeOK, Shape, UndoHasFile
  <2>3. CASE Transaction(w)
    <3>1. UNCHANGED <<pc, want, snap>>
      BY <2>3 DEF Transaction, clients
    <3>2. phase[w] # "none" /\ UNCHANGED req /\ \A v \in Writer \ {w} : phase'[v] = phase[v]
      BY <2>3 DEF Transaction, Transact, ReadCurrent, Decide, Reread, Rename, Renamed, Fail, Settle, TypeOK
    <3> QED
      BY <3>1, <3>2 DEF Shape, UndoHasFile
  <2>4. CASE Undo(w)
    BY <2>4 DEF Undo, Enqueue, SetWhole, TypeOK, Shape, UndoHasFile
  <2>5. CASE LaunchServed(w) \/ Reconciled(w)
    <3>1. /\ phase' = [phase EXCEPT ![w] = "none"]
          /\ req' = [req EXCEPT ![w] = NoRequest]
          /\ UNCHANGED <<want, snap>>
      BY <2>5 DEF LaunchServed, Materialized, HideFails, LostCas, NotWritten, Undone, Reconciled, Settled, Taken
    <3>2. \E to \in {"ok", "read", "refused", "undo"} : pc' = [pc EXCEPT ![w] = to] /\ (to = "undo" => snap[w] # Absent)
      BY <2>5 DEF LaunchServed, Materialized, HideFails, LostCas, NotWritten, Undone, Reconciled
    <3> QED
      BY <3>1, <3>2 DEF TypeOK, File, Shape, UndoHasFile
  <2>6. CASE NothingToUnset(w)
    BY <2>6 DEF NothingToUnset, TypeOK, Shape, UndoHasFile, coordinator
  <2> QED
    BY <1>3, <2>1, <2>2, <2>3, <2>4, <2>5, <2>6 DEF Step
<1>4. CASE Outside
  BY <1>4 DEF Outside, OutsideWrites, coordinator, clients, Shape, UndoHasFile
<1>5. CASE UNCHANGED vars
  BY <1>5 DEF vars, coordinator, clients, Shape, UndoHasFile
<1> QED
  BY <1>1, <1>2, <1>3, <1>4, <1>5 DEF Next

\* Past the second comparison, nothing but the CLI's part can have moved.
LEMMA ComparedStep ==
  ASSUME TypeOK, Holder, SettledAlone, UndoHasFile, Compared, [Next]_vars
  PROVE  Compared'
<1>1. CASE Quiet
  BY <1>1 DEF Quiet, coordinator, Compared, SameButCli
<1>2. ASSUME NEW w \in Writer, Asks(w)
      PROVE  Compared'
  BY <1>2 DEF Asks, Enqueue, TypeOK, Compared, SameButCli
<1>3. ASSUME NEW w \in Writer, Runs(w)
      PROVE  Compared'
  <2> SUFFICES ASSUME NEW v \in Writer, phase'[v] = "write"
               PROVE  /\ SameButCli(file', cur'[v])
                      /\ \/ file' = cur'[v]
                         \/ file' \in Doc /\ file'["cli"] > Content(cur'[v])["cli"]
    BY DEF Compared
  <2>1. CASE ReadCurrent(w)
    BY <2>1 DEF ReadCurrent, TypeOK, Compared, SameButCli
  <2>2. CASE Decide(w)
    BY <2>2 DEF Decide, Settle, TypeOK, Compared, SameButCli
  <2>3. CASE Reread(w)
    BY <2>3 DEF Reread, Settle, TypeOK, Compared, SameButCli
  <2>4. CASE Rename(w)
    <3>1. v # w /\ phase[v] = "write"
      BY <2>4 DEF Rename, TypeOK
    <3> QED
      BY <2>4, <3>1 DEF Rename, Holder, Holding
  <2>5. CASE Renamed(w)
    BY <2>5 DEF Renamed, Settle, TypeOK, Compared, SameButCli
  <2>6. CASE Fail(w)
    BY <2>6 DEF Fail, Settle, TypeOK, Compared, SameButCli
  <2> QED
    BY <1>3, <2>1, <2>2, <2>3, <2>4, <2>5, <2>6 DEF Runs, Transact
<1>4. ASSUME NEW w \in Writer, Takes(w)
      PROVE  Compared'
  BY <1>4 DEF Takes, Taken, TypeOK, SettledAlone, Compared
<1>5. CASE OutsideWrites
  <2> SUFFICES ASSUME NEW v \in Writer, phase[v] = "write"
               PROVE  /\ SameButCli(file', cur[v])
                      /\ \/ file' = cur[v]
                         \/ file' \in Doc /\ file'["cli"] > Content(cur[v])["cli"]
    BY <1>5 DEF OutsideWrites, coordinator, Compared
  <2>1. Content(file) \in [Part -> Nat] /\ Content(cur[v]) \in [Part -> Nat] /\ "cli" \in Part
    BY ContentType DEF TypeOK, Doc, Part
  <2>2. file' = [Content(file) EXCEPT !["cli"] = Content(file)["cli"] + 1]
    BY <1>5 DEF OutsideWrites
  <2>3. file' \in Doc
    BY <2>1, <2>2 DEF Doc
  <2>4. Content(file') = file'
    BY <2>3, DocIsContent
  <2>5. SameButCli(file', cur[v])
    BY <2>1, <2>2, <2>4 DEF Compared, SameButCli
  <2>6. Content(file)["cli"] >= Content(cur[v])["cli"]
    <3>1. CASE file = cur[v]
      BY <2>1, <3>1
    <3>2. CASE file \in Doc /\ file["cli"] > Content(cur[v])["cli"]
      BY <2>1, <3>2, DocIsContent
    <3> QED
      BY <3>1, <3>2 DEF Compared
  <2>7. file'["cli"] > Content(cur[v])["cli"]
    BY <2>1, <2>2, <2>6
  <2> QED
    BY <2>3, <2>5, <2>7
<1>6. CASE UNCHANGED vars
  BY <1>6 DEF vars, coordinator, Compared, SameButCli
<1> QED
  BY <1>1, <1>2, <1>3, <1>4, <1>5, <1>6, StepKinds

----------------------------------------------------------------------------
LEMMA InitIInv == Init => IInv
<1> SUFFICES ASSUME Init PROVE IInv
  OBVIOUS
<1>1. TypeOK
  <2>1. Absent \in File /\ NoRequest \in Request /\ "none" \in Phase /\ <<>> \in Seq(Writer)
    BY BlankType DEF File, NoRequest, SetWhole, Request, Phase
  <2> QED
    BY <2>1 DEF Init, CoordinatorInit, TypeOK
<1>2. \A w \in Writer : phase[w] = "none" /\ pc[w] = "idle"
  BY DEF Init, CoordinatorInit
<1> QED
  BY <1>1, <1>2 DEF IInv, Holder, SettledAlone, Shape, UndoHasFile, Compared, Holding

LEMMA StepIInv == IInv /\ [Next]_vars => IInv'
BY TypeStep, HolderStep, ShapeStep, ComparedStep DEF IInv

LEMMA Inductive == Spec => []IInv
<1> QED
  BY InitIInv, StepIInv, PTL DEF Spec

\* Every variable keeps its type.
THEOREM TypeCorrect == Spec => []TypeOK
<1>1. IInv => TypeOK
  BY DEF IInv
<1> QED
  BY <1>1, Inductive, PTL

----------------------------------------------------------------------------
\* The refinement.  Only a transaction in "write" can race, and there is one at most.
LEMMA RacingIs ==
  ASSUME IInv, NEW w \in Writer, phase[w] = "write"
  PROVE  Racing <=> file # cur[w]
BY DEF IInv, Holder, Holding, Racing

LEMMA NoRaceAtRest ==
  ASSUME IInv, NEW w \in Writer, phase[w] = "settled"
  PROVE  ~Racing
BY DEF IInv, SettledAlone, Racing

LEMMA NobodyWritesAfter ==
  ASSUME IInv, NEW w \in Writer, phase[w] = "write",
         NEW to \in {"renamed", "settled"}, phase' = [phase EXCEPT ![w] = to]
  PROVE  ~Racing'
BY DEF IInv, TypeOK, Holder, Holding, Racing

AbstractStep == Shared!Next \/ UNCHANGED <<Content(file), Racing, putBack>>

LEMMA EditRefines ==
  ASSUME NEW p \in Part, p # "cli", ~Racing, ~Racing',
         Content(file') \in [Part -> Nat],
         \A q \in Part \ {p} : Content(file')[q] = Content(file)[q],
         putBack' = putBack
  PROVE  AbstractStep
<1>1. Racing' = Racing
  BY DEF Racing
<1>2. Shared!Edit(p)
  BY <1>1 DEF Shared!Edit, Shared!Changes
<1> QED
  BY <1>2 DEF AbstractStep, Shared!Next

\* A part of the file is rewritten, or all of it.
LEMMA RenameRefines ==
  ASSUME IInv, NEW w \in Writer, Transaction(w), Rename(w)
  PROVE  AbstractStep
<1>1. phase[w] = "write" /\ phase' = [phase EXCEPT ![w] = "renamed"] /\ ~Racing'
  BY NobodyWritesAfter DEF Rename
<1>2. file' = Transform(req[w], cur[w]) /\ file' \in Doc /\ Content(file') = file'
  <2>1. Transform(req[w], cur[w]) \in Doc
    BY TransformType DEF IInv, TypeOK
  <2> QED
    BY <2>1, DocIsContent DEF Rename
<1>3. SameButCli(file, cur[w])
  BY <1>1 DEF IInv, Compared
<1>4. Content(file) \in [Part -> Nat] /\ Content(cur[w]) \in [Part -> Nat]
  BY ContentType DEF IInv, TypeOK, Doc
<1>5. pc' = pc /\ putBack' = putBack + (IF Undoes(w) /\ Crossed(w) THEN 1 ELSE 0) /\ putBack \in Nat
  BY DEF Transaction, clients, IInv, TypeOK
<1>6. CASE pc[w] = "wait"
  <2>1. req[w].part = OwnPart(w) /\ OwnPart(w) \in Part /\ OwnPart(w) # "cli" /\ OwnPart(w) # "whole"
    BY <1>1, <1>6 DEF IInv, Shape, OwnPart, Part
  <2>2. file' = [Content(cur[w]) EXCEPT ![OwnPart(w)] = req[w].value]
    BY <1>2, <2>1 DEF Transform
  <2>3. putBack' = putBack
    BY <1>5, <1>6 DEF Undoes
  <2>4. \A p \in Part \ {OwnPart(w), "cli"} : file'[p] = Content(file)[p]
    BY <1>3, <1>4, <2>1, <2>2 DEF SameButCli
  <2>5. CASE Racing
    BY <1>1, <1>2, <2>1, <2>3, <2>4, <2>5
       DEF AbstractStep, Shared!Next, Shared!Overtake, Shared!Changes, Doc
  <2>6. CASE ~Racing
    <3>1. Content(file) = Content(cur[w])
      BY <1>1, <2>6, RacingIs
    <3>2. \A p \in Part \ {OwnPart(w)} : file'[p] = Content(file)[p]
      BY <1>4, <2>2, <3>1
    <3> QED
      BY <1>1, <1>2, <2>1, <2>3, <2>6, <3>2, EditRefines DEF Doc
  <2> QED
    BY <2>5, <2>6
<1>7. CASE pc[w] = "undoing"
  <2>1. CASE file' = file
    <3>1. putBack' = putBack
      BY <1>5, <2>1 DEF Undoes
    <3> QED
      BY <1>1, <2>1, <3>1 DEF AbstractStep, Shared!Next, Shared!GiveUp
  <2>2. CASE file' # file /\ Crossed(w)
    <3>1. putBack' = putBack + 1
      BY <1>5, <1>7, <2>2 DEF Undoes
    <3> QED
      BY <1>1, <1>2, <3>1 DEF AbstractStep, Shared!Next, Shared!PutBack, Doc
  <2>3. CASE file' # file /\ ~Crossed(w)
    <3>1. putBack' = putBack
      BY <1>5, <2>3
    <3>2. file' = snap[w] /\ snap[w] \in Doc
      BY <1>1, <1>2, <1>7 DEF IInv, Shape, Transform
    <3>3. file = [snap[w] EXCEPT !["plan"] = want[w]]
      BY <2>3, <3>2, DocIsContent DEF Crossed
    <3>4. want[w] \in Nat
      BY DEF IInv, TypeOK
    <3>5. file \in Doc
      BY <3>2, <3>3, <3>4 DEF Doc
    <3>6. \A p \in Part \ {"plan"} : file'[p] = Content(file)[p]
      BY <3>2, <3>3, <3>5, DocIsContent DEF Doc
    <3>7. CASE Racing
      BY <1>1, <1>2, <3>1, <3>6, <3>7
         DEF AbstractStep, Shared!Next, Shared!Overtake, Shared!Changes, Doc, Part
    <3>8. CASE ~Racing
      BY <1>1, <1>2, <3>1, <3>6, <3>8, EditRefines DEF Doc, Part
    <3> QED
      BY <3>7, <3>8
  <2> QED
    BY <2>1, <2>2, <2>3
<1> QED
  BY <1>1, <1>6, <1>7 DEF IInv, Shape

LEMMA TransactionRefines ==
  ASSUME IInv, NEW w \in Writer, Transaction(w)
  PROVE  AbstractStep
<1>1. CASE Rename(w)
  BY <1>1, RenameRefines
<1> SUFFICES ASSUME ~Rename(w) PROVE AbstractStep
  BY <1>1
<1>2. file' = file /\ putBack' = putBack
  <2>1. file' = file
    BY DEF Transaction, Transact, ReadCurrent, Decide, Reread, Renamed, Fail
  <2> QED
    BY <2>1 DEF Transaction, Undoes, IInv, TypeOK
<1>3. CASE Fail(w) /\ phase[w] = "write"
  <2>1. ~Racing'
    BY <1>3, NobodyWritesAfter DEF Fail, Settle
  <2> QED
    BY <1>2, <2>1 DEF AbstractStep, Shared!Next, Shared!GiveUp
<1>4. CASE ~(Fail(w) /\ phase[w] = "write")
  <2>1. phase[w] # "write"
    BY <1>4 DEF Transaction, Transact, ReadCurrent, Decide, Reread, Renamed
  <2>2. \A v \in Writer \ {w} : phase'[v] = phase[v] /\ cur'[v] = cur[v]
    BY DEF Transaction, Transact, ReadCurrent, Decide, Reread, Renamed, Fail, Settle, IInv, TypeOK
  <2>3. phase'[w] = "write" => file' = cur'[w]
    BY <1>4 DEF Transaction, Transact, ReadCurrent, Decide, Reread, Renamed, Fail, Settle, IInv, TypeOK
  <2>4. Racing' <=> Racing
    BY <1>2, <2>1, <2>2, <2>3 DEF Racing
  <2> QED
    BY <1>2, <2>4 DEF AbstractStep
<1> QED
  BY <1>3, <1>4

\* What is not part of a transaction leaves the race as it was.
LEMMA AsideRefines ==
  ASSUME IInv, NEW w \in Writer, phase[w] # "write", phase'[w] # "write",
         \A v \in Writer \ {w} : phase'[v] = phase[v] /\ cur'[v] = cur[v],
         UNCHANGED <<file, putBack>>
  PROVE  AbstractStep
BY DEF AbstractStep, Racing

LEMMA HideFailsRefines ==
  ASSUME IInv, NEW l \in Launch, HideFails(l)
  PROVE  AbstractStep
<1>1. l \in Writer /\ phase[l] = "settled" /\ phase' = [phase EXCEPT ![l] = "none"] /\ cur' = [cur EXCEPT ![l] = Absent]
  BY WriterAssumption DEF HideFails, Settled, Taken
<1>2. CASE file' = file
  <2>1. putBack' = putBack
    BY <1>2 DEF HideFails, IInv, TypeOK
  <2> QED
    BY <1>1, <1>2, <2>1, AsideRefines DEF IInv, TypeOK
<1>3. CASE file' # file
  <2>1. file' = Absent /\ snap[l] = Absent
    BY <1>3 DEF HideFails
  <2>2. ~Racing /\ ~Racing'
    <3>1. ~Racing
      BY <1>1, NoRaceAtRest
    <3>2. \A v \in Writer : phase'[v] # "write"
      BY <1>1 DEF IInv, TypeOK, SettledAlone
    <3> QED
      BY <3>1, <3>2 DEF Racing
  <2>3. Content(file') = Blank /\ Content(snap[l]) = Blank /\ Blank \in [Part -> Nat]
    BY <2>1 DEF Content, Blank
  <2>4. CASE Crossed(l)
    <3>1. putBack' = putBack + 1
      BY <1>3, <2>4 DEF HideFails
    <3> QED
      BY <2>2, <2>3, <3>1 DEF AbstractStep, Shared!Next, Shared!PutBack
  <2>5. CASE ~Crossed(l)
    <3>1. putBack' = putBack
      BY <1>3, <2>5 DEF HideFails, IInv, TypeOK
    <3>2. file = [Blank EXCEPT !["plan"] = want[l]] /\ want[l] \in Nat
      BY <1>1, <2>3, <2>5 DEF Crossed, IInv, TypeOK
    <3>3. file \in Doc /\ Content(file) = file
      <4>1. file \in Doc
        BY <2>3, <3>2 DEF Doc
      <4> QED
        BY <4>1, DocIsContent
    <3>4. \A p \in Part \ {"plan"} : Blank[p] = Content(file)[p]
      BY <2>3, <3>2, <3>3
    <3> QED
      BY <2>2, <2>3, <3>1, <3>4, EditRefines DEF Part
  <2> QED
    BY <2>4, <2>5
<1> QED
  BY <1>2, <1>3

LEMMA OutsideRefines ==
  ASSUME IInv, Outside
  PROVE  AbstractStep
<1>1. Content(file) \in [Part -> Nat] /\ "cli" \in Part
  BY ContentType DEF IInv, TypeOK, Doc, Part
<1>2. file' = [Content(file) EXCEPT !["cli"] = Content(file)["cli"] + 1]
  BY DEF Outside, OutsideWrites
<1>3. file' \in [Part -> Nat] /\ Content(file') = file'
  <2>1. Content(file)["cli"] + 1 \in Nat
    BY <1>1
  <2>2. file' \in [Part -> Nat]
    BY <1>1, <1>2, <2>1
  <2> QED
    BY <2>2, DocIsContent DEF Doc
<1>4. \A p \in Part \ {"cli"} : Content(file')[p] = Content(file)[p]
  BY <1>1, <1>2, <1>3
<1>5. Racing => Racing'
  <2> SUFFICES ASSUME Racing PROVE Racing'
    OBVIOUS
  <2>1. PICK w \in Writer : phase[w] = "write" /\ file # cur[w]
    BY DEF Racing
  <2>2. file \in Doc /\ file["cli"] > Content(cur[w])["cli"]
    BY <2>1 DEF IInv, Compared
  <2>3. Content(file)["cli"] = file["cli"]
    BY <2>2, DocIsContent
  <2>4. Content(cur[w]) \in [Part -> Nat]
    BY ContentType DEF IInv, TypeOK, Doc
  <2>5. file'["cli"] # Content(cur[w])["cli"]
    BY <1>1, <1>2, <2>2, <2>3, <2>4
  <2>6. file' # cur[w]
    BY <1>3, <2>5
  <2>7. phase' = phase /\ cur' = cur
    BY DEF Outside, OutsideWrites, coordinator
  <2> QED
    BY <2>1, <2>6, <2>7 DEF Racing
<1>6. putBack' = putBack
  BY DEF Outside, history
<1> QED
  BY <1>3, <1>4, <1>5, <1>6 DEF AbstractStep, Shared!Next, Shared!EditOutside, Shared!Changes

LEMMA StepRefines ==
  ASSUME IInv, [Next]_vars
  PROVE  AbstractStep
<1>1. ASSUME NEW w \in Writer, Step(w)
      PROVE  AbstractStep
  <2>1. CASE Transaction(w)
    BY <2>1, TransactionRefines
  <2>2. CASE w \in Launch /\ HideFails(w)
    BY <2>2, HideFailsRefines
  <2>3. CASE Snapshot(w) \/ NothingToUnset(w)
    BY <2>3 DEF Snapshot, NothingToUnset, coordinator, history, AbstractStep, Racing
  <2>4. CASE Call(w) \/ Undo(w)
    BY <2>4, AsideRefines DEF Call, Undo, Enqueue, history, IInv, TypeOK
  <2>5. CASE Materialized(w) \/ LostCas(w) \/ NotWritten(w) \/ Undone(w) \/ Reconciled(w)
    BY <2>5, AsideRefines DEF Materialized, LostCas, NotWritten, Undone, Reconciled, Settled, Taken, history, IInv, TypeOK
  <2> QED
    BY <1>1, <2>1, <2>2, <2>3, <2>4, <2>5 DEF Step, LaunchServed
<1>2. CASE \E l \in Launch, p \in 1 .. MaxPlan : Begin(l, p)
  BY <1>2 DEF Begin, coordinator, history, AbstractStep, Racing
<1>3. CASE \E r \in Row, v \in 0 .. MaxValue : Reconcile(r, v)
  BY <1>3 DEF Reconcile, coordinator, history, AbstractStep, Racing
<1>4. CASE Outside
  BY <1>4, OutsideRefines
<1>5. CASE UNCHANGED vars
  BY <1>5 DEF vars, coordinator, history, AbstractStep, Racing
<1> QED
  BY <1>1, <1>2, <1>3, <1>4, <1>5 DEF Next

\* The coordinator and its callers implement the register of parts: a write of one
\* costs no other its edit, but for the CLI's that races it and the counted undos.
THEOREM CoordinatorImplementsRegister == Spec => PartsAreSeparate
<1>1. Init => Shared!Init
  BY DEF Init, CoordinatorInit, Content, Blank, Racing, Shared!Init
<1>2. IInv /\ [Next]_vars => [Shared!Next]_(Shared!vars)
  BY StepRefines DEF AbstractStep, Shared!vars
<1> QED
  BY <1>1, <1>2, Inductive, PTL DEF Spec, PartsAreSeparate, Shared!Spec

----------------------------------------------------------------------------
\* Successes.  What a writer asked for is in the file from the rename, or from the
\* read that found it there, until its caller has taken the result; and from then the
\* memo is right for as long as nothing has moved the file.
Right(w) == robbed # {} \/ Content(file)[OwnPart(w)] = want[w]

RenamedRight == \A w \in Writer : phase[w] = "renamed" /\ pc[w] = "wait" => Right(w)

SettledRight ==
    \A w \in Writer : phase[w] = "settled" /\ pc[w] = "wait" /\ Succeeded(w) => Right(w)

ReadSame ==
    \A w \in Satisfied : robbed # {} \/ SameButCli(file, cur[w])

MemoTrue == robbed # {} \/ (memo # 0 /\ ~moved => Content(file)["plan"] = memo)

SInv == RenamedRight /\ SettledRight /\ ReadSame /\ MemoTrue

LEMMA OwnPartIs == ASSUME NEW w \in Writer PROVE OwnPart(w) \in Part \ {"cli"}
BY DEF OwnPart, Part

\* Steps that leave the file and every running transaction alone.
LEMMA AsideSuccess ==
  ASSUME IInv, SInv, NEW w \in Writer,
         UNCHANGED <<file, cur, result, robbed, moved>>,
         phase[w] = "none", phase'[w] \in {"none", "queued"},
         memo' \in {0, memo},
         \A v \in Writer \ {w} : /\ phase'[v] = phase[v] /\ req'[v] = req[v]
                                 /\ pc'[v] = pc[v] /\ want'[v] = want[v]
  PROVE  SInv'
<1>1. RenamedRight' /\ SettledRight'
  BY DEF SInv, RenamedRight, SettledRight, Right, Succeeded
<1>2. ReadSame'
  BY DEF SInv, ReadSame, Satisfied, SameButCli
<1>3. MemoTrue'
  BY DEF SInv, MemoTrue
<1> QED
  BY <1>1, <1>2, <1>3 DEF SInv

\* An edit that was found in the file is there.
LEMMA SameIsRight ==
  ASSUME IInv, SInv, NEW w \in Satisfied, pc[w] = "wait"
  PROVE  Right(w)
<1>1. w \in Writer /\ phase[w] = "read" /\ Verdict(req[w], cur[w]) = "same"
  BY DEF Satisfied
<1>2. req[w].part = OwnPart(w) /\ req[w].value = want[w]
  BY <1>1 DEF IInv, Shape
<1>3. OwnPart(w) \in Part /\ OwnPart(w) # "cli" /\ OwnPart(w) # "whole"
  BY DEF OwnPart, Part
<1>4. Transform(req[w], cur[w]) = cur[w]
  BY <1>1 DEF Verdict
<1>5. Content(cur[w]) \in [Part -> Nat]
  BY <1>1, ContentType DEF IInv, TypeOK, Doc
<1>6. cur[w] = [Content(cur[w]) EXCEPT ![OwnPart(w)] = want[w]]
  BY <1>2, <1>3, <1>4 DEF Transform
<1>7. cur[w] \in Doc
  BY <1>1, <1>4, TransformType DEF IInv, TypeOK
<1>8. Content(cur[w])[OwnPart(w)] = want[w]
  BY <1>3, <1>5, <1>6, <1>7, DocIsContent
<1> QED
  BY <1>3, <1>8 DEF SInv, ReadSame, Right, SameButCli

\* A rename makes its writer right, and nobody else has anything to be right about.
LEMMA RenameSuccess ==
  ASSUME IInv, SInv, NEW w \in Writer, Transaction(w), Rename(w)
  PROVE  SInv'
<1>1. phase[w] = "write" /\ phase' = [phase EXCEPT ![w] = "renamed"] /\ UNCHANGED <<req, cur, result, pc, want>>
  BY DEF Rename, Transaction, clients
<1>2. \A v \in Writer \ {w} : phase'[v] \notin Holding \cup {"settled"}
  BY <1>1 DEF Rename, Turn, IInv, TypeOK, Holder, Holding
<1>3. pc[w] = "wait" => Right(w)'
  <2> SUFFICES ASSUME pc[w] = "wait" PROVE Content(file')[OwnPart(w)] = want[w]
    BY <1>1 DEF Right, OwnPart
  <2>1. req[w].part = OwnPart(w) /\ req[w].value = want[w] /\ OwnPart(w) \in Part /\ OwnPart(w) # "whole"
    BY <1>1 DEF IInv, Shape, OwnPart, Part
  <2>2. file' = [Content(cur[w]) EXCEPT ![OwnPart(w)] = want[w]]
    BY <2>1 DEF Rename, Transform
  <2>3. Content(cur[w]) \in [Part -> Nat] /\ want[w] \in Nat
    BY ContentType DEF IInv, TypeOK, Doc
  <2>4. file' \in Doc
    BY <2>1, <2>2, <2>3 DEF Doc
  <2> QED
    BY <2>1, <2>2, <2>3, <2>4, DocIsContent
<1>4. RenamedRight' /\ SettledRight' /\ ReadSame'
  BY <1>1, <1>2, <1>3 DEF RenamedRight, SettledRight, ReadSame, Satisfied, Holding, IInv, TypeOK
<1>5. MemoTrue'
  <2>1. robbed \subseteq robbed' /\ memo' = memo /\ moved' = (moved \/ file' # file)
    BY DEF Transaction, Moves
  <2> QED
    BY <2>1 DEF SInv, MemoTrue
<1> QED
  BY <1>4, <1>5 DEF SInv

LEMMA TransactionSuccess ==
  ASSUME IInv, SInv, NEW w \in Writer, Transaction(w)
  PROVE  SInv'
<1>1. CASE Rename(w)
  BY <1>1, RenameSuccess
<1> SUFFICES ASSUME ~Rename(w) PROVE SInv'
  BY <1>1
<1>2. UNCHANGED <<file, req, pc, want, memo, moved, robbed>>
  <2>1. file' = file /\ req' = req
    BY DEF Transaction, Transact, ReadCurrent, Decide, Reread, Renamed, Fail, Settle
  <2> QED
    BY <2>1 DEF Transaction, clients, Undoes, Moves, IInv, TypeOK
<1>3. \A v \in Writer \ {w} : phase'[v] = phase[v] /\ cur'[v] = cur[v] /\ result'[v] = result[v]
  BY DEF Transaction, Transact, ReadCurrent, Decide, Reread, Renamed, Fail, Settle, IInv, TypeOK
<1>4. phase'[w] # "renamed" /\ (phase'[w] = "read" => cur'[w] = file')
  BY DEF Transaction, Transact, ReadCurrent, Decide, Reread, Renamed, Fail, Settle, IInv, TypeOK
<1>5. phase'[w] = "settled" /\ Succeeded(w)' => w \in Satisfied \/ phase[w] = "renamed"
  BY DEF Transaction, Transact, ReadCurrent, Decide, Reread, Renamed, Fail, Settle, Succeeded,
         Satisfied, IInv, TypeOK, Verdict
<1>6. RenamedRight'
  BY <1>2, <1>3, <1>4 DEF SInv, RenamedRight, Right, OwnPart
<1>7. SettledRight'
  <2> SUFFICES ASSUME NEW v \in Writer, phase'[v] = "settled", pc[v] = "wait", Succeeded(v)'
               PROVE  Right(v)
    BY <1>2 DEF SettledRight, Right, OwnPart
  <2>1. CASE v = w
    BY <1>5, <2>1, SameIsRight DEF SInv, RenamedRight
  <2>2. CASE v # w
    BY <1>3, <2>2 DEF SInv, SettledRight, Succeeded
  <2> QED
    BY <2>1, <2>2
<1>8. ReadSame'
  BY <1>2, <1>3, <1>4 DEF SInv, ReadSame, Satisfied, SameButCli
<1>9. MemoTrue'
  BY <1>2 DEF SInv, MemoTrue
<1> QED
  BY <1>6, <1>7, <1>8, <1>9 DEF SInv

\* A caller takes its result: the file stays, or its creator removes it.
LEMMA TakenSuccess ==
  ASSUME IInv, SInv, NEW w \in Writer, Settled(w),
         \A v \in Writer \ {w} : pc'[v] = pc[v],
         want' = want,
         UNCHANGED <<file, robbed>> \/ robbed' = robbed \cup Satisfied,
         MemoTrue'
  PROVE  SInv'
<1>1. /\ phase' = [phase EXCEPT ![w] = "none"] /\ req' = [req EXCEPT ![w] = NoRequest]
      /\ cur' = [cur EXCEPT ![w] = Absent] /\ phase[w] = "settled"
  BY DEF Settled, Taken
<1>2. \A v \in Writer : phase'[v] \notin {"renamed", "settled"}
  BY <1>1 DEF IInv, TypeOK, SettledAlone
<1>3. ReadSame'
  <2> SUFFICES ASSUME NEW v \in Satisfied' PROVE robbed' # {} \/ SameButCli(file', cur'[v])
    BY DEF ReadSame
  <2>1. v \in Satisfied /\ cur'[v] = cur[v]
    BY <1>1 DEF Satisfied, IInv, TypeOK
  <2> QED
    BY <2>1 DEF SInv, ReadSame, SameButCli
<1> QED
  BY <1>2, <1>3 DEF SInv, RenamedRight, SettledRight

LEMMA LaunchServedSuccess ==
  ASSUME IInv, SInv, NEW l \in Launch, LaunchServed(l)
  PROVE  SInv'
<1> USE DEF Goto
<1>1. l \in Writer
  BY WriterAssumption
<1>2. CASE Materialized(l)
  <2>1. Right(l) /\ OwnPart(l) = "plan"
    BY <1>1, <1>2 DEF Materialized, Settled, SInv, SettledRight, OwnPart
  <2>2. MemoTrue'
    BY <1>2, <2>1 DEF Materialized, Right, MemoTrue, history
  <2> QED
    BY <1>1, <1>2, <2>2, TakenSuccess DEF Materialized, history, IInv, TypeOK
<1>3. CASE HideFails(l)
  <2>1. MemoTrue'
    BY <1>3 DEF HideFails, MemoTrue
  <2>2. UNCHANGED <<file, robbed>> \/ robbed' = robbed \cup Satisfied
    BY <1>3 DEF HideFails
  <2> QED
    BY <1>1, <1>3, <2>1, <2>2, TakenSuccess DEF HideFails, IInv, TypeOK
<1>4. CASE LostCas(l)
  <2>1. MemoTrue'
    BY <1>4 DEF LostCas, SInv, MemoTrue, history
  <2> QED
    BY <1>1, <1>4, <2>1, TakenSuccess DEF LostCas, history, IInv, TypeOK
<1>5. CASE NotWritten(l)
  <2>1. MemoTrue'
    BY <1>5 DEF NotWritten, MemoTrue
  <2> QED
    BY <1>1, <1>5, <2>1, TakenSuccess DEF NotWritten, history, IInv, TypeOK
<1>6. CASE Undone(l)
  <2>1. MemoTrue'
    BY <1>6 DEF Undone, SInv, MemoTrue
  <2> QED
    BY <1>1, <1>6, <2>1, TakenSuccess DEF Undone, IInv, TypeOK
<1> QED
  BY <1>2, <1>3, <1>4, <1>5, <1>6 DEF LaunchServed

LEMMA OutsideSuccess ==
  ASSUME IInv, SInv, Outside
  PROVE  SInv'
<1>1. UNCHANGED <<phase, req, cur, result, pc, want, memo, robbed>> /\ moved' = (moved \/ file' # file)
  BY DEF Outside, OutsideWrites, Moves, coordinator, clients, history
<1>2. \A p \in Part \ {"cli"} : Content(file')[p] = Content(file)[p]
  <2>1. Content(file) \in [Part -> Nat] /\ Content(file)["cli"] + 1 \in Nat
    BY ContentType DEF IInv, TypeOK, Doc, Part
  <2>2. file' = [Content(file) EXCEPT !["cli"] = Content(file)["cli"] + 1]
    BY DEF Outside, OutsideWrites
  <2>3. file' \in Doc
    BY <2>1, <2>2 DEF Doc
  <2> QED
    BY <2>1, <2>2, <2>3, DocIsContent
<1>3. \A w \in Writer : Right(w)' <=> Right(w)
  BY <1>1, <1>2, OwnPartIs DEF Right, OwnPart
<1>4. RenamedRight' /\ SettledRight'
  BY <1>1, <1>3 DEF SInv, RenamedRight, SettledRight, Succeeded
<1>5. ReadSame'
  BY <1>1, <1>2 DEF SInv, ReadSame, Satisfied, SameButCli
<1>6. MemoTrue'
  BY <1>1, <1>2 DEF SInv, MemoTrue, Part
<1> QED
  BY <1>4, <1>5, <1>6 DEF SInv

LEMMA StepSuccess ==
  ASSUME IInv, SInv, [Next]_vars
  PROVE  SInv'
<1> USE DEF Goto
<1>1. ASSUME NEW l \in Launch, NEW p \in 1 .. MaxPlan, Begin(l, p)
      PROVE  SInv'
  <2>1. l \in Writer /\ phase[l] = "none"
    BY <1>1, WriterAssumption DEF Begin, IInv, Shape
  <2>2. UNCHANGED <<file, coordinator, robbed, moved>> /\ memo' \in {0, memo}
    BY <1>1 DEF Begin, history
  <2>3. \A v \in Writer \ {l} : pc'[v] = pc[v] /\ want'[v] = want[v]
    BY <1>1 DEF Begin, IInv, TypeOK
  <2> QED
    BY <2>1, <2>2, <2>3, AsideSuccess DEF coordinator
<1>2. ASSUME NEW r \in Row, NEW v \in 0 .. MaxValue, Reconcile(r, v)
      PROVE  SInv'
  <2>1. r \in Writer /\ phase[r] = "none"
    BY <1>2, WriterAssumption DEF Reconcile, IInv, Shape
  <2>2. UNCHANGED <<file, coordinator, memo, moved, robbed>>
    BY <1>2 DEF Reconcile, history
  <2>3. \A u \in Writer \ {r} : pc'[u] = pc[u] /\ want'[u] = want[u]
    BY <1>2 DEF Reconcile, IInv, TypeOK
  <2> QED
    BY <2>1, <2>2, <2>3, AsideSuccess DEF coordinator
<1>3. ASSUME NEW w \in Writer, Step(w)
      PROVE  SInv'
  <2>1. CASE Snapshot(w) \/ NothingToUnset(w)
    <3>1. phase[w] = "none"
      BY <2>1 DEF Snapshot, NothingToUnset, IInv, Shape
    <3>2. UNCHANGED <<file, coordinator, want, memo, moved, robbed>>
      BY <2>1 DEF Snapshot, NothingToUnset, history
    <3>3. \A v \in Writer \ {w} : pc'[v] = pc[v]
      BY <2>1 DEF Snapshot, NothingToUnset, IInv, TypeOK
    <3> QED
      BY <3>1, <3>2, <3>3, AsideSuccess DEF coordinator
  <2>2. CASE Call(w) \/ Undo(w)
    BY <2>2, AsideSuccess DEF Call, Undo, Enqueue, history, IInv, TypeOK
  <2>3. CASE Transaction(w)
    BY <2>3, TransactionSuccess
  <2>4. CASE w \in Launch /\ LaunchServed(w)
    BY <2>4, LaunchServedSuccess
  <2>5. CASE Reconciled(w)
    <3>1. MemoTrue'
      BY <2>5 DEF Reconciled, SInv, MemoTrue, history
    <3> QED
      BY <2>5, <3>1, TakenSuccess DEF Reconciled, history, IInv, TypeOK
  <2> QED
    BY <1>3, <2>1, <2>2, <2>3, <2>4, <2>5 DEF Step
<1>4. CASE Outside
  BY <1>4, OutsideSuccess
<1>5. CASE UNCHANGED vars
  BY <1>5 DEF vars, coordinator, clients, history, SInv, RenamedRight, SettledRight, ReadSame, MemoTrue,
              Right, OwnPart, Satisfied, Succeeded, SameButCli
<1> QED
  BY <1>1, <1>2, <1>3, <1>4, <1>5 DEF Next

\* Whoever is told of a success has it on disk, unless an undo has taken it out.
ToldRight ==
    \A w \in Writer : pc[w] # "ok" /\ pc'[w] = "ok" =>
        robbed # {} \/ Content(file')[OwnPart(w)] = want'[w]

LEMMA StepTold ==
  ASSUME IInv, SInv, [Next]_vars
  PROVE  ToldRight
<1> USE DEF Goto
<1> SUFFICES ASSUME NEW w \in Writer, pc[w] # "ok", pc'[w] = "ok"
             PROVE  robbed # {} \/ Content(file')[OwnPart(w)] = want'[w]
  BY DEF ToldRight
<1>1. ASSUME NEW l \in Launch, NEW p \in 1 .. MaxPlan, Begin(l, p)
      PROVE  robbed # {} \/ Content(file')[OwnPart(w)] = want'[w]
  <2>1. w = l /\ file' = file /\ want'[l] = p
    BY <1>1, WriterAssumption DEF Begin, IInv, TypeOK
  <2>2. MemoHolds(p)
    BY <1>1, <2>1 DEF Begin, IInv, TypeOK
  <2> QED
    BY <2>1, <2>2, ValueAssumption DEF MemoHolds, SInv, MemoTrue, OwnPart
<1>2. ASSUME NEW r \in Row, NEW v \in 0 .. MaxValue, Reconcile(r, v)
      PROVE  FALSE
  BY <1>2 DEF Reconcile, IInv, TypeOK
<1>3. ASSUME NEW v \in Writer, Step(v)
      PROVE  robbed # {} \/ Content(file')[OwnPart(w)] = want'[w]
  <2>1. CASE Snapshot(v) \/ Call(v) \/ Undo(v) \/ Transaction(v)
    BY <2>1 DEF Snapshot, Call, Undo, Transaction, clients, IInv, TypeOK
  <2>2. CASE HideFails(v) \/ LostCas(v) \/ NotWritten(v) \/ Undone(v)
    BY <2>2 DEF HideFails, LostCas, NotWritten, Undone, IInv, TypeOK
  <2>3. CASE Materialized(v) \/ Reconciled(v)
    <3>1. v = w /\ file' = file /\ want' = want /\ phase[v] = "settled" /\ pc[v] = "wait" /\ Succeeded(v)
      BY <2>3 DEF Materialized, Reconciled, Settled, IInv, TypeOK
    <3> QED
      BY <3>1 DEF SInv, SettledRight, Right
  <2>4. CASE v \in Row /\ NothingToUnset(v)
    <3>1. v = w /\ file' = Absent /\ want'[v] = 0
      BY <2>4 DEF NothingToUnset, IInv, TypeOK
    <3> QED
      BY <3>1, OwnPartIs DEF Content, Blank
  <2> QED
    BY <1>3, <2>1, <2>2, <2>3, <2>4 DEF Step, LaunchServed
<1>4. CASE Outside \/ UNCHANGED vars
  BY <1>4 DEF Outside, vars, clients
<1> QED
  BY <1>1, <1>2, <1>3, <1>4 DEF Next

LEMMA InitSuccess == Init => SInv
BY DEF Init, CoordinatorInit, SInv, RenamedRight, SettledRight, ReadSame, Satisfied, MemoTrue

\* A launch told that its plan is materialized and a row told that it is synced have
\* it in the file at that moment, whatever the other writers and the CLI do.
THEOREM SuccessesAreOnDisk == Spec => SuccessIsOnDisk
<1>1. IInv /\ SInv /\ [Next]_vars => SInv'
  BY StepSuccess
<1>2. IInv /\ SInv /\ [Next]_vars => ToldRight
  BY StepTold
<1>3. ToldRight => [\A w \in Writer : pc[w] # "ok" /\ pc'[w] = "ok" =>
                        robbed # {} \/ Content(file')[OwnPart(w)] = want'[w]]_vars
  BY DEF ToldRight
<1> QED
  BY <1>1, <1>2, <1>3, InitSuccess, Inductive, PTL DEF Spec, SuccessIsOnDisk

----------------------------------------------------------------------------
\* Plans.  A launch that has written its plan accounts for it until it has told its
\* caller, or has put back what it found.
PlanOf(f) == Content(f)["plan"]
Base      == IF Granted = {} THEN {0} ELSE Granted

Wrote(w) == phase[w] = "renamed" \/ (phase[w] = "settled" /\ result[w] = "changed")

Written(l) ==
    \/ pc[l] = "wait" /\ Wrote(l)
    \/ pc[l] = "undo"
    \/ pc[l] = "undoing" /\ phase[l] # "renamed" /\ ~(phase[l] = "settled" /\ Succeeded(l))

\* Plans have a number, settings are not undone, and a call expects what its caller
\* has read.
Planned   == \A l \in Launch : pc[l] # "idle" => want[l] # 0
OnlyPlansUndone == \A w \in Writer : pc[w] \in {"undo", "undoing"} => w \in Launch
Expecting == \A w \in Writer : pc[w] = "wait" /\ phase[w] # "none" => req[w].expect = snap[w]

\* Who goes on past the first comparison has found what its caller has read.
FoundAsRead ==
    \A w \in Writer :
        /\ pc[w] = "wait"
        /\ phase[w] \in {"reread", "write"} \/ Wrote(w)
        => cur[w] = snap[w]

\* A transaction that found no file writes the first plan, if there is one.
NoFileNoPlan ==
    \A w \in Writer : cur[w] = Absent =>
        /\ phase[w] \in {"read", "reread", "write"} => PlanOf(file) = 0
        /\ phase[w] = "renamed" => PlanOf(file) = 0 \/ moved

\* Once a launch has its plan, the file stays, and nobody works on the lack of it.
FileStays ==
    Granted # {} =>
        /\ file # Absent
        /\ \A w \in Writer : phase[w] \in Holding \cup {"settled"} => cur[w] # Absent

\* The plan in the file is a launch's that has it, or else a launch that is not done
\* found one of those there.
Accounted ==
    \/ PlanOf(file) \in Base
    \/ \E l \in Launch : Written(l) /\ want[l] \notin Base /\ PlanOf(snap[l]) \in Base

PInv ==
    /\ Planned /\ OnlyPlansUndone /\ Expecting /\ FoundAsRead /\ NoFileNoPlan
    /\ Orderly => FileStays /\ Accounted

LEMMA WritersAre == \A w \in Writer : w \in Launch \/ w \in Row
BY WriterAssumption

LEMMA LaunchesAre == Launch \subseteq Writer /\ \A l \in Launch : l \notin Row
BY WriterAssumption

LEMMA PlanType == ASSUME NEW f \in File PROVE PlanOf(f) \in Nat
BY ContentType DEF PlanOf, Doc, Part

LEMMA NoFileIsBlank == PlanOf(Absent) = 0
BY DEF PlanOf, Content, Blank, Part

LEMMA DocPlan == ASSUME NEW d \in Doc PROVE PlanOf(d) = d["plan"] /\ d # Absent
BY DocIsContent, AbsentAssumption DEF PlanOf

\* The CLI's writes and the other writers' parts are not the plan.
LEMMA OutsideKeepsPlan ==
  ASSUME TypeOK, OutsideWrites
  PROVE  PlanOf(file') = PlanOf(file) /\ file' \in Doc
<1>1. Content(file) \in [Part -> Nat] /\ Content(file)["cli"] + 1 \in Nat
  BY ContentType DEF TypeOK, Doc, Part
<1>2. file' = [Content(file) EXCEPT !["cli"] = Content(file)["cli"] + 1]
  BY DEF OutsideWrites
<1>3. file' \in Doc /\ file'["plan"] = Content(file)["plan"]
  BY <1>1, <1>2 DEF Doc, Part
<1> QED
  BY <1>3, DocPlan DEF PlanOf

\* A transaction does not change its caller, nor anybody else's transaction.
LEMMA TransactionFrame ==
  ASSUME IInv, NEW w \in Writer, Transaction(w)
  PROVE  /\ UNCHANGED <<pc, want, snap, req, memo, leftover>>
         /\ phase[w] # "none" /\ phase[w] # "settled"
         /\ \A v \in Writer \ {w} : phase'[v] = phase[v] /\ cur'[v] = cur[v] /\ result'[v] = result[v]
<1>1. UNCHANGED <<pc, want, snap, memo, leftover>>
  BY DEF Transaction, clients
<1>2. req' = req /\ phase[w] # "none" /\ phase[w] # "settled"
  BY DEF Transaction, Transact, ReadCurrent, Decide, Reread, Rename, Renamed, Fail, Settle
<1>3. \A v \in Writer \ {w} : phase'[v] = phase[v] /\ cur'[v] = cur[v] /\ result'[v] = result[v]
  BY DEF Transaction, Transact, ReadCurrent, Decide, Reread, Rename, Renamed, Fail, Settle, IInv, TypeOK
<1> QED
  BY <1>1, <1>2, <1>3

\* Its phases.
LEMMA TransactionPhases ==
  ASSUME IInv, NEW w \in Writer, Transaction(w), ~Rename(w)
  PROVE  /\ file' = file
         /\ \/ phase[w] = "queued" /\ phase'[w] = "read" /\ cur'[w] = file
            \/ /\ phase[w] = "read" /\ phase'[w] = "reread" /\ cur'[w] = cur[w]
               /\ Verdict(req[w], cur[w]) = "go"
            \/ phase[w] = "reread" /\ phase'[w] = "write" /\ cur'[w] = cur[w]
            \/ phase[w] = "renamed" /\ phase'[w] = "settled" /\ result'[w] = "changed" /\ cur'[w] = cur[w]
            \/ w \in Satisfied /\ phase'[w] = "settled" /\ result'[w] = "same" /\ cur'[w] = cur[w]
            \/ /\ phase[w] \in {"read", "reread", "write"} /\ phase'[w] = "settled"
               /\ result'[w] \in {"conflict", "failed"} /\ cur'[w] = cur[w]
<1>1. CASE ReadCurrent(w)
  BY <1>1 DEF ReadCurrent, IInv, TypeOK
<1>2. CASE Decide(w)
  BY <1>2 DEF Decide, Settle, Satisfied, Verdict, IInv, TypeOK
<1>3. CASE Reread(w)
  BY <1>3 DEF Reread, Settle, IInv, TypeOK
<1>4. CASE Renamed(w)
  BY <1>4 DEF Renamed, Settle, IInv, TypeOK
<1>5. CASE Fail(w)
  BY <1>5 DEF Fail, Settle, IInv, TypeOK
<1> QED
  BY <1>1, <1>2, <1>3, <1>4, <1>5 DEF Transaction, Transact

\* A caller that takes its result has no transaction any more.
LEMMA TakenFrame ==
  ASSUME IInv, NEW w \in Writer, Settled(w)
  PROVE  /\ phase[w] = "settled" /\ phase'[w] = "none"
         /\ \A v \in Writer \ {w} : /\ phase'[v] = phase[v] /\ cur'[v] = cur[v]
                                    /\ result'[v] = result[v] /\ req'[v] = req[v]
                                    /\ phase[v] \in {"none", "queued", "read"}
BY DEF Settled, Taken, IInv, TypeOK, SettledAlone

\* What the rename of an undo does to the file.
LEMMA UndoIs ==
  ASSUME IInv, NEW w \in Writer, Rename(w), pc[w] = "undoing"
  PROVE  file' = snap[w] /\ snap[w] \in Doc
BY DEF Rename, IInv, Shape, Transform

----------------------------------------------------------------------------
Books == Planned /\ OnlyPlansUndone /\ Expecting /\ FoundAsRead /\ NoFileNoPlan

\* Steps that leave the file and every running transaction alone.
LEMMA AsideBooks ==
  ASSUME IInv, Books, NEW w \in Writer,
         UNCHANGED <<file, cur, result, moved>>,
         phase[w] = "none", phase'[w] \in {"none", "queued"},
         phase'[w] = "queued" /\ pc'[w] = "wait" => req'[w].expect = snap'[w],
         w \in Launch /\ pc'[w] # "idle" => want'[w] # 0,
         pc'[w] \in {"undo", "undoing"} => w \in Launch,
         \A v \in Writer \ {w} : /\ phase'[v] = phase[v] /\ req'[v] = req[v] /\ snap'[v] = snap[v]
                                 /\ pc'[v] = pc[v] /\ want'[v] = want[v]
  PROVE  Books'
<1>1. Planned' /\ OnlyPlansUndone'
  BY LaunchesAre DEF Books, Planned, OnlyPlansUndone
<1>2. Expecting'
  BY DEF Books, Expecting
<1>3. FoundAsRead'
  BY DEF Books, FoundAsRead, Wrote
<1>4. NoFileNoPlan'
  BY DEF Books, NoFileNoPlan
<1> QED
  BY <1>1, <1>2, <1>3, <1>4 DEF Books

\* Who goes on past the first comparison found what was expected.
LEMMA GoIsExpected ==
  ASSUME IInv, Books, NEW w \in Writer, phase[w] = "read", pc[w] = "wait",
         Verdict(req[w], cur[w]) = "go"
  PROVE  cur[w] = snap[w]
<1>1. req[w].expect = snap[w]
  BY DEF Books, Expecting
<1>2. req[w].expect \in {AnyHash, cur[w]}
  BY DEF Verdict
<1>3. snap[w] # AnyHash
  BY AbsentAssumption DEF IInv, TypeOK
<1> QED
  BY <1>1, <1>2, <1>3

LEMMA RenameBooks ==
  ASSUME IInv, Books, NEW w \in Writer, Transaction(w), Rename(w)
  PROVE  Books'
<1>1. /\ phase[w] = "write" /\ phase' = [phase EXCEPT ![w] = "renamed"]
      /\ UNCHANGED <<req, cur, result, pc, want, snap>>
  BY TransactionFrame DEF Rename
<1>2. \A v \in Writer \ {w} : phase'[v] \notin Holding \cup {"settled"}
  BY <1>1 DEF Rename, Turn, IInv, TypeOK, Holder, Holding
<1>3. Planned' /\ OnlyPlansUndone' /\ Expecting'
  BY <1>1 DEF Books, Planned, OnlyPlansUndone, Expecting, IInv, TypeOK
<1>4. FoundAsRead'
  BY <1>1, <1>2 DEF Books, FoundAsRead, Wrote, Holding, IInv, TypeOK
<1>5. NoFileNoPlan'
  <2>1. cur[w] = Absent => PlanOf(file) = 0
    BY <1>1 DEF Books, NoFileNoPlan
  <2>2. moved' = (moved \/ file' # file)
    BY DEF Transaction, Moves
  <2>3. cur'[w] = Absent => PlanOf(file') = 0 \/ moved'
    BY <1>1, <2>1, <2>2
  <2> QED
    BY <1>1, <1>2, <2>3 DEF NoFileNoPlan, Holding, IInv, TypeOK
<1> QED
  BY <1>3, <1>4, <1>5 DEF Books

LEMMA TransactionBooks ==
  ASSUME IInv, Books, NEW w \in Writer, Transaction(w)
  PROVE  Books'
<1>1. CASE Rename(w)
  BY <1>1, RenameBooks
<1> SUFFICES ASSUME ~Rename(w) PROVE Books'
  BY <1>1
<1>2. UNCHANGED <<pc, want, snap, req, moved>>
  BY TransactionFrame, TransactionPhases DEF Transaction, Moves, IInv, TypeOK
<1>3. Planned' /\ OnlyPlansUndone' /\ Expecting'
  BY <1>2, TransactionFrame DEF Books, Planned, OnlyPlansUndone, Expecting
<1>4. FoundAsRead'
  <2> SUFFICES ASSUME NEW v \in Writer, pc[v] = "wait",
                      phase'[v] \in {"reread", "write"} \/ Wrote(v)'
               PROVE  cur'[v] = snap[v]
    BY <1>2 DEF FoundAsRead
  <2>1. CASE v # w
    BY <2>1, TransactionFrame DEF Books, FoundAsRead, Wrote
  <2>2. CASE v = w
    BY <2>2, TransactionPhases, GoIsExpected DEF Books, FoundAsRead, Wrote
  <2> QED
    BY <2>1, <2>2
<1>5. NoFileNoPlan'
  <2> SUFFICES ASSUME NEW v \in Writer, cur'[v] = Absent
               PROVE  /\ phase'[v] \in {"read", "reread", "write"} => PlanOf(file') = 0
                      /\ phase'[v] = "renamed" => PlanOf(file') = 0 \/ moved'
    BY DEF NoFileNoPlan
  <2>1. CASE v # w
    BY <1>2, <2>1, TransactionFrame, TransactionPhases DEF Books, NoFileNoPlan
  <2>2. CASE v = w
    BY <1>2, <2>2, TransactionPhases, NoFileIsBlank DEF Books, NoFileNoPlan
  <2> QED
    BY <2>1, <2>2
<1> QED
  BY <1>3, <1>4, <1>5 DEF Books

\* A caller takes its result: the file stays, or its creator removes it.
LEMMA TakenBooks ==
  ASSUME IInv, Books, NEW w \in Writer, Settled(w), pc[w] # "idle",
         UNCHANGED file \/ file' = Absent,
         UNCHANGED <<want, snap>>,
         pc'[w] \in {"undo", "undoing"} => w \in Launch,
         \A v \in Writer \ {w} : pc'[v] = pc[v]
  PROVE  Books'
<1>1. Planned' /\ OnlyPlansUndone'
  BY LaunchesAre DEF Books, Planned, OnlyPlansUndone
<1>2. Expecting'
  BY TakenFrame DEF Books, Expecting
<1>3. FoundAsRead'
  BY TakenFrame DEF FoundAsRead, Wrote
<1>4. NoFileNoPlan'
  BY TakenFrame, NoFileIsBlank DEF Books, NoFileNoPlan
<1> QED
  BY <1>1, <1>2, <1>3, <1>4 DEF Books

LEMMA OutsideBooks ==
  ASSUME IInv, Books, Outside
  PROVE  Books'
<1>1. UNCHANGED <<phase, req, cur, result, pc, want, snap>> /\ moved' = (moved \/ file' # file)
  BY DEF Outside, OutsideWrites, Moves, coordinator, clients
<1>2. PlanOf(file') = PlanOf(file)
  BY OutsideKeepsPlan DEF Outside, IInv
<1> QED
  BY <1>1, <1>2 DEF Books, Planned, OnlyPlansUndone, Expecting, FoundAsRead, Wrote, NoFileNoPlan

LEMMA StepBooks ==
  ASSUME IInv, Books, [Next]_vars
  PROVE  Books'
<1> USE DEF Goto
<1>1. ASSUME NEW l \in Launch, NEW p \in 1 .. MaxPlan, Begin(l, p)
      PROVE  Books'
  <2>1. l \in Writer /\ phase[l] = "none" /\ p # 0
    BY <1>1, LaunchesAre, ValueAssumption DEF Begin, IInv, Shape
  <2>2. UNCHANGED <<file, coordinator, snap, moved>> /\ want'[l] = p
    BY <1>1, <2>1 DEF Begin, IInv, TypeOK
  <2>3. \A v \in Writer \ {l} : pc'[v] = pc[v] /\ want'[v] = want[v]
    BY <1>1 DEF Begin, IInv, TypeOK
  <2> QED
    BY <2>1, <2>2, <2>3, AsideBooks DEF coordinator
<1>2. ASSUME NEW r \in Row, NEW v \in 0 .. MaxValue, Reconcile(r, v)
      PROVE  Books'
  <2>1. r \in Writer /\ r \notin Launch /\ phase[r] = "none"
    BY <1>2, WriterAssumption DEF Reconcile, IInv, Shape
  <2>2. UNCHANGED <<file, coordinator, snap, moved>>
    BY <1>2 DEF Reconcile
  <2>3. pc'[r] = "read" /\ \A u \in Writer \ {r} : pc'[u] = pc[u] /\ want'[u] = want[u]
    BY <1>2, <2>1 DEF Reconcile, IInv, TypeOK
  <2> QED
    BY <2>1, <2>2, <2>3, AsideBooks DEF coordinator
<1>3. ASSUME NEW w \in Writer, Step(w)
      PROVE  Books'
  <2>1. CASE Snapshot(w) \/ NothingToUnset(w)
    <3>1. phase[w] = "none" /\ pc[w] = "read"
      BY <2>1 DEF Snapshot, NothingToUnset, IInv, Shape
    <3>2. UNCHANGED <<file, coordinator, want, moved>>
      BY <2>1 DEF Snapshot, NothingToUnset
    <3>3. pc'[w] \in {"call", "ok"} /\ \A v \in Writer \ {w} : pc'[v] = pc[v] /\ snap'[v] = snap[v]
      BY <2>1 DEF Snapshot, NothingToUnset, IInv, TypeOK
    <3>4. w \in Launch => want[w] # 0
      BY <3>1 DEF Books, Planned
    <3> QED
      BY <3>1, <3>2, <3>3, <3>4, AsideBooks DEF coordinator
  <2>2. CASE Call(w) \/ (w \in Launch /\ Undo(w))
    <3>1. phase[w] = "none" /\ pc[w] # "idle" /\ phase' = [phase EXCEPT ![w] = "queued"]
      BY <2>2 DEF Call, Undo, Enqueue
    <3>2. UNCHANGED <<file, want, snap, moved, cur, result>>
      BY <2>2 DEF Call, Undo, Enqueue
    <3>3. \A v \in Writer \ {w} : phase'[v] = phase[v] /\ pc'[v] = pc[v] /\ req'[v] = req[v]
      BY <2>2 DEF Call, Undo, Enqueue, IInv, TypeOK
    <3>4. pc'[w] = "wait" => req'[w].expect = snap[w]
      BY <2>2 DEF Call, Undo, Enqueue, SetPart, IInv, TypeOK
    <3>5. w \in Launch => want[w] # 0
      BY <3>1 DEF Books, Planned
    <3>6. phase'[w] = "queued" /\ (pc'[w] = "wait" \/ w \in Launch)
      BY <2>2, <3>1 DEF Call, IInv, TypeOK
    <3> QED
      BY <3>1, <3>2, <3>3, <3>4, <3>5, <3>6, AsideBooks
  <2>3. CASE Transaction(w)
    BY <2>3, TransactionBooks
  <2>4. CASE (w \in Launch /\ LaunchServed(w)) \/ Reconciled(w)
    <3>1. Settled(w) /\ pc[w] # "idle" /\ UNCHANGED <<want, snap>>
      BY <2>4 DEF LaunchServed, Materialized, HideFails, LostCas, NotWritten, Undone, Reconciled
    <3>2. UNCHANGED file \/ file' = Absent
      BY <2>4 DEF LaunchServed, Materialized, HideFails, LostCas, NotWritten, Undone, Reconciled
    <3>3. \A v \in Writer \ {w} : pc'[v] = pc[v]
      BY <2>4 DEF LaunchServed, Materialized, HideFails, LostCas, NotWritten, Undone, Reconciled, IInv, TypeOK
    <3>4. pc'[w] \in {"undo", "undoing"} => w \in Launch
      BY <2>4 DEF Reconciled, IInv, TypeOK
    <3> QED
      BY <3>1, <3>2, <3>3, <3>4, TakenBooks
  <2> QED
    BY <1>3, <2>1, <2>2, <2>3, <2>4 DEF Step
<1>4. CASE Outside
  BY <1>4, OutsideBooks
<1>5. CASE UNCHANGED vars
  BY <1>5 DEF vars, coordinator, clients, Books, Planned, OnlyPlansUndone, Expecting, FoundAsRead, Wrote, NoFileNoPlan
<1> QED
  BY <1>1, <1>2, <1>3, <1>4, <1>5 DEF Next

----------------------------------------------------------------------------
\* A launch is told that it has its plan, or nobody is.
Tells(l) ==
    /\ pc[l] # "ok" /\ pc'[l] = "ok"
    /\ UNCHANGED file
    /\ \A k \in Launch \ {l} : pc'[k] = pc[k] /\ want'[k] = want[k]

TellsNobody ==
    \A l \in Launch : /\ pc'[l] = "ok" <=> pc[l] = "ok"
                      /\ pc[l] = "ok" => want'[l] = want[l]

LEMMA GrantsKept == ASSUME TellsNobody PROVE Granted' = Granted /\ Base' = Base
<1>1. Granted' = Granted
  BY DEF TellsNobody, Granted
<1> QED
  BY <1>1 DEF Base

LEMMA GrantAdds ==
  ASSUME NEW l \in Launch, Tells(l)
  PROVE  Base' = Granted \cup {want'[l]}
<1>1. Granted' = Granted \cup {want'[l]}
  BY DEF Tells, Granted
<1> QED
  BY <1>1 DEF Base

\* What has gone wrong stays wrong.
LEMMA OrderlyBefore ==
  ASSUME IInv, [Next]_vars, Orderly'
  PROVE  Orderly
<1>1. putBack' >= putBack /\ leftover \subseteq leftover' /\ robbed \subseteq robbed'
  <2>1. ASSUME NEW w \in Writer, Step(w)
        PROVE  putBack' >= putBack /\ leftover \subseteq leftover' /\ robbed \subseteq robbed'
    BY <2>1 DEF Step, LaunchServed, Snapshot, Call, Transaction, Materialized, HideFails, LostCas,
                NotWritten, Undone, Undo, NothingToUnset, Reconciled, history, IInv, TypeOK
  <2> QED
    BY <2>1 DEF Next, Begin, Reconcile, Outside, vars, history, IInv, TypeOK
<1> QED
  BY <1>1 DEF Orderly, IInv, TypeOK

\* A launch is told only of what is there, and nobody works on the lack of a file.
LEMMA TellsTrue ==
  ASSUME IInv, SInv, Books, Orderly, NEW l \in Launch,
         \/ \E p \in 1 .. MaxPlan : Begin(l, p) /\ pc'[l] = "ok"
         \/ Materialized(l)
  PROVE  /\ Tells(l) /\ PlanOf(file) = want'[l] /\ want'[l] # 0
         /\ \A w \in Writer : phase'[w] \in Holding \cup {"settled"} => cur'[w] # Absent
<1> USE DEF Goto
<1>1. l \in Writer /\ OwnPart(l) = "plan"
  BY LaunchesAre DEF OwnPart
<1>2. ASSUME NEW p \in 1 .. MaxPlan, Begin(l, p), pc'[l] = "ok"
      PROVE  /\ Tells(l) /\ PlanOf(file) = want'[l] /\ want'[l] # 0
             /\ \A w \in Writer : phase'[w] \in Holding \cup {"settled"} => cur'[w] # Absent
  <2>1. want'[l] = p /\ p # 0 /\ memo = p /\ ~moved /\ Turn
    BY <1>1, <1>2, ValueAssumption DEF Begin, MemoHolds, IInv, TypeOK
  <2>2. PlanOf(file) = p
    BY <2>1 DEF SInv, MemoTrue, Orderly, PlanOf
  <2>3. Tells(l)
    BY <1>1, <1>2, LaunchesAre DEF Begin, Tells, IInv, TypeOK
  <2>4. \A w \in Writer : phase[w] \in Holding \cup {"settled"} => cur[w] # Absent
    BY <2>1, <2>2 DEF Books, NoFileNoPlan, Turn, Holding
  <2>5. UNCHANGED <<phase, cur>>
    BY <1>2 DEF Begin, coordinator
  <2> QED
    BY <2>1, <2>2, <2>3, <2>4, <2>5
<1>3. CASE Materialized(l)
  <2>1. Settled(l) /\ pc[l] = "wait" /\ UNCHANGED <<file, want>> /\ Succeeded(l)
    BY <1>3 DEF Materialized
  <2>2. PlanOf(file) = want[l] /\ want[l] # 0
    BY <1>1, <2>1 DEF SInv, SettledRight, Right, Settled, Orderly, PlanOf, Books, Planned
  <2>3. Tells(l)
    BY <1>1, <1>3, <2>1, LaunchesAre DEF Materialized, Tells, IInv, TypeOK
  <2>4. \A w \in Writer : phase'[w] \in Holding \cup {"settled"} => cur'[w] # Absent
    BY <1>1, <2>1, <2>2, TakenFrame DEF Books, NoFileNoPlan, Holding
  <2> QED
    BY <2>1, <2>2, <2>3, <2>4
<1> QED
  BY <1>2, <1>3

LEMMA TellStays ==
  ASSUME IInv, SInv, Books, Orderly, NEW l \in Launch,
         \/ \E p \in 1 .. MaxPlan : Begin(l, p) /\ pc'[l] = "ok"
         \/ Materialized(l)
  PROVE  FileStays' /\ Accounted'
<1>1. /\ Tells(l) /\ PlanOf(file) = want'[l] /\ want'[l] # 0 /\ file' = file
      /\ \A w \in Writer : phase'[w] \in Holding \cup {"settled"} => cur'[w] # Absent
  BY TellsTrue DEF Tells
<1>2. FileStays'
  BY <1>1, NoFileIsBlank DEF FileStays
<1>3. Accounted'
  BY <1>1, GrantAdds DEF Accounted
<1> QED
  BY <1>2, <1>3

----------------------------------------------------------------------------
\* A step that tells nobody and leaves the plan alone; a launch that stops to account
\* for its plan has found there what it was to put back.
LEMMA PlanKept ==
  ASSUME Accounted, TellsNobody, PlanOf(file') = PlanOf(file),
         \A l \in Launch : Written(l) =>
            /\ want'[l] = want[l] /\ snap'[l] = snap[l]
            /\ Written(l)' \/ PlanOf(file) = PlanOf(snap[l])
  PROVE  Accounted'
<1>1. Base' = Base
  BY GrantsKept
<1>2. CASE PlanOf(file) \in Base
  BY <1>1, <1>2 DEF Accounted
<1>3. CASE PlanOf(file) \notin Base
  <2>1. PICK l \in Launch : Written(l) /\ want[l] \notin Base /\ PlanOf(snap[l]) \in Base
    BY <1>3 DEF Accounted
  <2>2. Written(l)' /\ want'[l] = want[l] /\ snap'[l] = snap[l]
    BY <1>3, <2>1
  <2> QED
    BY <1>1, <2>1, <2>2 DEF Accounted
<1> QED
  BY <1>2, <1>3

\* A launch writes its plan over one that it found, and accounts for that from then.
LEMMA PlanWritten ==
  ASSUME Accounted, TellsNobody, NEW w \in Launch,
         PlanOf(file) = PlanOf(snap[w]), PlanOf(file') = want[w],
         ~Written(w), Written(w)', UNCHANGED <<want, snap>>,
         \A l \in Launch \ {w} : Written(l) => Written(l)'
  PROVE  Accounted'
<1>1. Base' = Base
  BY GrantsKept
<1>2. CASE want[w] \in Base
  BY <1>1, <1>2 DEF Accounted
<1>3. CASE want[w] \notin Base /\ PlanOf(file) \in Base
  BY <1>1, <1>3 DEF Accounted
<1>4. CASE PlanOf(file) \notin Base
  <2>1. PICK l \in Launch : Written(l) /\ want[l] \notin Base /\ PlanOf(snap[l]) \in Base
    BY <1>4 DEF Accounted
  <2> QED
    BY <1>1, <2>1 DEF Accounted
<1> QED
  BY <1>2, <1>3, <1>4

\* A launch takes its plan out, which no launch has been told it has.
LEMMA PlanTakenOut ==
  ASSUME Accounted, TellsNobody, NEW w \in Launch,
         PlanOf(file) = want[w], PlanOf(file') = PlanOf(snap[w]), want[w] \notin Base,
         UNCHANGED <<want, snap>>,
         \A l \in Launch \ {w} : Written(l) => Written(l)'
  PROVE  Accounted'
<1>1. Base' = Base
  BY GrantsKept
<1>2. CASE PlanOf(snap[w]) \in Base
  BY <1>1, <1>2 DEF Accounted
<1>3. CASE PlanOf(snap[w]) \notin Base
  <2>1. PICK l \in Launch : Written(l) /\ want[l] \notin Base /\ PlanOf(snap[l]) \in Base
    BY DEF Accounted
  <2>2. l # w
    BY <1>3, <2>1
  <2> QED
    BY <1>1, <2>1, <2>2 DEF Accounted
<1> QED
  BY <1>2, <1>3

----------------------------------------------------------------------------
PlansStay == FileStays /\ Accounted

\* An undo that takes out a plan some launch was told it has robs that launch.
LEMMA TakenOutIsNotGranted ==
  ASSUME IInv, Books, Orderly', NEW w \in Launch, Transaction(w), Rename(w),
         pc[w] = "undoing", file' # file
  PROVE  want[w] \notin Base /\ PlanOf(file) = want[w]
<1>1. w \in Writer /\ file' = snap[w] /\ snap[w] \in Doc /\ Undoes(w)
  BY LaunchesAre, UndoIs DEF Undoes
<1>2. ~Crossed(w) /\ Sharing(w) = {}
  <2>1. putBack' = putBack + (IF Crossed(w) THEN 1 ELSE 0) /\ robbed' = robbed \cup Sharing(w)
    BY <1>1 DEF Transaction
  <2> QED
    BY <2>1 DEF Orderly, IInv, TypeOK
<1>3. PlanOf(file) = want[w]
  <2>1. file = [snap[w] EXCEPT !["plan"] = want[w]] /\ want[w] \in Nat
    BY <1>1, <1>2, DocIsContent DEF Crossed, IInv, TypeOK
  <2>2. file \in Doc /\ file["plan"] = want[w]
    BY <1>1, <2>1 DEF Doc, Part
  <2> QED
    BY <2>2, DocPlan
<1>4. want[w] \notin Granted
  BY <1>2 DEF Sharing, Granted
<1>5. want[w] # 0
  BY <1>1 DEF Books, Planned
<1> QED
  BY <1>3, <1>4, <1>5 DEF Base

LEMMA RenamePlans ==
  ASSUME IInv, Books, Orderly', PlansStay, NEW w \in Writer, Transaction(w), Rename(w)
  PROVE  PlansStay'
<1>1. /\ phase[w] = "write" /\ phase'[w] = "renamed"
      /\ UNCHANGED <<cur, result, pc, want, snap>> /\ file' = Transform(req[w], cur[w])
  BY TransactionFrame DEF Rename, IInv, TypeOK
<1>2. file' \in Doc /\ SameButCli(file, cur[w])
  <2>1. Transform(req[w], cur[w]) \in Doc
    BY TransformType DEF IInv, TypeOK
  <2> QED
    BY <1>1, <2>1 DEF IInv, Compared
<1>3. TellsNobody
  BY <1>1 DEF TellsNobody
<1>4. FileStays'
  <2>1. \A v \in Writer : phase'[v] \in Holding \cup {"settled"} => phase[v] \in Holding \cup {"settled"}
    BY <1>1, TransactionFrame DEF Holding
  <2> QED
    BY <1>1, <1>2, <1>3, <2>1, DocPlan, GrantsKept DEF PlansStay, FileStays
<1>5. \A l \in Launch \ {w} : Written(l) => Written(l)'
  BY <1>1, TransactionFrame, LaunchesAre DEF Written, Wrote, Succeeded
<1>6. PlanOf(file) = PlanOf(cur[w])
  BY <1>2 DEF SameButCli, PlanOf, Part
<1>7. CASE pc[w] = "wait"
  <2>1. /\ req[w].part = OwnPart(w) /\ req[w].value = want[w]
        /\ OwnPart(w) \in Part /\ OwnPart(w) # "whole" /\ (w \in Launch <=> OwnPart(w) = "plan")
    BY <1>1, <1>7 DEF IInv, Shape, OwnPart, Part
  <2>2. file' = [Content(cur[w]) EXCEPT ![OwnPart(w)] = want[w]] /\ Content(cur[w]) \in [Part -> Nat]
    BY <1>1, <2>1, ContentType DEF Transform, IInv, TypeOK, Doc
  <2>3. CASE w \in Launch
    <3>1. PlanOf(file') = want[w]
      BY <1>2, <2>1, <2>2, <2>3, DocPlan
    <3>2. PlanOf(file) = PlanOf(snap[w])
      BY <1>1, <1>6, <1>7 DEF Books, FoundAsRead
    <3>3. ~Written(w) /\ Written(w)'
      BY <1>1, <1>7 DEF Written, Wrote
    <3> QED
      BY <1>1, <1>3, <1>4, <1>5, <2>3, <3>1, <3>2, <3>3, PlanWritten DEF PlansStay
  <2>4. CASE w \notin Launch
    <3>1. PlanOf(file') = PlanOf(file)
      BY <1>2, <1>6, <2>1, <2>2, <2>4, DocPlan DEF PlanOf, Part
    <3> QED
      BY <1>1, <1>3, <1>4, <1>5, <2>4, <3>1, PlanKept DEF PlansStay
  <2> QED
    BY <2>3, <2>4
<1>8. CASE pc[w] = "undoing"
  <2>1. file' = snap[w]
    BY <1>8, UndoIs
  <2>2. CASE file' = file
    BY <1>1, <1>3, <1>4, <1>5, <2>1, <2>2, PlanKept DEF PlansStay
  <2>3. CASE file' # file /\ w \in Launch
    BY <1>1, <1>3, <1>4, <1>5, <1>8, <2>1, <2>3, TakenOutIsNotGranted, PlanTakenOut DEF PlansStay
  <2>4. w \in Launch
    BY <1>8 DEF Books, OnlyPlansUndone
  <2> QED
    BY <2>2, <2>3, <2>4
<1> QED
  BY <1>1, <1>7, <1>8 DEF IInv, Shape

LEMMA TransactionPlans ==
  ASSUME IInv, SInv, Books, Orderly', Orderly, PlansStay, NEW w \in Writer, Transaction(w)
  PROVE  PlansStay'
<1>1. CASE Rename(w)
  BY <1>1, RenamePlans
<1> SUFFICES ASSUME ~Rename(w) PROVE PlansStay'
  BY <1>1
<1>2. UNCHANGED <<file, pc, want, snap>>
  BY TransactionFrame, TransactionPhases
<1>3. TellsNobody
  BY <1>2 DEF TellsNobody
<1>4. FileStays'
  <2> SUFFICES ASSUME Granted # {}, NEW v \in Writer, phase'[v] \in Holding \cup {"settled"}
               PROVE  cur'[v] # Absent
    BY <1>2, <1>3, GrantsKept DEF PlansStay, FileStays
  <2>1. CASE v # w
    BY <2>1, TransactionFrame DEF PlansStay, FileStays
  <2>2. CASE v = w
    <3>1. cur'[w] = file \/ (cur'[w] = cur[w] /\ phase[w] \in Holding)
      BY TransactionPhases DEF Satisfied, Holding
    <3> QED
      BY <2>2, <3>1 DEF PlansStay, FileStays
  <2> QED
    BY <2>1, <2>2
<1>5. ASSUME NEW l \in Launch, Written(l)
      PROVE  Written(l)' \/ PlanOf(file) = PlanOf(snap[l])
  <2>1. CASE l # w
    BY <1>2, <1>5, <2>1, TransactionFrame, LaunchesAre DEF Written, Wrote, Succeeded
  <2>2. CASE l = w /\ w \in Satisfied /\ pc[w] = "undoing"
    <3>1. SameButCli(file, cur[w])
      BY <2>2 DEF SInv, ReadSame, Orderly
    <3>2. cur[w] = snap[w]
      BY <2>2 DEF Satisfied, Verdict, IInv, Shape, Transform
    <3> QED
      BY <2>2, <3>1, <3>2 DEF SameButCli, PlanOf, Part
  <2>3. CASE l = w /\ ~(w \in Satisfied /\ pc[w] = "undoing")
    <3>1. CASE pc[w] = "wait"
      <4>1. phase[w] = "renamed"
        BY <1>5, <2>3, <3>1, TransactionFrame DEF Written, Wrote
      <4>2. phase'[w] = "settled" /\ result'[w] = "changed"
        BY <4>1, TransactionPhases DEF Satisfied
      <4> QED
        BY <1>2, <2>3, <3>1, <4>2 DEF Written, Wrote
    <3>2. CASE pc[w] = "undoing"
      <4>1. phase[w] # "renamed" /\ w \notin Satisfied
        BY <1>5, <2>3, <3>2 DEF Written
      <4>2. phase'[w] # "renamed" /\ ~(phase'[w] = "settled" /\ result'[w] \in {"same", "changed"})
        BY <4>1, TransactionPhases
      <4> QED
        BY <1>2, <2>3, <3>2, <4>2 DEF Written, Succeeded
    <3> QED
      BY <3>1, <3>2, TransactionFrame DEF IInv, Shape
  <2> QED
    BY <2>1, <2>2, <2>3
<1>6. Accounted'
  BY <1>2, <1>3, <1>5, PlanKept DEF PlansStay
<1> QED
  BY <1>4, <1>6 DEF PlansStay

\* A step of a caller that starts or ends no write of its own.
LEMMA AsidePlans ==
  ASSUME IInv, PlansStay, NEW w \in Writer, UNCHANGED file,
         phase'[w] \notin Holding \cup {"settled"},
         w \in Launch => (pc'[w] = "ok" <=> pc[w] = "ok") /\ (pc[w] = "ok" => want'[w] = want[w]),
         w \in Launch /\ Written(w) => Written(w)' /\ want'[w] = want[w] /\ snap'[w] = snap[w],
         \A v \in Writer \ {w} : /\ phase'[v] = phase[v] /\ cur'[v] = cur[v] /\ result'[v] = result[v]
                                 /\ pc'[v] = pc[v] /\ want'[v] = want[v] /\ snap'[v] = snap[v]
  PROVE  PlansStay'
<1>1. TellsNobody
  BY LaunchesAre DEF TellsNobody
<1>2. FileStays'
  BY <1>1, GrantsKept DEF PlansStay, FileStays
<1>3. ASSUME NEW l \in Launch, Written(l)
      PROVE  Written(l)' /\ want'[l] = want[l] /\ snap'[l] = snap[l]
  BY <1>3, LaunchesAre DEF Written, Wrote, Succeeded
<1>4. Accounted'
  BY <1>1, <1>3, PlanKept DEF PlansStay
<1> QED
  BY <1>2, <1>4 DEF PlansStay

\* A launch that created the file removes it: nobody has been told of a plan yet.
LEMMA HideFailsPlans ==
  ASSUME IInv, Books, Orderly', PlansStay, NEW l \in Launch, HideFails(l)
  PROVE  PlansStay'
<1> USE DEF Goto
<1>1. l \in Writer /\ Settled(l) /\ pc[l] = "wait" /\ UNCHANGED <<want, snap>> /\ phase'[l] = "none"
  BY LaunchesAre, TakenFrame DEF HideFails
<1>2. \A v \in Writer \ {l} : /\ phase'[v] = phase[v] /\ cur'[v] = cur[v] /\ result'[v] = result[v]
                              /\ pc'[v] = pc[v]
  BY <1>1, TakenFrame DEF HideFails, IInv, TypeOK
<1>3. pc'[l] = IF result[l] = "changed" /\ snap[l] # Absent THEN "undo" ELSE "refused"
  BY <1>1 DEF HideFails, IInv, TypeOK
<1>4. CASE file' = file /\ ~(result[l] = "changed" /\ snap[l] = Absent)
  <2>1. Written(l) => Written(l)'
    BY <1>1, <1>3, <1>4 DEF Written, Wrote, Settled
  <2> QED
    BY <1>1, <1>2, <1>3, <1>4, <2>1, AsidePlans DEF Holding
<1>5. CASE result[l] = "changed" /\ snap[l] = Absent
  <2>1. file' = Absent /\ Wrote(l)
    BY <1>1, <1>5 DEF HideFails, Wrote, Settled
  <2>2. cur[l] = Absent
    BY <1>1, <1>5, <2>1 DEF Books, FoundAsRead
  <2>3. Granted = {} /\ Base = {0}
    BY <1>1, <2>2, TakenFrame DEF PlansStay, FileStays, Base
  <2>4. TellsNobody
    BY <1>1, <1>2, <1>3, LaunchesAre DEF TellsNobody
  <2>5. Granted' = {} /\ Base' = {0}
    BY <2>3, <2>4, GrantsKept
  <2> QED
    BY <2>1, <2>5, NoFileIsBlank DEF PlansStay, FileStays, Accounted
<1> QED
  BY <1>4, <1>5 DEF HideFails

LEMMA StepPlans ==
  ASSUME IInv, SInv, Books, Orderly', PlansStay, [Next]_vars
  PROVE  PlansStay'
<1> USE DEF Goto
<1>0. Orderly
  BY OrderlyBefore
<1>1. ASSUME NEW l \in Launch, NEW p \in 1 .. MaxPlan, Begin(l, p)
      PROVE  PlansStay'
  <2>1. CASE pc'[l] = "ok"
    BY <1>0, <1>1, <2>1, TellStays DEF PlansStay
  <2>2. CASE pc'[l] # "ok"
    <3>1. l \in Writer /\ phase[l] = "none" /\ pc[l] = "idle"
      BY <1>1, LaunchesAre DEF Begin, IInv, Shape
    <3>2. UNCHANGED <<file, coordinator, snap>>
      BY <1>1 DEF Begin
    <3>3. \A v \in Writer \ {l} : pc'[v] = pc[v] /\ want'[v] = want[v]
      BY <1>1 DEF Begin, IInv, TypeOK
    <3>4. ~Written(l)
      BY <3>1 DEF Written
    <3> QED
      BY <2>2, <3>1, <3>2, <3>3, <3>4, AsidePlans DEF coordinator, Holding
  <2> QED
    BY <2>1, <2>2
<1>2. ASSUME NEW r \in Row, NEW v \in 0 .. MaxValue, Reconcile(r, v)
      PROVE  PlansStay'
  <2>1. r \in Writer /\ r \notin Launch /\ phase[r] = "none"
    BY <1>2, WriterAssumption DEF Reconcile, IInv, Shape
  <2>2. UNCHANGED <<file, coordinator, snap>>
    BY <1>2 DEF Reconcile
  <2>3. \A u \in Writer \ {r} : pc'[u] = pc[u] /\ want'[u] = want[u]
    BY <1>2 DEF Reconcile, IInv, TypeOK
  <2> QED
    BY <2>1, <2>2, <2>3, AsidePlans DEF coordinator, Holding
<1>3. ASSUME NEW w \in Writer, Step(w)
      PROVE  PlansStay'
  <2>1. CASE Snapshot(w)
    <3>1. phase[w] = "none" /\ pc[w] = "read" /\ pc'[w] = "call"
      BY <2>1 DEF Snapshot, IInv, Shape, TypeOK
    <3>2. UNCHANGED <<file, coordinator, want>>
      BY <2>1 DEF Snapshot
    <3>3. \A v \in Writer \ {w} : pc'[v] = pc[v] /\ snap'[v] = snap[v]
      BY <2>1 DEF Snapshot, IInv, TypeOK
    <3>4. ~Written(w)
      BY <3>1 DEF Written
    <3> QED
      BY <3>1, <3>2, <3>3, <3>4, AsidePlans DEF coordinator, Holding
  <2>2. CASE NothingToUnset(w) /\ w \in Row
    <3>1. phase[w] = "none" /\ w \notin Launch
      BY <2>2, LaunchesAre DEF NothingToUnset, IInv, Shape
    <3>2. UNCHANGED <<file, coordinator, want, snap>>
      BY <2>2 DEF NothingToUnset
    <3>3. \A v \in Writer \ {w} : pc'[v] = pc[v]
      BY <2>2 DEF NothingToUnset, IInv, TypeOK
    <3> QED
      BY <3>1, <3>2, <3>3, AsidePlans DEF coordinator, Holding
  <2>3. CASE Call(w) \/ Undo(w)
    <3>1. UNCHANGED <<file, want, snap, cur, result>> /\ phase'[w] = "queued"
      BY <2>3 DEF Call, Undo, Enqueue, IInv, TypeOK
    <3>2. \A v \in Writer \ {w} : phase'[v] = phase[v] /\ pc'[v] = pc[v]
      BY <2>3 DEF Call, Undo, Enqueue, IInv, TypeOK
    <3>3. (pc[w] = "call" /\ pc'[w] = "wait") \/ (pc[w] = "undo" /\ pc'[w] = "undoing")
      BY <2>3 DEF Call, Undo, IInv, TypeOK
    <3>4. Written(w) => Written(w)'
      BY <3>1, <3>3 DEF Written
    <3> QED
      BY <3>1, <3>2, <3>3, <3>4, AsidePlans DEF Holding
  <2>4. CASE Transaction(w)
    BY <1>0, <2>4, TransactionPlans
  <2>5. CASE w \in Launch /\ Materialized(w)
    BY <1>0, <2>5, TellStays DEF PlansStay
  <2>6. CASE w \in Launch /\ HideFails(w)
    BY <2>6, HideFailsPlans
  <2>7. CASE \/ w \in Launch /\ (LostCas(w) \/ NotWritten(w) \/ Undone(w))
             \/ w \in Row /\ Reconciled(w)
    <3>1. Settled(w) /\ UNCHANGED <<file, want, snap>>
      BY <2>7 DEF LostCas, NotWritten, Undone, Reconciled
    <3>2. \A v \in Writer \ {w} : pc'[v] = pc[v]
      BY <2>7 DEF LostCas, NotWritten, Undone, Reconciled, IInv, TypeOK
    <3>3. w \in Launch => pc[w] # "ok" /\ pc'[w] # "ok"
      BY <2>7, LaunchesAre DEF LostCas, NotWritten, Undone, IInv, TypeOK
    <3>4. w \in Launch => ~Written(w)
      <4>1. CASE w \in Launch /\ (LostCas(w) \/ NotWritten(w))
        BY <4>1 DEF LostCas, NotWritten, Settled, Written, Wrote
      <4>2. CASE w \in Launch /\ Undone(w)
        BY <4>2 DEF Undone, Settled, Written, Orderly
      <4> QED
        BY <2>7, <4>1, <4>2, LaunchesAre
    <3> QED
      BY <3>1, <3>2, <3>3, <3>4, AsidePlans, TakenFrame DEF Holding
  <2> QED
    BY <1>3, <2>1, <2>2, <2>3, <2>4, <2>5, <2>6, <2>7 DEF Step, LaunchServed
<1>4. CASE Outside
  <2>1. UNCHANGED <<phase, cur, result, pc, want, snap>>
    BY <1>4 DEF Outside, OutsideWrites, coordinator, clients
  <2>2. PlanOf(file') = PlanOf(file) /\ file' # Absent
    BY <1>4, OutsideKeepsPlan, DocPlan DEF Outside, IInv
  <2>3. TellsNobody
    BY <2>1 DEF TellsNobody
  <2>4. FileStays'
    BY <2>1, <2>2, <2>3, GrantsKept DEF PlansStay, FileStays
  <2>5. Accounted'
    BY <2>1, <2>2, <2>3, PlanKept DEF PlansStay, Written, Wrote, Succeeded
  <2> QED
    BY <2>4, <2>5 DEF PlansStay
<1>5. CASE UNCHANGED vars
  BY <1>5 DEF vars, coordinator, clients, PlansStay, FileStays, Accounted, Written, Wrote, Succeeded,
              Base, Granted, PlanOf
<1> QED
  BY <1>1, <1>2, <1>3, <1>4, <1>5 DEF Next

LEMMA InitPlans == Init => PInv
<1> SUFFICES ASSUME Init PROVE PInv
  OBVIOUS
<1>1. \A w \in Writer : pc[w] = "idle" /\ phase[w] = "none"
  BY DEF Init, CoordinatorInit
<1>2. Granted = {} /\ file = Absent
  BY <1>1, LaunchesAre DEF Init, CoordinatorInit, Granted
<1> QED
  BY <1>1, <1>2, LaunchesAre, NoFileIsBlank DEF PInv, Planned, OnlyPlansUndone, Expecting, FoundAsRead, Wrote,
     NoFileNoPlan, FileStays, Accounted, Base

\* With nothing under way, nobody accounts for a plan that is not there by right.
LEMMA PlansRight == PInv => PlanIsGranted
BY LaunchesAre DEF PInv, Accounted, Written, Going, PlanIsGranted, PlanOf, Base

\* When nothing is under way, the plan in the file is one that a launch was told it has,
\* and there is none if no launch was, unless an undo put back more than its launch had
\* written, was refused, or took a plan from another launch (rollback()).
THEOREM PlansAreGranted == Spec => []PlanIsGranted
<1>1. IInv /\ SInv /\ PInv /\ [Next]_vars => SInv' /\ PInv'
  <2> SUFFICES ASSUME IInv, SInv, PInv, [Next]_vars PROVE SInv' /\ PInv'
    OBVIOUS
  <2>1. Books'
    BY StepBooks DEF PInv, Books
  <2>2. Orderly' => PlansStay'
    BY OrderlyBefore, StepPlans DEF PInv, Books, PlansStay
  <2> QED
    BY <2>1, <2>2, StepSuccess DEF PInv, Books, PlansStay
<1> QED
  BY <1>1, InitSuccess, InitPlans, PlansRight, Inductive, PTL DEF Spec

=============================================================================
