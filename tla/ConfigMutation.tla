--------------------------- MODULE ConfigMutation ---------------------------
(***************************************************************************)
(* The transactions of ConfigMutationCoordinator on one file               *)
(* (src/backend/core/config-files/mutation-coordinator.ts): a queue per    *)
(* file, and under it read, transform, compare, read again, rename.        *)
(*                                                                         *)
(* Every wait is a step of its own.  What runs between two waits runs to   *)
(* its end: when a transaction settles, its caller's continuation          *)
(* (phase "settled") comes before the file system answers anyone else, but *)
(* the next transaction's read may already be on its way.                  *)
(*                                                                         *)
(* The content of a file is a record of the parts its writers own; its     *)
(* hash is the content itself.                                             *)
(***************************************************************************)
EXTENDS Naturals, Sequences

CONSTANTS
    Writer,      \* the callers of mutate(), one call at a time each
    Absent,      \* the file does not exist
    AnyHash,     \* expectedHash is undefined
    MaxOutside   \* bound on the CLI's own writes

ASSUME OutsideAssumption == MaxOutside \in Nat

Part == {"plan", "setting", "cli"}
Doc  == [Part -> Nat]
File == Doc \cup {Absent}
ASSUME AbsentAssumption == Absent \notin Doc /\ AnyHash \notin File

VARIABLES
    file,     \* what is on disk
    queue,    \* tails: the transactions of the file, the running one first
    phase,    \* of each writer's transaction
    req,      \* the request each has made
    cur,      \* what its transaction read first
    result    \* what mutate() settled with

coordinator == <<queue, phase, req, cur, result>>

Blank == [p \in Part |-> 0]
Content(f) == IF f = Absent THEN Blank ELSE f

Phase == {"none", "queued", "read", "reread", "write", "renamed", "settled"}

\* A request sets one part, or the whole file to a content it holds already.
SetPart(p, v, expect)  == [part |-> p, value |-> v, whole |-> Blank, expect |-> expect]
SetWhole(d)            == [part |-> "whole", value |-> 0, whole |-> d, expect |-> AnyHash]
NoRequest              == SetWhole(Blank)
Request == [part : Part \cup {"whole"}, value : Nat, whole : Doc, expect : File \cup {AnyHash}]

Transform(r, f) == IF r.part = "whole" THEN r.whole ELSE [Content(f) EXCEPT ![r.part] = r.value]

CoordinatorInit ==
    /\ file = Absent
    /\ queue = <<>>
    /\ phase = [w \in Writer |-> "none"]
    /\ req = [w \in Writer |-> NoRequest]
    /\ cur = [w \in Writer |-> Absent]
    /\ result = [w \in Writer |-> "none"]

----------------------------------------------------------------------------
\* No caller's continuation is due: the event loop may serve the next answer.
Turn == \A w \in Writer : phase[w] # "settled"

Running(w) == queue # <<>> /\ Head(queue) = w

\* mutate(): the transaction joins the file's queue.
Enqueue(w, r) ==
    /\ phase[w] = "none"
    /\ queue' = Append(queue, w)
    /\ phase' = [phase EXCEPT ![w] = "queued"]
    /\ req' = [req EXCEPT ![w] = r]
    /\ UNCHANGED <<cur, result>>

\* Mutant: the queue is released on success only.
MutSettle(w, how) ==
    /\ phase' = [phase EXCEPT ![w] = "settled"]
    /\ result' = [result EXCEPT ![w] = how]
    /\ queue' = IF how \in {"conflict", "failed"} THEN queue ELSE Tail(queue)

\* The operation ends, and `finally` lets the next one start.
Settle(w, how) ==
    /\ phase' = [phase EXCEPT ![w] = "settled"]
    /\ result' = [result EXCEPT ![w] = how]
    /\ queue' = Tail(queue)

\* What the first read decides.  An edit that is there already is no conflict.
Verdict(r, f) ==
    CASE Transform(r, f) = f   -> "same"
      [] OTHER                 -> IF r.expect \notin {AnyHash, f} THEN "conflict" ELSE "go"

\* The first read, as soon as the transaction is the running one.
ReadCurrent(w) ==
    /\ phase[w] = "queued" /\ Running(w)
    /\ phase' = [phase EXCEPT ![w] = "read"]
    /\ cur' = [cur EXCEPT ![w] = file]
    /\ UNCHANGED <<file, queue, req, result>>

\* Its answer: the transform, and the checks that come before any byte is written.
Decide(w) ==
    /\ phase[w] = "read" /\ Turn
    /\ IF Verdict(req[w], cur[w]) = "go"
       THEN phase' = [phase EXCEPT ![w] = "reread"] /\ UNCHANGED <<queue, result>>
       ELSE Settle(w, Verdict(req[w], cur[w]))
    /\ UNCHANGED <<file, req, cur>>

\* Mutant: the bytes are not compared again.
MutReread(w) ==
    /\ phase[w] = "reread" /\ Turn
    /\ phase' = [phase EXCEPT ![w] = "write"] /\ UNCHANGED <<queue, result>>
    /\ UNCHANGED <<file, req, cur>>

\* The second read, "immediately before replacement".
Reread(w) ==
    /\ phase[w] = "reread" /\ Turn
    /\ IF file = cur[w]
       THEN phase' = [phase EXCEPT ![w] = "write"] /\ UNCHANGED <<queue, result>>
       ELSE Settle(w, "conflict")
    /\ UNCHANGED <<file, req, cur>>

\* The atomic rename puts the edited bytes in place of whatever is there.
Rename(w) ==
    /\ phase[w] = "write" /\ Turn
    /\ file' = Transform(req[w], cur[w])
    /\ phase' = [phase EXCEPT ![w] = "renamed"]
    /\ UNCHANGED <<queue, req, cur, result>>

\* Its completion is served.
Renamed(w) ==
    /\ phase[w] = "renamed" /\ Turn
    /\ Settle(w, "changed")
    /\ UNCHANGED <<file, req, cur>>

\* A read or the write fails, or the output is invalid or too large.
Fail(w) ==
    /\ phase[w] \in {"read", "reread", "write"} /\ Turn
    /\ Settle(w, "failed")
    /\ UNCHANGED <<file, req, cur>>

\* The caller takes the result, and the transaction is gone.
Taken(w) ==
    /\ phase' = [phase EXCEPT ![w] = "none"]
    /\ req' = [req EXCEPT ![w] = NoRequest]
    /\ cur' = [cur EXCEPT ![w] = Absent]
    /\ result' = [result EXCEPT ![w] = "none"]
    /\ UNCHANGED queue

Transact(w) == ReadCurrent(w) \/ Decide(w) \/ Reread(w) \/ Rename(w) \/ Renamed(w)

\* The CLI whose config it is rewrites its own part, and asks no one.
OutsideWrites ==
    /\ Content(file)["cli"] < MaxOutside
    /\ file' = [Content(file) EXCEPT !["cli"] = @ + 1]
    /\ UNCHANGED coordinator

Racing == \E w \in Writer : phase[w] = "write" /\ file # cur[w]
============================================================================
