---------------------- MODULE ActivityTrackerProofs -----------------------
(***************************************************************************)
(* Theorems about ActivityTracker for any number of subagents: what a red, *)
(* a green and a latch mean, whatever the order of the signals; and that,  *)
(* until a guess is retracted, a pane is held while subagents run and a    *)
(* deferred done is kept.                                                  *)
(***************************************************************************)
EXTENDS ActivityTracker, TLAPS

\* A deferred done is the main's own, waits for a subagent, and does not survive a
\* red.  Without this a done could be redeemed, or overtaken by another, on a pane
\* that has stopped waiting.
DeferredDoneWaits == deferredDone => finished /\ pendingSubagents > 0 /\ ~latched

\* The inductive invariant: the four properties need one another (a green pane holds
\* no chime, so a chime that rings never displaces green), and the deferred done.
IInv ==
    /\ TypeOK
    /\ LatchIsAttention
    /\ GreenIsAtRest
    /\ NamedRedStays
    /\ DeferredDoneWaits

LEMMA InitIInv == Init => IInv
<1> SUFFICES ASSUME Init PROVE IInv
  OBVIOUS
<1>1. 0 \in 0 .. MaxSub
  BY SizeAssumption
<1>2. TypeOK
  BY <1>1 DEF Init, TypeOK, State
<1>3. LatchIsAttention /\ GreenIsAtRest /\ NamedRedStays /\ DeferredDoneWaits
  BY DEF Init, LatchIsAttention, GreenIsAtRest, NamedRedStays, DeferredDoneWaits
<1> QED
  BY <1>2, <1>3 DEF IInv

\* The counter stays in its range, because a stray stop is not counted.
LEMMA CounterInRange ==
  ASSUME pendingSubagents \in 0 .. MaxSub
  PROVE  /\ 0 \in 0 .. MaxSub
         /\ SubagentStart => pendingSubagents' \in 0 .. MaxSub
         /\ SubagentStop => pendingSubagents' \in 0 .. MaxSub
<1>1. MaxSub \in Nat
  BY SizeAssumption
<1>2. SubagentStart => pendingSubagents' = pendingSubagents + 1 /\ pendingSubagents < MaxSub
  BY DEF SubagentStart
<1>3. SubagentStop => pendingSubagents' = IF pendingSubagents = 0 THEN 0 ELSE pendingSubagents - 1
  BY DEF SubagentStop
<1> QED
  BY <1>1, <1>2, <1>3

\* Types survive every signal.
LEMMA StepTypeOK ==
  ASSUME IInv, [Next]_vars
  PROVE  TypeOK'
<1>0. /\ 0 \in 0 .. MaxSub
      /\ SubagentStart => pendingSubagents' \in 0 .. MaxSub
      /\ SubagentStop => pendingSubagents' \in 0 .. MaxSub
  BY CounterInRange DEF IInv, TypeOK
<1> USE NoneAssumption
    DEF IInv, TypeOK, LatchIsAttention, State, signals, history
<1>1. CASE Bell
  BY <1>1 DEF Bell, HoldChime
<1>2. CASE BellRings
  BY <1>2 DEF BellRings, Apply
<1>3. CASE RaiseAttention
  BY <1>3 DEF RaiseAttention, Apply, NotFinished
<1>4. CASE Notice
  BY <1>4 DEF Notice, Bell, HoldChime, Retractable, Unlatch, Apply
<1>5. CASE NotifyBusy
  BY <1>5 DEF NotifyBusy, Verdict, Unlatch, Apply, NotFinished
<1>6. CASE NotifyDone
  BY <1>6 DEF NotifyDone, Verdict, Unlatch, Apply
<1>7. CASE NotifyIdle
  BY <1>7 DEF NotifyIdle, Verdict, Unlatch, Apply
<1>8. CASE IdlePrompt
  BY <1>8 DEF IdlePrompt, NotifyIdle, Verdict, Unlatch, Apply
<1>9. CASE SubagentStart
  BY <1>9, <1>0 DEF SubagentStart, Apply
<1>10. CASE SubagentStop
  BY <1>10, <1>0 DEF SubagentStop, Apply
<1>11. CASE TurnStart
  BY <1>11, <1>0 DEF TurnStart, Unlatch, NotFinished
<1>12. ASSUME NEW submitted \in BOOLEAN, Input(submitted) PROVE TypeOK'
  BY <1>12 DEF Input, Unlatch, Apply, NotFinished
<1>13. CASE ShellCmdStart
  BY <1>13 DEF ShellCmdStart, NotifyBusy, Verdict, Unlatch, Apply, NotFinished
<1>14. CASE Settle
  BY <1>14, <1>0 DEF Settle, Unlatch, Apply, NotFinished
<1>15. CASE GraceEnds
  BY <1>15 DEF GraceEnds
<1>16. CASE Dispose
  BY <1>16 DEF Dispose
<1>17. CASE UNCHANGED vars
  BY <1>17 DEF vars
<1> QED
  BY <1>1, <1>2, <1>3, <1>4, <1>5, <1>6, <1>7, <1>8, <1>9, <1>10, <1>11, <1>12, <1>13, <1>14, <1>15, <1>16, <1>17 DEF Next

\* Every signal keeps the invariant.
LEMMA StepIInv ==
  ASSUME IInv, [Next]_vars
  PROVE  IInv'
<1> DEFINE Meaning == LatchIsAttention /\ GreenIsAtRest /\ NamedRedStays /\ DeferredDoneWaits
<1>0. TypeOK'
  BY StepTypeOK
<1>a. SUFFICES Meaning'
  BY <1>0 DEF IInv
<1> USE SizeAssumption, NoneAssumption
    DEF IInv, TypeOK, LatchIsAttention, GreenIsAtRest, NamedRedStays, DeferredDoneWaits,
        State, signals, history
<1>1. CASE Bell
  BY <1>1 DEF Bell, HoldChime
<1>2. CASE BellRings
  BY <1>2 DEF BellRings, Apply
<1>3. CASE RaiseAttention
  BY <1>3 DEF RaiseAttention, Apply, NotFinished
<1>4. CASE Notice
  BY <1>4 DEF Notice, Bell, HoldChime, Retractable, Unlatch, Apply
<1>5. CASE NotifyBusy
  BY <1>5 DEF NotifyBusy, Verdict, Unlatch, Apply, NotFinished
<1>6. CASE NotifyDone
  BY <1>6 DEF NotifyDone, Verdict, Unlatch, Apply
<1>7. CASE NotifyIdle
  BY <1>7 DEF NotifyIdle, Verdict, Unlatch, Apply
<1>8. CASE IdlePrompt
  BY <1>8 DEF IdlePrompt, NotifyIdle, Verdict, Unlatch, Apply
<1>9. CASE SubagentStart
  BY <1>9 DEF SubagentStart, Apply
<1>10. CASE SubagentStop
  BY <1>10 DEF SubagentStop, Apply
<1>11. CASE TurnStart
  BY <1>11 DEF TurnStart, Unlatch, NotFinished
<1>12. ASSUME NEW submitted \in BOOLEAN, Input(submitted) PROVE Meaning'
  BY <1>12 DEF Input, Unlatch, Apply, NotFinished
<1>13. CASE ShellCmdStart
  BY <1>13 DEF ShellCmdStart, NotifyBusy, Verdict, Unlatch, Apply, NotFinished
<1>14. CASE Settle
  BY <1>14 DEF Settle, Unlatch, Apply, NotFinished
<1>15. CASE GraceEnds
  BY <1>15 DEF GraceEnds
<1>16. CASE Dispose
  BY <1>16 DEF Dispose
<1>17. CASE UNCHANGED vars
  BY <1>17 DEF vars
<1> QED
  BY <1>1, <1>2, <1>3, <1>4, <1>5, <1>6, <1>7, <1>8, <1>9, <1>10, <1>11, <1>12, <1>13, <1>14, <1>15, <1>16, <1>17 DEF Next

THEOREM Invariance == Spec => []IInv
<1>1. Init => IInv
  BY InitIInv
<1>2. IInv /\ [Next]_vars => IInv'
  BY StepIInv
<1> QED
  BY <1>1, <1>2, PTL DEF Spec

\* Every variable of the tracker keeps its type: the subagents in flight are never
\* counted below zero (activity.ts, subagentStop).
THEOREM TypeCorrect == Spec => []TypeOK
<1>1. IInv => TypeOK
  BY DEF IInv
<1> QED
  BY <1>1, Invariance, PTL

\* Whatever the order of hooks, chimes, keys and timers, a pane is latched exactly
\* while it wears attention.
THEOREM LatchTheorem == Spec => []LatchIsAttention
<1>1. IInv => LatchIsAttention
  BY DEF IInv
<1> QED
  BY <1>1, Invariance, PTL

\* A green pane has no subagent under it, owes no done and holds no chime.
THEOREM GreenTheorem == Spec => []GreenIsAtRest
<1>1. IInv => GreenIsAtRest
  BY DEF IInv
<1> QED
  BY <1>1, Invariance, PTL

\* A red raised by name is never retracted by a notification (activity.ts, notice).
THEOREM NamedRedTheorem == Spec => []NamedRedStays
<1>1. IInv => NamedRedStays
  BY DEF IInv
<1> QED
  BY <1>1, Invariance, PTL

----------------------------------------------------------------------------
\* Every turn to green is the main's own done with no subagent running.
LEMMA StepGreen ==
  ASSUME IInv, Next, state # "done", state' = "done"
  PROVE  finished' /\ pendingSubagents' = 0
<1> USE NoneAssumption
    DEF IInv, TypeOK, LatchIsAttention, DeferredDoneWaits, State, signals, history
<1>1. CASE Bell
  BY <1>1 DEF Bell, HoldChime
<1>2. CASE BellRings
  BY <1>2 DEF BellRings, Apply
<1>3. CASE RaiseAttention
  BY <1>3 DEF RaiseAttention, Apply, NotFinished
<1>4. CASE Notice
  BY <1>4 DEF Notice, Bell, HoldChime, Retractable, Unlatch, Apply
<1>5. CASE NotifyBusy
  BY <1>5 DEF NotifyBusy, Verdict, Unlatch, Apply, NotFinished
<1>6. CASE NotifyDone
  BY <1>6 DEF NotifyDone, Verdict, Unlatch, Apply
<1>7. CASE NotifyIdle
  BY <1>7 DEF NotifyIdle, Verdict, Unlatch, Apply
<1>8. CASE IdlePrompt
  BY <1>8 DEF IdlePrompt, NotifyIdle, Verdict, Unlatch, Apply
<1>9. CASE SubagentStart
  BY <1>9 DEF SubagentStart, Apply
<1>10. CASE SubagentStop
  BY <1>10 DEF SubagentStop, Apply
<1>11. CASE TurnStart
  BY <1>11 DEF TurnStart, Unlatch, NotFinished
<1>12. ASSUME NEW submitted \in BOOLEAN, Input(submitted) PROVE finished' /\ pendingSubagents' = 0
  BY <1>12 DEF Input, Unlatch, Apply, NotFinished
<1>13. CASE ShellCmdStart
  BY <1>13 DEF ShellCmdStart, NotifyBusy, Verdict, Unlatch, Apply, NotFinished
<1>14. CASE Settle
  BY <1>14 DEF Settle, Unlatch, Apply, NotFinished
<1>15. CASE GraceEnds
  BY <1>15 DEF GraceEnds
<1>16. CASE Dispose
  BY <1>16 DEF Dispose
<1> QED
  BY <1>1, <1>2, <1>3, <1>4, <1>5, <1>6, <1>7, <1>8, <1>9, <1>10, <1>11, <1>12, <1>13, <1>14, <1>15, <1>16 DEF Next

\* A pane turns green only on the main's own done of the running turn, with every
\* subagent landed (activity.ts, notify and subagentStop).
THEOREM GreenIsEarnedTheorem == Spec => GreenIsEarned
<1>1. IInv /\ [Next]_vars => [state # "done" /\ state' = "done" => finished' /\ pendingSubagents' = 0]_vars
  BY StepGreen DEF vars
<1> QED
  BY <1>1, Invariance, PTL DEF Spec, GreenIsEarned

----------------------------------------------------------------------------
\* The two promises to a pane with subagents join the invariant.
HeldIInv == IInv /\ HeldWhileSubagentsRun /\ DoneIsNotForgotten

LEMMA StepHeld ==
  ASSUME HeldIInv, [Next]_vars
  PROVE  HeldIInv'
<1>0. IInv'
  BY StepIInv DEF HeldIInv
<1>a. SUFFICES (HeldWhileSubagentsRun /\ DoneIsNotForgotten)'
  BY <1>0 DEF HeldIInv
<1> USE SizeAssumption
    DEF HeldIInv, HeldWhileSubagentsRun, DoneIsNotForgotten,
        IInv, TypeOK, LatchIsAttention, GreenIsAtRest, signals, history
<1>1. CASE Bell
  BY <1>1 DEF Bell, HoldChime
<1>2. CASE BellRings
  BY <1>2 DEF BellRings, Apply
<1>3. CASE RaiseAttention
  BY <1>3 DEF RaiseAttention, Apply, NotFinished
<1>4. CASE Notice
  BY <1>4 DEF Notice, Bell, HoldChime, Retractable, Unlatch, Apply
<1>5. CASE NotifyBusy
  BY <1>5 DEF NotifyBusy, Verdict, Unlatch, Apply, NotFinished
<1>6. CASE NotifyDone
  BY <1>6 DEF NotifyDone, Verdict, Unlatch, Apply
<1>7. CASE NotifyIdle
  BY <1>7 DEF NotifyIdle, Verdict, Unlatch, Apply
<1>8. CASE IdlePrompt
  BY <1>8 DEF IdlePrompt, NotifyIdle, Verdict, Unlatch, Apply
<1>9. CASE SubagentStart
  BY <1>9 DEF SubagentStart, Apply
<1>10. CASE SubagentStop
  BY <1>10 DEF SubagentStop, Apply
<1>11. CASE TurnStart
  BY <1>11 DEF TurnStart, Unlatch, NotFinished
<1>12. ASSUME NEW submitted \in BOOLEAN, Input(submitted) PROVE (HeldWhileSubagentsRun /\ DoneIsNotForgotten)'
  BY <1>12 DEF Input, Unlatch, Apply, NotFinished
<1>13. CASE ShellCmdStart
  BY <1>13 DEF ShellCmdStart, NotifyBusy, Verdict, Unlatch, Apply, NotFinished
<1>14. CASE Settle
  BY <1>14 DEF Settle, Unlatch, Apply, NotFinished
<1>15. CASE GraceEnds
  BY <1>15 DEF GraceEnds
<1>16. CASE Dispose
  BY <1>16 DEF Dispose
<1>17. CASE UNCHANGED vars
  BY <1>17 DEF vars
<1> QED
  BY <1>1, <1>2, <1>3, <1>4, <1>5, <1>6, <1>7, <1>8, <1>9, <1>10, <1>11, <1>12, <1>13, <1>14, <1>15, <1>16, <1>17 DEF Next

\* Until a late notification retracts a guess, a pane is busy or blocked as long as
\* a subagent runs, and a done that came while one ran is still owed
\* (activity.ts, notify, notice, subagentStart and subagentStop).
THEOREM HeldTheorem == Spec => [](HeldWhileSubagentsRun /\ DoneIsNotForgotten)
<1>1. Init => HeldIInv
  BY InitIInv DEF Init, HeldIInv, HeldWhileSubagentsRun, DoneIsNotForgotten
<1>2. HeldIInv /\ [Next]_vars => HeldIInv'
  BY StepHeld
<1>3. HeldIInv => HeldWhileSubagentsRun /\ DoneIsNotForgotten
  BY DEF HeldIInv
<1> QED
  BY <1>1, <1>2, <1>3, PTL DEF Spec

\* A deferred done is not forgotten: it is redeemable until something contradicts it
\* or a guess was retracted (activity.ts, notify('done') and subagentStop).
THEOREM DoneTheorem == Spec => []DoneIsNotForgotten
<1> QED
  BY HeldTheorem, PTL
============================================================================
