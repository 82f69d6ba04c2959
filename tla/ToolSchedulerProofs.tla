------------------------ MODULE ToolSchedulerProofs ------------------------
(***************************************************************************)
(* Theorems about ToolScheduler for every number of calls and every pool   *)
(* size.  The inductive invariant IInv relates the cursors of runGroup()   *)
(* (started, nextToStart, committed) to the in-flight map, to the slots    *)
(* and to the log; the checked invariants follow from it.                  *)
(***************************************************************************)
EXTENDS ToolScheduler, FiniteSetTheorems, TLAPS

Failing == {"drain", "failed"}
Outside == {"classify", "done"}

(* The group under way: its bounds, and the calls it has started. *)
GroupInv ==
    /\ pc \in {"classify", "skip", "done"} => inFlight = {}
    /\ pc \notin Outside =>
         /\ first <= last
         /\ mode = "exclusive" => last = first
         /\ first - 1 <= committed
         /\ started <= last
         /\ inFlight \subseteq first..started
         /\ \A c \in first..started : startMode[c] = mode

(* How the three cursors stand to each other. *)
CursorInv ==
    /\ committed <= started
    /\ pc = "prepare" => nextToStart = started /\ committed < started
    /\ pc \notin Failing \cup {"prepare"} => nextToStart = started + 1
    /\ pc = "classify" => first = started + 1
    /\ pc \in {"classify", "skip"} => committed = started

(* A started call is in flight or has its outcome in its slot. *)
SlotInv ==
    /\ pc \notin Failing => \A c \in Calls :
         /\ c \in inFlight \cup settled => c < nextToStart
         /\ slots[c] # "empty" => c < nextToStart
         /\ c \in inFlight \cap settled => failure \/ slots[c] # "empty"
         /\ committed < c /\ c < nextToStart
              => failure \/ c \in inFlight \/ slots[c] # "empty"
    /\ pc = "finalize" => Ready
    /\ pc \in {"committed", "fill"} /\ Ready => committed + 1 \in inFlight

(* What the abort and the failure flags allow. *)
FlagInv ==
    /\ aborted => signal
    /\ pc = "fill" => (signal => aborted)
    /\ failure => pc \notin {"classify", "fill", "skip", "done"}
    /\ pc = "failed" => Running = {}

(* The log holds the started calls and the committed results. *)
LogInv ==
    /\ ModelOrder
    /\ pc \notin {"skip", "done"} =>
         /\ Len(calls) = started
         /\ Len(results) = committed
         /\ skipped = {}
    /\ pc \in {"skip", "done"} => Len(calls) = Len(results)
    /\ pc = "done" => Len(calls) = NCalls

PoolInv ==
    /\ Cardinality(inFlight) <= MaxParallel
    /\ pc = "prepare" => Cardinality(inFlight) < MaxParallel

IInv == TypeOK /\ GroupInv /\ CursorInv /\ SlotInv /\ FlagInv /\ LogInv /\ PoolInv

(* The in-flight map is finite, and taking calls out keeps it in its bound. *)
LEMMA FiniteInFlight == TypeOK => IsFiniteSet(inFlight)
<1> SUFFICES ASSUME TypeOK PROVE IsFiniteSet(inFlight)
  OBVIOUS
<1>1. IsFiniteSet(1..NCalls)
  BY SchedulerAssumption, FS_Interval
<1>2. inFlight \in SUBSET (1..NCalls)
  BY DEF TypeOK, Calls
<1> QED BY <1>1, <1>2, FS_Subset

(* The pool stays within its bound when a call leaves it. *)
LEMMA FewerInFlight ==
  ASSUME TypeOK, NEW c, Cardinality(inFlight) <= MaxParallel
  PROVE  Cardinality(inFlight \ {c}) <= MaxParallel
<1>1. IsFiniteSet(inFlight)
  BY FiniteInFlight
<1>2. Cardinality(inFlight) \in Nat
  BY <1>1, FS_CardinalityType
<1>3. Cardinality(inFlight \ {c}) =
        IF c \in inFlight THEN Cardinality(inFlight) - 1 ELSE Cardinality(inFlight)
  BY <1>1, FS_RemoveElement
<1> QED BY <1>2, <1>3, SchedulerAssumption

(* Every step of the scheduler, of a tool or of the user preserves IInv.   *)
LEMMA Step == IInv /\ [Next]_vars => IInv'
<1> SUFFICES ASSUME IInv, [Next]_vars PROVE IInv'
  OBVIOUS
<1> USE SchedulerAssumption DEF IInv, Calls, Modes, AwaitPC, Terminal, Failing,
      Outside, Running, groupVars, poolVars, logVars
<1>1. ASSUME NEW m \in Modes, Classify(m) PROVE IInv'
  <2>1. TypeOK' BY <1>1, SMT DEF TypeOK, Classify, GroupEnd
  <2>2. GroupInv' BY <1>1, SMT DEF GroupInv, TypeOK, CursorInv, Classify, GroupEnd
  <2>3. CursorInv' BY <1>1, SMT DEF CursorInv, Classify, GroupEnd
  <2>4. SlotInv' BY <1>1, SMT DEF SlotInv, TypeOK, CursorInv, Ready, Classify, GroupEnd
  <2>5. FlagInv' BY <1>1, SMT DEF FlagInv, Classify, GroupEnd
  <2>6. LogInv' BY <1>1, SMT DEF LogInv, ModelOrder, Classify, GroupEnd
  <2>7. PoolInv' BY <1>1, SMT DEF PoolInv, Classify, GroupEnd
  <2> QED BY <2>1, <2>2, <2>3, <2>4, <2>5, <2>6, <2>7
<1>2. CASE AllGroupsDone
  <2>1. TypeOK' BY <1>2, SMT DEF TypeOK, AllGroupsDone
  <2>2. GroupInv' BY <1>2, SMT DEF GroupInv, AllGroupsDone
  <2>3. CursorInv' BY <1>2, SMT DEF CursorInv, AllGroupsDone
  <2>4. SlotInv' BY <1>2, SMT DEF SlotInv, AllGroupsDone
  <2>5. FlagInv' BY <1>2, SMT DEF FlagInv, AllGroupsDone
  <2>6. LogInv' BY <1>2, SMT DEF LogInv, TypeOK, CursorInv, ModelOrder, AllGroupsDone
  <2>7. PoolInv' BY <1>2, SMT DEF PoolInv, TypeOK, AllGroupsDone
  <2> QED BY <2>1, <2>2, <2>3, <2>4, <2>5, <2>6, <2>7
<1>3. CASE StartCall
  <2>1. TypeOK' BY <1>3, SMT DEF TypeOK, CursorInv, StartCall, PoolOpen
  <2>2. GroupInv' BY <1>3, SMT DEF GroupInv, TypeOK, CursorInv, StartCall, PoolOpen
  <2>3. CursorInv' BY <1>3, SMT DEF CursorInv, TypeOK, StartCall, PoolOpen
  <2>4. SlotInv' BY <1>3, SMT DEF SlotInv, StartCall, PoolOpen
  <2>5. FlagInv' BY <1>3, SMT DEF FlagInv, StartCall, PoolOpen
  <2>6. LogInv' BY <1>3, SMT DEF LogInv, CursorInv, ModelOrder, StartCall, PoolOpen
  <2>7. PoolInv' BY <1>3, SMT DEF PoolInv, TypeOK, StartCall, PoolOpen
  <2> QED BY <2>1, <2>2, <2>3, <2>4, <2>5, <2>6, <2>7
<1>4. CASE StopFilling
  <2>1. TypeOK' BY <1>4, SMT DEF TypeOK, StopFilling, PoolOpen, NextGroup
  <2>2. GroupInv' BY <1>4, SMT DEF GroupInv, StopFilling, PoolOpen, NextGroup
  <2>3. CursorInv'
    BY <1>4, SMT
    DEF CursorInv, TypeOK, GroupInv, SlotInv, FlagInv, Ready, StopFilling, PoolOpen,
        NextGroup
  <2>4. SlotInv' BY <1>4, SMT DEF SlotInv, StopFilling, PoolOpen, NextGroup
  <2>5. FlagInv' BY <1>4, SMT DEF FlagInv, StopFilling, PoolOpen, NextGroup
  <2>6. LogInv'
    BY <1>4, SMT
    DEF LogInv, TypeOK, GroupInv, CursorInv, SlotInv, FlagInv, ModelOrder, Ready,
        StopFilling, PoolOpen, NextGroup
  <2>7. PoolInv' BY <1>4, SMT DEF PoolInv, TypeOK, StopFilling, PoolOpen, NextGroup
  <2> QED BY <2>1, <2>2, <2>3, <2>4, <2>5, <2>6, <2>7
<1>5. ASSUME NEW k \in {"dispatch", "post", "final"}, Prepared(k) PROVE IInv'
  <2>1. CASE k = "dispatch"
    <3>0. /\ pc = "prepare" /\ ~failure /\ pc' = "prepared"
          /\ inFlight' = inFlight \cup {nextToStart}
          /\ nextToStart' = nextToStart + 1
          /\ UNCHANGED <<first, last, mode, committed, started, startMode, slots, settled,
                         failure, aborted, signal, calls, results, skipped>>
      BY <1>5, <2>1 DEF Prepared, FailureSeen, TypeOK
    <3>1. TypeOK' BY <3>0, <2>1, SMT DEF TypeOK, CursorInv
    <3>2. GroupInv'
      <4>1. nextToStart \in first..started
        BY <3>0 DEF TypeOK, GroupInv, CursorInv
      <4>2. inFlight' \subseteq first..started
        BY <3>0, <4>1 DEF GroupInv
      <4> QED BY <3>0, <4>2 DEF GroupInv
    <3>3. CursorInv' BY <3>0, <2>1, SMT DEF CursorInv
    <3>4. SlotInv' BY <3>0, <2>1, SMT DEF SlotInv, TypeOK, Ready
    <3>5. FlagInv' BY <3>0, <2>1, SMT DEF FlagInv
    <3>6. LogInv' BY <3>0, <2>1, SMT DEF LogInv, ModelOrder
    <3>7. PoolInv'
      <4>1. Cardinality(inFlight') <= Cardinality(inFlight) + 1
        BY <3>0, FiniteInFlight, FS_AddElement, FS_CardinalityType
      <4>2. Cardinality(inFlight) < MaxParallel /\ Cardinality(inFlight) \in Nat
        BY <3>0, FiniteInFlight, FS_CardinalityType DEF PoolInv
      <4>3. Cardinality(inFlight') <= MaxParallel
        BY <4>1, <4>2, FiniteInFlight, FS_AddElement, FS_CardinalityType, <3>0
      <4> QED BY <4>3, <3>0 DEF PoolInv
    <3> QED BY <3>1, <3>2, <3>3, <3>4, <3>5, <3>6, <3>7
  <2>2. CASE k # "dispatch"
    <3>0. /\ pc = "prepare" /\ ~failure /\ pc' = "prepared"
          /\ slots' = [slots EXCEPT ![nextToStart] = k]
          /\ nextToStart' = nextToStart + 1
          /\ UNCHANGED <<first, last, mode, committed, started, startMode, inFlight,
                         settled,
                         failure, aborted, signal, calls, results, skipped>>
      BY <1>5, <2>2 DEF Prepared, FailureSeen, TypeOK
    <3>1. TypeOK' BY <3>0, <2>2, SMT DEF TypeOK, CursorInv
    <3>2. GroupInv' BY <3>0, <2>2, SMT DEF GroupInv
    <3>3. CursorInv' BY <3>0, <2>2, SMT DEF CursorInv
    <3>4. SlotInv' BY <3>0, <2>2, SMT DEF SlotInv, TypeOK, Ready
    <3>5. FlagInv' BY <3>0, <2>2, SMT DEF FlagInv
    <3>6. LogInv' BY <3>0, <2>2, SMT DEF LogInv, ModelOrder
    <3>7. PoolInv' BY <3>0, <2>2, SMT DEF PoolInv
    <3> QED BY <3>1, <3>2, <3>3, <3>4, <3>5, <3>6, <3>7
  <2> QED BY <2>1, <2>2
<1>6. CASE PrepareThrows
  <2>1. TypeOK' BY <1>6, SMT DEF TypeOK, PrepareThrows, Throw
  <2>2. GroupInv' BY <1>6, SMT DEF GroupInv, PrepareThrows, Throw
  <2>3. CursorInv' BY <1>6, SMT DEF CursorInv, PrepareThrows, Throw
  <2>4. SlotInv' BY <1>6, SMT DEF SlotInv, PrepareThrows, Throw
  <2>5. FlagInv' BY <1>6, SMT DEF FlagInv, PrepareThrows, Throw
  <2>6. LogInv' BY <1>6, SMT DEF LogInv, ModelOrder, PrepareThrows, Throw
  <2>7. PoolInv' BY <1>6, SMT DEF PoolInv, TypeOK, PrepareThrows, Throw
  <2> QED BY <2>1, <2>2, <2>3, <2>4, <2>5, <2>6, <2>7
<1>7. CASE CommitFinal
  <2>1. TypeOK' BY <1>7, SMT DEF TypeOK, Ready, CommitFinal, CommitResult
  <2>2. GroupInv' BY <1>7, SMT DEF GroupInv, TypeOK, CommitFinal, CommitResult
  <2>3. CursorInv'
    BY <1>7, SMT DEF CursorInv, TypeOK, SlotInv, Ready, CommitFinal, CommitResult
  <2>4. SlotInv' BY <1>7, SMT DEF SlotInv, TypeOK, CommitFinal, CommitResult
  <2>5. FlagInv' BY <1>7, SMT DEF FlagInv, CommitFinal, CommitResult
  <2>6. LogInv'
    BY <1>7, SMT
    DEF LogInv, TypeOK, CursorInv, SlotInv, ModelOrder, Ready, CommitFinal, CommitResult
  <2>7. PoolInv' BY <1>7, SMT DEF PoolInv, TypeOK, CommitFinal, CommitResult
  <2> QED BY <2>1, <2>2, <2>3, <2>4, <2>5, <2>6, <2>7
<1>8. CASE BeginFinalize
  <2>1. TypeOK' BY <1>8, SMT DEF TypeOK, BeginFinalize
  <2>2. GroupInv' BY <1>8, SMT DEF GroupInv, BeginFinalize
  <2>3. CursorInv' BY <1>8, SMT DEF CursorInv, BeginFinalize
  <2>4. SlotInv' BY <1>8, SMT DEF SlotInv, Ready, BeginFinalize
  <2>5. FlagInv' BY <1>8, SMT DEF FlagInv, BeginFinalize
  <2>6. LogInv' BY <1>8, SMT DEF LogInv, ModelOrder, BeginFinalize
  <2>7. PoolInv' BY <1>8, SMT DEF PoolInv, TypeOK, BeginFinalize
  <2> QED BY <2>1, <2>2, <2>3, <2>4, <2>5, <2>6, <2>7
<1>9. CASE Finalized
  <2>1. TypeOK' BY <1>9, SMT DEF TypeOK, SlotInv, Ready, Finalized, CommitResult
  <2>2. GroupInv' BY <1>9, SMT DEF GroupInv, TypeOK, Finalized, CommitResult
  <2>3. CursorInv'
    BY <1>9, SMT DEF CursorInv, TypeOK, SlotInv, Ready, Finalized, CommitResult
  <2>4. SlotInv' BY <1>9, SMT DEF SlotInv, TypeOK, Finalized, CommitResult
  <2>5. FlagInv' BY <1>9, SMT DEF FlagInv, Finalized, CommitResult
  <2>6. LogInv'
    BY <1>9, SMT
    DEF LogInv, TypeOK, CursorInv, SlotInv, ModelOrder, Ready, Finalized, CommitResult
  <2>7. PoolInv' BY <1>9, SMT DEF PoolInv, TypeOK, Finalized, CommitResult
  <2> QED BY <2>1, <2>2, <2>3, <2>4, <2>5, <2>6, <2>7
<1>10. CASE FinalizeThrows
  <2>1. TypeOK' BY <1>10, SMT DEF TypeOK, FinalizeThrows, Throw
  <2>2. GroupInv' BY <1>10, SMT DEF GroupInv, FinalizeThrows, Throw
  <2>3. CursorInv' BY <1>10, SMT DEF CursorInv, FinalizeThrows, Throw
  <2>4. SlotInv' BY <1>10, SMT DEF SlotInv, FinalizeThrows, Throw
  <2>5. FlagInv' BY <1>10, SMT DEF FlagInv, FinalizeThrows, Throw
  <2>6. LogInv' BY <1>10, SMT DEF LogInv, ModelOrder, FinalizeThrows, Throw
  <2>7. PoolInv' BY <1>10, SMT DEF PoolInv, TypeOK, FinalizeThrows, Throw
  <2> QED BY <2>1, <2>2, <2>3, <2>4, <2>5, <2>6, <2>7
<1>11. CASE CommitReturns
  <2>1. CASE failure
    <3>0. pc = "committed" /\ Throw /\ UNCHANGED inFlight
      BY <1>11, <2>1 DEF CommitReturns, Throw, AbortSeen
    <3>1. TypeOK' BY <3>0, <2>1, SMT DEF TypeOK, Throw
    <3>2. GroupInv' BY <3>0, <2>1, SMT DEF GroupInv, Throw
    <3>3. CursorInv' BY <3>0, <2>1, SMT DEF CursorInv, Throw
    <3>4. SlotInv' BY <3>0, <2>1, SMT DEF SlotInv, Throw
    <3>5. FlagInv' BY <3>0, <2>1, SMT DEF FlagInv, Throw
    <3>6. LogInv' BY <3>0, <2>1, SMT DEF LogInv, ModelOrder, Throw
    <3>7. PoolInv' BY <3>0, <2>1, SMT DEF PoolInv, Throw
    <3> QED BY <3>1, <3>2, <3>3, <3>4, <3>5, <3>6, <3>7
  <2>2. CASE ~failure
    <3>0. /\ pc = "committed" /\ pc' = "fill"
          /\ aborted' = (aborted \/ signal)
          /\ UNCHANGED <<first, last, mode, committed, nextToStart, started, startMode,
                         slots, inFlight, settled, failure, signal, calls, results,
                         skipped>>
      BY <1>11, <2>2 DEF CommitReturns, Throw, AbortSeen
    <3>1. TypeOK' BY <3>0, <2>2, SMT DEF TypeOK
    <3>2. GroupInv' BY <3>0, <2>2, SMT DEF GroupInv
    <3>3. CursorInv' BY <3>0, <2>2, SMT DEF CursorInv
    <3>4. SlotInv' BY <3>0, <2>2, SMT DEF SlotInv, Ready
    <3>5. FlagInv' BY <3>0, <2>2, SMT DEF FlagInv, TypeOK
    <3>6. LogInv' BY <3>0, <2>2, SMT DEF LogInv, ModelOrder
    <3>7. PoolInv' BY <3>0, <2>2, SMT DEF PoolInv
    <3> QED BY <3>1, <3>2, <3>3, <3>4, <3>5, <3>6, <3>7
  <2> QED BY <2>1, <2>2
<1>12. ASSUME NEW c \in Calls, RaceWon(c) PROVE IInv'
  <2>1. CASE failure
    <3>0. pc = "race" /\ c \in inFlight \cap settled /\ Throw /\ inFlight' = inFlight \ {c}
      BY <1>12, <2>1 DEF RaceWon, WithoutWinner, Throw
    <3>1. TypeOK' BY <3>0, <2>1, SMT DEF TypeOK, Throw
    <3>2. GroupInv' BY <3>0, <2>1, SMT DEF GroupInv, Throw
    <3>3. CursorInv' BY <3>0, <2>1, SMT DEF CursorInv, Throw
    <3>4. SlotInv' BY <3>0, <2>1, SMT DEF SlotInv, Throw
    <3>5. FlagInv' BY <3>0, <2>1, SMT DEF FlagInv, Throw
    <3>6. LogInv' BY <3>0, <2>1, SMT DEF LogInv, ModelOrder, Throw
    <3>7. PoolInv'
      BY <3>0, FewerInFlight DEF PoolInv, Throw
    <3> QED BY <3>1, <3>2, <3>3, <3>4, <3>5, <3>6, <3>7
  <2>2. CASE ~failure
    <3>0. /\ pc = "race" /\ c \in inFlight \cap settled /\ pc' = "commit"
          /\ inFlight' = inFlight \ {c}
          /\ UNCHANGED <<first, last, mode, committed, nextToStart, started, startMode,
                         slots, settled, failure, aborted, signal, calls, results, skipped>>
      BY <1>12, <2>2 DEF RaceWon, WithoutWinner, Throw
    <3>1. TypeOK' BY <3>0, <2>2, SMT DEF TypeOK
    <3>2. GroupInv' BY <3>0, <2>2, SMT DEF GroupInv
    <3>3. CursorInv' BY <3>0, <2>2, SMT DEF CursorInv
    <3>4. SlotInv' BY <3>0, <2>2, SMT DEF SlotInv, Ready
    <3>5. FlagInv' BY <3>0, <2>2, SMT DEF FlagInv
    <3>6. LogInv' BY <3>0, <2>2, SMT DEF LogInv, ModelOrder
    <3>7. PoolInv'
      BY <3>0, FewerInFlight DEF PoolInv
    <3> QED BY <3>1, <3>2, <3>3, <3>4, <3>5, <3>6, <3>7
  <2> QED BY <2>1, <2>2
<1>13. CASE Drained
  <2>1. TypeOK' BY <1>13, SMT DEF TypeOK, Drained, AllSettled
  <2>2. GroupInv' BY <1>13, SMT DEF GroupInv, Drained, AllSettled
  <2>3. CursorInv' BY <1>13, SMT DEF CursorInv, Drained, AllSettled
  <2>4. SlotInv' BY <1>13, SMT DEF SlotInv, Drained, AllSettled
  <2>5. FlagInv' BY <1>13, SMT DEF FlagInv, Drained, AllSettled
  <2>6. LogInv' BY <1>13, SMT DEF LogInv, ModelOrder, Drained, AllSettled
  <2>7. PoolInv' BY <1>13, SMT DEF PoolInv, TypeOK, Drained, AllSettled
  <2> QED BY <2>1, <2>2, <2>3, <2>4, <2>5, <2>6, <2>7
<1>14. CASE SkipCall
  <2>1. TypeOK'
    <3>1. Len(calls) + 1 \in Calls
      BY <1>14 DEF SkipCall, TypeOK
    <3>2. calls' \in Seq(Calls)
      BY <1>14, <3>1 DEF SkipCall, TypeOK
    <3>3. results' \in Seq(Calls)
      BY <1>14, <3>1 DEF SkipCall, SkippedResult, TypeOK
    <3>4. skipped' \subseteq Calls
      BY <1>14, <3>1 DEF SkipCall, TypeOK
    <3>5. UNCHANGED <<pc, first, last, mode, committed, nextToStart, started, inFlight,
                      startMode,
                     slots, settled, failure, aborted, signal>>
      BY <1>14 DEF SkipCall
    <3> QED BY <3>2, <3>3, <3>4, <3>5 DEF TypeOK
  <2>2. GroupInv' BY <1>14, SMT DEF GroupInv, SkipCall, SkippedResult
  <2>3. CursorInv' BY <1>14, SMT DEF CursorInv, SkipCall, SkippedResult
  <2>4. SlotInv' BY <1>14, SMT DEF SlotInv, SkipCall, SkippedResult
  <2>5. FlagInv' BY <1>14, SMT DEF FlagInv, SkipCall, SkippedResult
  <2>6. LogInv' BY <1>14, SMT DEF LogInv, ModelOrder, SkipCall, SkippedResult
  <2>7. PoolInv' BY <1>14, SMT DEF PoolInv, TypeOK, SkipCall, SkippedResult
  <2> QED BY <2>1, <2>2, <2>3, <2>4, <2>5, <2>6, <2>7
<1>15. CASE AllSkipped
  <2>1. TypeOK' BY <1>15, SMT DEF TypeOK, AllSkipped
  <2>2. GroupInv' BY <1>15, SMT DEF GroupInv, AllSkipped
  <2>3. CursorInv' BY <1>15, SMT DEF CursorInv, AllSkipped
  <2>4. SlotInv' BY <1>15, SMT DEF SlotInv, AllSkipped
  <2>5. FlagInv' BY <1>15, SMT DEF FlagInv, AllSkipped
  <2>6. LogInv' BY <1>15, SMT DEF LogInv, ModelOrder, AllSkipped
  <2>7. PoolInv' BY <1>15, SMT DEF PoolInv, TypeOK, AllSkipped
  <2> QED BY <2>1, <2>2, <2>3, <2>4, <2>5, <2>6, <2>7
<1>16. ASSUME NEW c \in Calls, NEW k \in {"post", "final", "rejected"},
DispatchSettles(c, k)
       PROVE  IInv'
  <2>1. CASE k = "rejected"
    <3>1. TypeOK' BY <1>16, <2>1, SMT DEF TypeOK, DispatchSettles
    <3>2. GroupInv' BY <1>16, <2>1, SMT DEF GroupInv, DispatchSettles
    <3>3. CursorInv' BY <1>16, <2>1, SMT DEF CursorInv, DispatchSettles
    <3>4. SlotInv' BY <1>16, <2>1, SMT DEF SlotInv, Ready, DispatchSettles
    <3>5. FlagInv' BY <1>16, <2>1, SMT DEF FlagInv, DispatchSettles
    <3>6. LogInv' BY <1>16, <2>1, SMT DEF LogInv, ModelOrder, DispatchSettles
    <3>7. PoolInv' BY <1>16, <2>1, SMT DEF PoolInv, DispatchSettles
    <3> QED BY <3>1, <3>2, <3>3, <3>4, <3>5, <3>6, <3>7
  <2>2. CASE k # "rejected"
    <3>1. TypeOK'
      <4>1. slots' \in [Calls -> {"empty", "post", "final"}]
        BY <1>16, <2>2 DEF DispatchSettles, TypeOK
      <4> QED BY <1>16, <2>2, <4>1 DEF DispatchSettles, TypeOK
    <3>2. GroupInv' BY <1>16, <2>2, SMT DEF GroupInv, DispatchSettles
    <3>3. CursorInv' BY <1>16, <2>2, SMT DEF CursorInv, DispatchSettles
    <3>4. SlotInv' BY <1>16, <2>2, SMT DEF SlotInv, TypeOK, Ready, DispatchSettles
    <3>5. FlagInv' BY <1>16, <2>2, SMT DEF FlagInv, DispatchSettles
    <3>6. LogInv' BY <1>16, <2>2, SMT DEF LogInv, ModelOrder, DispatchSettles
    <3>7. PoolInv' BY <1>16, <2>2, SMT DEF PoolInv, DispatchSettles
    <3> QED BY <3>1, <3>2, <3>3, <3>4, <3>5, <3>6, <3>7
  <2> QED BY <2>1, <2>2
<1>17. CASE Cancel
  <2>1. TypeOK' BY <1>17, SMT DEF TypeOK, Cancel
  <2>2. GroupInv' BY <1>17, SMT DEF GroupInv, Cancel
  <2>3. CursorInv' BY <1>17, SMT DEF CursorInv, Cancel
  <2>4. SlotInv' BY <1>17, SMT DEF SlotInv, Ready, Cancel
  <2>5. FlagInv' BY <1>17, SMT DEF FlagInv, Cancel
  <2>6. LogInv' BY <1>17, SMT DEF LogInv, ModelOrder, Cancel
  <2>7. PoolInv' BY <1>17, SMT DEF PoolInv, TypeOK, Cancel
  <2> QED BY <2>1, <2>2, <2>3, <2>4, <2>5, <2>6, <2>7
<1>18. CASE UNCHANGED vars
  <2>1. TypeOK' BY <1>18, SMT DEF TypeOK, vars
  <2>2. GroupInv' BY <1>18, SMT DEF GroupInv, vars
  <2>3. CursorInv' BY <1>18, SMT DEF CursorInv, vars
  <2>4. SlotInv' BY <1>18, SMT DEF SlotInv, Ready, vars
  <2>5. FlagInv' BY <1>18, SMT DEF FlagInv, vars
  <2>6. LogInv' BY <1>18, SMT DEF LogInv, ModelOrder, vars
  <2>7. PoolInv' BY <1>18, SMT DEF PoolInv, TypeOK, vars
  <2> QED BY <2>1, <2>2, <2>3, <2>4, <2>5, <2>6, <2>7
<1>19. CASE StartReturns
  <2>1. CASE failure
    <3>0. pc = "prepared" /\ Throw /\ UNCHANGED inFlight
      BY <1>19, <2>1 DEF StartReturns, Throw
    <3>1. TypeOK' BY <3>0, <2>1, SMT DEF TypeOK, Throw
    <3>2. GroupInv' BY <3>0, <2>1, SMT DEF GroupInv, Throw
    <3>3. CursorInv' BY <3>0, <2>1, SMT DEF CursorInv, Throw
    <3>4. SlotInv' BY <3>0, <2>1, SMT DEF SlotInv, Throw
    <3>5. FlagInv' BY <3>0, <2>1, SMT DEF FlagInv, Throw
    <3>6. LogInv' BY <3>0, <2>1, SMT DEF LogInv, ModelOrder, Throw
    <3>7. PoolInv' BY <3>0, <2>1, SMT DEF PoolInv, Throw
    <3> QED BY <3>1, <3>2, <3>3, <3>4, <3>5, <3>6, <3>7
  <2>2. CASE ~failure
    <3>0. /\ pc = "prepared" /\ pc' = "commit"
          /\ UNCHANGED <<first, last, mode, committed, nextToStart, started, startMode,
                         slots, inFlight, settled, failure, aborted, signal, calls,
                         results, skipped>>
      BY <1>19, <2>2 DEF StartReturns, Throw
    <3>1. TypeOK' BY <3>0, <2>2, SMT DEF TypeOK
    <3>2. GroupInv' BY <3>0, <2>2, SMT DEF GroupInv
    <3>3. CursorInv' BY <3>0, <2>2, SMT DEF CursorInv
    <3>4. SlotInv' BY <3>0, <2>2, SMT DEF SlotInv, TypeOK, Ready
    <3>5. FlagInv' BY <3>0, <2>2, SMT DEF FlagInv
    <3>6. LogInv' BY <3>0, <2>2, SMT DEF LogInv, ModelOrder
    <3>7. PoolInv' BY <3>0, <2>2, SMT DEF PoolInv
    <3> QED BY <3>1, <3>2, <3>3, <3>4, <3>5, <3>6, <3>7
  <2> QED BY <2>1, <2>2
<1>20. CASE CommitEnds
  <2>1. TypeOK' BY <1>20, SMT DEF TypeOK, CommitEnds
  <2>2. GroupInv' BY <1>20, SMT DEF GroupInv, CommitEnds
  <2>3. CursorInv' BY <1>20, SMT DEF CursorInv, CommitEnds
  <2>4. SlotInv' BY <1>20, SMT DEF SlotInv, TypeOK, Ready, CommitEnds
  <2>5. FlagInv' BY <1>20, SMT DEF FlagInv, CommitEnds
  <2>6. LogInv' BY <1>20, SMT DEF LogInv, ModelOrder, CommitEnds
  <2>7. PoolInv' BY <1>20, SMT DEF PoolInv, CommitEnds
  <2> QED BY <2>1, <2>2, <2>3, <2>4, <2>5, <2>6, <2>7
<1> QED BY <1>1, <1>2, <1>3, <1>4, <1>5, <1>6, <1>7, <1>8, <1>9, <1>10,
       <1>11, <1>12, <1>13, <1>14, <1>15, <1>16, <1>17, <1>18, <1>19, <1>20
  DEF Next, Scheduler, ToolSettles

(* The initial states satisfy IInv. *)
LEMMA Initially == Init => IInv
<1> SUFFICES ASSUME Init PROVE IInv
  OBVIOUS
<1> USE SchedulerAssumption DEF Init, Calls, Modes, AwaitPC, Terminal, Failing,
      Outside, Running
<1>1. TypeOK
  <2>1. calls \in Seq(Calls) /\ results \in Seq(Calls)
    OBVIOUS
  <2>2. /\ slots \in [Calls -> {"empty", "post", "final"}]
       /\ startMode \in [Calls -> Modes \cup {"none"}]
    OBVIOUS
  <2>3. 1 \in Calls /\ 1 \in 1..NCalls+1 /\ 0 \in 0..NCalls
    OBVIOUS
  <2> QED BY <2>1, <2>2, <2>3 DEF TypeOK
<1>2. GroupInv /\ CursorInv BY DEF GroupInv, CursorInv
<1>3. SlotInv /\ FlagInv BY DEF SlotInv, FlagInv, Ready
<1>4. LogInv
  <2>1. Len(calls) = 0 /\ Len(results) = 0
    OBVIOUS
  <2> QED BY <2>1 DEF LogInv, ModelOrder
<1>5. PoolInv BY FS_EmptySet DEF PoolInv
<1> QED BY <1>1, <1>2, <1>3, <1>4, <1>5 DEF IInv

(* IInv holds in every reachable state. *)
THEOREM Invariance == Spec => []IInv
  BY Initially, Step, PTL DEF Spec

(* The locals of executeToolCalls() and runGroup() keep their types. *)
THEOREM TypeCorrect == Spec => []TypeOK
<1>1. IInv => TypeOK
  BY DEF IInv
<1> QED BY <1>1, Invariance, PTL

(* Calls and results are logged in model order, for any number of calls,   *)
(* any pool size and any order in which the tools settle.                  *)
THEOREM LogInModelOrder == Spec => []ModelOrder
<1>1. IInv => ModelOrder
  BY DEF IInv, LogInv
<1> QED BY <1>1, Invariance, PTL

(* A step that returns has answered every call of the message. *)
THEOREM NoCallUnanswered == Spec => []EveryCallAnswered
<1>1. IInv => EveryCallAnswered
  BY DEF IInv, LogInv, EveryCallAnswered
<1> QED BY <1>1, Invariance, PTL

(* An exclusive call overlaps no other call of its step. *)
THEOREM ExclusiveIsABarrier == Spec => []ExclusiveAlone
<1>1. IInv => ExclusiveAlone
  <2> SUFFICES ASSUME IInv PROVE ExclusiveAlone
    OBVIOUS
  <2> USE DEF IInv, TypeOK, Calls, Modes
  <2>1. ASSUME NEW c \in inFlight, startMode[c] = "exclusive"
        PROVE  inFlight = {c} /\ committed >= c - 1
    <3>1. pc \notin Outside /\ pc \notin {"classify", "skip", "done"}
      BY <2>1 DEF GroupInv, Outside
    <3>2. c \in first..started
      BY <2>1, <3>1 DEF GroupInv
    <3>3. mode = "exclusive"
      BY <2>1, <3>1, <3>2 DEF GroupInv
    <3>4. inFlight \subseteq {first} /\ first - 1 <= committed
      BY <3>1, <3>3 DEF GroupInv
    <3> QED BY <2>1, <3>4
  <2>2. ASSUME pc = "prepare", startMode[nextToStart] = "exclusive"
        PROVE  inFlight = {} /\ committed = nextToStart - 1
    <3>1. first <= started /\ nextToStart = started /\ committed < started
      BY <2>2 DEF GroupInv, CursorInv, Outside
    <3>2. mode = "exclusive"
      BY <2>2, <3>1 DEF GroupInv, Outside
    <3>3. started = first /\ committed = first - 1
      BY <2>2, <3>1, <3>2 DEF GroupInv, Outside
    <3>4. \A c \in inFlight : c = first /\ c < nextToStart
      BY <2>2, <3>3 DEF GroupInv, SlotInv, Outside, Failing
    <3> QED BY <3>1, <3>3, <3>4
  <2> QED BY <2>1, <2>2 DEF ExclusiveAlone
<1> QED BY <1>1, Invariance, PTL

(* The pool is bounded by the configured maximum. *)
THEOREM PoolIsBounded == Spec => []PoolBound
<1>1. IInv => PoolBound
  BY DEF IInv, PoolInv, PoolBound
<1> QED BY <1>1, Invariance, PTL

(* A failure skips no call and leaves no tool running. *)
THEOREM FailureDrains == Spec => []FailureIsClean
<1>1. IInv => FailureIsClean
  BY DEF IInv, LogInv, FlagInv, FailureIsClean
<1> QED BY <1>1, Invariance, PTL

(* The unreachable throw of runGroup() really is unreachable. *)
THEOREM GroupLeavesNothing == Spec => NothingUncommitted
<1>1. IInv /\ [Next]_vars => (pc = "fill" /\ pc' = "classify" => committed = started)
  <2> SUFFICES ASSUME IInv, [Next]_vars, pc = "fill", pc' = "classify"
               PROVE  committed = started
    OBVIOUS
  <2>1. committed' = started'
    BY Step DEF IInv, CursorInv
  <2>2. StopFilling
    BY DEF Next, Scheduler, ToolSettles, AwaitPC, vars, Classify, AllGroupsDone, StartCall,
           Prepared, PrepareThrows, StartReturns, Throw, CommitFinal, CommitResult,
           BeginFinalize,
           Finalized, FinalizeThrows, CommitEnds, CommitReturns, RaceWon, Drained,
           SkipCall, AllSkipped, DispatchSettles, Cancel
  <2> QED BY <2>1, <2>2 DEF StopFilling, poolVars
<1> QED BY <1>1, Invariance, PTL DEF Spec, NothingUncommitted

(* Nothing of the step is started once its signal has fired. *)
THEOREM CancelStopsStarts == Spec => NoStartAfterCancel
<1>1. IInv /\ [Next]_vars => (started' # started => ~signal)
  <2> SUFFICES ASSUME IInv, [Next]_vars, started' # started
               PROVE  ~signal
    OBVIOUS
  <2>1. StartCall
    BY DEF Next, Scheduler, ToolSettles, vars, poolVars, Classify, AllGroupsDone,
           StopFilling,
           Prepared, PrepareThrows, StartReturns, Throw, CommitFinal, CommitResult,
           BeginFinalize,
           Finalized, FinalizeThrows, CommitEnds, CommitReturns, RaceWon, Drained,
           SkipCall, AllSkipped,
           DispatchSettles, Cancel
  <2> QED BY <2>1 DEF StartCall, PoolOpen, IInv, FlagInv
<1> QED BY <1>1, Invariance, PTL DEF Spec, NoStartAfterCancel

(* Nothing is dispatched once the scheduler has failed. *)
THEOREM FailureStopsDispatch == Spec => NoDispatchAfterFailure
<1>1. IInv /\ [Next]_vars => (failure => inFlight' \subseteq inFlight)
  <2> SUFFICES ASSUME IInv, [Next]_vars, failure PROVE inFlight' \subseteq inFlight
    OBVIOUS
  <2>1. \A k \in {"dispatch", "post", "final"} : ~Prepared(k)
    BY DEF Prepared, FailureSeen
  <2> QED BY <2>1 DEF Next, Scheduler, ToolSettles, vars, poolVars, Classify, AllGroupsDone,
           StartCall, StopFilling, PrepareThrows, StartReturns, CommitFinal, CommitResult,
           BeginFinalize, Finalized, FinalizeThrows, CommitEnds, CommitReturns, RaceWon,
           WithoutWinner, Drained, SkipCall,
           AllSkipped, DispatchSettles, Cancel
<1> QED BY <1>1, Invariance, PTL DEF Spec, NoDispatchAfterFailure

(* What no step of a group may do, for any calls and any pool. *)
THEOREM Disciplined == Spec => GroupDiscipline
<1> QED BY CancelStopsStarts, FailureStopsDispatch, GroupLeavesNothing DEF GroupDiscipline

(* The scheduler implements the contract of the step's log. *)
THEOREM Implementation == Spec => ImplementsContract
<1>1. Init => Contract!Init
  BY DEF Init, Contract!Init, Terminal
<1>2. IInv /\ [Next]_vars => [Contract!Next]_(Contract!resultVars)
  <2> SUFFICES ASSUME IInv, [Next]_vars PROVE [Contract!Next]_(Contract!resultVars)
    OBVIOUS
  <2> USE SchedulerAssumption DEF IInv, Terminal, Contract!resultVars
  <2>1. CASE StartCall
    <3>1. Len(calls') = Len(calls) + 1 /\ Len(calls) < NCalls
      BY <2>1 DEF StartCall, PoolOpen, TypeOK, Calls, CursorInv, LogInv, Failing
    <3> QED BY <2>1, <3>1 DEF StartCall, Contract!Next, Contract!Record
  <2>2. ASSUME CommitResult, pc \in {"commit", "finalize"}, Ready
        PROVE  Contract!Next
    <3>1. Len(results') = Len(results) + 1
      BY <2>2 DEF CommitResult, TypeOK
    <3>2. Len(results) < Len(calls)
      BY <2>2, Step DEF CommitResult, LogInv, CursorInv, TypeOK
    <3> QED BY <2>2, <3>1, <3>2 DEF CommitResult, Contract!Next, Contract!Answer
  <2>3. CASE CommitFinal \/ Finalized
    BY <2>2, <2>3 DEF CommitFinal, Finalized, SlotInv
  <2>4. CASE SkipCall
    <3>1. Len(calls') = Len(calls) + 1 /\ Len(results') = Len(results) + 1
      BY <2>4 DEF SkipCall, SkippedResult, TypeOK
    <3> QED BY <2>4, <3>1 DEF SkipCall, LogInv, Contract!Next, Contract!Skip
  <2>5. CASE AllGroupsDone \/ AllSkipped
    BY <2>5 DEF AllGroupsDone, AllSkipped, LogInv, CursorInv, TypeOK, logVars, poolVars,
                groupVars, Contract!Next, Contract!Finish
  <2>6. CASE Drained
    BY <2>6 DEF Drained, logVars, Contract!Next, Contract!Fail
  <2>7. CASE \/ \E m \in Modes : Classify(m)
             \/ StopFilling \/ BeginFinalize \/ PrepareThrows \/ FinalizeThrows
             \/ \E k \in {"dispatch", "post", "final"} : Prepared(k)
    BY <2>7 DEF Classify, StopFilling, BeginFinalize, PrepareThrows, FinalizeThrows, Throw,
                Prepared, logVars
  <2>8. CASE StartReturns \/ CommitEnds \/ CommitReturns \/ (\E c \in Calls : RaceWon(c))
             \/ ToolSettles \/ Cancel \/ UNCHANGED vars
    BY <2>8 DEF StartReturns, CommitEnds, CommitReturns, RaceWon, Throw, ToolSettles,
                DispatchSettles, Cancel, vars,
                logVars, AwaitPC
  <2> QED BY <2>1, <2>3, <2>4, <2>5, <2>6, <2>7, <2>8 DEF Next, Scheduler
<1> QED BY <1>1, <1>2, Invariance, PTL DEF Spec, ImplementsContract, Contract!Spec
=============================================================================
