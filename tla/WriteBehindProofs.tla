------------------------- MODULE WriteBehindProofs -------------------------
(***************************************************************************)
(* Theorems about WriteBehind for any number of callers and of events.     *)
(* Ownership is the inductive invariant of the control: who will write a   *)
(* queued event, how many timeouts are armed, that writes never overlap.   *)
(* Durability, which relies on it, is the one of the data: where every     *)
(* event of the session is.  It makes the controller an implementation of  *)
(* DurableLog.                                                             *)
(***************************************************************************)
EXTENDS WriteBehind, FiniteSetTheorems, SequenceTheorems, TLAPS

(* The part of TypeOK that the control depends on. *)
ControlOK ==
    /\ admitted \in Nat
    /\ init \in {"pending", "ok", "failed"}
    /\ pending \in Seq(Nat) /\ batch \in Seq(Nat)
    /\ timer \in BOOLEAN
    /\ active \in {"none", "writing", "stored", "failed"} /\ background \in BOOLEAN
    /\ continuation \in BOOLEAN
    /\ barrier \in {"none", "overlap", "write"} \cup Resuming
    /\ deadlineExpired \in BOOLEAN /\ automaticPaused \in BOOLEAN
    /\ caller \in [Callers -> {"idle", "init", "barrier", "ok", "failed"}]

(* A timer waits for queued events, on behalf of the automatic path only. *)
TimerInv ==
    /\ OneTimeout
    /\ timer => pending # <<>> /\ ~automaticPaused /\ barrier = "none"

(* How the active write, its owner and the barrier go together. *)
StageInv ==
    /\ barrier \in Resuming => active = "none"
    /\ barrier \in {"overlap", "write"} => active # "none"
    /\ active # "none" /\ ~background => barrier = "write"
    /\ active = "failed" => ~deadlineExpired
    /\ barrier = "writeFailed" \/ (barrier = "write" /\ active = "failed")
         => automaticPaused
    /\ continuation /\ barrier = "none" => active = "none"

(* NoStrandedEvent, with the reason why an active write will go on: its     *)
(* successor's deadline expired meanwhile.                                  *)
OwnedInv ==
    pending # <<>> =>
        \/ timer
        \/ deadlineExpired /\ (active # "none" \/ continuation)
        \/ barrier # "none" \/ automaticPaused \/ init = "failed"
        \/ \E c \in Callers : caller[c] = "init"

Ownership == ControlOK /\ TimerInv /\ StageInv /\ OwnedInv

(* Every step preserves Ownership. *)
LEMMA Step == Ownership /\ [Next]_vars => Ownership'
<1> SUFFICES ASSUME Ownership, [Next]_vars PROVE Ownership'
  OBVIOUS
<1> USE EventsAssumption DEF Ownership, OneTimeout, Resuming, timerVars, writeVars,
                             flagVars,
      storeVars, callVars
<1>0. <<>> \in Seq(Nat)
  OBVIOUS
<1>1. CASE InitSettles
  <2>1. ControlOK' BY <1>1, SMT DEF ControlOK, InitSettles
  <2>2. TimerInv' BY <1>1, SMT DEF TimerInv, InitSettles
  <2>3. StageInv' BY <1>1, SMT DEF StageInv, InitSettles
  <2>4. OwnedInv' BY <1>1, SMT DEF OwnedInv, InitSettles
  <2> QED BY <2>1, <2>2, <2>3, <2>4
<1>2. CASE Enqueue
  <2>1. ControlOK'
    <3>1. pending' \in Seq(Nat)
      BY <1>2 DEF ControlOK, Enqueue
    <3>2. admitted' \in Nat
      BY <1>2 DEF ControlOK, Enqueue
    <3> QED BY <1>2, <3>1, <3>2 DEF ControlOK, Enqueue, OpensWindow, ArmTimer
  <2>2. TimerInv'
    <3>1. pending' # <<>>
      BY <1>2 DEF ControlOK, Enqueue
    <3>2. OneTimeout'
      BY <1>2 DEF ControlOK, TimerInv, Enqueue, OpensWindow, ArmTimer, OneTimeout
    <3> QED BY <1>2, <3>1, <3>2 DEF TimerInv, ControlOK, Enqueue, OpensWindow, ArmTimer
  <2>3. StageInv' BY <1>2, SMT DEF StageInv, Enqueue, OpensWindow, ArmTimer
  <2>4. OwnedInv' BY <1>2, SMT DEF OwnedInv, Enqueue, OpensWindow, ArmTimer
  <2> QED BY <2>1, <2>2, <2>3, <2>4
<1>3. CASE Deadline
  <2>1. ControlOK'
    <3>1. pending' \in Seq(Nat) /\ batch' \in Seq(Nat)
      BY <1>3, <1>0 DEF ControlOK, Deadline
    <3> QED BY <1>3, <3>1 DEF ControlOK, Deadline, Overlaps, Quiet
  <2>2. TimerInv' BY <1>3, SMT DEF TimerInv, Deadline, Overlaps, Quiet
  <2>3. StageInv' BY <1>3, SMT DEF StageInv, Deadline, Overlaps, Quiet
  <2>4. OwnedInv' BY <1>3, SMT DEF OwnedInv, Deadline, Overlaps, Quiet
  <2> QED BY <2>1, <2>2, <2>3, <2>4
<1>4. CASE WriteStored
  <2>1. ControlOK' BY <1>4, SMT DEF ControlOK, WriteStored
  <2>2. TimerInv' BY <1>4, SMT DEF TimerInv, WriteStored
  <2>3. StageInv' BY <1>4, SMT DEF StageInv, WriteStored
  <2>4. OwnedInv' BY <1>4, SMT DEF OwnedInv, WriteStored
  <2> QED BY <2>1, <2>2, <2>3, <2>4
<1>5. CASE WriteFails
  <2>1. ControlOK'
    <3>1. pending' \in Seq(Nat)
      BY <1>5 DEF ControlOK, WriteFails, Requeued
    <3> QED BY <1>5, <3>1 DEF ControlOK, WriteFails, CancelTimer
  <2>2. TimerInv' BY <1>5, SMT DEF TimerInv, WriteFails, CancelTimer
  <2>3. StageInv' BY <1>5, SMT DEF StageInv, WriteFails, CancelTimer
  <2>4. OwnedInv' BY <1>5, SMT DEF OwnedInv, WriteFails, CancelTimer
  <2> QED BY <2>1, <2>2, <2>3, <2>4
<1>6. CASE WriteFinally
  <2>1. ControlOK' BY <1>6, SMT DEF ControlOK, WriteFinally
  <2>2. TimerInv' BY <1>6, SMT DEF TimerInv, WriteFinally
  <2>3. StageInv' BY <1>6, SMT DEF StageInv, WriteFinally
  <2>4. OwnedInv' BY <1>6, SMT DEF OwnedInv, ControlOK, StageInv, WriteFinally
  <2> QED BY <2>1, <2>2, <2>3, <2>4
<1>7. CASE ContinueAutomatic
  <2>1. ControlOK'
    <3>1. pending' \in Seq(Nat) /\ batch' \in Seq(Nat)
      BY <1>7, <1>0 DEF ControlOK, ContinueAutomatic, StartWrite
    <3> QED BY <1>7, <3>1 DEF ControlOK, ContinueAutomatic, StartWrite, CancelTimer
  <2>2. TimerInv' BY <1>7, SMT DEF TimerInv, ContinueAutomatic, StartWrite, CancelTimer
  <2>3. StageInv' BY <1>7, SMT DEF StageInv, ContinueAutomatic, StartWrite, CancelTimer
  <2>4. OwnedInv' BY <1>7, SMT DEF OwnedInv, ContinueAutomatic, StartWrite, CancelTimer
  <2> QED BY <2>1, <2>2, <2>3, <2>4
<1>8. CASE DrainBarrier
  <2>1. ControlOK'
    <3>1. pending' \in Seq(Nat) /\ batch' \in Seq(Nat)
      BY <1>8, <1>0 DEF ControlOK, DrainBarrier, StartWrite
    <3>2. caller' \in [Callers -> {"idle", "init", "barrier", "ok", "failed"}]
      BY <1>8 DEF ControlOK, DrainBarrier, Release
    <3> QED BY <1>8, <3>1, <3>2 DEF ControlOK, DrainBarrier, MoreToDrain, StartWrite,
                                    CancelTimer, Release
  <2>2. TimerInv'
    BY <1>8, SMT DEF TimerInv, DrainBarrier, MoreToDrain, StartWrite, CancelTimer, Release
  <2>3. StageInv'
    BY <1>8, SMT DEF StageInv, DrainBarrier, MoreToDrain, StartWrite, CancelTimer, Release
  <2>4. OwnedInv'
    BY <1>8, SMT DEF OwnedInv, DrainBarrier, MoreToDrain, StartWrite, CancelTimer, Release
  <2> QED BY <2>1, <2>2, <2>3, <2>4
<1>9. CASE DrainFails
  <2>1. ControlOK' BY <1>9, SMT DEF ControlOK, DrainFails, Release
  <2>2. TimerInv' BY <1>9, SMT DEF TimerInv, DrainFails, Release
  <2>3. StageInv' BY <1>9, SMT DEF StageInv, DrainFails, Release
  <2>4. OwnedInv' BY <1>9, SMT DEF OwnedInv, StageInv, DrainFails, Release
  <2> QED BY <2>1, <2>2, <2>3, <2>4
<1>10. ASSUME NEW c \in Callers, FlushCall(c) PROVE Ownership'
  <2>1. ControlOK'
    <3>1. caller' \in [Callers -> {"idle", "init", "barrier", "ok", "failed"}]
      BY <1>10 DEF ControlOK, FlushCall
    <3> QED BY <1>10, <3>1 DEF ControlOK, FlushCall, CancelTimer
  <2>2. TimerInv' BY <1>10, SMT DEF TimerInv, FlushCall, CancelTimer
  <2>3. StageInv' BY <1>10, SMT DEF StageInv, FlushCall, CancelTimer
  <2>4. OwnedInv' BY <1>10, SMT DEF OwnedInv, ControlOK, FlushCall, CancelTimer
  <2> QED BY <2>1, <2>2, <2>3, <2>4
<1>11. ASSUME NEW c \in Callers, FlushInitFailed(c) PROVE Ownership'
  <2>1. ControlOK'
    <3>1. caller' \in [Callers -> {"idle", "init", "barrier", "ok", "failed"}]
      BY <1>11 DEF ControlOK, FlushInitFailed
    <3> QED BY <1>11, <3>1 DEF ControlOK, FlushInitFailed, CancelTimer
  <2>2. TimerInv' BY <1>11, SMT DEF TimerInv, FlushInitFailed, CancelTimer
  <2>3. StageInv' BY <1>11, SMT DEF StageInv, FlushInitFailed, CancelTimer
  <2>4. OwnedInv' BY <1>11, SMT DEF OwnedInv, FlushInitFailed, CancelTimer
  <2> QED BY <2>1, <2>2, <2>3, <2>4
<1>12. ASSUME NEW c \in Callers, FlushJoins(c) PROVE Ownership'
  <2>1. ControlOK' BY <1>12, SMT DEF ControlOK, FlushJoins
  <2>2. TimerInv' BY <1>12, SMT DEF TimerInv, FlushJoins
  <2>3. StageInv' BY <1>12, SMT DEF StageInv, FlushJoins
  <2>4. OwnedInv' BY <1>12, SMT DEF OwnedInv, FlushJoins
  <2> QED BY <2>1, <2>2, <2>3, <2>4
<1>13. ASSUME NEW c \in Callers, FlushOpens(c) PROVE Ownership'
  <2>1. ControlOK'
    <3>1. pending' \in Seq(Nat) /\ batch' \in Seq(Nat)
      BY <1>13, <1>0 DEF ControlOK, FlushOpens
    <3>2. caller' \in [Callers -> {"idle", "init", "barrier", "ok", "failed"}]
      BY <1>13 DEF ControlOK, FlushOpens
    <3> QED BY <1>13, <3>1, <3>2 DEF ControlOK, FlushOpens, CancelTimer
  <2>2. TimerInv' BY <1>13, SMT DEF TimerInv, FlushOpens, CancelTimer
  <2>3. StageInv' BY <1>13, SMT DEF StageInv, FlushOpens, CancelTimer
  <2>4. OwnedInv' BY <1>13, SMT DEF OwnedInv, FlushOpens, CancelTimer
  <2> QED BY <2>1, <2>2, <2>3, <2>4
<1>14. ASSUME NEW c \in Callers, FlushReturns(c) PROVE Ownership'
  <2>1. ControlOK' BY <1>14, SMT DEF ControlOK, FlushReturns
  <2>2. TimerInv' BY <1>14, SMT DEF TimerInv, FlushReturns
  <2>3. StageInv' BY <1>14, SMT DEF StageInv, FlushReturns
  <2>4. OwnedInv' BY <1>14, SMT DEF OwnedInv, FlushReturns
  <2> QED BY <2>1, <2>2, <2>3, <2>4
<1>15. CASE UNCHANGED vars
  <2>1. ControlOK' BY <1>15, SMT DEF ControlOK, vars
  <2>2. TimerInv' BY <1>15, SMT DEF TimerInv, vars
  <2>3. StageInv' BY <1>15, SMT DEF StageInv, vars
  <2>4. OwnedInv' BY <1>15, SMT DEF OwnedInv, vars
  <2> QED BY <2>1, <2>2, <2>3, <2>4
<1> QED BY <1>1, <1>2, <1>3, <1>4, <1>5, <1>6, <1>7, <1>8,
       <1>9, <1>10, <1>11, <1>12, <1>13, <1>14, <1>15
  DEF Next, Jobs, WriteSettles, FlushProceeds

(* The initial states satisfy Ownership. *)
LEMMA Initially == Init => Ownership
<1> SUFFICES ASSUME Init PROVE Ownership
  OBVIOUS
<1>1. pending \in Seq(Nat) /\ (timer => pending # <<>>) /\ (pending # <<>> => timer)
  <2>1. CASE pending = <<>> /\ timer = FALSE
    BY <2>1
  <2>2. CASE seed > 0 /\ pending = <<seed - 1>> /\ timer = TRUE
    <3>1. seed - 1 \in Nat
      BY <2>2, EventsAssumption DEF Init
    <3> QED BY <2>2, <3>1
  <2> QED BY <2>1, <2>2 DEF Init
<1>2. ControlOK
  <2>1. admitted \in Nat /\ batch \in Seq(Nat)
    BY EventsAssumption DEF Init
  <2> QED BY <1>1, <2>1 DEF Init, ControlOK
<1>3. TimerInv /\ StageInv /\ OwnedInv
  BY <1>1 DEF Init, TimerInv, OneTimeout, StageInv, OwnedInv, Resuming
<1> QED BY <1>2, <1>3 DEF Ownership

(* Ownership holds in every reachable state. *)
THEOREM OwnershipHolds == Spec => []Ownership
  BY Initially, Step, PTL DEF Spec

(* The timer field names the only timeout that will fire. *)
THEOREM TimeoutsTracked == Spec => []OneTimeout
<1>1. Ownership => OneTimeout
  BY DEF Ownership, TimerInv
<1> QED BY <1>1, OwnershipHolds, PTL

(* Queued events always have somebody who will write them. *)
THEOREM EventsOwned == Spec => []NoStrandedEvent
<1>1. Ownership => NoStrandedEvent
  BY DEF Ownership, OwnedInv, NoStrandedEvent
<1> QED BY <1>1, OwnershipHolds, PTL

(* No write starts over another. *)
THEOREM WritesAlone == Spec => OneWrite
<1>1. Ownership /\ [Next]_vars => (active # "none" /\ active' = "writing" => batch' = batch)
  <2> SUFFICES ASSUME Ownership, [Next]_vars, active # "none", active' = "writing"
               PROVE  batch' = batch
    OBVIOUS
  <2>1. CASE InitSettles \/ Enqueue \/ WriteSettles \/ UNCHANGED vars
    BY <2>1 DEF InitSettles, Enqueue, WriteSettles, WriteStored, WriteFails, writeVars, vars
  <2>2. CASE Deadline
    BY <2>2 DEF Deadline, Overlaps, writeVars
  <2>3. CASE WriteFinally
    BY <2>3 DEF WriteFinally
  <2>4. CASE ContinueAutomatic
    BY <2>4 DEF ContinueAutomatic, Ownership, StageInv, writeVars
  <2>5. CASE DrainBarrier \/ DrainFails
    BY <2>5 DEF DrainBarrier, DrainFails, Ownership, StageInv, Resuming, writeVars
  <2>6. CASE \E c \in Callers : FlushProceeds(c) \/ FlushCall(c) \/ FlushReturns(c)
    BY <2>6 DEF FlushProceeds, FlushInitFailed, FlushJoins, FlushOpens, FlushCall,
                FlushReturns,
                writeVars
  <2> QED BY <2>1, <2>2, <2>3, <2>4, <2>5, <2>6 DEF Next, Jobs
<1> QED BY <1>1, OwnershipHolds, PTL DEF Spec, OneWrite

-----------------------------------------------------------------------------
(* What is stored.  Events are numbers, so a log without gaps is Upto(n).   *)

(* The first events of a session, as a sequence. *)
LEMMA UptoIsLog ==
  ASSUME NEW n \in Nat
  PROVE  Upto(n) \in Seq(Nat) /\ Len(Upto(n)) = n /\ \A i \in 1..n : Upto(n)[i] = i - 1
  BY DEF Upto

(* A shorter beginning is a prefix of a longer one. *)
LEMMA UptoPrefix ==
  ASSUME NEW n \in Nat, NEW k \in 0..n
  PROVE  SubSeq(Upto(n), 1, k) = Upto(k)
<1> DEFINE s == SubSeq(Upto(n), 1, k)
<1>1. s \in Seq(Nat) /\ Len(s) = k /\ \A i \in 1..k : s[i] = i - 1
  <2>1. Upto(n) \in Seq(Nat) /\ Len(Upto(n)) = n /\ \A i \in 1..n : Upto(n)[i] = i - 1
    BY UptoIsLog
  <2> HIDE DEF Upto
  <2>2. \A i \in 1..k : Upto(n)[i] = i - 1 /\ Upto(n)[i] \in Nat
    BY <2>1
  <2> QED BY <2>2, SubSeqProperties
<1>2. Upto(k) \in Seq(Nat) /\ Len(Upto(k)) = k /\ \A i \in 1..k : Upto(k)[i] = i - 1
  BY UptoIsLog
<1> QED BY <1>1, <1>2, SeqEqual

(* One event more. *)
LEMMA UptoAppend ==
  ASSUME NEW n \in Nat
  PROVE  Append(Upto(n), n) = Upto(n + 1)
<1> DEFINE s == Append(Upto(n), n)
<1>1. s \in Seq(Nat) /\ Len(s) = n + 1 /\ \A i \in 1..(n + 1) : s[i] = i - 1
  <2>1. Upto(n) \in Seq(Nat) /\ Len(Upto(n)) = n /\ \A i \in 1..n : Upto(n)[i] = i - 1
    BY UptoIsLog
  <2> HIDE DEF Upto
  <2>2. s \in Seq(Nat) /\ Len(s) = n + 1 /\ s[n + 1] = n /\ \A i \in 1..n : s[i] = Upto(n)[i]
    BY <2>1, AppendProperties
  <2> QED BY <2>1, <2>2
<1>2. Upto(n + 1) \in Seq(Nat) /\ Len(Upto(n + 1)) = n + 1
      /\ \A i \in 1..(n + 1) : Upto(n + 1)[i] = i - 1
  BY UptoIsLog
<1> QED BY <1>1, <1>2, SeqEqual

(* Events that continue a log without gaps leave one. *)
LEMMA UptoExtended ==
  ASSUME NEW n \in Nat, NEW s \in Seq(Nat), \A i \in 1..Len(s) : s[i] = n + i - 1
  PROVE  Upto(n) \o s = Upto(n + Len(s))
<1> DEFINE t == Upto(n) \o s
<1>1. t \in Seq(Nat) /\ Len(t) = n + Len(s) /\ \A i \in 1..(n + Len(s)) : t[i] = i - 1
  <2>1. Upto(n) \in Seq(Nat) /\ Len(Upto(n)) = n /\ \A i \in 1..n : Upto(n)[i] = i - 1
    BY UptoIsLog
  <2> QED BY <2>1, ConcatProperties
<1>2. Upto(n + Len(s)) \in Seq(Nat) /\ Len(Upto(n + Len(s))) = n + Len(s)
      /\ \A i \in 1..(n + Len(s)) : Upto(n + Len(s))[i] = i - 1
  BY UptoIsLog
<1> QED BY <1>1, <1>2, SeqEqual

(* Of a batch of consecutive events, the fresh ones are those from the      *)
(* cursor on: appendLiveBatch()'s filter cuts a prefix and nothing else.    *)
LEMMA FreshIsSuffix ==
  ASSUME batch \in Seq(Nat), cursor \in Nat, NEW first \in Nat, first <= cursor,
         \A i \in 1..Len(batch) : batch[i] = first + i - 1
  PROVE  /\ Fresh \in Seq(Nat)
         /\ Len(Fresh) = IF first + Len(batch) >= cursor
                           THEN first + Len(batch) - cursor ELSE 0
         /\ \A k \in 1..Len(Fresh) : Fresh[k] = cursor + k - 1
<1> DEFINE cut == cursor - first
           kept == {i \in DOMAIN batch : batch[i] >= cursor}
           size == IF first + Len(batch) >= cursor THEN first + Len(batch) - cursor ELSE 0
           Nth(k) == CHOOSE i \in kept : Cardinality({j \in kept : j <= i}) = k
<1>1. kept = (cut + 1)..Len(batch) /\ cut \in Nat /\ Len(batch) \in Nat
  <2>1. DOMAIN batch = 1..Len(batch) /\ Len(batch) \in Nat
    OBVIOUS
  <2> QED BY <2>1
<1>2. Cardinality(kept) = size
  <2>1. Cardinality((cut + 1)..Len(batch)) =
          IF cut + 1 > Len(batch) THEN 0 ELSE Len(batch) - (cut + 1) + 1
    <3>1. cut + 1 \in Int /\ Len(batch) \in Int
      BY <1>1
    <3> HIDE DEF cut
    <3> QED BY <3>1, FS_Interval, Zenon
  <2> HIDE DEF kept
  <2> QED BY <2>1, <1>1
<1>3. ASSUME NEW i \in kept PROVE Cardinality({j \in kept : j <= i}) = i - cut
  <2>1. i \in (cut + 1)..Len(batch)
    BY <1>1
  <2>2. {j \in kept : j <= i} = (cut + 1)..i
    <3> HIDE DEF kept
    <3> QED BY <1>1, <2>1
  <2>3. Cardinality((cut + 1)..i) = IF cut + 1 > i THEN 0 ELSE i - (cut + 1) + 1
    <3>1. cut + 1 \in Int /\ i \in Int
      BY <1>1, <2>1
    <3> HIDE DEF cut
    <3> QED BY <3>1, FS_Interval, Zenon
  <2> HIDE DEF kept, cut
  <2>4. i \in Nat /\ i >= cut + 1
    BY <1>1, <2>1
  <2>5. Cardinality((cut + 1)..i) = i - cut
    BY <2>3, <2>4, <1>1
  <2> QED BY <2>2, <2>5, Zenon
<1>4. ASSUME NEW k \in 1..size PROVE Nth(k) = cut + k /\ cut + k \in DOMAIN batch
  <2>1. cut + k \in kept /\ cut + k - cut = k
    BY <1>1
  <2> HIDE DEF kept
  <2>2. Cardinality({j \in kept : j <= cut + k}) = k
    <3>1. Cardinality({j \in kept : j <= cut + k}) = (cut + k) - cut
      BY <2>1, <1>3
    <3> QED BY <2>1, <3>1
  <2>3. Nth(k) \in kept /\ Cardinality({j \in kept : j <= Nth(k)}) = k
    BY <2>1, <2>2
  <2>4. Cardinality({j \in kept : j <= Nth(k)}) = Nth(k) - cut
    BY <2>3, <1>3
  <2>5. Nth(k) \in Nat
    BY <2>3, <1>1
  <2> HIDE DEF Nth
  <2>6. Nth(k) = cut + k
    BY <2>3, <2>4, <2>5, <1>1
  <2>7. cut + k \in DOMAIN batch
    BY <2>1 DEF kept
  <2> QED BY <2>6, <2>7
<1>5. Fresh = [k \in 1..size |-> batch[Nth(k)]]
  BY <1>2 DEF Fresh
<1>6. ASSUME NEW k \in 1..size PROVE batch[Nth(k)] = cursor + k - 1 /\ cursor + k - 1 \in Nat
  <2> HIDE DEF Nth, kept
  <2>1. cut + k \in 1..Len(batch)
    BY <1>4
  <2>2. batch[cut + k] = first + (cut + k) - 1
    BY <2>1
  <2> QED BY <1>4, <2>2
<1>7. Fresh = [k \in 1..size |-> cursor + k - 1]
  <2> HIDE DEF Nth
  <2> QED BY <1>5, <1>6
<1> QED BY <1>6, <1>7

-----------------------------------------------------------------------------
(* Where the events are.  The batch being written and the queue behind it   *)
(* are consecutive and end with the last event of the session.              *)

InBatch == IF active = "writing" THEN Len(batch) ELSE 0
First == admitted - Len(pending) - InBatch

QueueInv ==
    /\ First \in Nat
    /\ \A i \in 1..Len(pending) : pending[i] = First + InBatch + i - 1
    /\ active = "writing" => \A i \in 1..Len(batch) : batch[i] = First + i - 1

(* The store is a prefix of the session that reaches up to the first event  *)
(* still held in memory, or further: the seed may be stored before the      *)
(* event whose publication made it part of the seed is.                     *)
StoreInv ==
    /\ seed \in 0..admitted
    /\ cursor \in 0..admitted
    /\ store \in Seq(Nat) /\ store = Upto(Len(store))
    /\ init # "ok" => cursor = 0 /\ First <= seed /\ Len(store) <= seed
    /\ init = "ok" => cursor = Len(store) /\ First <= cursor

(* A barrier opens only after initialization, and nobody wants more than    *)
(* was admitted.                                                            *)
WantInv ==
    /\ want \in [Callers -> Nat]
    /\ \A c \in Callers : want[c] <= admitted
    /\ barrier # "none" => init = "ok"
    /\ \A c \in Callers : caller[c] = "barrier" => init = "ok"
    /\ FlushIsDurable

Durability == QueueInv /\ StoreInv /\ WantInv

(* Starting a write moves the whole queue into the batch. *)
LEMMA WriteTakesQueue ==
  ASSUME ControlOK, QueueInv, active # "writing",
         active' = "writing", batch' = pending, pending' = <<>>, admitted' = admitted
  PROVE  QueueInv' /\ First' = First
<1>1. InBatch = 0 /\ InBatch' = Len(pending) /\ Len(pending') = 0
  BY DEF InBatch
<1>2. First' = First
  BY <1>1 DEF First, ControlOK
<1>3. \A i \in 1..Len(batch') : batch'[i] = First' + i - 1
  BY <1>1, <1>2 DEF QueueInv, ControlOK
<1> QED BY <1>1, <1>2, <1>3 DEF QueueInv

(* A step that neither starts nor ends a write leaves the queue alone. *)
LEMMA QueueUntouched ==
  ASSUME QueueInv, admitted' = admitted, pending' = pending,
         \/ active' = active /\ batch' = batch
         \/ active # "writing" /\ active' # "writing"
  PROVE  QueueInv' /\ First' = First
<1>1. InBatch' = InBatch
  BY DEF InBatch
<1> QED BY <1>1 DEF QueueInv, First

(* Only stores and initialization move what StoreInv speaks of. *)
LEMMA StoreUntouched ==
  ASSUME StoreInv, First' = First, admitted' = admitted,
         UNCHANGED <<seed, init, store, cursor>>
  PROVE  StoreInv'
  BY DEF StoreInv

(* A caller that finds nothing queued and nothing being written has what it *)
(* wanted.                                                                  *)
LEMMA NothingLeft ==
  ASSUME ControlOK, StoreInv, WantInv, init = "ok", active = "none", pending = <<>>,
         NEW c \in Callers
  PROVE  Len(store) >= want[c]
<1>1. First = admitted
  BY DEF First, InBatch, ControlOK
<1> QED BY <1>1 DEF StoreInv, WantInv, ControlOK

(* A write that is stored takes the cursor to the end of its batch. *)
LEMMA StoredBatch ==
  ASSUME ControlOK, QueueInv, StoreInv, active = "writing", init = "ok"
  PROVE  /\ Contiguous /\ Fresh \in Seq(Nat)
         /\ store \o Fresh = Upto(cursor + Len(Fresh))
         /\ cursor + Len(Fresh) >= First + Len(batch)
         /\ cursor + Len(Fresh) <= admitted
         /\ Len(Fresh) \in Nat
<1>1. First \in Nat /\ First <= cursor /\ cursor \in Nat /\ batch \in Seq(Nat)
  BY DEF QueueInv, StoreInv, ControlOK
<1>2. \A i \in 1..Len(batch) : batch[i] = First + i - 1
  BY DEF QueueInv
<1>3. /\ Fresh \in Seq(Nat)
      /\ Len(Fresh) = IF First + Len(batch) >= cursor THEN First + Len(batch) - cursor ELSE 0
      /\ \A k \in 1..Len(Fresh) : Fresh[k] = cursor + k - 1
  BY <1>1, <1>2, FreshIsSuffix
<1>4. store = Upto(cursor)
  BY DEF StoreInv
<1>5. store \o Fresh = Upto(cursor + Len(Fresh))
  BY <1>1, <1>3, <1>4, UptoExtended
<1>6. First + Len(batch) = admitted - Len(pending) /\ Len(pending) \in Nat /\ Len(batch) \in Nat
  BY DEF First, InBatch, ControlOK
<1> HIDE DEF First
<1>7. Len(Fresh) \in Nat
  BY <1>3
<1>8. cursor + Len(Fresh) >= First + Len(batch) /\ cursor + Len(Fresh) <= admitted
  BY <1>1, <1>3, <1>6 DEF StoreInv, ControlOK
<1> QED BY <1>3, <1>5, <1>7, <1>8 DEF Contiguous

(* Every step preserves Durability. *)
LEMMA DurabilityStep == Ownership /\ Durability /\ [Next]_vars => Durability'
<1> SUFFICES ASSUME Ownership, Durability, [Next]_vars PROVE Durability'
  OBVIOUS
<1> USE DEF Durability, writeVars, timerVars, flagVars, storeVars, callVars
<1>0. ControlOK
  BY DEF Ownership
<1>1. CASE InitSettles
  <2>1. QueueInv' /\ First' = First
    BY <1>1, QueueUntouched DEF InitSettles
  <2>2. StoreInv'
    <3>1. CASE init' = "ok" /\ store' = Upto(seed) /\ cursor' = seed
      <4>1. seed \in Nat /\ First <= seed /\ seed' = seed /\ admitted' = admitted
        BY <1>0, <1>1 DEF StoreInv, InitSettles, ControlOK
      <4>2. store' \in Seq(Nat) /\ Len(store') = seed
        BY <3>1, <4>1, UptoIsLog
      <4> QED BY <2>1, <3>1, <4>1, <4>2 DEF StoreInv
    <3>2. CASE init' = "failed" /\ UNCHANGED storeVars
      BY <1>1, <2>1, <3>2 DEF StoreInv, InitSettles
    <3> QED BY <1>1, <3>1, <3>2 DEF InitSettles
  <2>3. WantInv'
    <3>1. /\ init = "pending" /\ UNCHANGED <<admitted, barrier, caller, want>>
          /\ \A c \in Callers : caller[c] = "ok" => Len(store') >= want[c]
      BY <1>0, <1>1, <2>2 DEF WantInv, StoreInv, InitSettles, FlushIsDurable, ControlOK
    <3> QED BY <3>1 DEF WantInv, FlushIsDurable
  <2> QED BY <2>1, <2>2, <2>3
<1>2. CASE Enqueue
  <2>1. /\ pending' = Append(pending, admitted) /\ admitted' = admitted + 1
        /\ admitted \in Nat /\ pending \in Seq(Nat)
    BY <1>0, <1>2 DEF Enqueue, ControlOK
  <2>2. /\ Len(pending') = Len(pending) + 1 /\ Len(pending) \in Nat
        /\ \A i \in 1..Len(pending) : pending'[i] = pending[i]
        /\ pending'[Len(pending) + 1] = admitted
    BY <2>1, AppendProperties
  <2>3. InBatch' = InBatch /\ InBatch \in Nat
    BY <1>0, <1>2 DEF InBatch, Enqueue, ControlOK
  <2>4. First' = First /\ First + InBatch + Len(pending) = admitted /\ First \in Nat
    BY <2>1, <2>2, <2>3 DEF First, QueueInv
  <2>5. QueueInv'
    <3>1. \A i \in 1..Len(pending') : pending'[i] = First' + InBatch' + i - 1
      BY <2>2, <2>3, <2>4 DEF QueueInv
    <3> QED BY <1>2, <2>4, <3>1 DEF QueueInv, Enqueue
  <2>6. StoreInv'
    BY <1>2, <2>1, <2>4 DEF StoreInv, Enqueue
  <2>7. WantInv'
    BY <1>2, <2>1 DEF WantInv, Enqueue, FlushIsDurable
  <2> QED BY <2>5, <2>6, <2>7
<1>3. CASE Deadline
  <2>1. QueueInv' /\ First' = First
    <3>1. CASE Overlaps
      BY <1>3, <3>1, QueueUntouched DEF Deadline
    <3>2. CASE ~Overlaps
      BY <1>0, <1>3, <3>2, WriteTakesQueue DEF Deadline, Overlaps
    <3> QED BY <3>1, <3>2
  <2>2. StoreInv'
    BY <1>3, <2>1, StoreUntouched DEF Deadline
  <2>3. WantInv'
    BY <1>3 DEF WantInv, Deadline, FlushIsDurable
  <2> QED BY <2>1, <2>2, <2>3
<1>4. CASE WriteStored
  <2>1. /\ active = "writing" /\ init = "ok" /\ active' = "stored"
        /\ store' = store \o Fresh /\ cursor' = cursor + Len(Fresh)
        /\ UNCHANGED <<admitted, pending, seed, init, batch, barrier, callVars>>
    BY <1>4 DEF WriteStored, StoredCount
  <2>2. /\ store' = Upto(cursor') /\ cursor' >= First + Len(batch)
        /\ cursor' <= admitted /\ Len(Fresh) \in Nat
    BY <1>0, <2>1, StoredBatch
  <2>3. First' = First + Len(batch) /\ InBatch' = 0 /\ InBatch = Len(batch)
        /\ Len(batch) \in Nat /\ First \in Nat
    BY <1>0, <2>1 DEF First, InBatch, ControlOK, QueueInv
  <2>4. QueueInv'
    <3>1. pending' = pending /\ First' + InBatch' = First + InBatch /\ First' \in Nat
      BY <2>1, <2>3
    <3>2. ~(active' = "writing")
      BY <2>1
    <3> QED BY <3>1, <3>2 DEF QueueInv
  <2>5. cursor \in Nat /\ cursor = Len(store) /\ admitted \in Nat /\ cursor' \in Nat
    BY <1>0, <2>1, <2>2 DEF StoreInv, ControlOK
  <2>6. store' \in Seq(Nat) /\ Len(store') = cursor'
    BY <2>2, <2>5, UptoIsLog
  <2>7. StoreInv'
    BY <2>1, <2>2, <2>3, <2>5, <2>6 DEF StoreInv
  <2>8. Len(store') >= Len(store)
    BY <2>1, <2>2, <2>5, <2>6
  <2>9. WantInv'
    BY <2>1, <2>5, <2>6, <2>8 DEF WantInv, FlushIsDurable
  <2> QED BY <2>4, <2>7, <2>9
<1>5. CASE WriteFails
  <2>1. /\ active = "writing" /\ active' = "failed" /\ pending' = batch \o pending
        /\ UNCHANGED <<admitted, batch>> /\ pending \in Seq(Nat) /\ batch \in Seq(Nat)
        /\ admitted \in Nat
    BY <1>0, <1>5 DEF WriteFails, Requeued, ControlOK
  <2>2. /\ Len(pending') = Len(batch) + Len(pending)
        /\ Len(batch) \in Nat /\ Len(pending) \in Nat
        /\ \A i \in 1..Len(batch) + Len(pending) :
             pending'[i] = IF i <= Len(batch) THEN batch[i] ELSE pending[i - Len(batch)]
    BY <2>1, ConcatProperties
  <2>3. InBatch = Len(batch) /\ InBatch' = 0 /\ First' = First /\ First \in Nat
    BY <2>1, <2>2 DEF InBatch, First, QueueInv
  <2>4. QueueInv'
    <3>1. ASSUME NEW i \in 1..Len(pending') PROVE pending'[i] = First' + InBatch' + i - 1
      <4>1. CASE i <= Len(batch)
        BY <2>1, <2>2, <2>3, <4>1 DEF QueueInv
      <4>2. CASE ~(i <= Len(batch))
        <5>1. i - Len(batch) \in 1..Len(pending)
          BY <2>2, <4>2
        <5>2. pending[i - Len(batch)] = First + InBatch + (i - Len(batch)) - 1
          BY <5>1 DEF QueueInv
        <5> QED BY <2>2, <2>3, <4>2, <5>2
      <4> QED BY <4>1, <4>2
    <3> QED BY <2>1, <2>3, <3>1 DEF QueueInv
  <2>5. StoreInv'
    BY <1>5, <2>3, StoreUntouched DEF WriteFails
  <2>6. WantInv'
    BY <1>5 DEF WantInv, WriteFails, FlushIsDurable
  <2> QED BY <2>4, <2>5, <2>6
<1>6. CASE WriteFinally
  <2>1. QueueInv' /\ First' = First
    BY <1>6, QueueUntouched DEF WriteFinally
  <2>2. StoreInv'
    BY <1>6, <2>1, StoreUntouched DEF WriteFinally
  <2>3. WantInv'
    BY <1>6 DEF WantInv, WriteFinally, FlushIsDurable
  <2> QED BY <2>1, <2>2, <2>3
<1>7. CASE ContinueAutomatic
  <2>1. QueueInv' /\ First' = First
    <3>1. CASE active' = "writing" /\ batch' = pending /\ pending' = <<>> /\ barrier = "none"
      <4>1. active = "none"
        BY <1>7, <3>1 DEF Ownership, StageInv, ContinueAutomatic
      <4> QED BY <1>0, <1>7, <3>1, <4>1, WriteTakesQueue DEF ContinueAutomatic
    <3>2. CASE UNCHANGED <<pending, writeVars>>
      BY <1>7, <3>2, QueueUntouched DEF ContinueAutomatic
    <3> QED BY <1>7, <3>1, <3>2 DEF ContinueAutomatic, StartWrite
  <2>2. StoreInv'
    BY <1>7, <2>1, StoreUntouched DEF ContinueAutomatic
  <2>3. WantInv'
    BY <1>7 DEF WantInv, ContinueAutomatic, FlushIsDurable
  <2> QED BY <2>1, <2>2, <2>3
<1>8. CASE DrainBarrier
  <2>0. active = "none" /\ init = "ok" /\ UNCHANGED <<admitted, seed, init, storeVars, want>>
    BY <1>8 DEF Ownership, StageInv, Resuming, WantInv, DrainBarrier
  <2>1. CASE StartWrite(FALSE) /\ barrier' = "write" /\ UNCHANGED caller
    <3>1. QueueInv' /\ First' = First
      BY <1>0, <2>0, <2>1, WriteTakesQueue DEF StartWrite
    <3>2. StoreInv'
      BY <2>0, <3>1, StoreUntouched
    <3>3. WantInv'
      BY <2>0, <2>1 DEF WantInv, FlushIsDurable
    <3> QED BY <3>1, <3>2, <3>3
  <2>2. CASE ~MoreToDrain /\ Release("ok") /\ UNCHANGED <<pending, writeVars>>
    <3>1. QueueInv' /\ First' = First
      BY <2>0, <2>2, QueueUntouched
    <3>2. StoreInv'
      BY <2>0, <3>1, StoreUntouched
    <3>3. \A c \in Callers : Len(store) >= want[c]
      BY <1>0, <2>0, <2>2, NothingLeft DEF MoreToDrain
    <3>4. WantInv'
      BY <2>0, <2>2, <3>3 DEF WantInv, Release, FlushIsDurable
    <3> QED BY <3>1, <3>2, <3>4
  <2> QED BY <1>8, <2>1, <2>2 DEF DrainBarrier
<1>9. CASE DrainFails
  <2>1. QueueInv' /\ First' = First
    BY <1>9, QueueUntouched DEF DrainFails
  <2>2. StoreInv'
    BY <1>9, <2>1, StoreUntouched DEF DrainFails
  <2>3. WantInv'
    BY <1>9 DEF WantInv, DrainFails, Release, FlushIsDurable
  <2> QED BY <2>1, <2>2, <2>3
<1>10. ASSUME NEW c \in Callers, FlushCall(c) \/ FlushInitFailed(c) \/ FlushJoins(c) \/ FlushReturns(c)
       PROVE Durability'
  <2>1. QueueInv' /\ First' = First
    BY <1>10, QueueUntouched DEF FlushCall, FlushInitFailed, FlushJoins, FlushReturns
  <2>2. StoreInv'
    BY <1>10, <2>1, StoreUntouched DEF FlushCall, FlushInitFailed, FlushJoins, FlushReturns
  <2>3. WantInv'
    <3>1. /\ admitted \in Nat /\ admitted' = admitted /\ store' = store
          /\ barrier' = barrier /\ init' = init
          /\ caller \in [Callers -> {"idle", "init", "barrier", "ok", "failed"}]
      BY <1>0, <1>10 DEF FlushCall, FlushInitFailed, FlushJoins, FlushReturns, ControlOK
    <3>2. CASE FlushCall(c)
      BY <3>1, <3>2 DEF FlushCall, WantInv, FlushIsDurable
    <3>3. CASE FlushInitFailed(c) \/ FlushJoins(c)
      BY <3>1, <3>3 DEF FlushInitFailed, FlushJoins, WantInv, FlushIsDurable
    <3>4. CASE FlushReturns(c)
      BY <3>1, <3>4 DEF FlushReturns, WantInv, FlushIsDurable
    <3> QED BY <1>10, <3>2, <3>3, <3>4
  <2> QED BY <2>1, <2>2, <2>3
<1>11. ASSUME NEW c \in Callers, FlushOpens(c) PROVE Durability'
  <2>0. init = "ok" /\ UNCHANGED <<admitted, seed, init, storeVars, want>>
    BY <1>11 DEF FlushOpens
  <2>1. QueueInv' /\ First' = First
    <3>1. CASE UNCHANGED <<pending, writeVars>>
      BY <2>0, <3>1, QueueUntouched
    <3>2. CASE active = "none" /\ active' = "writing" /\ batch' = pending /\ pending' = <<>>
      BY <1>0, <2>0, <3>2, WriteTakesQueue
    <3> QED BY <1>11, <3>1, <3>2 DEF FlushOpens
  <2>2. StoreInv'
    BY <2>0, <2>1, StoreUntouched
  <2>3. active = "none" /\ pending = <<>> => Len(store) >= want[c]
    BY <1>0, <2>0, NothingLeft
  <2>4. WantInv'
    BY <1>0, <1>11, <2>0, <2>3 DEF FlushOpens, WantInv, FlushIsDurable, ControlOK
  <2> QED BY <2>1, <2>2, <2>4
<1>12. CASE UNCHANGED vars
  <2>1. QueueInv' /\ First' = First
    BY <1>12, QueueUntouched DEF vars
  <2>2. StoreInv'
    BY <1>12, <2>1, StoreUntouched DEF vars
  <2>3. WantInv'
    BY <1>12 DEF vars, WantInv, FlushIsDurable
  <2> QED BY <2>1, <2>2, <2>3
<1> QED BY <1>1, <1>2, <1>3, <1>4, <1>5, <1>6, <1>7, <1>8, <1>9, <1>10, <1>11, <1>12
  DEF Next, Jobs, WriteSettles, FlushProceeds

(* The initial states satisfy Durability, whatever part of the seed an      *)
(* earlier run stored and whether or not the last seed event is queued.     *)
LEMMA DurableInitially == Init => Durability
<1> SUFFICES ASSUME Init PROVE Durability
  OBVIOUS
<1>1. admitted \in Nat /\ seed = admitted /\ cursor = 0 /\ init = "pending" /\ InBatch = 0
  BY EventsAssumption DEF Init, InBatch
<1>2. QueueInv /\ First <= seed
  <2>1. CASE pending = <<>>
    BY <1>1, <2>1 DEF QueueInv, First, Init
  <2>2. CASE seed > 0 /\ pending = <<seed - 1>>
    <3>1. Len(pending) = 1 /\ pending[1] = seed - 1
      BY <2>2
    <3>2. First = seed - 1
      BY <1>1, <3>1 DEF First
    <3> QED BY <1>1, <2>2, <3>1, <3>2 DEF QueueInv, Init
  <2> QED BY <2>1, <2>2 DEF Init
<1>3. StoreInv
  <2>1. PICK stored \in 0..seed : store = Upto(stored)
    BY DEF Init
  <2>2. Upto(stored) \in Seq(Nat) /\ Len(Upto(stored)) = stored
    BY <1>1, <2>1, UptoIsLog
  <2> HIDE DEF First
  <2> QED BY <1>1, <1>2, <2>1, <2>2 DEF StoreInv
<1>4. WantInv
  BY <1>1 DEF Init, WantInv, FlushIsDurable
<1> QED BY <1>2, <1>3, <1>4 DEF Durability

(* Durability holds in every reachable state. *)
THEOREM DurabilityHolds == Spec => []Durability
  BY DurableInitially, DurabilityStep, OwnershipHolds, PTL DEF Spec

(* The bound on events is respected. *)
LEMMA AdmittedBounded == Spec => [](admitted \in 0..MaxEvents)
<1>1. Init => admitted \in 0..MaxEvents
  BY DEF Init
<1>2. admitted \in 0..MaxEvents /\ [Next]_vars => (admitted \in 0..MaxEvents)'
  <2>1. ASSUME [Next]_vars PROVE Enqueue \/ admitted' = admitted
    BY <2>1
    DEF Next, InitSettles, Deadline, WriteSettles, WriteStored, WriteFails, Jobs,
        WriteFinally, ContinueAutomatic, DrainBarrier, DrainFails, FlushProceeds,
        FlushCall, FlushInitFailed, FlushJoins, FlushOpens, FlushReturns, vars
  <2>2. ASSUME admitted \in 0..MaxEvents, Enqueue PROVE admitted' \in 0..MaxEvents
    BY <2>2, EventsAssumption DEF Enqueue
  <2> QED BY <2>1, <2>2
<1> QED BY <1>1, <1>2, PTL DEF Spec

(* Every variable keeps its type. *)
THEOREM Types == Spec => []TypeOK
<1>1. Ownership /\ Durability /\ admitted \in 0..MaxEvents => TypeOK
  <2> SUFFICES ASSUME Ownership, Durability, admitted \in 0..MaxEvents PROVE TypeOK
    OBVIOUS
  <2>1. seed \in 0..MaxEvents /\ cursor \in Nat /\ store \in Seq(Nat) /\ want \in [Callers -> Nat]
    BY EventsAssumption DEF Durability, StoreInv, WantInv
  <2>2. timeouts \in Nat
    BY DEF Ownership, TimerInv, OneTimeout
  <2> QED BY <2>1, <2>2 DEF TypeOK, Ownership, ControlOK
<1> QED BY <1>1, OwnershipHolds, DurabilityHolds, AdmittedBounded, PTL

(* A flush that returned stored all that was admitted when it was called.   *)
THEOREM FlushesAreDurable == Spec => []FlushIsDurable
<1>1. Durability => FlushIsDurable
  BY DEF Durability, WantInv
<1> QED BY <1>1, DurabilityHolds, PTL

(* Every batch handed to appendCore() continues the durable log, so the     *)
(* check that would reject it, and all later ones, never does.              *)
THEOREM BatchesContinue == Spec => []BatchContinues
<1>1. Ownership /\ Durability => BatchContinues
  BY StoredBatch DEF Ownership, Durability, BatchContinues
<1> QED BY <1>1, OwnershipHolds, DurabilityHolds, PTL

(* Only events that were admitted are stored, each once and in order: the   *)
(* steps of the controller are those of the abstract log, or stutter.       *)
THEOREM Implementation == Spec => ImplementsDurableLog
<1>1. Init => Durable!Init
  <2> SUFFICES ASSUME Init PROVE Durable!Init
    OBVIOUS
  <2>1. PICK stored \in 0..admitted : store = Upto(stored)
    BY DEF Init
  <2>2. admitted \in Nat
    BY EventsAssumption DEF Init
  <2>3. Len(Upto(admitted)) = admitted /\ Len(store) = stored
    BY <2>1, <2>2, UptoIsLog
  <2>4. Upto(admitted) = [i \in 1..Len(Upto(admitted)) |-> i - 1]
    BY <2>3 DEF Upto
  <2>5. store = SubSeq(Upto(admitted), 1, Len(store))
    BY <2>1, <2>2, <2>3, UptoPrefix
  <2> QED BY <2>1, <2>2, <2>3, <2>4, <2>5 DEF Durable!Init
<1>2. Ownership /\ Durability /\ [Next]_vars => [Durable!Next]_<<Upto(admitted), store>>
  <2> SUFFICES ASSUME Ownership, Durability, [Next]_vars
               PROVE  [Durable!Next]_<<Upto(admitted), store>>
    OBVIOUS
  <2>0. /\ admitted \in Nat /\ Len(Upto(admitted)) = admitted
        /\ store \in Seq(Nat) /\ Len(store) \in Nat /\ store = Upto(Len(store))
    <3>1. admitted \in Nat /\ store \in Seq(Nat) /\ store = Upto(Len(store))
      BY DEF Ownership, ControlOK, Durability, StoreInv
    <3>2. Len(Upto(admitted)) = admitted
      BY <3>1, UptoIsLog
    <3> QED BY <3>1, <3>2
  <2>1. ASSUME admitted' = admitted, NEW n \in Len(store) .. admitted, store' = Upto(n)
        PROVE  [Durable!Next]_<<Upto(admitted), store>>
    <3>1. store' = SubSeq(Upto(admitted), 1, n)
      <4>1. n \in 0..admitted
        BY <2>0
      <4> QED BY <2>0, <2>1, <4>1, UptoPrefix
    <3>2. CASE n = Len(store)
      BY <2>0, <2>1, <3>2
    <3>3. CASE n # Len(store)
      <4>1. n \in Len(store) + 1 .. Len(Upto(admitted))
        BY <2>0, <3>3
      <4> QED BY <2>1, <3>1, <4>1 DEF Durable!Next, Durable!Persist
    <3> QED BY <3>2, <3>3
  <2>2. CASE InitSettles
    <3>1. CASE init' = "ok" /\ store' = Upto(seed) /\ cursor' = seed
      <4>1. seed \in Len(store) .. admitted /\ admitted' = admitted
        BY <2>0, <2>2 DEF InitSettles, Durability, StoreInv
      <4> QED BY <2>1, <3>1, <4>1
    <3>2. CASE init' = "failed" /\ UNCHANGED storeVars
      BY <2>2, <3>2 DEF InitSettles, storeVars
    <3> QED BY <2>2, <3>1, <3>2 DEF InitSettles
  <2>3. CASE Enqueue
    <3>1. Upto(admitted') = Append(Upto(admitted), Len(Upto(admitted))) /\ store' = store
      BY <2>0, <2>3, UptoAppend DEF Enqueue, storeVars
    <3> QED BY <3>1 DEF Durable!Next, Durable!Admit
  <2>4. CASE WriteStored
    <3>1. /\ store' = Upto(cursor + Len(Fresh)) /\ cursor + Len(Fresh) <= admitted
          /\ Len(Fresh) \in Nat /\ admitted' = admitted /\ cursor = Len(store)
      BY <2>4, StoredBatch DEF WriteStored, Ownership, Durability, StoreInv
    <3> QED BY <2>0, <2>1, <3>1
  <2>5. CASE ~InitSettles /\ ~Enqueue /\ ~WriteStored
    <3>1. admitted' = admitted /\ store' = store
      BY <2>5
      DEF Next, Deadline, WriteSettles, WriteFails, Jobs, WriteFinally, ContinueAutomatic,
          DrainBarrier, DrainFails, FlushProceeds, FlushCall, FlushInitFailed, FlushJoins,
          FlushOpens, FlushReturns, vars, storeVars
    <3> QED BY <3>1
  <2> QED BY <2>2, <2>3, <2>4, <2>5
<1> QED BY <1>1, <1>2, OwnershipHolds, DurabilityHolds, PTL
        DEF Spec, ImplementsDurableLog, Durable!Spec
=============================================================================
