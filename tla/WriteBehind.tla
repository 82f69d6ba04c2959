---------------------------- MODULE WriteBehind ----------------------------
(***************************************************************************)
(* How one live session reaches the disk: the write controller of          *)
(* packages/session/session-persistence/src/write-behind.ts and the        *)
(* coordinator around it (coordinator.ts: initFor, flush, appendLiveBatch, *)
(* appendCore).                                                            *)
(*                                                                         *)
(* A promise that settles runs its reactions in later microtasks, so the   *)
(* end of a write is three steps: the write settles (WriteStored,          *)
(* WriteFails), its finally clears `active` (WriteFinally), and whoever    *)
(* awaited it goes on (ContinueAutomatic, DrainBarrier).  Producers and    *)
(* flushers may run between any two of them; a timeout may not, because    *)
(* timers fire only when no microtask is left (Quiet).                     *)
(***************************************************************************)
EXTENDS Naturals, Sequences, FiniteSets

CONSTANTS
    Callers,     \* who may call flush
    MaxEvents    \* bound: events of the session

ASSUME EventsAssumption == MaxEvents \in Nat \ {0}

VARIABLES
    admitted,         \* length of the session's log: events 0..admitted-1
    seed,             \* events that initialization persists
    init,             \* LiveSessionState.init
    pending,          \* SessionWriteBehind.pending
    timer,            \* the timer field is set
    timeouts,         \* timeouts that will fire, the field's one included
    active,           \* stage of the active write, "none" without one
    batch,            \* its batch
    background,       \* it was started by the automatic path
    continuation,     \* continueAutomatic is due
    barrier,          \* where drainBarrier is, "none" without a barrier
    deadlineExpired,
    automaticPaused,
    store,            \* the durable log
    cursor,           \* SessionState.cursor
    caller,           \* where each caller of flush is
    want              \* history: what was admitted when it called

timerVars == <<timer, timeouts>>
writeVars == <<active, batch, background>>
flagVars  == <<deadlineExpired, automaticPaused>>
storeVars == <<store, cursor>>
callVars  == <<caller, want>>
vars == <<admitted, seed, init, pending, timerVars, writeVars, continuation,
          barrier, flagVars, storeVars, callVars>>

Upto(n) == [i \in 1..n |-> i - 1]

(* initFor() runs when the session is created or adopted, or inside the     *)
(* publication of an event that is already part of the seed it snapshots.   *)
Init ==
    /\ admitted \in 0..MaxEvents
    /\ seed = admitted
    /\ init = "pending"
    /\ \E stored \in 0..seed : store = Upto(stored)
    /\ cursor = 0
    /\ \/ pending = <<>> /\ timer = FALSE
       \/ seed > 0 /\ pending = <<seed - 1>> /\ timer = TRUE
    /\ timeouts = IF timer THEN 1 ELSE 0
    /\ active = "none" /\ batch = <<>> /\ background = FALSE
    /\ continuation = FALSE /\ barrier = "none"
    /\ deadlineExpired = FALSE /\ automaticPaused = FALSE
    /\ caller = [c \in Callers |-> "idle"] /\ want = [c \in Callers |-> 0]

(* init: onCreated() persists the part of the seed that is not stored yet.  *)
InitSettles ==
    /\ init = "pending"
    /\ \/ init' = "ok" /\ store' = Upto(seed) /\ cursor' = seed
       \/ init' = "failed" /\ UNCHANGED storeVars
    /\ UNCHANGED <<admitted, seed, pending, timerVars, writeVars, continuation,
                   barrier, flagVars, callVars>>

-----------------------------------------------------------------------------
(* The automatic path *)

ArmTimer == timer' = TRUE /\ timeouts' = timeouts + 1

CancelTimer ==
    /\ timer' = FALSE
    /\ timeouts' = IF timer THEN timeouts - 1 ELSE timeouts

(* An event is appended to the session and enqueued in the same job. *)
TrustsActiveWrite == pending = <<>> /\ active = "none"          \* mutant
OpensWindow == pending = <<>>

Enqueue ==
    /\ admitted < MaxEvents
    /\ admitted' = admitted + 1
    /\ pending' = Append(pending, admitted)
    /\ \/ /\ barrier # "none"
          /\ UNCHANGED <<timerVars, flagVars>>
       \/ /\ barrier = "none" /\ automaticPaused
          /\ automaticPaused' = FALSE /\ deadlineExpired' = FALSE
          /\ ArmTimer
       \/ /\ barrier = "none" /\ ~automaticPaused
          /\ IF OpensWindow THEN ArmTimer ELSE UNCHANGED timerVars
          /\ UNCHANGED flagVars
    /\ UNCHANGED <<seed, init, writeVars, continuation, barrier, storeVars, callVars>>

(* startWrite(): the whole queue becomes the batch. *)
StartWrite(isBackground) ==
    /\ active' = "writing" /\ batch' = pending /\ background' = isBackground
    /\ pending' = <<>>
    /\ CancelTimer
    /\ deadlineExpired' = FALSE

Resuming == {"overlapSettled", "written", "writeFailed"}

Quiet ==
    /\ active \in {"none", "writing"}
    /\ ~continuation /\ barrier \notin Resuming
    /\ \A c \in Callers : caller[c] = "init" => init = "pending"

(* onDeadline(): start a write, or remember that the active one is late. *)
Overlaps == active # "none"

Deadline ==
    /\ timeouts > 0 /\ Quiet
    /\ \/ /\ Overlaps
          /\ timer' = FALSE /\ timeouts' = timeouts - 1
          /\ deadlineExpired' = TRUE
          /\ UNCHANGED <<pending, writeVars>>
       \/ /\ ~Overlaps
          /\ active' = "writing" /\ batch' = pending /\ background' = TRUE
          /\ pending' = <<>>
          /\ timer' = FALSE /\ timeouts' = timeouts - 1
          /\ deadlineExpired' = FALSE
    /\ UNCHANGED <<admitted, seed, init, continuation, barrier, automaticPaused,
                   storeVars, callVars>>

(* appendLiveBatch() drops what initialization stored; appendCore() accepts *)
(* only a batch that continues the durable log.                             *)
Fresh ==
    LET kept == {i \in DOMAIN batch : batch[i] >= cursor}
        Nth(k) == CHOOSE i \in kept : Cardinality({j \in kept : j <= i}) = k
    IN  [k \in 1..Cardinality(kept) |-> batch[Nth(k)]]
Contiguous == \A i \in 1..Len(Fresh) : Fresh[i] = cursor + i - 1

WholeBatch == Len(batch)                                       \* mutant
StoredCount == Len(Fresh)

WriteStored ==
    /\ active = "writing" /\ init = "ok" /\ Contiguous
    /\ store' = store \o Fresh
    /\ cursor' = cursor + StoredCount
    /\ active' = "stored"
    /\ UNCHANGED <<admitted, seed, init, pending, timerVars, batch, background,
                   continuation, barrier, flagVars, callVars>>

(* The backend rejects, leaving the stored log as it was: the batch goes    *)
(* back in front of what was enqueued meanwhile.                            *)
QueuedBehind == pending \o batch                               \* mutant
Requeued == batch \o pending

WriteFails ==
    /\ active = "writing" /\ init # "pending"
    /\ pending' = Requeued
    /\ CancelTimer
    /\ deadlineExpired' = FALSE /\ automaticPaused' = TRUE
    /\ active' = "failed"
    /\ UNCHANGED <<admitted, seed, init, batch, background, continuation,
                   barrier, storeVars, callVars>>

WriteFinally ==
    /\ active \in {"stored", "failed"}
    /\ active' = "none" /\ batch' = <<>>
    /\ continuation' = (continuation \/ (background /\ active = "stored"))
    /\ barrier' = CASE barrier = "overlap" -> "overlapSettled"
                    [] barrier = "write" ->
                         IF active = "stored" THEN "written" ELSE "writeFailed"
                    [] OTHER -> barrier
    /\ UNCHANGED <<admitted, seed, init, pending, timerVars, background,
                   flagVars, storeVars, callVars>>

ContinueAutomatic ==
    /\ continuation
    /\ continuation' = FALSE
    /\ \/ /\ barrier = "none" /\ pending # <<>> /\ deadlineExpired
          /\ StartWrite(TRUE)
       \/ /\ ~(barrier = "none" /\ pending # <<>> /\ deadlineExpired)
          /\ UNCHANGED <<pending, timerVars, writeVars, deadlineExpired>>
    /\ UNCHANGED <<admitted, seed, init, barrier, automaticPaused, storeVars, callVars>>

-----------------------------------------------------------------------------
(* The explicit barrier *)

(* Coordinator flush(): cancelAutomaticWait, then await initialization. *)
FlushCall(c) ==
    /\ caller[c] = "idle"
    /\ caller' = [caller EXCEPT ![c] = "init"]
    /\ want' = [want EXCEPT ![c] = admitted]
    /\ CancelTimer /\ deadlineExpired' = FALSE
    /\ UNCHANGED <<admitted, seed, init, pending, writeVars, continuation,
                   barrier, automaticPaused, storeVars>>

FlushInitFailed(c) ==
    /\ caller[c] = "init" /\ init = "failed"
    /\ caller' = [caller EXCEPT ![c] = "failed"]
    /\ CancelTimer /\ deadlineExpired' = FALSE
    /\ UNCHANGED <<admitted, seed, init, pending, writeVars, continuation,
                   barrier, automaticPaused, storeVars, want>>

FlushJoins(c) ==
    /\ caller[c] = "init" /\ init = "ok" /\ barrier # "none"
    /\ caller' = [caller EXCEPT ![c] = "barrier"]
    /\ UNCHANGED <<admitted, seed, init, pending, timerVars, writeVars,
                   continuation, barrier, flagVars, storeVars, want>>

(* flush() opens a barrier, and drainBarrier() runs up to its first await.  *)
FlushOpens(c) ==
    /\ caller[c] = "init" /\ init = "ok" /\ barrier = "none"
    /\ automaticPaused' = FALSE /\ deadlineExpired' = FALSE
    /\ CancelTimer
    /\ \/ /\ active # "none"
          /\ barrier' = "overlap"
          /\ caller' = [caller EXCEPT ![c] = "barrier"]
          /\ UNCHANGED <<pending, writeVars>>
       \/ /\ active = "none" /\ pending # <<>>
          /\ active' = "writing" /\ batch' = pending /\ background' = FALSE
          /\ pending' = <<>>
          /\ barrier' = "write"
          /\ caller' = [caller EXCEPT ![c] = "barrier"]
       \/ /\ active = "none" /\ pending = <<>>
          /\ caller' = [caller EXCEPT ![c] = "ok"]
          /\ UNCHANGED <<barrier, pending, writeVars>>
    /\ UNCHANGED <<admitted, seed, init, continuation, storeVars, want>>

(* The barrier is released in the job that settles it. *)
Release(result) ==
    /\ barrier' = "none"
    /\ caller' = [c \in Callers |-> IF caller[c] = "barrier" THEN result ELSE caller[c]]

DrainsOnce == FALSE                                            \* mutant
MoreToDrain == pending # <<>>

DrainBarrier ==
    /\ barrier \in {"overlapSettled", "written"}
    /\ automaticPaused' = (automaticPaused /\ barrier = "written")
    /\ \/ /\ MoreToDrain
          /\ StartWrite(FALSE)
          /\ barrier' = "write"
          /\ UNCHANGED caller
       \/ /\ ~MoreToDrain
          /\ Release("ok")
          /\ UNCHANGED <<pending, timerVars, writeVars, deadlineExpired>>
    /\ UNCHANGED <<admitted, seed, init, continuation, storeVars, want>>

DrainFails ==
    /\ barrier = "writeFailed"
    /\ Release("failed")
    /\ UNCHANGED <<admitted, seed, init, pending, timerVars, writeVars,
                   continuation, flagVars, storeVars, want>>

FlushReturns(c) ==
    /\ caller[c] \in {"ok", "failed"}
    /\ caller' = [caller EXCEPT ![c] = "idle"]
    /\ want' = [want EXCEPT ![c] = 0]
    /\ UNCHANGED <<admitted, seed, init, pending, timerVars, writeVars,
                   continuation, barrier, flagVars, storeVars>>

-----------------------------------------------------------------------------
FlushProceeds(c) == FlushInitFailed(c) \/ FlushJoins(c) \/ FlushOpens(c)

Jobs == WriteFinally \/ ContinueAutomatic \/ DrainBarrier \/ DrainFails
        \/ (\E c \in Callers : FlushProceeds(c))

WriteSettles == WriteStored \/ WriteFails

Next ==
    \/ InitSettles \/ Enqueue \/ Deadline \/ WriteSettles \/ Jobs
    \/ \E c \in Callers : FlushCall(c) \/ FlushReturns(c)

Spec == Init /\ [][Next]_vars

(* Initialization and backend writes settle, timeouts fire, microtasks run. *)
FairSpec ==
    /\ Spec
    /\ WF_vars(InitSettles) /\ WF_vars(WriteSettles)
    /\ WF_vars(Deadline) /\ WF_vars(Jobs)

-----------------------------------------------------------------------------
(* Properties *)

(* Type invariant of SessionWriteBehind and the coordinator's state of one  *)
(* session.                                                                 *)
TypeOK ==
    /\ admitted \in 0..MaxEvents /\ seed \in 0..MaxEvents
    /\ init \in {"pending", "ok", "failed"}
    /\ pending \in Seq(Nat) /\ batch \in Seq(Nat) /\ store \in Seq(Nat)
    /\ timer \in BOOLEAN /\ timeouts \in Nat
    /\ active \in {"none", "writing", "stored", "failed"} /\ background \in BOOLEAN
    /\ continuation \in BOOLEAN
    /\ barrier \in {"none", "overlap", "write"} \cup Resuming
    /\ deadlineExpired \in BOOLEAN /\ automaticPaused \in BOOLEAN
    /\ cursor \in Nat
    /\ caller \in [Callers -> {"idle", "init", "barrier", "ok", "failed"}]
    /\ want \in [Callers -> Nat]

(* A successful flush means that everything admitted before the call is     *)
(* durable, also for a caller that joined a barrier already under way.      *)
FlushIsDurable == \A c \in Callers : caller[c] = "ok" => Len(store) >= want[c]

(* What the controller hands to appendCore() always continues the durable   *)
(* log: after failures, retries, drains and a seed that was stored in part, *)
(* a batch neither repeats an event nor leaves a gap, which would reject it *)
(* and every later one.                                                     *)
BatchContinues == active = "writing" /\ init = "ok" => Contiguous

(* Queued events always have somebody who will write them: a timeout, a     *)
(* write under way or just ended, a barrier or a flush on its way to one;   *)
(* or the automatic path waits, after a failure, for the next event.        *)
NoStrandedEvent ==
    pending # <<>> =>
        \/ timer \/ active # "none" \/ continuation \/ barrier # "none"
        \/ automaticPaused
        \/ init = "failed"
        \/ \E c \in Callers : caller[c] = "init"

(* The controller never loses track of a timeout: at most one is armed, and *)
(* it is the one in the timer field.                                        *)
OneTimeout == timeouts = IF timer THEN 1 ELSE 0

(* At most one write is under way: a new one never starts over another.     *)
OneWrite == [][active # "none" /\ active' = "writing" => batch' = batch]_vars

(* Every admitted event becomes durable, or the automatic path pauses on a  *)
(* failure, without anybody calling flush.                                  *)
EventuallyDurable ==
    \A n \in 1..MaxEvents :
        (admitted >= n) ~> (Len(store) >= n \/ automaticPaused \/ init = "failed")

(* The durable log stays a prefix of the session's log: no event is lost,   *)
(* repeated or reordered by failures, retries and overlapping drains, so a  *)
(* crash at any point leaves a log that can be resumed.                     *)
Durable == INSTANCE DurableLog WITH log <- Upto(admitted), durable <- store
ImplementsDurableLog == Durable!Spec

=============================================================================
