--------------------------- MODULE ToolScheduler ---------------------------
(***************************************************************************)
(* The tool calls of one assistant step                                    *)
(* (packages/core/agent-loop/src/tool-calls.ts): executeToolCalls() cuts   *)
(* the calls into groups, runGroup() runs one group as an exclusive        *)
(* barrier or as a bounded parallel pool and commits the results in model  *)
(* order.  Calls are numbered from 1 over the whole step; the indices of   *)
(* runGroup() are those of the code plus the start of the group.           *)
(*                                                                         *)
(* The registry's prepare, dispatch and finalize are awaited: the driver   *)
(* is at a location of AwaitPC while tools settle and the user may cancel. *)
(***************************************************************************)
EXTENDS Naturals, Sequences, FiniteSets

CONSTANTS
    NCalls,       \* calls of the assistant message
    MaxParallel   \* config.maxParallelToolCalls

ASSUME SchedulerAssumption ==
    /\ NCalls \in Nat \ {0}
    /\ MaxParallel \in Nat \ {0}

Calls == 1..NCalls
Modes == {"parallel", "exclusive"}

VARIABLES
    pc,           \* where the scheduler is
    first,        \* first call of the group: `next` of executeToolCalls
    last,         \* last call of the group
    mode,         \* execution mode of the group
    nextToStart,  \* next call of the group to start
    committed,    \* calls 1..committed have their result in the log
    started,      \* calls 1..started were started
    slots,        \* outcomes waiting for their turn to be committed
    inFlight,     \* keys of the inFlight map
    settled,      \* dispatches that have settled
    failure,      \* schedulerFailure is set
    aborted,      \* local of runGroup: the abort was observed
    signal,       \* the step's AbortSignal has fired
    calls,        \* tool/call events, in log order
    results,      \* tool/result events, in log order
    skipped,      \* calls answered without being dispatched
    startMode     \* history: the mode under which a call was started

logVars == <<calls, results, skipped>>
groupVars == <<first, last, mode>>
poolVars == <<nextToStart, started, inFlight, startMode>>
vars == <<pc, groupVars, committed, poolVars, slots, settled, failure,
          aborted, signal, logVars>>

(* Where the scheduler awaits; the return of an awaited function of its own *)
(* ("prepared", "committed") costs a microtask too.                         *)
AwaitPC == {"prepare", "prepared", "finalize", "committed", "race", "drain"}
Terminal == {"done", "failed"}
Running == inFlight \ settled

Init ==
    /\ pc = "classify" /\ first = 1 /\ last = 1 /\ mode = "exclusive"
    /\ nextToStart = 1 /\ committed = 0 /\ started = 0
    /\ slots = [c \in Calls |-> "empty"]
    /\ inFlight = {} /\ settled = {} /\ failure = FALSE
    /\ aborted = FALSE /\ signal \in BOOLEAN
    /\ calls = <<>> /\ results = <<>> /\ skipped = {}
    /\ startMode = [c \in Calls |-> "none"]

(* executeToolCalls(): the next group opens with the call's current mode. *)
AllLaterCalls(m) == NCalls                                     \* mutant
GroupEnd(m) == IF m = "parallel" THEN NCalls ELSE first

Classify(m) ==
    /\ pc = "classify" /\ first <= NCalls
    /\ mode' = m
    /\ last' = GroupEnd(m)
    /\ nextToStart' = first
    /\ aborted' = signal
    /\ pc' = "fill"
    /\ UNCHANGED <<first, committed, started, slots, inFlight, settled,
                   failure, signal, logVars, startMode>>

AllGroupsDone ==
    /\ pc = "classify" /\ first > NCalls
    /\ pc' = "done"
    /\ UNCHANGED <<groupVars, committed, poolVars, slots, settled, failure,
                   aborted, signal, logVars>>

(* fillPool(): the group's first call keeps the mode of the group; a later  *)
(* one of a parallel group is classified again just before its start.       *)
PoolOpen ==
    /\ ~aborted /\ nextToStart <= last
    /\ Cardinality(inFlight) < MaxParallel

Reclassified == nextToStart > first /\ mode = "parallel"

StartCall ==
    /\ pc = "fill" /\ PoolOpen
    /\ calls' = Append(calls, nextToStart)
    /\ started' = started + 1
    /\ startMode' = [startMode EXCEPT ![nextToStart] = mode]
    /\ pc' = "prepare"
    /\ UNCHANGED <<groupVars, nextToStart, committed, slots, inFlight, settled,
                   failure, aborted, signal, results, skipped>>

(* `next += consumed`, and a group that is not aborted consumed what it started. *)
NextGroup == started + 1

(* The pool takes no more calls: it is full, the group is used up, an abort *)
(* was seen, or the next call has become exclusive.                         *)
StopFilling ==
    /\ pc = "fill"
    /\ PoolOpen => Reclassified
    /\ \/ /\ inFlight # {}
          /\ pc' = "race"
          /\ UNCHANGED first
       \/ /\ inFlight = {} /\ aborted
          /\ pc' = "skip"
          /\ UNCHANGED first
       \/ /\ inFlight = {} /\ ~aborted
          /\ pc' = "classify"
          /\ first' = NextGroup
    /\ UNCHANGED <<last, mode, committed, poolVars, slots, settled, failure,
                   aborted, signal, logVars>>

(* startCall() after its await: a failure that came meanwhile stops it. *)
FailureUnseen == FALSE                                         \* mutant
FailureSeen == failure

Prepared(kind) ==
    /\ pc = "prepare" /\ ~FailureSeen
    /\ IF kind = "dispatch"
       THEN inFlight' = inFlight \cup {nextToStart} /\ UNCHANGED slots
       ELSE slots' = [slots EXCEPT ![nextToStart] = kind] /\ UNCHANGED inFlight
    /\ nextToStart' = nextToStart + 1
    /\ pc' = "prepared"
    /\ UNCHANGED <<groupVars, committed, started, settled, failure, aborted,
                   signal, logVars, startMode>>

(* Any rejection, or a failure found after an await, leads to the catch. *)
Throw ==
    /\ failure' = TRUE
    /\ pc' = "drain"
    /\ UNCHANGED <<groupVars, committed, nextToStart, started, startMode, slots,
                   settled, aborted, signal, logVars>>

PrepareThrows ==
    /\ pc = "prepare"
    /\ Throw
    /\ UNCHANGED inFlight

StartReturns ==
    /\ pc = "prepared"
    /\ \/ /\ failure
          /\ Throw
       \/ /\ ~failure
          /\ pc' = "commit"
          /\ UNCHANGED <<groupVars, committed, nextToStart, started, startMode,
                         slots, settled, failure, aborted, signal, logVars>>
    /\ UNCHANGED inFlight

(* commitReady(): results leave in model order, across contiguous slots.    *)
(* It runs on from a commit to the next without a pause.                    *)
Ready == committed < last /\ slots[committed + 1] # "empty"

CommitResult ==
    /\ results' = Append(results, committed + 1)
    /\ committed' = committed + 1
    /\ pc' = "commit"
    /\ UNCHANGED <<groupVars, poolVars, slots, settled, failure, aborted,
                   signal, calls, skipped>>

CommitFinal ==
    /\ pc = "commit" /\ Ready /\ slots[committed + 1] = "final"
    /\ CommitResult

BeginFinalize ==
    /\ pc = "commit" /\ Ready /\ slots[committed + 1] = "post"
    /\ pc' = "finalize"
    /\ UNCHANGED <<groupVars, committed, poolVars, slots, settled, failure,
                   aborted, signal, logVars>>

Finalized == pc = "finalize" /\ CommitResult

FinalizeThrows ==
    /\ pc = "finalize"
    /\ Throw
    /\ UNCHANGED inFlight

AbortUnseen == aborted                                         \* mutant
AbortSeen == aborted \/ signal

CommitEnds ==
    /\ pc = "commit" /\ ~Ready
    /\ pc' = "committed"
    /\ UNCHANGED <<groupVars, committed, poolVars, slots, settled, failure,
                   aborted, signal, logVars>>

(* Back in fillPool() or in the race loop: a failure is thrown, an abort is *)
(* noted.  What became ready meanwhile waits for the next round.            *)
CommitReturns ==
    /\ pc = "committed"
    /\ \/ /\ failure
          /\ Throw
       \/ /\ ~failure
          /\ aborted' = AbortSeen
          /\ pc' = "fill"
          /\ UNCHANGED <<groupVars, committed, nextToStart, started, startMode,
                         slots, settled, failure, signal, logVars>>
    /\ UNCHANGED inFlight

KeepsWinner(c) == inFlight                                     \* mutant
WithoutWinner(c) == inFlight \ {c}

(* Promise.race over the map: one settled dispatch is taken out. *)
RaceWon(c) ==
    /\ pc = "race" /\ c \in inFlight \cap settled
    /\ inFlight' = WithoutWinner(c)
    /\ \/ /\ failure
          /\ Throw
       \/ /\ ~failure
          /\ pc' = "commit"
          /\ UNCHANGED <<groupVars, committed, nextToStart, started, startMode,
                         slots, settled, failure, aborted, signal, logVars>>

(* A dispatched tool settles: its slot is filled, or the failure recorded. *)
DispatchSettles(c, kind) ==
    /\ pc \in AwaitPC /\ c \in Running
    /\ settled' = settled \cup {c}
    /\ IF kind = "rejected"
       THEN failure' = TRUE /\ UNCHANGED slots
       ELSE slots' = [slots EXCEPT ![c] = kind] /\ UNCHANGED failure
    /\ UNCHANGED <<pc, groupVars, committed, poolVars, aborted, signal, logVars>>

AbandonsRunning == TRUE                                        \* mutant
AllSettled == Running = {}

(* The catch of runGroup() waits for the other dispatches and rethrows. *)
Drained ==
    /\ pc = "drain" /\ AllSettled
    /\ pc' = "failed"
    /\ UNCHANGED <<groupVars, committed, poolVars, slots, settled, failure,
                   aborted, signal, logVars>>

(* After an abort the rest of the group and of the step is recorded and     *)
(* answered without being dispatched.                                       *)
NoResult(c) == results                                         \* mutant
SkippedResult(c) == Append(results, c)

SkipCall ==
    /\ pc = "skip" /\ Len(calls) < NCalls
    /\ LET c == Len(calls) + 1 IN
       /\ calls' = Append(calls, c)
       /\ results' = SkippedResult(c)
       /\ skipped' = skipped \cup {c}
    /\ UNCHANGED <<pc, groupVars, committed, poolVars, slots, settled, failure,
                   aborted, signal>>

AllSkipped ==
    /\ pc = "skip" /\ Len(calls) = NCalls
    /\ pc' = "done"
    /\ UNCHANGED <<groupVars, committed, poolVars, slots, settled, failure,
                   aborted, signal, logVars>>

(* The step is cancelled, from outside or by a listener of an append. *)
Cancel ==
    /\ pc \in AwaitPC \cup {"commit", "classify"} /\ ~signal
    /\ signal' = TRUE
    /\ UNCHANGED <<pc, groupVars, committed, poolVars, slots, settled, failure,
                   aborted, logVars>>

Scheduler ==
    \/ (\E m \in Modes : Classify(m)) \/ AllGroupsDone
    \/ StartCall \/ StopFilling
    \/ (\E k \in {"dispatch", "post", "final"} : Prepared(k)) \/ PrepareThrows
    \/ StartReturns \/ CommitFinal \/ BeginFinalize \/ Finalized \/ FinalizeThrows
    \/ CommitEnds \/ CommitReturns \/ (\E c \in Calls : RaceWon(c)) \/ Drained
    \/ SkipCall \/ AllSkipped

ToolSettles == \E c \in Calls, k \in {"post", "final", "rejected"} : DispatchSettles(c, k)

Next == Scheduler \/ ToolSettles \/ Cancel

Spec == Init /\ [][Next]_vars

(* The scheduler's own awaits and every dispatched tool settle eventually;  *)
(* nobody has to cancel.                                                    *)
FairSpec == Spec /\ WF_vars(Scheduler) /\ WF_vars(ToolSettles)

-----------------------------------------------------------------------------
(* Properties *)

(* Type invariant of the locals of executeToolCalls() and runGroup().       *)
TypeOK ==
    /\ pc \in {"classify", "fill", "commit", "skip"} \cup AwaitPC \cup Terminal
    /\ first \in 1..NCalls+1 /\ last \in Calls /\ mode \in Modes
    /\ nextToStart \in 1..NCalls+1 /\ committed \in 0..NCalls /\ started \in 0..NCalls
    /\ slots \in [Calls -> {"empty", "post", "final"}]
    /\ inFlight \subseteq Calls /\ settled \subseteq Calls
    /\ failure \in BOOLEAN /\ aborted \in BOOLEAN /\ signal \in BOOLEAN
    /\ calls \in Seq(Calls) /\ results \in Seq(Calls) /\ skipped \subseteq Calls
    /\ startMode \in [Calls -> Modes \cup {"none"}]

(* Calls and results enter the log in model order, without gap or repeat,   *)
(* and no result precedes its call, whatever order the pool settles in, at  *)
(* every abort and every failure.                                           *)
ModelOrder ==
    /\ \A i \in 1..Len(calls) : calls[i] = i
    /\ \A i \in 1..Len(results) : results[i] = i
    /\ Len(results) <= Len(calls)

(* A step that returns, aborted or not, leaves no call without a result.    *)
EveryCallAnswered == pc = "done" => Len(results) = NCalls

(* The assertion of runGroup(): a group that was not aborted is left with   *)
(* every started call committed.                                            *)
NothingUncommitted ==
    [][pc = "fill" /\ pc' = "classify" => committed = started]_vars

(* An exclusive call is a barrier: while it is prepared or runs, no other   *)
(* call of the step is in flight and every earlier one has its result.      *)
ExclusiveAlone ==
    /\ \A c \in inFlight :
          startMode[c] = "exclusive" => inFlight = {c} /\ committed >= c - 1
    /\ pc = "prepare" /\ startMode[nextToStart] = "exclusive"
          => inFlight = {} /\ committed = nextToStart - 1

(* The pool never holds more dispatched calls than the configured maximum.  *)
PoolBound == Cardinality(inFlight) <= MaxParallel

(* Once the signal has fired no further call of the step is started.        *)
NoStartAfterCancel == [][started' # started => ~signal]_vars

(* A scheduler failure dispatches nothing more, answers no call in its      *)
(* place, and is thrown only when nothing runs any more.                    *)
FailureIsClean ==
    /\ pc = "failed" => skipped = {} /\ Running = {}
    /\ failure => skipped = {}
NoDispatchAfterFailure == [][failure => inFlight' \subseteq inFlight]_vars

(* What no step of a group may do: start a call after a cancel, dispatch    *)
(* one after a failure, or leave a started call uncommitted.                *)
GroupDiscipline == NoStartAfterCancel /\ NoDispatchAfterFailure /\ NothingUncommitted

(* The step returns or throws once every awaited call settles.              *)
Terminates == <>(pc \in Terminal)

(* Together: the log of the step is what ToolResults promises.              *)
Contract == INSTANCE ToolResults WITH
    recorded <- Len(calls),
    answered <- Len(results),
    outcome <- IF pc \in Terminal THEN pc ELSE "running"
ImplementsContract == Contract!Spec

=============================================================================
