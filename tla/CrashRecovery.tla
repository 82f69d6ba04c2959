---------------------------- MODULE CrashRecovery ----------------------------
(* A session across crashes: the events the driver and the tool scheduler      *)
(* append, the prefix of them that is durable, the barriers of the checkpoint  *)
(* policy, and the repair of an interrupted log (core/session/src/repair.ts)   *)
(* judged by the log rules of core/session/src/invariant.ts.                   *)
(*                                                                             *)
(* A call of the model is named by its place <<turn, step, i>>.  Events that   *)
(* neither the repair nor the rules look at (messages of the user, chunks,     *)
(* headers) are left out.                                                      *)
EXTENDS Naturals, Sequences, FiniteSets

Lists == INSTANCE SequencesExt

CONSTANTS MaxTurns, MaxSteps,   \* turns and steps of the session
          MaxCalls,             \* calls in one answer
          MaxParallel,          \* agentLoop.maxParallelToolCalls
          MaxCrashes

ASSUME BoundsAreNat == {MaxTurns, MaxSteps, MaxCalls, MaxParallel, MaxCrashes} \subseteq Nat

VARIABLES log,      \* Session.events
          stored,   \* how many of them are durable
          mode,     \* the process: "up", "down", or "repairing" a cold log
          closers,  \* synthetic events commitRepair has still to write
          driver,   \* where the turn is
          calls,    \* what became of each call of the current step
          ran,      \* calls whose body was entered, in any process
          asked,    \* steps whose request reached the adapter
          crashes

vars == <<log, stored, mode, closers, driver, calls, ran, asked, crashes>>

Ev(type, turn, step) == [type |-> type, turn |-> turn, step |-> step, n |-> 0, call |-> <<>>, code |-> "none"]
Message(turn, step, n) == [Ev("assistant/message", turn, step) EXCEPT !.n = n]
CallEv(turn, step, i) == [Ev("tool/call", turn, step) EXCEPT !.call = <<turn, step, i>>]
Result(turn, step, c, code) == [Ev("tool/result", turn, step) EXCEPT !.call = c, !.code = code]

-----------------------------------------------------------------------------
(* interruptedTurnClosers: one pass over the log, then the missing ends.       *)

ScanStart == [turn |-> 0, step |-> 0, pending |-> <<>>]

Asks(e) == [i \in 1..e.n |-> [call |-> <<e.turn, e.step, i>>, step |-> e.step, started |-> FALSE]]

(* Mutant: results already logged are not counted.                             *)
AnswersForgotten(pending, c) == pending

(* Map.delete: a key is there once, or not at all.                             *)
Answered(pending, c) ==
  LET at == {i \in DOMAIN pending : pending[i].call = c}
  IN IF at = {} THEN pending ELSE Lists!RemoveAt(pending, CHOOSE i \in at : TRUE)

(* Mutant: the calls a step left unanswered stay pending after it ends.        *)
ScanKeepsPending(s, e) ==
  CASE e.type = "turn/start" -> [turn |-> e.turn, step |-> 0, pending |-> <<>>]
    [] e.type = "turn/end" -> ScanStart
    [] e.type = "step/start" -> [s EXCEPT !.step = e.step]
    [] e.type = "step/end" -> [s EXCEPT !.step = 0]
    [] e.type = "assistant/message" -> [s EXCEPT !.pending = @ \o Asks(e)]
    [] e.type = "tool/call" ->
         [s EXCEPT !.pending = [i \in DOMAIN @ |->
            IF @[i].call = e.call THEN [@[i] EXCEPT !.started = TRUE] ELSE @[i]]]
    [] e.type = "tool/result" -> [s EXCEPT !.pending = Answered(@, e.call)]

Scan(s, e) ==
  CASE e.type = "turn/start" -> [turn |-> e.turn, step |-> 0, pending |-> <<>>]
    [] e.type = "turn/end" -> ScanStart
    [] e.type = "step/start" -> [s EXCEPT !.step = e.step]
    [] e.type = "step/end" -> [s EXCEPT !.step = 0, !.pending = <<>>]
    [] e.type = "assistant/message" -> [s EXCEPT !.pending = @ \o Asks(e)]
    [] e.type = "tool/call" ->
         [s EXCEPT !.pending = [i \in DOMAIN @ |->
            IF @[i].call = e.call THEN [@[i] EXCEPT !.started = TRUE] ELSE @[i]]]
    [] e.type = "tool/result" -> [s EXCEPT !.pending = Answered(@, e.call)]

Scanned(events) ==
  LET after[k \in 0..Len(events)] == IF k = 0 THEN ScanStart ELSE Scan(after[k - 1], events[k])
  IN after[Len(events)]

Code(p) == IF p.started THEN "TOOL_OUTCOME_UNKNOWN" ELSE "TOOL_NOT_STARTED"

Interrupted(events) == Scanned(events).turn # 0

InterruptedTurnClosers(events) ==
  LET s == Scanned(events)
      results == [i \in DOMAIN s.pending |->
                    Result(s.turn, s.pending[i].step, s.pending[i].call, Code(s.pending[i]))]
      stepEnd == IF s.step = 0 THEN <<>> ELSE <<Ev("step/end", s.turn, s.step)>>
      turnEnd == <<[Ev("turn/end", s.turn, 0) EXCEPT !.code = "interrupted"]>>
  IN IF s.turn = 0 THEN <<>> ELSE results \o stepEnd \o turnEnd

-----------------------------------------------------------------------------
(* validateEvent and applyTransition: the rules every session log must obey.   *)

FreshTrace == [ok |-> TRUE, turn |-> 0, step |-> 0, nextTurn |-> 1, nextStep |-> 1, pending |-> {}]

InStep(t, e) == t.turn = e.turn /\ t.step = e.step

Allowed(t, e) ==
  CASE e.type = "turn/start" -> t.turn = 0 /\ e.turn = t.nextTurn
    [] e.type = "turn/end" -> t.turn = e.turn /\ t.step = 0
    [] e.type = "step/start" -> t.turn = e.turn /\ t.step = 0 /\ e.step = t.nextStep
    [] e.type \in {"step/end", "assistant/message", "tool/call"} -> InStep(t, e)
    [] e.type = "tool/result" ->
         InStep(t, e) /\ (e.call \in t.pending \/ e.code = "TOOL_NOT_STARTED")

Transition(t, e) ==
  CASE e.type = "turn/start" -> [t EXCEPT !.turn = e.turn, !.nextStep = 1]
    [] e.type = "turn/end" -> [t EXCEPT !.turn = 0, !.nextTurn = @ + 1]
    [] e.type = "step/start" -> [t EXCEPT !.step = e.step]
    [] e.type = "step/end" -> [t EXCEPT !.step = 0, !.nextStep = @ + 1, !.pending = {}]
    [] e.type = "tool/call" -> [t EXCEPT !.pending = @ \cup {e.call}]
    [] e.type = "tool/result" -> [t EXCEPT !.pending = @ \ {e.call}]
    [] OTHER -> t

Validate(t, e) == IF t.ok /\ Allowed(t, e) THEN Transition(t, e) ELSE [t EXCEPT !.ok = FALSE]
Trace(events) ==
  LET after[k \in 0..Len(events)] == IF k = 0 THEN FreshTrace ELSE Validate(after[k - 1], events[k])
  IN after[Len(events)]

-----------------------------------------------------------------------------
(* The driver (agent-loop/src/agent.ts) and the scheduler (tool-calls.ts).     *)

At(pc) == mode = "up" /\ driver.at = pc
Goto(pc) == driver' = [driver EXCEPT !.at = pc]
Append1(e) == log' = Append(log, e)
NoCalls == <<>>
Parked(turn) == [at |-> "idle", turn |-> turn, step |-> 0, aborted |-> FALSE]

LastTurn(events) ==
  LET starts == {k \in DOMAIN events : events[k].type = "turn/start"}
  IN IF starts = {} THEN 0 ELSE events[CHOOSE k \in starts : \A j \in starts : j <= k].turn

Init ==
  /\ log = <<>> /\ stored = 0
  /\ mode = "up" /\ closers = <<>>
  /\ driver = Parked(0) /\ calls = NoCalls
  /\ ran = {} /\ asked = {} /\ crashes = 0

elsewhere == <<stored, mode, closers, crashes>>

(* Everything appended before sessions.flush was called is durable when it     *)
(* settles (module WriteBehind).                                               *)
Durable(n) == stored >= n

TurnStart ==
  /\ At("idle") /\ driver.turn < MaxTurns
  /\ Append1(Ev("turn/start", driver.turn + 1, 0))
  /\ driver' = [Parked(driver.turn + 1) EXCEPT !.at = "proposing"]
  /\ UNCHANGED <<elsewhere, calls, ran, asked>>

(* preStep entered: the checkpoint of agent/pre-step has passed.               *)
StepStart ==
  /\ At("proposing")
  /\ Len(SelectSeq(log, LAMBDA e : e.type = "step/start")) < MaxSteps
  /\ Durable(Len(log))
  /\ Append1(Ev("step/start", driver.turn, driver.step + 1))
  /\ driver' = [driver EXCEPT !.at = "requesting", !.step = @ + 1]
  /\ calls' = NoCalls
  /\ UNCHANGED <<elsewhere, ran, asked>>

(* The turn ends without another step, or a failed checkpoint ends it.         *)
TurnEnd ==
  /\ At("proposing") \/ At("turnEnding")
  /\ Append1(Ev("turn/end", driver.turn, 0))
  /\ driver' = Parked(driver.turn)
  /\ UNCHANGED <<elsewhere, calls, ran, asked>>

(* Mutant: the request does not wait for its checkpoint.                       *)
RequestSentUnsaved ==
  /\ At("requesting")
  /\ asked' = asked \cup {<<driver.turn, driver.step>>}
  /\ Goto("streaming")
  /\ UNCHANGED <<log, elsewhere, calls, ran>>

(* llm/stream: the adapter is called once the logged request is durable.       *)
RequestSent ==
  /\ At("requesting")
  /\ Durable(Len(log))
  /\ asked' = asked \cup {<<driver.turn, driver.step>>}
  /\ Goto("streaming")
  /\ UNCHANGED <<log, elsewhere, calls, ran>>

(* The answer is one message; at the token limit its calls are not executed.   *)
AnswerLogged ==
  /\ At("streaming")
  /\ \E n \in 0..MaxCalls :
       /\ Append1(Message(driver.turn, driver.step, n))
       /\ \/ calls' = [i \in 1..n |-> "offered"] /\ Goto("calling")
          \/ n > 0 /\ calls' = NoCalls /\ Goto("stepEnding")
  /\ UNCHANGED <<elsewhere, ran, asked>>

(* step() throws: a failed request or checkpoint, a cancel, or a scheduler     *)
(* failure, which first lets the running bodies settle.                        *)
StepFails ==
  /\ \/ At("requesting") \/ At("streaming")
     \/ At("calling") /\ \A i \in DOMAIN calls : calls[i] # "running"
  /\ Goto("failing")
  /\ UNCHANGED <<log, elsewhere, calls, ran, asked>>

StepEnd ==
  /\ At("stepEnding") \/ At("failing")
  /\ Append1(Ev("step/end", driver.turn, driver.step))
  /\ Goto(IF driver.at = "failing" THEN "turnEnding" ELSE "proposing")
  /\ UNCHANGED <<elsewhere, calls, ran, asked>>

CallId(i) == <<driver.turn, driver.step, i>>
Started == {i \in DOMAIN calls : calls[i] # "offered"}
InFlight == {i \in DOMAIN calls : calls[i] \in {"recorded", "running"}}
Becomes(i, state) == calls' = [calls EXCEPT ![i] = state]

(* startCall: the call is recorded before its pre-execute hooks run.           *)
CallStart(i) ==
  /\ At("calling") /\ ~driver.aborted
  /\ i \in DOMAIN calls /\ Started = 1..(i - 1)
  /\ Cardinality(InFlight) < MaxParallel
  /\ Append1(CallEv(driver.turn, driver.step, i))
  /\ Becomes(i, "recorded")
  /\ UNCHANGED <<elsewhere, driver, ran, asked>>

RecordedAt(i) == CHOOSE k \in DOMAIN log : log[k] = CallEv(driver.turn, driver.step, i)

(* Mutant: the body does not wait for the checkpoint of its call.              *)
CallRunsUnsaved(i) ==
  /\ At("calling")
  /\ i \in DOMAIN calls /\ calls[i] = "recorded"
  /\ Becomes(i, "running")
  /\ ran' = ran \cup {CallId(i)}
  /\ UNCHANGED <<log, elsewhere, driver, asked>>

(* tools/execute: the body is entered once the recorded call is durable.       *)
CallRuns(i) ==
  /\ At("calling")
  /\ i \in DOMAIN calls /\ calls[i] = "recorded"
  /\ Durable(RecordedAt(i))
  /\ Becomes(i, "running")
  /\ ran' = ran \cup {CallId(i)}
  /\ UNCHANGED <<log, elsewhere, driver, asked>>

(* The body returns; or a hook, a failed checkpoint or a cancel answers for    *)
(* it.                                                                         *)
CallSettles(i) ==
  /\ At("calling")
  /\ i \in InFlight
  /\ Becomes(i, "settled")
  /\ UNCHANGED <<log, elsewhere, driver, ran, asked>>

Committable(i) == calls[i] = "settled" /\ \A j \in 1..(i - 1) : calls[j] = "committed"

(* commitReady: results are appended in the model's order.                     *)
CallCommits(i) ==
  /\ At("calling")
  /\ i \in DOMAIN calls /\ Committable(i)
  /\ Append1(Result(driver.turn, driver.step, CallId(i), "none"))
  /\ Becomes(i, "committed")
  /\ UNCHANGED <<elsewhere, driver, ran, asked>>

Cancel ==
  /\ At("calling") /\ ~driver.aborted
  /\ driver' = [driver EXCEPT !.aborted = TRUE]
  /\ UNCHANGED <<log, elsewhere, calls, ran, asked>>

(* appendSkippedToolCall: a call never started gets its pair at once.          *)
CallSkipped(i) ==
  /\ At("calling") /\ driver.aborted
  /\ i \in DOMAIN calls /\ calls[i] = "offered"
  /\ \A j \in 1..(i - 1) : calls[j] = "committed"
  /\ log' = log \o <<CallEv(driver.turn, driver.step, i),
                     Result(driver.turn, driver.step, CallId(i), "TOOL_ABORTED_BEFORE_DISPATCH")>>
  /\ Becomes(i, "committed")
  /\ UNCHANGED <<elsewhere, driver, ran, asked>>

CallsDone ==
  /\ At("calling")
  /\ \A i \in DOMAIN calls : calls[i] = "committed"
  /\ Goto(IF driver.aborted THEN "failing" ELSE "stepEnding")
  /\ UNCHANGED <<log, elsewhere, calls, ran, asked>>

-----------------------------------------------------------------------------
(* Storage: a batch holds everything appended before it was taken, and what is *)
(* appended later waits for the next one.  A crash keeps what is durable and   *)
(* whatever of the outstanding write reached the disk.                         *)

Store ==
  /\ mode = "up"
  /\ stored < Len(log)
  /\ stored' = Len(log)
  /\ UNCHANGED <<log, mode, closers, driver, calls, ran, asked, crashes>>

Crash ==
  /\ mode # "down" /\ crashes < MaxCrashes
  /\ \E k \in stored..Len(log) : log' = SubSeq(log, 1, k) /\ stored' = k
  /\ mode' = "down" /\ closers' = <<>>
  /\ driver' = Parked(0) /\ calls' = NoCalls
  /\ crashes' = crashes + 1
  /\ UNCHANGED <<ran, asked>>

(* prepareCore and commitPrepared: an interrupted log is repaired and read     *)
(* again; commitRepair may be cut between two events.                          *)
Repair ==
  /\ mode = "down"
  /\ Interrupted(log)
  /\ closers' = InterruptedTurnClosers(log)
  /\ mode' = "repairing"
  /\ UNCHANGED <<log, stored, driver, calls, ran, asked, crashes>>

WriteCloser ==
  /\ mode = "repairing"
  /\ Append1(Head(closers))
  /\ stored' = stored + 1
  /\ closers' = Tail(closers)
  /\ mode' = IF Tail(closers) = <<>> THEN "down" ELSE "repairing"
  /\ UNCHANGED <<driver, calls, ran, asked, crashes>>

(* A balanced log is resumed; the driver counts on from its last turn.         *)
Resume ==
  /\ mode = "down"
  /\ ~Interrupted(log)
  /\ mode' = "up"
  /\ driver' = Parked(LastTurn(log))
  /\ UNCHANGED <<log, stored, closers, calls, ran, asked, crashes>>

Recover == Repair \/ WriteCloser \/ Resume

Next ==
  \/ TurnStart \/ StepStart \/ TurnEnd \/ RequestSent \/ AnswerLogged
  \/ StepFails \/ StepEnd \/ Cancel \/ CallsDone
  \/ \E i \in 1..MaxCalls : \/ CallStart(i) \/ CallRuns(i) \/ CallSettles(i)
                            \/ CallCommits(i) \/ CallSkipped(i)
  \/ Store \/ Crash \/ Recover

Spec == Init /\ [][Next]_vars

-----------------------------------------------------------------------------
CallIds == {<<>>} \cup (Nat \X Nat \X Nat)

Events == [type : {"turn/start", "turn/end", "step/start", "step/end",
                   "assistant/message", "tool/call", "tool/result"},
           turn : Nat, step : Nat, n : Nat, call : CallIds,
           code : {"none", "interrupted", "TOOL_NOT_STARTED", "TOOL_OUTCOME_UNKNOWN",
                   "TOOL_ABORTED_BEFORE_DISPATCH"}]

(* The types, and that the driver counts on from the turns of the log.         *)
TypeOK ==
  /\ log \in Seq(Events) /\ closers \in Seq(Events)
  /\ stored \in 0..Len(log)
  /\ mode \in {"up", "down", "repairing"}
  /\ mode = "repairing" <=> closers # <<>>
  /\ driver \in [at : {"idle", "proposing", "requesting", "streaming", "calling",
                       "stepEnding", "failing", "turnEnding"},
                 turn : Nat, step : Nat, aborted : BOOLEAN]
  /\ mode = "up" => driver.turn = LastTurn(log)
  /\ calls \in Seq({"offered", "recorded", "running", "settled", "committed"})
  /\ ran \subseteq CallIds /\ asked \subseteq Nat \X Nat
  /\ crashes \in Nat

Repaired == log \o InterruptedTurnClosers(log)

(* Whatever a crash leaves, at any event and in the middle of a repair, the    *)
(* repaired log obeys the rules of the session, has no open turn, and is left  *)
(* alone by the next repair.                                                   *)
RepairIsValid ==
  mode = "down" =>
    /\ Trace(Repaired).ok
    /\ Trace(Repaired).turn = 0
    /\ ~Interrupted(Repaired)

(* The step a crash interrupts has one result for every call it offered, after *)
(* the message that offers it and in the model's order: the transcript is one  *)
(* a provider accepts.                                                         *)
EventsOf(events, type, turn, step) ==
  {k \in DOMAIN events : /\ events[k].type = type
                         /\ events[k].turn = turn /\ events[k].step = step}

InOrder(events, turn, step) ==
  LET results == EventsOf(events, "tool/result", turn, step)
  IN /\ \A j, k \in results : j < k => events[j].call[3] < events[k].call[3]
     /\ \A m \in EventsOf(events, "assistant/message", turn, step) :
          /\ {events[k].call : k \in results} = {<<turn, step, i>> : i \in 1..events[m].n}
          /\ \A k \in results : m < k

AnsweredInOrder ==
  mode = "down" /\ Scanned(log).step # 0 => InOrder(Repaired, Scanned(log).turn, Scanned(log).step)

(* A call whose body was entered, in this process or an earlier one, is never  *)
(* reported as not started, which would invite the model to repeat its         *)
(* effects.                                                                    *)
NeverRetryWhatRan ==
  mode = "down" => \A e \in Lists!Range(Repaired) : e.code = "TOOL_NOT_STARTED" => e.call \notin ran

(* A request that reached a model adapter belongs to a step every later log    *)
(* of the session knows about.                                                 *)
RequestsAreLogged ==
  \A a \in asked : \E k \in 1..stored : log[k] = Ev("step/start", a[1], a[2])

=============================================================================
