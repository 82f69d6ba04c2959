----------------------------- MODULE AgentLoop -----------------------------
(***************************************************************************)
(* The driver of one agent (packages/core/agent-loop/src/agent.ts) and the *)
(* pending-input inbox it drains (packages/core/agent/src/inbox.ts).       *)
(*                                                                         *)
(* JavaScript runs one job at a time, but not atomically: appending to the *)
(* session, publishing an inbox change, a status or an error runs the      *)
(* listeners synchronously, in the middle of the operation, and a listener *)
(* may call the agent again.  The call stack is therefore state:           *)
(*                                                                         *)
(*   - `stack` holds the operations that are suspended inside one of their *)
(*     own notifications, innermost first; only the innermost one can run; *)
(*   - the driver frame is on the stack while the driver runs (a location  *)
(*     in SyncPC), and off it while the driver awaits (the others);        *)
(*   - an await is resumed only by the event loop, with an empty stack.    *)
(*                                                                         *)
(* A location in AppendPC is inside session.append: any further append is  *)
(* rejected there, so every call that would write the inbox throws and     *)
(* leaves no trace.                                                        *)
(***************************************************************************)
EXTENDS Naturals, Sequences, FiniteSets

CONSTANTS
    NMessages,  \* bound: user messages
    MaxSteps,   \* bound: steps of one turn
    MaxDepth    \* bound: nested synchronous calls

ASSUME BoundAssumption == NMessages \in Nat \ {0} /\ MaxSteps \in Nat \ {0} /\ MaxDepth \in Nat \ {0}

VARIABLES
    phase,          \* Phase.kind
    abortReason,    \* reason of the phase's AbortSignal, "none" if not aborted
    wakeRequested,  \* Phase.wakeRequested
    turn,           \* Phase.turn, Phase.lastTurn when idle
    step,           \* Phase.step
    pc,             \* where the driver is, "none" without one
    target,         \* local of turn(): the boundary the next claim serves
    turnEnds,       \* local of turn(): TurnEndReason.kind or "null"
    flow,           \* how turn() leaves its try block
    reply,          \* local of step(): what the finished model response holds
    nextStep,       \* Inbox.nextStep
    nextTurn,       \* Inbox.nextTurn
    stack,          \* suspended synchronous calls, innermost first
    sent,           \* history: how many messages were sent
    waking,         \* history: messages sent with wakeup
    parked,         \* history: wakes that nothing serves (see Send, CancelAbort)
    revoked,        \* history: what a cancel() found pending and has not discarded
    owed,           \* history: wakes sent to work that could not serve them
    disposing       \* history: a disposed cancel reached the current activity

inboxVars == <<nextStep, nextTurn, sent, waking, parked, revoked>>
turnVars  == <<turn, step, target, turnEnds, flow, reply>>
phaseVars == <<phase, abortReason, wakeRequested>>
vars == <<phaseVars, turnVars, pc, inboxVars, stack, owed, disposing>>

(* Messages are named in the order in which they are sent. *)
Messages == 1..NMessages

Causes == {"user", "disposed"}   \* "parent" and "hook" count as "user"

(* Locations inside session.append, and inside any other notification. *)
AppendPC == {"turnStarted", "stepStarted", "headerLogged", "messageLogged",
             "stepEnded", "turnEnded"}
SyncPC == AppendPC \cup {"waking", "erroring"}
(* From the entry of a step to the return of step(). *)
StepPC == {"stepStarted", "requesting", "headerLogged", "built", "streaming", "requestError",
           "rewriting", "rewritten", "messageLogged", "tools", "stepReturned"}
(* Awaits. The return of an awaited async function is one too: "decided",   *)
(* "built", "rewritten", "stepReturned", "betweenTurns" and "exiting" last  *)
(* until preStep(), buildRequest(), rewriteToolCalls(), step() and turn()   *)
(* have handed their result to the caller.                                  *)
AwaitPC == {"assembling", "preStep", "decided", "requesting", "built", "streaming",
            "requestError", "rewriting", "rewritten", "tools", "stepReturned",
            "stopping", "betweenTurns", "exiting"}

Driver == [k |-> "driver"]
Frame == {Driver}
    \cup [k : {"wake"}, late : BOOLEAN]
    \cup [k : {"settle"}, replay : BOOLEAN]
    \cup [k : {"clearTurn", "abort"}, cause : Causes]

Push(f, s) == <<f>> \o s
Top(k) == stack # <<>> /\ Head(stack).k = k

Aborted == abortReason # "none"

(* signal.throwIfAborted() after an await, or before one, lets control pass. *)
ChecksDropped == TRUE                                          \* mutant
SignalClear == ~Aborted

HasPending == nextStep # <<>> \/ nextTurn # <<>>
ElementsOf(s) == {s[i] : i \in DOMAIN s}
Pending == ElementsOf(nextStep) \cup ElementsOf(nextTurn)
AtRest == phase = "idle" /\ stack = <<>>

(* Other code runs between jobs, or as a listener of the innermost call. *)
InAppend == Top("driver") /\ pc \in AppendPC
MayCall == ~InAppend /\ Len(stack) < MaxDepth

Init ==
    /\ phase = "idle" /\ abortReason = "none" /\ wakeRequested = FALSE
    /\ turn = 0 /\ step = 0 /\ pc = "none"
    /\ target = "next-turn" /\ turnEnds = "null" /\ flow = "go" /\ reply = "none"
    \* A resumed session may restore input that was pending when it stopped.
    /\ nextStep = <<>>
    /\ nextTurn \in {<<>>, <<1>>} /\ sent = Len(nextTurn)
    /\ waking = {} /\ parked = {} /\ revoked = {} /\ stack = <<>>
    /\ owed = {} /\ disposing = FALSE

-----------------------------------------------------------------------------
(* The phase machine *)

(* wakeDriver(): start a driver when idle, else latch the wake if the       *)
(* current activity cannot serve it.  `rest` is the stack of the caller.    *)
LatchesOnlyMaintenance(late) ==                                \* mutant
    /\ abortReason # "disposed"
    /\ phase = "maintenance"
Latches(late) ==
    /\ abortReason # "disposed"
    /\ phase = "maintenance" \/ late

StartsOverAborted == phase = "idle" \/ Aborted                  \* mutant
StartsDriver == phase = "idle"

StartDriver(rest) ==
    /\ phase' = "running" /\ abortReason' = "none" /\ wakeRequested' = FALSE
    /\ step' = 0 /\ pc' = "waking"
    /\ stack' = Push(Driver, rest)
    /\ owed' = {} /\ disposing' = FALSE
    /\ UNCHANGED <<turn, target, turnEnds, flow, reply>>

WakeDriver(late, rest) ==
    \/ /\ StartsDriver
       /\ StartDriver(rest)
    \/ /\ ~StartsDriver
       /\ wakeRequested' = (wakeRequested \/ Latches(late))
       /\ stack' = rest
       /\ UNCHANGED <<phase, abortReason, turnVars, pc, owed, disposing>>

(* The end of cancel(): an AbortController keeps its first reason. *)
Abort(cause) ==
    /\ abortReason' = IF phase # "idle" /\ ~Aborted THEN cause ELSE abortReason
    /\ disposing' = (disposing \/ (phase # "idle" /\ cause = "disposed"))
    /\ UNCHANGED phase

(* Where a send can be overtaken: it is classified against the abort before *)
(* the insertion is published, and wakes the driver afterwards.             *)
LateWake == phase # "idle" /\ Aborted

Insert(m, resolvedTarget) ==
    IF resolvedTarget = "next-turn"
    THEN nextTurn' = Append(nextTurn, m) /\ UNCHANGED nextStep
    ELSE nextStep' = Append(nextStep, m) /\ UNCHANGED nextTurn

Send(m, tgt, wakeup) ==
    /\ MayCall /\ m = sent + 1
    /\ LET late == wakeup /\ LateWake IN
       /\ Insert(m, IF late THEN "next-turn" ELSE tgt)
       /\ stack' = IF wakeup THEN Push([k |-> "wake", late |-> late], stack) ELSE stack
       /\ owed' = IF wakeup /\ ~disposing /\ (late \/ phase = "maintenance")
                   THEN owed \cup {m} ELSE owed
       /\ parked' = IF wakeup /\ ~late /\ pc = "exiting" THEN parked \cup {m} ELSE parked
    /\ sent' = m
    /\ waking' = IF wakeup THEN waking \cup {m} ELSE waking
    /\ UNCHANGED <<phaseVars, turnVars, pc, revoked, disposing>>

SendWake ==
    /\ Top("wake")
    /\ WakeDriver(Head(stack).late, Tail(stack))
    /\ UNCHANGED inboxVars

Followup(m) == Send(m, "next-turn", TRUE)
Steer(m) == Send(m, "next-step", TRUE)
Inject(m) == Send(m, "next-step", FALSE)

(* inbox.remove(): the owner of a pending message takes it back. *)
Lists == INSTANCE SequencesExt

Remove(m) ==
    /\ MayCall
    /\ \/ \E i \in DOMAIN nextTurn : /\ nextTurn[i] = m
                                     /\ nextTurn' = Lists!RemoveAt(nextTurn, i)
                                     /\ UNCHANGED nextStep
       \/ \E i \in DOMAIN nextStep : /\ nextStep[i] = m
                                     /\ nextStep' = Lists!RemoveAt(nextStep, i)
                                     /\ UNCHANGED nextTurn
    /\ revoked' = revoked \ {m}
    /\ UNCHANGED <<phaseVars, turnVars, pc, sent, waking, parked, stack, owed, disposing>>

(* cancel(): clear() empties next-step, then next-turn, publishing what it  *)
(* discards after each; the latch is dropped and the signal fired last.     *)
(* Input sent by a listener of those discards is overtaken by the cancel;   *)
(* on an idle agent it starts a driver, which claims from the half-cleared  *)
(* inbox before the signal fires.                                           *)
FiresBeforeClearing(cause) ==                                  \* mutant
    /\ wakeRequested' = FALSE
    /\ owed' = {}
    /\ parked' = parked \cup Pending
    /\ UNCHANGED <<phase, abortReason, disposing>>

DropLatchAndAbort(cause) ==
    /\ wakeRequested' = FALSE
    /\ Abort(cause)
    /\ owed' = {}
    /\ parked' = parked \cup Pending

CancelKeepInbox(cause) ==
    /\ Len(stack) < MaxDepth
    /\ Abort(cause)
    /\ UNCHANGED <<wakeRequested, turnVars, pc, inboxVars, stack, owed>>

ClearTurn(cause, rest) ==
    \/ /\ nextTurn # <<>>
       /\ nextTurn' = <<>>
       /\ revoked' = revoked \ ElementsOf(nextTurn)
       /\ stack' = Push([k |-> "abort", cause |-> cause], rest)
       /\ UNCHANGED <<phaseVars, owed, parked, disposing>>
    \/ /\ nextTurn = <<>>
       /\ stack' = rest
       /\ DropLatchAndAbort(cause)
       /\ UNCHANGED <<nextTurn, revoked>>

Cancel(cause) ==
    /\ Len(stack) < MaxDepth
    /\ InAppend => ~HasPending
    /\ \/ /\ nextStep # <<>>
          /\ nextStep' = <<>>
          /\ revoked' = (revoked \cup Pending) \ ElementsOf(nextStep)
          /\ stack' = Push([k |-> "clearTurn", cause |-> cause], stack)
          /\ UNCHANGED <<phaseVars, nextTurn, owed, parked, disposing>>
       \/ /\ nextStep = <<>>
          /\ ClearTurn(cause, stack)
          /\ UNCHANGED nextStep
    /\ UNCHANGED <<turnVars, pc, sent, waking>>

CancelClearTurn ==
    /\ Top("clearTurn")
    /\ ClearTurn(Head(stack).cause, Tail(stack))
    /\ UNCHANGED <<turnVars, pc, nextStep, sent, waking>>

CancelAbort ==
    /\ Top("abort")
    /\ DropLatchAndAbort(Head(stack).cause)
    /\ stack' = Tail(stack)
    /\ UNCHANGED <<turnVars, pc, nextStep, nextTurn, sent, waking, revoked>>

(* runMaintenance(): "maintenance" is published as idle, so no listener runs. *)
RunMaintenance ==
    /\ MayCall /\ phase = "idle"
    /\ phase' = "maintenance" /\ abortReason' = "none" /\ wakeRequested' = FALSE
    /\ disposing' = FALSE
    /\ UNCHANGED <<turnVars, pc, inboxVars, stack, owed>>

(* Nobody runs what is pending when an activity under disposal ends. *)
LeftByDisposal == IF disposing THEN Pending ELSE {}

EndMaintenance ==
    /\ phase = "maintenance" /\ stack = <<>>
    /\ \/ /\ wakeRequested /\ HasPending
          /\ StartDriver(<<>>)
          /\ UNCHANGED parked
       \/ /\ ~(wakeRequested /\ HasPending)
          /\ phase' = "idle" /\ abortReason' = "none" /\ wakeRequested' = FALSE
          /\ parked' = parked \cup LeftByDisposal
          /\ UNCHANGED <<turnVars, pc, stack, owed, disposing>>
    /\ UNCHANGED <<nextStep, nextTurn, sent, waking, revoked>>

-----------------------------------------------------------------------------
(* The driver: kick() and turn() *)

(* Control reaches p: the driver frame is on the stack exactly while it runs. *)
Goto(p) ==
    LET below == IF pc \in SyncPC THEN Tail(stack) ELSE stack
    IN  /\ pc' = p
        /\ stack' = IF p \in SyncPC THEN Push(Driver, below) ELSE below

At(p) ==
    /\ pc = p
    /\ IF p \in SyncPC THEN Top("driver") ELSE stack = <<>>

(* The catch of turn(): what was thrown counts as an abort once the signal  *)
(* has fired, whatever it was.  An error is published before turn/end.      *)
ThrownEnding == IF Aborted THEN "aborted" ELSE "error"

Throw ==
    /\ turnEnds' = ThrownEnding
    /\ flow' = "throw"
    /\ Goto(IF Aborted THEN "turnEnded" ELSE "erroring")

(* Leaving the try block without a throw appends turn/end at once. *)
EndTurn(reason, how) ==
    /\ turnEnds' = reason
    /\ flow' = how
    /\ Goto("turnEnded")

(* Inbox.claim(): all of next-step, and for a turn boundary one queued turn. *)
Claim(tgt) ==
    /\ nextStep' = <<>>
    /\ nextTurn' = IF tgt = "next-turn" /\ nextTurn # <<>> THEN Tail(nextTurn) ELSE nextTurn
    /\ revoked' = revoked \cap Pending
    /\ UNCHANGED <<sent, waking, parked>>

(* Loop head of turn(): throwIfAborted, then preStep() up to its first await. *)
ProposeStep(tgt) ==
    \/ /\ ~SignalClear
       /\ Throw
       /\ UNCHANGED <<inboxVars, target>>
    \/ /\ SignalClear
       /\ Claim(tgt)
       /\ target' = tgt
       /\ Goto("assembling")
       /\ UNCHANGED <<turnEnds, flow>>

TurnBegin ==
    /\ At("waking") \/ At("betweenTurns")
    /\ \/ /\ ~SignalClear                 \* rejects before the turn exists
          /\ flow' = "throw"
          /\ Goto("exiting")
          /\ UNCHANGED <<turn, turnEnds, target>>
       \/ /\ SignalClear
          /\ turn' = turn + 1
          /\ turnEnds' = "null" /\ flow' = "go" /\ target' = "next-turn"
          /\ Goto("turnStarted")
    /\ UNCHANGED <<phaseVars, step, reply, inboxVars, owed, disposing>>

FirstStep ==
    /\ At("turnStarted")
    /\ ProposeStep("next-turn")
    /\ UNCHANGED <<phaseVars, turn, step, reply, owed, disposing>>

(* A middleware, listener, adapter or tool of the awaited call rejects. *)
AwaitRejects ==
    /\ At("assembling") \/ At("preStep") \/ At("stopping")
    /\ Throw
    /\ UNCHANGED <<phaseVars, turn, step, target, reply, inboxVars, owed, disposing>>

Assembled ==
    /\ At("assembling") /\ SignalClear
    /\ Goto("preStep")
    /\ UNCHANGED <<phaseVars, turnVars, inboxVars, owed, disposing>>

(* The agent/pre-step decision.  Listeners and the runtime context may turn  *)
(* any claim into an empty or a non-empty batch.  Only entering a step looks *)
(* at the signal again once preStep() has returned.                         *)
PreStepDecided ==
    /\ At("preStep") /\ SignalClear
    /\ Goto("decided")
    /\ UNCHANGED <<phaseVars, turnVars, inboxVars, owed, disposing>>

PreStepRejected ==
    /\ At("decided")
    /\ EndTurn("blocked", "return")
    /\ UNCHANGED <<phaseVars, turn, step, target, reply, inboxVars, owed, disposing>>

PreStepEmpty ==
    /\ At("decided")
    /\ \/ /\ turnEnds # "null"
          /\ EndTurn(turnEnds, "go")
       \/ /\ turnEnds = "null" /\ step = 0
          /\ EndTurn("completed", "return")
    /\ UNCHANGED <<phaseVars, turn, step, target, reply, inboxVars, owed, disposing>>

EntryAborted ==
    /\ At("decided") /\ ~SignalClear
    /\ Throw
    /\ UNCHANGED <<phaseVars, turn, step, target, reply, inboxVars, owed, disposing>>

EnterStep(empty) ==
    /\ At("decided") /\ SignalClear
    /\ empty => turnEnds = "null" /\ step > 0
    /\ step < MaxSteps
    /\ step' = step + 1
    /\ Goto("stepStarted")
    /\ UNCHANGED <<phaseVars, turn, target, turnEnds, flow, reply, inboxVars, owed, disposing>>

-----------------------------------------------------------------------------
(* step(): one model request, with its retries and its tool calls *)

(* turn() goes on when step() has settled: its finally appends step/end. *)
StepThrows ==
    /\ flow' = "throw"
    /\ Goto("stepReturned")
    /\ UNCHANGED turnEnds

(* max-tokens is sticky across the steps of a turn. *)
StepOutcome(end) == IF turnEnds = "max-tokens" THEN turnEnds ELSE end

StepReturns(end) ==
    /\ turnEnds' = StepOutcome(end)
    /\ Goto("stepReturned")
    /\ UNCHANGED flow

InStep == UNCHANGED <<phaseVars, turn, step, target, inboxVars, owed, disposing>>

StepSettled ==
    /\ At("stepReturned")
    /\ Goto("stepEnded")
    /\ UNCHANGED <<turnEnds, flow, reply>> /\ InStep

StepBegin ==
    /\ At("stepStarted")
    /\ \/ ~SignalClear /\ StepThrows
       \/ SignalClear /\ Goto("requesting") /\ UNCHANGED <<turnEnds, flow>>
    /\ UNCHANGED reply /\ InStep

(* What an awaited call inside the step throws: its own failure, or the     *)
(* abort that the check after the await finds.                              *)
StepAwaitRejects ==
    /\ At("requesting") \/ At("streaming") \/ At("requestError")
       \/ (At("rewriting") /\ reply = "calls") \/ At("tools")
    /\ StepThrows
    /\ UNCHANGED reply /\ InStep

(* buildRequest() appends the request header; the signal is checked after   *)
(* the append and again before the stream is read.                          *)
RequestBuilt ==
    /\ At("requesting") /\ SignalClear
    /\ Goto("headerLogged")
    /\ UNCHANGED <<turnEnds, flow, reply>> /\ InStep

HeaderReturns ==
    /\ At("headerLogged")
    /\ \/ ~SignalClear /\ StepThrows
       \/ SignalClear /\ Goto("built") /\ UNCHANGED <<turnEnds, flow>>
    /\ UNCHANGED reply /\ InStep

RequestSent ==
    /\ At("built")
    /\ \/ ~SignalClear /\ StepThrows
       \/ SignalClear /\ Goto("streaming") /\ UNCHANGED <<turnEnds, flow>>
    /\ UNCHANGED reply /\ InStep

(* The stream ends with a failure finish: agent/request-error decides. *)
StreamFails ==
    /\ At("streaming") /\ SignalClear
    /\ Goto("requestError")
    /\ UNCHANGED <<turnEnds, flow, reply>> /\ InStep

RetryRequest ==
    /\ At("requestError") /\ SignalClear
    /\ Goto("requesting")
    /\ UNCHANGED <<turnEnds, flow, reply>> /\ InStep

StreamFinishes(kind) ==
    /\ At("streaming") /\ SignalClear
    /\ reply' = kind
    /\ Goto(IF kind = "max-tokens" THEN "messageLogged" ELSE "rewriting")
    /\ UNCHANGED <<turnEnds, flow>> /\ InStep

(* rewriteToolCalls() asks listeners and checks the signal only when there  *)
(* are calls; the message is appended once it has returned.                 *)
ToolCallsRewritten ==
    /\ At("rewriting")
    /\ \/ reply = "calls" /\ SignalClear /\ Goto("rewritten")
       \/ reply # "calls" /\ Goto("messageLogged")
    /\ UNCHANGED <<turnEnds, flow, reply>> /\ InStep

RewriteReturns ==
    /\ At("rewritten")
    /\ Goto("messageLogged")
    /\ UNCHANGED <<turnEnds, flow, reply>> /\ InStep

MessageLogged ==
    /\ At("messageLogged")
    /\ \/ /\ reply = "calls"
          /\ Goto("tools")
          /\ UNCHANGED <<turnEnds, flow>>
       \/ /\ reply # "calls"
          /\ StepReturns(IF reply = "max-tokens" THEN "max-tokens" ELSE "completed")
    /\ UNCHANGED reply /\ InStep

(* executeToolCalls() returns normally after an abort too (see              *)
(* ToolScheduler).  Contexts it accepts reach next-step as Inject does.     *)
ToolsDone(concluded) ==
    /\ At("tools")
    /\ StepReturns(IF concluded THEN "completed" ELSE "null")
    /\ UNCHANGED reply /\ InStep

(* After step/end: stop, let listeners steer, or propose the next step. *)
StepEnded ==
    /\ At("stepEnded")
    /\ \/ /\ flow = "throw" \/ ~SignalClear
          /\ Throw
          /\ UNCHANGED <<inboxVars, target>>
       \/ /\ flow # "throw" /\ SignalClear
          /\ \/ /\ turnEnds # "null" /\ nextStep = <<>>
                /\ Goto("stopping")
                /\ UNCHANGED <<inboxVars, target, turnEnds, flow>>
             \/ /\ turnEnds = "null" \/ nextStep # <<>>
                /\ ProposeStep("next-step")
    /\ UNCHANGED <<phaseVars, turn, step, reply, owed, disposing>>

(* What the listeners steered is looked at again before the loop is left. *)
NothingSteered == nextStep = <<>>

TurnStopping ==
    /\ At("stopping") /\ SignalClear
    /\ \/ /\ NothingSteered
          /\ EndTurn(turnEnds, "go")
          /\ UNCHANGED <<inboxVars, target>>
       \/ /\ ~NothingSteered
          /\ ProposeStep("next-step")
    /\ UNCHANGED <<phaseVars, turn, step, reply, owed, disposing>>

ErrorReported ==
    /\ At("erroring")
    /\ Goto("turnEnded")
    /\ UNCHANGED <<phaseVars, turnVars, inboxVars, owed, disposing>>

(* After turn/end: a turn that ended by itself hands over to the next one   *)
(* on a fresh signal while input is pending; every other ending stops.      *)
IgnoresSteering == flow = "go" /\ nextTurn # <<>>               \* mutant
HandsOver == flow = "go" /\ HasPending

TurnEnded ==
    /\ At("turnEnded")
    /\ \/ /\ HandsOver
          /\ abortReason' = "none" /\ wakeRequested' = FALSE /\ step' = 0
          /\ owed' = {}
          /\ Goto("betweenTurns")
       \/ /\ ~HandsOver
          /\ Goto("exiting")
          /\ UNCHANGED <<abortReason, wakeRequested, step, owed>>
    /\ UNCHANGED <<phase, turn, target, turnEnds, flow, reply, inboxVars, disposing>>

(* The finally of kick(): publish idle, then replay the latch it captured. *)
Converge ==
    /\ At("exiting")
    /\ phase' = "idle" /\ abortReason' = "none" /\ wakeRequested' = FALSE
    /\ pc' = "none"
    /\ stack' = <<[k |-> "settle", replay |-> wakeRequested]>>
    /\ parked' = parked \cup LeftByDisposal
    /\ UNCHANGED <<turnVars, nextStep, nextTurn, sent, waking, revoked, owed, disposing>>

NeverReplays == FALSE                                          \* mutant
Replays == Head(stack).replay /\ HasPending

Settle ==
    /\ Top("settle")
    /\ \/ /\ Replays
          /\ WakeDriver(FALSE, Tail(stack))
       \/ /\ ~Replays
          /\ stack' = Tail(stack)
          /\ UNCHANGED <<phaseVars, turnVars, pc, owed, disposing>>
    /\ UNCHANGED inboxVars

-----------------------------------------------------------------------------
Drive ==
    \/ TurnBegin \/ FirstStep \/ AwaitRejects \/ Assembled
    \/ PreStepDecided \/ PreStepRejected \/ PreStepEmpty
    \/ EntryAborted \/ (\E e \in BOOLEAN : EnterStep(e))
    \/ StepBegin \/ StepAwaitRejects
    \/ RequestBuilt \/ HeaderReturns \/ RequestSent
    \/ StreamFails \/ RetryRequest
    \/ (\E k \in {"text", "calls", "max-tokens"} : StreamFinishes(k))
    \/ ToolCallsRewritten \/ RewriteReturns \/ MessageLogged
    \/ StepSettled \/ (\E c \in BOOLEAN : ToolsDone(c))
    \/ StepEnded \/ TurnStopping \/ ErrorReported \/ TurnEnded
    \/ Converge \/ Settle

(* The rest of a synchronous call that a listener suspended. *)
Resume == SendWake \/ CancelClearTurn \/ CancelAbort

Call ==
    \/ \E m \in Messages : Followup(m) \/ Steer(m) \/ Inject(m) \/ Remove(m)
    \/ \E c \in Causes : Cancel(c)
    \/ CancelKeepInbox("user")
    \/ RunMaintenance

Next == Drive \/ Resume \/ EndMaintenance \/ Call

Spec == Init /\ [][Next]_vars

(* Synchronous code runs on; an awaited call settles, and so does a          *)
(* maintenance task.  Nobody is obliged to call the agent.                  *)
FairSpec == Spec /\ WF_vars(Drive \/ Resume \/ EndMaintenance)
-----------------------------------------------------------------------------
(* Properties *)

(* Type invariant of the phase, the locals of turn() and step(), the inbox  *)
(* and the call stack of agent.ts.                                          *)
TypeOK ==
    /\ phase \in {"idle", "maintenance", "running"}
    /\ abortReason \in {"none"} \cup Causes
    /\ wakeRequested \in BOOLEAN
    /\ turn \in Nat /\ step \in 0..MaxSteps
    /\ pc \in {"none"} \cup SyncPC \cup AwaitPC
    /\ target \in {"next-turn", "next-step"}
    /\ turnEnds \in {"null", "completed", "max-tokens", "blocked", "aborted", "error"}
    /\ flow \in {"go", "return", "throw"}
    /\ reply \in {"none", "text", "calls", "max-tokens"}
    /\ nextStep \in Seq(Messages) /\ nextTurn \in Seq(Messages)
    /\ stack \in Seq(Frame)
    /\ sent \in 0..NMessages /\ waking \subseteq Messages
    /\ parked \subseteq Messages /\ owed \subseteq Messages /\ revoked \subseteq Messages
    /\ disposing \in BOOLEAN

(* A waking message sent to maintenance, or to work that was already        *)
(* cancelled, never stays behind when the agent comes to rest: wakeDriver()  *)
(* latches it and kick() or runMaintenance() replays the latch, unless a    *)
(* later cancel took it back or the agent is being disposed of.             *)
LatchHonoured == AtRest => owed \cap Pending = {}

(* A turn that ends by itself takes over or leaves to the next turn all     *)
(* waking input: after it the driver rests on such input only if it arrived *)
(* between the last hasPending check and the end of kick() (parked), or     *)
(* the agent is being disposed of.                                          *)
NoSilentPark ==
    AtRest /\ flow = "go" => waking \cap Pending \subseteq parked

(* A turn whose signal fired before turn/end was written reports "aborted"  *)
(* or the error that was already being reported, never a normal ending: a   *)
(* cancel that lands in any await of turn() or step() is seen.  The one     *)
(* exception is the return of preStep(): a rejected or empty decision ends  *)
(* the turn without another look at the signal.                             *)
AbortIsReported ==
    [][pc # "turnEnded" /\ pc' = "turnEnded" /\ Aborted
         => turnEnds' = "aborted" \/ pc \in {"erroring", "decided"}]_vars

(* No model request leaves after the signal fired, even when the cancel     *)
(* comes from a listener of the request/header append itself.               *)
NoRequestAfterAbort == [][pc # "streaming" /\ pc' = "streaming" => ~Aborted]_vars

(* A cancel is seen wherever it lands: by the ending and by the request.    *)
AbortIsSeen == AbortIsReported /\ NoRequestAfterAbort

(* cancel() clears queued and steering work: what it finds pending is gone  *)
(* when it has returned, and none of it is ever part of a step, not even if *)
(* a listener of its first discards starts the idle agent, whose driver     *)
(* then claims what cancel() was still about to discard.                    *)
CancelTakesBack ==
    /\ stack = <<>> => revoked \cap Pending = {}
    /\ pc \in StepPC => revoked \subseteq Pending

(* The driver frame, the phase and the location agree: at most one driver   *)
(* exists, it is on the stack exactly while it runs, and an idle or         *)
(* maintaining agent has none.                                              *)
OneDriver ==
    /\ (phase = "running") = (pc # "none")
    /\ Cardinality({i \in DOMAIN stack : stack[i] = Driver})
         = IF pc \in SyncPC THEN 1 ELSE 0

(* Comment at wakeDriver(): disposal never latches, so teardown waits on no *)
(* model turn.  Once a disposed cancel reached the activity, no wake sent   *)
(* to that activity may set the latch.                                      *)
DisposalNeverLatches ==
    [][disposing /\ phase # "idle" /\ wakeRequested' => wakeRequested]_vars

(* Cancelling converges: an aborted activity ends, or a fresh signal takes  *)
(* over, once every awaited call settles; so again and again there is none. *)
CancelConverges == []<>(phase = "idle" \/ ~Aborted)

(* Every wake owed to an activity that could not serve it is eventually     *)
(* served by a started driver, taken back, or cancelled: as messages are    *)
(* finitely many, again and again no pending message is owed one.           *)
OwedWakeServed == []<>(owed \cap Pending = {})

=============================================================================
