------------------------------- MODULE Tasks -------------------------------
(***************************************************************************)
(* Background tasks: the registry of packages/tasks/tasks-local, the       *)
(* task_output and task_kill tools and the completion notice of            *)
(* packages/tasks/tool-tasks, and the registry's check for an abort after  *)
(* a tool body (dispatchToolBody of packages/core/tools).                  *)
(*                                                                         *)
(* settle() is synchronous, but it calls listeners between the record of   *)
(* the outcome and the release of the waits: meanwhile `settling` names    *)
(* the task, and only what a listener can do synchronously may happen (an  *)
(* abort).  Every other step is one synchronous run of the code up to its  *)
(* next await.  Error returns that change nothing (an unknown or foreign   *)
(* task, a cancel that throws in kill) are not steps.                      *)
(***************************************************************************)
EXTENDS Naturals, FiniteSets

CONSTANTS
    Tasks,     \* the tasks that may be started, each once
    Agents,    \* the owners
    Calls,     \* the task_output calls
    Ends,      \* bound: the outcomes a producer may report
    NoOne      \* the owner of a task without one

ASSUME NoOneAssumption == NoOne \notin Agents /\ NoOne \notin Tasks

VARIABLES
    surface,    \* tool-tasks is loaded: its surface and its notice listener
    service,    \* "active", "closing" while disposeAll() waits, "closed"
    agent,      \* lifecycle of each agent
    attached,   \* the keys of ownerCleanups
    awaited,    \* what a teardown waits for: disposeOwned() of an agent, disposeAll() at NoOne
    store,      \* the keys of the store
    owner, status, reported, waiters,    \* fields of a task's record
    obeys,      \* the producer's cancel() returns; otherwise it throws
    working,    \* tasks whose `done` promise is pending
    settling,   \* the task whose listeners are running, or NoOne
    call,       \* where each call of task_output is
    by, on,     \* its agent and its task
    aborted,    \* its signal fired
    got,        \* what it returns
    notices,    \* history: notices injected per task
    served,     \* history: tasks whose outcome wait, read or kill handed out
    asked,      \* history: tasks killed while live
    deaf        \* history: tasks that settled with no listener

recordVars  == <<store, owner, obeys>>
outcomeVars == <<status, reported, notices, deaf>>
callVars    == <<call, by, on, aborted, got>>
scopeVars   == <<surface, service, agent, attached, awaited>>
historyVars == <<served, asked>>
vars == <<recordVars, outcomeVars, waiters, working, settling, callVars,
          scopeVars, historyVars>>

Live     == {"running", "stopping"}
Terminal == {"completed", "killed", "failed"}

ASSUME EndsAssumption == Ends \subseteq Terminal

Ended(t) == status[t] \in Terminal

InProgress == {"waiting", "woken", "rejected", "exited", "returned"}

Init ==
    /\ surface = TRUE /\ service = "active"
    /\ agent = [a \in Agents |-> "live"]
    /\ attached = {} /\ awaited = [a \in Agents \cup {NoOne} |-> {}]
    /\ store = {} /\ working = {} /\ settling = NoOne
    /\ owner = [t \in Tasks |-> NoOne]
    /\ status = [t \in Tasks |-> "none"]
    /\ reported = [t \in Tasks |-> FALSE]
    /\ waiters = [t \in Tasks |-> {}]
    /\ obeys = [t \in Tasks |-> TRUE]
    /\ call = [c \in Calls |-> "idle"]
    /\ by = [c \in Calls |-> NoOne] /\ on = [c \in Calls |-> NoOne]
    /\ aborted = [c \in Calls |-> FALSE] /\ got = [c \in Calls |-> "none"]
    /\ notices = [t \in Tasks |-> 0]
    /\ served = {} /\ asked = {} /\ deaf = {}

(* No listener is on the stack. *)
Calm == settling = NoOne

-----------------------------------------------------------------------------
(* start() *)

(* ensureOwnerCleanup(): the owner is registered until its scope is gone;   *)
(* a scope that is being disposed of refuses a new effect.                  *)
OwnerAccepts(a) ==
    a \in Agents => agent[a] \in IF a \in attached THEN {"live", "draining", "disposing", "cleaning"}
                                                  ELSE {"live", "draining"}

Start(t, a, cancelReturns) ==
    /\ Calm
    /\ surface /\ status[t] = "none"
    /\ OwnerAccepts(a)
    /\ attached' = attached \cup ({a} \ {NoOne})
    /\ store' = store \cup {t} /\ working' = working \cup {t}
    /\ owner' = [owner EXCEPT ![t] = a]
    /\ obeys' = [obeys EXCEPT ![t] = cancelReturns]
    /\ status' = [status EXCEPT ![t] = "running"]
    /\ UNCHANGED <<reported, notices, deaf, waiters, settling, callVars,
                   surface, service, agent, awaited, historyVars>>

-----------------------------------------------------------------------------
(* settle() *)

(* The outcome of the tasks of S: a counted wait makes a task reported, and *)
(* only an unreported one with an owner is announced.                       *)
Listening == surface /\ service = "active"

Outcome(S, end) ==
    LET announced == {t \in S : waiters[t] = {} /\ ~reported[t] /\ owner[t] # NoOne}
    IN  /\ status' = [t \in Tasks |-> IF t \in S THEN end
                                      ELSE status[t]]
        /\ reported' = [t \in Tasks |-> reported[t] \/ (t \in S /\ waiters[t] # {})]
        /\ IF Listening
             THEN /\ notices' = [t \in Tasks |->
                                   IF t \in announced THEN notices[t] + 1 ELSE notices[t]]
                  /\ UNCHANGED deaf
             ELSE deaf' = deaf \cup S /\ UNCHANGED notices

(* The reaction to the producer's `done`; the first outcome wins. *)
SettlesAgain(t, end) ==                                        \* mutant
    settling' = t /\ Outcome({t}, end)
Settle(t, end) ==
    \/ /\ Ended(t)
       /\ UNCHANGED <<outcomeVars, settling>>
    \/ /\ ~Ended(t)
       /\ settling' = t
       /\ Outcome({t}, end)

ProducerDone(t, end) ==
    /\ Calm
    /\ t \in working
    /\ working' = working \ {t}
    /\ Settle(t, end)
    /\ UNCHANGED <<recordVars, waiters, callVars, scopeVars, historyVars>>

(* The waits of the tasks of S resolve, their listeners for aborts go. *)
Release(S) ==
    call' = [c \in Calls |-> IF call[c] = "waiting" /\ on[c] \in S
                               THEN "woken" ELSE call[c]]

SettleReleases ==
    /\ ~Calm
    /\ Release({settling})
    /\ settling' = NoOne
    /\ UNCHANGED <<recordVars, outcomeVars, waiters, working, by, on, aborted,
                   got, scopeVars, historyVars>>

-----------------------------------------------------------------------------
(* task_output: wait(), then read(), then the abort check of the registry *)

Visible(t, a) == t \in store /\ owner[t] \in {NoOne, a}

(* wait() and read() report a terminal task to whoever called them. *)
HandOut(t) ==
    IF Ended(t)
      THEN /\ reported' = [reported EXCEPT ![t] = TRUE]
           /\ served' = served \cup {t}
      ELSE UNCHANGED <<reported, served>>

NotesOnlyCalls == UNCHANGED <<recordVars, status, notices, deaf, working,
                              settling, scopeVars, asked>>

BeginOutput(c, a, t, wait) ==
    /\ Calm
    /\ call[c] = "idle" /\ agent[a] = "live" /\ surface /\ Visible(t, a)
    /\ by' = [by EXCEPT ![c] = a] /\ on' = [on EXCEPT ![c] = t]
    /\ IF wait /\ ~Ended(t)
         THEN /\ call' = [call EXCEPT ![c] = "waiting"]
              /\ waiters' = [waiters EXCEPT ![t] = @ \cup {c}]
              /\ UNCHANGED <<reported, served>>
         ELSE /\ call' = [call EXCEPT ![c] = IF wait THEN "exited" ELSE "returned"]
              /\ HandOut(t)
              /\ UNCHANGED waiters
    /\ got' = [got EXCEPT ![c] = IF wait THEN "none" ELSE IF Ended(t) THEN "outcome" ELSE "live"]
    /\ UNCHANGED aborted
    /\ NotesOnlyCalls

WaitTimesOut(c) ==
    /\ Calm
    /\ call[c] = "waiting"
    /\ call' = [call EXCEPT ![c] = "woken"]
    /\ UNCHANGED <<recordVars, outcomeVars, waiters, working, settling, by, on,
                   aborted, got, scopeVars, historyVars>>

Uncounted(t, S) == [waiters EXCEPT ![t] = @ \ S]

(* The signals of the calls of S fire.  onAbort() counts a wait out at once *)
(* and rejects it, unless the task is terminal: then the wait still owes    *)
(* the outcome it kept from being announced.                                *)
CountedOutLate(S) == {}                                        \* mutant
Rejected(S) == {c \in S : call[c] = "waiting" /\ ~Ended(on[c])}
CountedOut(S) == Rejected(S)

AbortCalls(S) ==
    /\ aborted' = [c \in Calls |-> aborted[c] \/ c \in S]
    /\ call' = [c \in Calls |->
                  IF c \notin S \/ call[c] # "waiting" THEN call[c]
                  ELSE IF c \in Rejected(S) THEN "rejected" ELSE "woken"]
    /\ waiters' = [t \in Tasks |-> waiters[t] \ CountedOut(S)]
    /\ UNCHANGED <<recordVars, outcomeVars, working, settling, by, on, got, historyVars>>

Abort(c) ==
    /\ call[c] \in InProgress /\ ~aborted[c]
    /\ AbortCalls({c})
    /\ UNCHANGED scopeVars

(* wait() after its await, with its finally. *)
WaitReturns(c) ==
    /\ Calm
    /\ call[c] = "woken"
    /\ waiters' = Uncounted(on[c], {c})
    /\ HandOut(on[c])
    /\ call' = [call EXCEPT ![c] = "exited"]
    /\ UNCHANGED <<by, on, aborted, got>>
    /\ NotesOnlyCalls

WaitThrows(c) ==
    /\ Calm
    /\ call[c] = "rejected"
    /\ waiters' = Uncounted(on[c], {c})
    /\ call' = [call EXCEPT ![c] = "ended"]
    /\ got' = [got EXCEPT ![c] = "error"]
    /\ UNCHANGED <<reported, served, by, on, aborted>>
    /\ NotesOnlyCalls

(* read() after wait(): the record, or the whole plugin, may be gone. *)
ReadsOutput(c) ==
    /\ Calm
    /\ call[c] = "exited"
    /\ call' = [call EXCEPT ![c] = "returned"]
    /\ \/ /\ on[c] \in store
          /\ HandOut(on[c])
          /\ got' = [got EXCEPT ![c] = IF Ended(on[c]) THEN "outcome" ELSE "live"]
       \/ /\ on[c] \notin store \/ ~surface
          /\ got' = [got EXCEPT ![c] = "error"]
          /\ UNCHANGED <<reported, served>>
    /\ UNCHANGED <<by, on, aborted, waiters>>
    /\ NotesOnlyCalls

(* dispatchToolBody(): an abort replaces the success of a body that ran. *)
OutputReturns(c) ==
    /\ Calm
    /\ call[c] = "returned"
    /\ call' = [call EXCEPT ![c] = "ended"]
    /\ got' = [got EXCEPT ![c] = IF aborted[c] /\ @ # "error" THEN "aborted" ELSE @]
    /\ UNCHANGED <<reported, served, by, on, aborted, waiters>>
    /\ NotesOnlyCalls

(* kill(): cancel first, so that a cancel that throws changes nothing. *)
Kill(t) ==
    /\ Calm
    /\ surface /\ t \in store
    /\ owner[t] \in Agents => agent[owner[t]] = "live"
    /\ reported' = [reported EXCEPT ![t] = TRUE]
    /\ \/ /\ Ended(t)
          /\ served' = served \cup {t}
          /\ UNCHANGED <<status, asked>>
       \/ /\ ~Ended(t) /\ obeys[t]
          /\ status' = [status EXCEPT ![t] = "stopping"]
          /\ asked' = asked \cup {t}
          /\ UNCHANGED served
    /\ UNCHANGED <<recordVars, notices, deaf, waiters, working, settling, callVars, scopeVars>>

-----------------------------------------------------------------------------
(* Teardown *)

(* cancelForTeardown(): a cancel that throws forces the record to fail. *)
CancelsEvery(S) == S                                           \* mutant
Cancellable(S) == {t \in S : ~Ended(t)}
Forced(S)      == {t \in Cancellable(S) : ~obeys[t]}

CancelForTeardown(S) ==
    LET stopped == Cancellable(S) \ Forced(S)
        announced == {t \in Forced(S) : waiters[t] = {} /\ ~reported[t] /\ owner[t] # NoOne}
    IN  /\ status' = [t \in Tasks |-> IF t \in stopped THEN "stopping"
                                      ELSE IF t \in Forced(S) THEN "failed" ELSE status[t]]
        /\ reported' = [t \in Tasks |-> reported[t] \/ (t \in Forced(S) /\ waiters[t] # {})]
        /\ IF Listening /\ service' = "active"
             THEN /\ notices' = [t \in Tasks |->
                                   IF t \in announced THEN notices[t] + 1 ELSE notices[t]]
                  /\ UNCHANGED deaf
             ELSE deaf' = deaf \cup Forced(S) /\ UNCHANGED notices
        /\ Release(Forced(S))

NotesOnlyTeardown == UNCHANGED <<recordVars, waiters, working, settling, by, on,
                                 aborted, got, historyVars>>

(* The agent's own dispose: cancel everything, then wait until its calls    *)
(* are over, then dispose of the scope, whose effects run a microtask later. *)
AgentCancel(a) ==
    /\ agent[a] = "live"
    /\ agent' = [agent EXCEPT ![a] = "draining"]
    /\ AbortCalls({c \in Calls : by[c] = a /\ call[c] \in InProgress})
    /\ UNCHANGED <<surface, service, attached, awaited>>

AgentIdle(a) == \A c \in Calls : by[c] = a => call[c] \notin InProgress

ScopeDispose(a) ==
    /\ Calm
    /\ agent[a] = "draining" /\ AgentIdle(a)
    /\ agent' = [agent EXCEPT ![a] = "disposing"]
    /\ UNCHANGED <<outcomeVars, call, surface, service, attached, awaited>>
    /\ NotesOnlyTeardown

(* The cleanup effect: disposeOwned() until its await. *)
KeepsCleanup(a) == attached                                    \* mutant
ForgetCleanup(a) == attached \ {a}

OwnerCleanup(a) ==
    /\ Calm
    /\ agent[a] = "disposing" /\ a \in attached
    /\ LET owned == {t \in store : owner[t] = a}
       IN  /\ awaited' = [awaited EXCEPT ![a] = owned]
           /\ agent' = [agent EXCEPT ![a] = "cleaning"]
           /\ attached' = ForgetCleanup(a)
           /\ UNCHANGED <<surface, service>>
           /\ CancelForTeardown(owned)
    /\ NotesOnlyTeardown

NoCleanup(a) ==
    /\ Calm
    /\ agent[a] = "disposing" /\ a \notin attached
    /\ agent' = [agent EXCEPT ![a] = "gone"]
    /\ UNCHANGED <<outcomeVars, call, surface, service, attached, awaited>>
    /\ NotesOnlyTeardown

Settled(S) == \A t \in S : Ended(t)

OwnerCleaned(a) ==
    /\ Calm
    /\ agent[a] = "cleaning" /\ Settled(awaited[a])
    /\ store' = store \ awaited[a]
    /\ awaited' = [awaited EXCEPT ![a] = {}]
    /\ agent' = [agent EXCEPT ![a] = "gone"]
    /\ UNCHANGED <<owner, obeys, outcomeVars, waiters, working, settling,
                   callVars, surface, service, attached, historyVars>>

(* The provider unloads: tool-tasks, which injects the service, unloads in  *)
(* the same turn of the microtask queue, so no surface is left.             *)
DisposeAll ==
    /\ Calm
    /\ service = "active"
    /\ service' = "closing" /\ surface' = FALSE
    /\ awaited' = [awaited EXCEPT ![NoOne] = store]
    /\ CancelForTeardown(store)
    /\ UNCHANGED <<agent, attached>>
    /\ NotesOnlyTeardown

(* ... and the cleanups of the owners still alive are run with nothing left. *)
DetachCleanups == attached' = {}

DisposeAllDone ==
    /\ Calm
    /\ service = "closing" /\ Settled(awaited[NoOne])
    /\ store' = {} /\ DetachCleanups
    /\ awaited' = [awaited EXCEPT ![NoOne] = {}]
    /\ service' = "closed"
    /\ UNCHANGED <<owner, obeys, outcomeVars, waiters, working, settling,
                   callVars, surface, agent, historyVars>>

(* tool-tasks alone is unloaded, or loaded again. *)
ReloadTools ==
    /\ Calm
    /\ service = "active"
    /\ surface' = ~surface
    /\ UNCHANGED <<recordVars, outcomeVars, waiters, working, settling, callVars,
                   service, agent, attached, awaited, historyVars>>

-----------------------------------------------------------------------------
CallStep(c) == WaitReturns(c) \/ WaitThrows(c) \/ ReadsOutput(c) \/ OutputReturns(c)

Teardown(a) == ScopeDispose(a) \/ OwnerCleanup(a) \/ NoCleanup(a) \/ OwnerCleaned(a)

Produce(t) == \E end \in Ends : ProducerDone(t, end)

Next ==
    \/ \E t \in Tasks : \/ \E a \in Agents \cup {NoOne}, r \in BOOLEAN : Start(t, a, r)
                        \/ Produce(t) \/ Kill(t)
    \/ SettleReleases
    \/ \E c \in Calls : \/ \E a \in Agents, t \in Tasks, w \in BOOLEAN : BeginOutput(c, a, t, w)
                        \/ WaitTimesOut(c) \/ Abort(c) \/ CallStep(c)
    \/ \E a \in Agents : AgentCancel(a) \/ Teardown(a)
    \/ DisposeAll \/ DisposeAllDone \/ ReloadTools

Spec == Init /\ [][Next]_vars

(* Synchronous code and microtasks run on, a wait has a finite timeout, and  *)
(* a producer whose cancel() returned settles (the contract of TaskHooks).   *)
Fairness ==
    /\ WF_vars(SettleReleases) /\ WF_vars(DisposeAllDone)
    /\ \A c \in Calls : WF_vars(WaitTimesOut(c)) /\ WF_vars(CallStep(c))
    /\ \A a \in Agents : WF_vars(Teardown(a))
    /\ \A t \in Tasks : WF_vars(status[t] = "stopping" /\ Produce(t))

FairSpec == Spec /\ Fairness
-----------------------------------------------------------------------------
(* Properties *)

(* Type invariant of the records, the calls and the lifecycles. *)
TypeOK ==
    /\ surface \in BOOLEAN /\ service \in {"active", "closing", "closed"}
    /\ agent \in [Agents -> {"live", "draining", "disposing", "cleaning", "gone"}]
    /\ attached \subseteq Agents
    /\ awaited \in [Agents \cup {NoOne} -> SUBSET Tasks]
    /\ store \subseteq Tasks /\ working \subseteq Tasks
    /\ settling \in Tasks \cup {NoOne}
    /\ owner \in [Tasks -> Agents \cup {NoOne}]
    /\ status \in [Tasks -> {"none"} \cup Live \cup Terminal]
    /\ reported \in [Tasks -> BOOLEAN] /\ obeys \in [Tasks -> BOOLEAN]
    /\ waiters \in [Tasks -> SUBSET Calls]
    /\ call \in [Calls -> {"idle", "ended"} \cup InProgress]
    /\ by \in [Calls -> Agents \cup {NoOne}]
    /\ on \in [Calls -> Tasks \cup {NoOne}]
    /\ \A c \in Calls : call[c] # "idle" => by[c] \in Agents /\ on[c] \in Tasks
    /\ aborted \in [Calls -> BOOLEAN]
    /\ got \in [Calls -> {"none", "live", "outcome", "error", "aborted"}]
    /\ notices \in [Tasks -> Nat]
    /\ served \subseteq Tasks /\ asked \subseteq Tasks /\ deaf \subseteq Tasks

(* A wait that is due to hand out the outcome of t. *)
Owed(t) == \E c \in Calls : on[c] = t /\ call[c] \in {"waiting", "woken"}

(* A task that has ended was announced to its owner, handed out by wait,    *)
(* read or kill, killed on request, or is owed to a wait that will hand it  *)
(* out: no order of settlement, timeout, abort and teardown makes a waiter  *)
(* swallow the notice and then reject.  (Nobody is told of a task without   *)
(* an owner, or one that ends while tool-tasks is not loaded.)              *)
OutcomeIsTold ==
    \A t \in Tasks :
        Ended(t) /\ (reported[t] \/ (owner[t] # NoOne /\ t \notin deaf))
          => notices[t] > 0 \/ t \in served \cup asked \/ Owed(t)

(* No terminal record is changed or announced by this step. *)
OutcomesStand ==
    \A t \in Tasks : Ended(t) => status'[t] = status[t] /\ notices'[t] = notices[t]

(* The first outcome stands: once terminal a record keeps its status, and   *)
(* neither a late producer nor a second teardown announces it again.        *)
FirstOutcomeStands == [][OutcomesStand]_vars

(* When an agent is gone none of its tasks is live or stored, whenever they *)
(* were started; when the service has closed no task is live or stored and  *)
(* no owner holds its cleanup.                                              *)
TeardownLeavesNothing ==
    /\ \A t \in Tasks : owner[t] \in Agents /\ agent[owner[t]] = "gone"
                          => status[t] \notin Live /\ t \notin store
    /\ service = "closed" => /\ \A t \in Tasks : status[t] \notin Live
                             /\ store = {} /\ attached = {}

(* Comment of TaskService.wait(): "after settlement the terminal snapshot   *)
(* wins so a notice suppressed for this waiter is still delivered".  When   *)
(* the notice of a live agent's task was suppressed, and not by a kill,     *)
(* some call of task_output returns the outcome, or still may.              *)
SuppressedNoticeIsDelivered ==
    \A t \in Tasks :
        /\ Ended(t) /\ reported[t] /\ notices[t] = 0
        /\ t \notin asked \cup deaf
        /\ surface /\ owner[t] \in Agents /\ agent[owner[t]] = "live"
        => \E c \in Calls : on[c] = t /\ (call[c] \in InProgress \/ got[c] = "outcome")

(* Every call of task_output ends, and every teardown that began ends: a     *)
(* producer whose cancel throws, a wait in progress or the teardown of the   *)
(* service at the same time cannot hold an agent's disposal.  Each happens   *)
(* once, so all end exactly when again and again none is under way.          *)
WaitsAndTeardownsEnd ==
    []<>(/\ \A c \in Calls : call[c] \notin InProgress
         /\ \A a \in Agents : agent[a] \in {"live", "gone"}
         /\ service # "closing")

=============================================================================
