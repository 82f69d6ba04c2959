-------------------------- MODULE AgentLifecycle --------------------------
(***************************************************************************)
(* How agents come and go: create, createAgent, resume and the memoized    *)
(* teardown of packages/core/agent-loop/src/index.ts, with the entries of  *)
(* the two registries and the two fibers that own an agent, its caller's   *)
(* and the factory's.                                                      *)
(*                                                                         *)
(* Every attempt uses the same id, so that attempts compete for the two    *)
(* registries.  An attempt is asynchronous: each action is what runs       *)
(* between two awaits.  The construction of the driver runs listeners      *)
(* inside such a step (createScope announces the agent's scope).  They may *)
(* abort the caller's signal, throw, make another attempt or unload a      *)
(* fiber; but a fiber that unloads runs its effects a microtask later and  *)
(* waits for what they return (Fiber._unload of the vendored framework).   *)
(* So an abort or a throw makes the construction fail, and an unload or    *)
(* another attempt might as well come right after it.                      *)
(***************************************************************************)
EXTENDS FiniteSets

CONSTANTS
    Attempts,    \* calls of create, createAgent and resume
    Owners,      \* fibers that call
    Nobody

ASSUME NobodyAssumption == Nobody \notin Attempts /\ Nobody \notin Owners

VARIABLES
    kind,        \* "create" is synchronous, "createAgent" and "resume" are not
    owner,
    step,        \* where the attempt is
    callerAborted,  \* the caller's AbortSignal fired
    loadAborted,    \* the owner's unload reached a resume that loads
    aborted,        \* the fused signal of the prepared lifecycle
    preparation,    \* the session: "none", "requested", "held", "released"
    follow,         \* the effect on the owner's fiber: "none", "load", "lifecycle"
    tracked,        \* liveAgents of the factory
    teardown,       \* the memoized dispose()
    byOwner,        \* its ownerTriggered
    agents, sessions,  \* who is entered in the registries under the id
    fiber,          \* state of each owner's fiber
    ownerAwaits,    \* the teardowns its unload waits for
    factory,        \* state of the factory's fiber
    factoryAwaits   \* the teardowns and the wrappers its unload waits for

callVars  == <<kind, owner, callerAborted>>
stateVars == <<step, loadAborted, aborted, preparation>>
lifeVars  == <<follow, tracked, teardown, byOwner>>
entryVars == <<agents, sessions>>
fiberVars == <<fiber, ownerAwaits, factory, factoryAwaits>>
vars == <<callVars, stateVars, lifeVars, entryVars, fiberVars>>

Waiting == {"loading", "loaded", "setup", "ready", "failing"}
(* "thrown": rejected without awaiting the teardown that was begun for it. *)
Over    == {"published", "rejected", "thrown"}
Running == {"draining", "unwinding", "unfollowing"}
NoWaits == [teardowns |-> {}, wrappers |-> {}]

Init ==
    /\ kind = [a \in Attempts |-> "none"] /\ owner = [a \in Attempts |-> Nobody]
    /\ step = [a \in Attempts |-> "idle"]
    /\ callerAborted = [a \in Attempts |-> FALSE]
    /\ loadAborted = [a \in Attempts |-> FALSE]
    /\ aborted = [a \in Attempts |-> FALSE]
    /\ preparation = [a \in Attempts |-> "none"]
    /\ follow = [a \in Attempts |-> "none"]
    /\ tracked = {}
    /\ teardown = [a \in Attempts |-> "none"]
    /\ byOwner = [a \in Attempts |-> FALSE]
    /\ agents = Nobody /\ sessions = Nobody
    /\ fiber = [o \in Owners |-> "active"]
    /\ ownerAwaits = [o \in Owners |-> {}]
    /\ factory = "active" /\ factoryAwaits = NoWaits

-----------------------------------------------------------------------------
(* The memoized teardown *)

(* What dispose() does up to its first await, for every attempt of S.  The  *)
(* first caller decides whether the owner's effect is left alone.           *)
Starts(S) == {a \in S : teardown[a] = "none"}

Dispose(S, ownerTriggered) ==
    /\ teardown' = [a \in Attempts |-> IF a \in Starts(S) THEN "draining" ELSE teardown[a]]
    /\ byOwner' = [a \in Attempts |-> IF a \in Starts(S) THEN ownerTriggered ELSE byOwner[a]]
    /\ aborted' = [a \in Attempts |-> aborted[a] \/ a \in S]

(* whenIdle() settles: the machine has stopped. *)
Drained(a) ==
    /\ teardown[a] = "draining"
    /\ teardown' = [teardown EXCEPT ![a] = "unwinding"]
    /\ UNCHANGED <<callVars, stateVars, follow, tracked, byOwner, entryVars, fiberVars>>

(* The scope is gone: leave the registries and the factory, then unregister *)
(* the owner's effect unless this teardown runs inside it.                  *)
AgentOnly(a) == agents' = (IF agents = a THEN Nobody ELSE agents) /\ UNCHANGED sessions \* mutant
Detach(a) ==
    /\ agents' = IF agents = a THEN Nobody ELSE agents
    /\ sessions' = IF sessions = a THEN Nobody ELSE sessions

Unwound(a) ==
    /\ teardown[a] = "unwinding"
    /\ Detach(a)
    /\ tracked' = tracked \ {a}
    /\ teardown' = [teardown EXCEPT ![a] = IF byOwner[a] THEN "done" ELSE "unfollowing"]
    /\ UNCHANGED <<callVars, stateVars, follow, byOwner, fiberVars>>

(* unfollowOwner() runs the owner's effect, unless the owner's unload has:  *)
(* the teardown has begun, so the effect returns at once.                   *)
JoinsTeardown(a) == follow[a] = "none"                         \* mutant
EffectReturns(a) == TRUE

Unfollowed(a) ==
    /\ teardown[a] = "unfollowing"
    /\ EffectReturns(a)
    /\ follow' = [follow EXCEPT ![a] = "none"]
    /\ teardown' = [teardown EXCEPT ![a] = "done"]
    /\ UNCHANGED <<callVars, stateVars, tracked, byOwner, entryVars, fiberVars>>

-----------------------------------------------------------------------------
(* Creating and resuming *)

IsActive == factory = "active"
FactoryAborted == factory \in {"disposing", "disposed"}

(* prepare(): the owner, the factory and the caller are still there. *)
Preparable(a, o) == IsActive /\ fiber[o] = "active" /\ ~callerAborted[a]

(* A fresh session is refused while its id is live. *)
Fresh == sessions = Nobody

(* The teardown is registered with the factory and with the owner before    *)
(* any resource exists.                                                     *)
Registers(a) ==
    /\ tracked' = tracked \cup {a}
    /\ follow' = [follow EXCEPT ![a] = "lifecycle"]

(* Then the driver is constructed.  When that fails the teardown is begun   *)
(* and not awaited, and the caller of prepare() hears of the error at once: *)
(* the call is outside the try that rolls back.                             *)
ConstructionFails(a) ==
    /\ Registers(a)
    /\ step' = [step EXCEPT ![a] = "thrown"]
    /\ preparation' = [preparation EXCEPT ![a] = "released"]
    /\ Dispose({a}, FALSE)

Constructs(a) ==
    /\ Registers(a)
    /\ step' = [step EXCEPT ![a] = "setup"]
    /\ preparation' = [preparation EXCEPT ![a] = "held"]
    /\ UNCHANGED <<aborted, teardown, byOwner>>

Prepare(a) == Constructs(a) \/ ConstructionFails(a)

Rejects(a) ==
    /\ step' = [step EXCEPT ![a] = "rejected"]
    /\ preparation' = [preparation EXCEPT ![a] =
                         IF @ = "held" THEN "released" ELSE @]

Begin(a, k, o) ==
    /\ step[a] = "idle"
    /\ kind' = [kind EXCEPT ![a] = k] /\ owner' = [owner EXCEPT ![a] = o]

CreateAgent(a, o) ==
    /\ Begin(a, "createAgent", o)
    /\ IF Fresh /\ Preparable(a, o)
         THEN Prepare(a)
         ELSE Rejects(a) /\ UNCHANGED <<lifeVars, aborted>>
    /\ UNCHANGED <<callerAborted, loadAborted, entryVars, fiberVars>>

(* resumeWith(): an effect on the owner aborts the load; the factory's and  *)
(* the caller's signals are fused with it.                                  *)
Resume(a, o) ==
    /\ Begin(a, "resume", o)
    /\ IF fiber[o] = "active" /\ ~callerAborted[a] /\ ~FactoryAborted
         THEN /\ step' = [step EXCEPT ![a] = "loading"]
              /\ preparation' = [preparation EXCEPT ![a] = "requested"]
              /\ follow' = [follow EXCEPT ![a] = "load"]
         ELSE Rejects(a) /\ UNCHANGED follow
    /\ UNCHANGED <<callerAborted, loadAborted, aborted, tracked, teardown, byOwner,
                   entryVars, fiberVars>>

LoadCancelled(a) == callerAborted[a] \/ loadAborted[a] \/ FactoryAborted

(* persistence.prepare() settles; raceAbortCall() releases what nobody      *)
(* waits for any more.                                                      *)
Abandons(a) == "held"                                          \* mutant
LateArrival(a) == "released"

LoadSettles(a) ==
    /\ preparation[a] = "requested"
    /\ \/ preparation' = [preparation EXCEPT ![a] =
                            IF step[a] = "loading" THEN "held" ELSE LateArrival(a)]
       \/ preparation' = [preparation EXCEPT ![a] = "none"]
    /\ step' = [step EXCEPT ![a] = IF @ = "loading" THEN "loaded" ELSE @]
    /\ UNCHANGED <<callVars, loadAborted, aborted, lifeVars, entryVars, fiberVars>>

(* The signal wins the race. *)
LoadAborts(a) ==
    /\ step[a] = "loading" /\ LoadCancelled(a)
    /\ step' = [step EXCEPT ![a] = "loaded"]
    /\ UNCHANGED <<callVars, loadAborted, aborted, preparation, lifeVars, entryVars, fiberVars>>

(* The continuation asks again who is still there, then prepares. *)
LoadReturns(a) ==
    /\ step[a] = "loaded"
    /\ IF preparation[a] = "held" /\ Preparable(a, owner[a])
         THEN Prepare(a)
         ELSE /\ Rejects(a)
              /\ follow' = [follow EXCEPT ![a] = "none"]
              /\ UNCHANGED <<tracked, aborted, teardown, byOwner>>
    /\ UNCHANGED <<callVars, loadAborted, entryVars, fiberVars>>

(* raceAbort() of the setup: it settles, or the fused signal wins. *)
SetupSettles(a) ==
    /\ step[a] = "setup"
    /\ \/ /\ ~aborted[a]
          /\ step' = [step EXCEPT ![a] = "ready"]
          /\ UNCHANGED <<teardown, byOwner, aborted>>
       \/ /\ step' = [step EXCEPT ![a] = "failing"]
          /\ Dispose({a}, FALSE)
    /\ UNCHANGED <<callVars, loadAborted, preparation, follow, tracked, entryVars, fiberVars>>

(* publish(): enter both registries, announce; a listener may throw, and    *)
(* may abort what it hears of.                                              *)
Enter(a) ==
    /\ sessions = Nobody /\ sessions' = a
    /\ agents = Nobody /\ agents' = a

Refused == sessions # Nobody \/ agents # Nobody
EntersNothing == UNCHANGED entryVars

StillLive(a) == ~aborted[a]

Publish(a) ==
    /\ step[a] = "ready"
    /\ \/ /\ StillLive(a) /\ Enter(a)
          /\ step' = [step EXCEPT ![a] = "published"]
          /\ preparation' = [preparation EXCEPT ![a] = "released"]
          /\ UNCHANGED <<teardown, byOwner, aborted>>
       \/ /\ \/ StillLive(a) /\ Enter(a)
             \/ (~StillLive(a) \/ Refused) /\ EntersNothing
          /\ step' = [step EXCEPT ![a] = "failing"]
          /\ Dispose({a}, FALSE)
          /\ UNCHANGED preparation
    /\ UNCHANGED <<callVars, loadAborted, follow, tracked, fiberVars>>

(* The rollback was awaited. *)
RolledBack(a) == teardown[a] = "done"

Fails(a) ==
    /\ step[a] = "failing" /\ RolledBack(a)
    /\ Rejects(a)
    /\ UNCHANGED <<callVars, loadAborted, aborted, lifeVars, entryVars, fiberVars>>

(* create(): all of it in one call; a listener of the construction or of    *)
(* the announcement may throw, or take the id in an attempt of its own, and *)
(* no rollback is awaited.                                                  *)
Create(a, o) ==
    /\ Begin(a, "create", o)
    /\ \/ /\ Fresh /\ Preparable(a, o) /\ Registers(a)
          /\ \/ /\ Enter(a)
                /\ step' = [step EXCEPT ![a] = "published"]
                /\ UNCHANGED <<teardown, byOwner, aborted>>
             \/ /\ Enter(a) \/ EntersNothing
                /\ step' = [step EXCEPT ![a] = "thrown"]
                /\ Dispose({a}, FALSE)
       \/ /\ ~(Fresh /\ Preparable(a, o))
          /\ step' = [step EXCEPT ![a] = "rejected"]
          /\ UNCHANGED <<lifeVars, aborted, entryVars>>
    /\ preparation' = [preparation EXCEPT ![a] = "released"]
    /\ UNCHANGED <<callerAborted, loadAborted, fiberVars>>

-----------------------------------------------------------------------------
(* The callers *)

(* Nobody listens to the signal of an attempt that is over. *)
CallerAborts(a) ==
    /\ step[a] \in Waiting /\ ~callerAborted[a]
    /\ callerAborted' = [callerAborted EXCEPT ![a] = TRUE]
    /\ aborted' = [aborted EXCEPT ![a] = @ \/ a \in tracked]
    /\ UNCHANGED <<kind, owner, step, loadAborted, preparation, lifeVars, entryVars, fiberVars>>

HandleDispose(a) ==
    /\ step[a] = "published" /\ kind[a] # "create"
    /\ Dispose({a}, FALSE)
    /\ UNCHANGED <<callVars, step, loadAborted, preparation, follow, tracked, entryVars, fiberVars>>

(* The owner's fiber unloads; its effects run one by one. *)
OwnerUnloads(o) ==
    /\ fiber[o] = "active"
    /\ fiber' = [fiber EXCEPT ![o] = "unloading"]
    /\ UNCHANGED <<callVars, stateVars, lifeVars, entryVars, ownerAwaits, factory, factoryAwaits>>

LoadEffect(a) ==
    /\ follow[a] = "load"
    /\ loadAborted' = [loadAborted EXCEPT ![a] = TRUE]
    /\ UNCHANGED <<aborted, teardown, byOwner, ownerAwaits>>

(* A teardown that another owner began is left to that owner. *)
LifecycleEffect(a) ==
    /\ follow[a] = "lifecycle"
    /\ \/ /\ teardown[a] # "none"
          /\ UNCHANGED <<aborted, teardown, byOwner, ownerAwaits>>
       \/ /\ teardown[a] = "none"
          /\ Dispose({a}, TRUE)
          /\ ownerAwaits' = [ownerAwaits EXCEPT ![owner[a]] = @ \cup {a}]
    /\ UNCHANGED loadAborted

OwnerEffect(a) ==
    /\ owner[a] \in Owners /\ fiber[owner[a]] = "unloading"
    /\ LoadEffect(a) \/ LifecycleEffect(a)
    /\ follow' = [follow EXCEPT ![a] = "none"]
    /\ UNCHANGED <<callVars, step, preparation, tracked, entryVars, fiber, factory, factoryAwaits>>

Finished(S) == \A a \in S : teardown[a] = "done"

OwnerUnloaded(o) ==
    /\ fiber[o] = "unloading"
    /\ \A a \in Attempts : owner[a] = o => follow[a] = "none"
    /\ Finished(ownerAwaits[o])
    /\ fiber' = [fiber EXCEPT ![o] = "unloaded"]
    /\ ownerAwaits' = [ownerAwaits EXCEPT ![o] = {}]
    /\ UNCHANGED <<callVars, stateVars, lifeVars, entryVars, factory, factoryAwaits>>

-----------------------------------------------------------------------------
(* The factory *)

FactoryUnloads ==
    /\ factory = "active" /\ factory' = "unloading"
    /\ UNCHANGED <<callVars, stateVars, lifeVars, entryVars, fiber, ownerAwaits, factoryAwaits>>

(* FactoryOwnership.dispose(): abort what is being set up, tear down what   *)
(* is alive, and wait for the wrappers of the public calls too.             *)
OnlyAgents == {}                                               \* mutant
Wrappers == {a \in Attempts : step[a] \in Waiting}

FactoryDisposes ==
    /\ factory = "unloading" /\ factory' = "disposing"
    /\ Dispose(tracked, FALSE)
    /\ factoryAwaits' = [teardowns |-> tracked, wrappers |-> Wrappers]
    /\ UNCHANGED <<callVars, step, loadAborted, preparation, follow, tracked, entryVars,
                   fiber, ownerAwaits>>

FactoryDisposed ==
    /\ factory = "disposing" /\ factory' = "disposed"
    /\ Finished(factoryAwaits.teardowns)
    /\ \A a \in factoryAwaits.wrappers : step[a] \in Over
    /\ factoryAwaits' = NoWaits
    /\ UNCHANGED <<callVars, stateVars, lifeVars, entryVars, fiber, ownerAwaits>>

-----------------------------------------------------------------------------
Call(a) == \E o \in Owners : Create(a, o) \/ CreateAgent(a, o) \/ Resume(a, o)

Progress(a) ==
    \/ LoadSettles(a) \/ LoadAborts(a) \/ LoadReturns(a) \/ SetupSettles(a)
    \/ Publish(a) \/ Fails(a)

Teardown(a) == Drained(a) \/ Unwound(a) \/ Unfollowed(a)

Unload == \/ \E o \in Owners : OwnerUnloaded(o)
          \/ FactoryDisposes \/ FactoryDisposed

Next ==
    \/ \E a \in Attempts : \/ Call(a) \/ Progress(a) \/ Teardown(a) \/ OwnerEffect(a)
                           \/ CallerAborts(a) \/ HandleDispose(a)
    \/ \E o \in Owners : OwnerUnloads(o)
    \/ FactoryUnloads \/ Unload

Spec == Init /\ [][Next]_vars

(* Microtasks run; an abort wins its race; a driver that was cancelled      *)
(* comes to rest and its scope unwinds.  Neither the store nor a setup      *)
(* must ever answer, and nobody must unload or dispose.                     *)
Continues(a) ==
    \/ LoadAborts(a) \/ LoadReturns(a) \/ Publish(a) \/ Fails(a)
    \/ aborted[a] /\ SetupSettles(a)

Fairness ==
    /\ \A a \in Attempts :
          /\ WF_vars(Continues(a)) /\ WF_vars(Teardown(a)) /\ WF_vars(OwnerEffect(a))
    /\ WF_vars(Unload)

FairSpec == Spec /\ Fairness
-----------------------------------------------------------------------------
(* Properties *)

(* Type invariant of the attempts, the registries and the fibers. *)
TypeOK ==
    /\ kind \in [Attempts -> {"none", "create", "createAgent", "resume"}]
    /\ owner \in [Attempts -> Owners \cup {Nobody}]
    /\ step \in [Attempts -> {"idle"} \cup Waiting \cup Over]
    /\ callerAborted \in [Attempts -> BOOLEAN] /\ loadAborted \in [Attempts -> BOOLEAN]
    /\ aborted \in [Attempts -> BOOLEAN] /\ byOwner \in [Attempts -> BOOLEAN]
    /\ preparation \in [Attempts -> {"none", "requested", "held", "released"}]
    /\ follow \in [Attempts -> {"none", "load", "lifecycle"}]
    /\ tracked \subseteq Attempts
    /\ teardown \in [Attempts -> {"none", "done"} \cup Running]
    /\ agents \in Attempts \cup {Nobody} /\ sessions \in Attempts \cup {Nobody}
    /\ fiber \in [Owners -> {"active", "unloading", "unloaded"}]
    /\ ownerAwaits \in [Owners -> SUBSET Attempts]
    /\ factory \in {"active", "unloading", "disposing", "disposed"}
    /\ factoryAwaits \in [teardowns : SUBSET Attempts, wrappers : SUBSET Attempts]

(* Nothing of a failed attempt stays that nobody takes away.  A createAgent *)
(* or resume never leaves an entry in a registry or keeps its session from  *)
(* the pool, even when the load answers after the caller has gone.  A       *)
(* rejection that waited for the rollback leaves no lifecycle and no effect *)
(* on the owner either.  One that did not wait, because the driver's        *)
(* construction or a synchronous create() failed, leaves them only while    *)
(* its teardown is on the way to remove them.                               *)
Held(a) == a \in tracked \/ a \in {agents, sessions} \/ follow[a] # "none"

RejectedLeavesNothing ==
    \A a \in Attempts : step[a] \in {"rejected", "thrown"} =>
        /\ preparation[a] # "held"
        /\ kind[a] # "create" => a \notin {agents, sessions}
        /\ step[a] = "rejected" => ~Held(a) /\ teardown[a] \in {"none", "done"}
        /\ step[a] = "thrown" /\ Held(a) => teardown[a] \in Running

(* An agent is in both registries from its publication until its own        *)
(* teardown has unwound, whatever the other attempts on its id do: a loser, *)
(* its rollback or an older teardown never removes it.                      *)
PublishedIsRegistered ==
    /\ agents = sessions
    /\ \A a \in Attempts :
          step[a] = "published" /\ teardown[a] \in {"none", "draining", "unwinding"}
            => agents = a

(* README of agent-loop: the provider's shutdown waits for the teardowns    *)
(* and for the public calls, "so no continuation can publish after          *)
(* dependencies disappear".                                                 *)
FactoryQuiescent ==
    factory = "disposed" =>
        /\ agents = Nobody /\ sessions = Nobody /\ tracked = {}
        /\ \A a \in Attempts : /\ step[a] \notin Waiting
                               /\ teardown[a] \notin {"draining", "unwinding"}

(* README of agent-loop: "Caller unload, handle disposal, or provider       *)
(* unload converge on one memoized quiescence boundary".  While the factory *)
(* is there only its handle or its owner begins the teardown of a published *)
(* agent; if it was the handle, the owner's unload waits for it as well.    *)
BegunByHandle(a) ==
    /\ step[a] = "published" /\ kind[a] # "create"
    /\ factory = "active" /\ ~byOwner[a]
    /\ teardown[a] # "none"

OwnerAwaitsTeardown ==
    \A a \in Attempts :
        BegunByHandle(a) /\ fiber[owner[a]] = "unloaded" => teardown[a] = "done"

(* Every teardown ends, whoever began it and whoever joins it; an attempt    *)
(* that is cancelled ends even if the store never answers; and no unload    *)
(* waits for ever.  Each happens once, so all of them end exactly when      *)
(* again and again none is under way.                                       *)
TeardownsEnd ==
    []<>(/\ \A a \in Attempts :
              /\ teardown[a] \notin Running
              /\ callerAborted[a] \/ factory # "active" => step[a] \notin Waiting
         /\ \A o \in Owners : fiber[o] # "unloading"
         /\ factory \in {"active", "disposed"})

=============================================================================
