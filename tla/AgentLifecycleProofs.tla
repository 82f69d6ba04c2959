----------------------- MODULE AgentLifecycleProofs -----------------------
(***************************************************************************)
(* Theorems about AgentLifecycle for any set of attempts on an id and any  *)
(* set of owners.  On the types rest two inductive invariants: how an      *)
(* attempt, its teardown and the two registries go together, and what a    *)
(* factory that is going away waits for.                                   *)
(***************************************************************************)
EXTENDS AgentLifecycle, TLAPS

(* What disposing of one attempt writes. *)
LEMMA DisposeOne ==
    ASSUME TypeOK, NEW a \in Attempts, NEW b \in BOOLEAN, Dispose({a}, b)
    PROVE  /\ teardown' = [teardown EXCEPT ![a] = IF @ = "none" THEN "draining" ELSE @]
           /\ byOwner' = [byOwner EXCEPT ![a] = IF teardown[a] = "none" THEN b ELSE @]
           /\ aborted' = [aborted EXCEPT ![a] = TRUE]
  BY DEF TypeOK, Dispose, Starts

(* Every step keeps the types. *)
LEMMA TypeStep == TypeOK /\ [Next]_vars => TypeOK'
<1> SUFFICES ASSUME TypeOK, [Next]_vars PROVE TypeOK'
  OBVIOUS
<1> USE NobodyAssumption DEF TypeOK, Waiting, Over, Running, callVars,
      stateVars, lifeVars, entryVars, fiberVars
<1>1. ASSUME NEW a \in Attempts, NEW o \in Owners, Create(a, o) PROVE
         TypeOK'
  <2>1. CASE Registers(a) /\ Enter(a) /\ step' = [step EXCEPT ![a] =
         "published"] /\ Fresh /\ Preparable(a, o) /\ UNCHANGED <<teardown,
         byOwner, aborted>>
    BY <1>1, <2>1 DEF Create, Begin, Fresh, Preparable, IsActive, Registers,
           Enter
  <2>2. CASE Registers(a) /\ (Enter(a) \/ EntersNothing) /\ step' = [step
         EXCEPT ![a] = "thrown"] /\ Fresh /\ Preparable(a, o) /\ Dispose({a}, FALSE)
    <3>1. /\ teardown' = [teardown EXCEPT ![a] = IF @ = "none" THEN "draining" ELSE @]
           /\ byOwner' = [byOwner EXCEPT ![a] = IF teardown[a] = "none" THEN FALSE ELSE @]
           /\ aborted' = [aborted EXCEPT ![a] = TRUE]
      BY <2>2, DisposeOne
    <3>2. CASE Enter(a)
      BY <1>1, <2>2, <3>1, <3>2 DEF Create, Begin, Fresh, Preparable,
           IsActive, Registers, Enter
    <3>3. CASE EntersNothing
      BY <1>1, <2>2, <3>1, <3>3 DEF Create, Begin, Fresh, Preparable,
           IsActive, Registers, EntersNothing
    <3> QED BY <2>2, <3>2, <3>3
  <2>3. CASE step' = [step EXCEPT ![a] = "rejected"] /\ UNCHANGED
         <<lifeVars, aborted, entryVars>>
    BY <1>1, <2>3 DEF Create, Begin
  <2> QED BY <1>1, <2>1, <2>2, <2>3 DEF Create
<1>2. ASSUME NEW a \in Attempts, NEW o \in Owners, CreateAgent(a, o) PROVE
         TypeOK'
  <2>1. CASE Fresh /\ Preparable(a, o) /\ Constructs(a)
    BY <1>2, <2>1 DEF CreateAgent, Begin, Fresh, Preparable, IsActive, Registers,
           Constructs
  <2>2. CASE Fresh /\ Preparable(a, o) /\ ConstructionFails(a)
    <3>1. /\ teardown' = [teardown EXCEPT ![a] = IF @ = "none" THEN "draining" ELSE @]
           /\ byOwner' = [byOwner EXCEPT ![a] = IF teardown[a] = "none" THEN FALSE ELSE @]
           /\ aborted' = [aborted EXCEPT ![a] = TRUE]
      BY <2>2, DisposeOne DEF ConstructionFails
    <3> QED BY <1>2, <2>2, <3>1 DEF CreateAgent, Begin, Fresh, Preparable, IsActive,
           Registers, ConstructionFails
  <2>3. CASE Rejects(a) /\ UNCHANGED <<lifeVars, aborted>>
    BY <1>2, <2>3 DEF CreateAgent, Begin, Fresh, Rejects
  <2> QED BY <1>2, <2>1, <2>2, <2>3 DEF CreateAgent, Prepare
<1>3. ASSUME NEW a \in Attempts, NEW o \in Owners, Resume(a, o) PROVE
         TypeOK'
  BY <1>3 DEF Resume, Begin, Rejects, FactoryAborted
<1>4. ASSUME NEW a \in Attempts, LoadSettles(a) PROVE TypeOK'
  BY <1>4 DEF LoadSettles, LateArrival
<1>5. ASSUME NEW a \in Attempts, LoadAborts(a) PROVE TypeOK'
  BY <1>5 DEF LoadAborts
<1>6. ASSUME NEW a \in Attempts, LoadReturns(a) PROVE TypeOK'
  <2>1. CASE Preparable(a, owner[a]) /\ preparation[a] = "held" /\ Constructs(a)
    BY <1>6, <2>1 DEF LoadReturns, Preparable, IsActive, Registers,
           Constructs
  <2>2. CASE Preparable(a, owner[a]) /\ preparation[a] = "held" /\ ConstructionFails(a)
    <3>1. /\ teardown' = [teardown EXCEPT ![a] = IF @ = "none" THEN "draining" ELSE @]
           /\ byOwner' = [byOwner EXCEPT ![a] = IF teardown[a] = "none" THEN FALSE ELSE @]
           /\ aborted' = [aborted EXCEPT ![a] = TRUE]
      BY <2>2, DisposeOne DEF ConstructionFails
    <3> QED BY <1>6, <2>2, <3>1 DEF LoadReturns, Preparable, IsActive,
           Registers, ConstructionFails
  <2>3. CASE Rejects(a) /\ follow' = [follow EXCEPT ![a] = "none"] /\
         UNCHANGED <<tracked, aborted, teardown, byOwner>>
    BY <1>6, <2>3 DEF LoadReturns, Rejects
  <2> QED BY <1>6, <2>1, <2>2, <2>3 DEF LoadReturns, Prepare
<1>7. ASSUME NEW a \in Attempts, SetupSettles(a) PROVE TypeOK'
  <2>1. CASE ~aborted[a] /\ step' = [step EXCEPT ![a] = "ready"] /\
         UNCHANGED <<teardown, byOwner, aborted>>
    BY <1>7, <2>1 DEF SetupSettles
  <2>2. CASE step' = [step EXCEPT ![a] = "failing"] /\ Dispose({a}, FALSE)
    <3>1. /\ teardown' = [teardown EXCEPT ![a] = IF @ = "none" THEN "draining" ELSE @]
           /\ byOwner' = [byOwner EXCEPT ![a] = IF teardown[a] = "none" THEN FALSE ELSE @]
           /\ aborted' = [aborted EXCEPT ![a] = TRUE]
      BY <2>2, DisposeOne
    <3> QED BY <1>7, <2>2, <3>1 DEF SetupSettles
  <2> QED BY <1>7, <2>1, <2>2 DEF SetupSettles
<1>8. ASSUME NEW a \in Attempts, Publish(a) PROVE TypeOK'
  <2>1. CASE ~aborted[a] /\ Enter(a) /\ step' = [step EXCEPT ![a] =
         "published"] /\ preparation' = [preparation EXCEPT ![a] =
         "released"] /\ UNCHANGED <<teardown, byOwner, aborted>>
    BY <1>8, <2>1 DEF Publish, Enter
  <2>2. CASE ~aborted[a] /\ Enter(a) /\ step' = [step EXCEPT ![a] =
         "failing"] /\ Dispose({a}, FALSE) /\ UNCHANGED preparation
    <3>1. /\ teardown' = [teardown EXCEPT ![a] = IF @ = "none" THEN "draining" ELSE @]
           /\ byOwner' = [byOwner EXCEPT ![a] = IF teardown[a] = "none" THEN FALSE ELSE @]
           /\ aborted' = [aborted EXCEPT ![a] = TRUE]
      BY <2>2, DisposeOne
    <3> QED BY <1>8, <2>2, <3>1 DEF Publish, Enter
  <2>3. CASE UNCHANGED entryVars /\ step' = [step EXCEPT ![a] = "failing"]
         /\ Dispose({a}, FALSE) /\ UNCHANGED preparation
    <3>1. /\ teardown' = [teardown EXCEPT ![a] = IF @ = "none" THEN "draining" ELSE @]
           /\ byOwner' = [byOwner EXCEPT ![a] = IF teardown[a] = "none" THEN FALSE ELSE @]
           /\ aborted' = [aborted EXCEPT ![a] = TRUE]
      BY <2>3, DisposeOne
    <3> QED BY <1>8, <2>3, <3>1 DEF Publish
  <2> QED BY <1>8, <2>1, <2>2, <2>3 DEF Publish, StillLive, EntersNothing
<1>9. ASSUME NEW a \in Attempts, Fails(a) PROVE TypeOK'
  BY <1>9 DEF Fails, RolledBack, Rejects
<1>10. ASSUME NEW a \in Attempts, Drained(a) PROVE TypeOK'
  BY <1>10 DEF Drained
<1>11. ASSUME NEW a \in Attempts, Unwound(a) PROVE TypeOK'
  BY <1>11 DEF Unwound, Detach
<1>12. ASSUME NEW a \in Attempts, Unfollowed(a) PROVE TypeOK'
  BY <1>12 DEF Unfollowed
<1>13. ASSUME NEW a \in Attempts, OwnerEffect(a) PROVE TypeOK'
  <2>1. CASE LoadEffect(a)
    BY <1>13, <2>1 DEF OwnerEffect, LoadEffect
  <2>2. CASE follow[a] = "lifecycle" /\ UNCHANGED <<loadAborted, aborted,
         teardown, byOwner, ownerAwaits>>
    BY <1>13, <2>2 DEF OwnerEffect
  <2>3. CASE follow[a] = "lifecycle" /\ teardown[a] = "none" /\ Dispose({a},
         TRUE) /\ ownerAwaits' = [ownerAwaits EXCEPT ![owner[a]] = @ \cup
         {a}] /\ UNCHANGED loadAborted
    <3>1. /\ teardown' = [teardown EXCEPT ![a] = IF @ = "none" THEN "draining" ELSE @]
           /\ byOwner' = [byOwner EXCEPT ![a] = IF teardown[a] = "none" THEN TRUE ELSE @]
           /\ aborted' = [aborted EXCEPT ![a] = TRUE]
      BY <2>3, DisposeOne
    <3> QED BY <1>13, <2>3, <3>1 DEF OwnerEffect
  <2> QED BY <1>13, <2>1, <2>2, <2>3 DEF OwnerEffect, LifecycleEffect
<1>14. ASSUME NEW a \in Attempts, CallerAborts(a) PROVE TypeOK'
  BY <1>14 DEF CallerAborts
<1>15. ASSUME NEW a \in Attempts, HandleDispose(a) PROVE TypeOK'
  <2>1. /\ teardown' = [teardown EXCEPT ![a] = IF @ = "none" THEN "draining" ELSE @]
         /\ byOwner' = [byOwner EXCEPT ![a] = IF teardown[a] = "none" THEN FALSE ELSE @]
         /\ aborted' = [aborted EXCEPT ![a] = TRUE]
    BY <1>15, DisposeOne DEF HandleDispose
  <2> QED BY <1>15, <2>1 DEF HandleDispose
<1>16. ASSUME NEW o \in Owners, OwnerUnloads(o) PROVE TypeOK'
  BY <1>16 DEF OwnerUnloads
<1>17. ASSUME NEW o \in Owners, OwnerUnloaded(o) PROVE TypeOK'
  BY <1>17 DEF OwnerUnloaded
<1>18. ASSUME FactoryUnloads PROVE TypeOK'
  BY <1>18 DEF FactoryUnloads
<1>19. ASSUME FactoryDisposes PROVE TypeOK'
  BY <1>19 DEF FactoryDisposes, Wrappers, Dispose, Starts
<1>20. ASSUME FactoryDisposed PROVE TypeOK'
  BY <1>20 DEF FactoryDisposed, Finished, NoWaits
<1>21. CASE UNCHANGED vars
  BY <1>21 DEF vars
<1> HIDE DEF TypeOK, Waiting, Over, Running, callVars, stateVars, lifeVars,
      entryVars, fiberVars
<1> QED BY <1>1, <1>2, <1>3, <1>4, <1>5, <1>6, <1>7, <1>8, <1>9, <1>10,
      <1>11, <1>12, <1>13, <1>14, <1>15, <1>16, <1>17, <1>18, <1>19, <1>20,
      <1>21 DEF Next, Call, Progress, Teardown, Unload

(* The types hold in every reachable state. *)
THEOREM Types == Spec => []TypeOK
<1>1. Init => TypeOK
  BY NobodyAssumption DEF Init, TypeOK, Waiting, Over, Running, NoWaits
<1> QED BY <1>1, TypeStep, PTL DEF Spec

-----------------------------------------------------------------------------
(* An attempt is tracked exactly while its teardown has not unwound, it is  *)
(* entered only while it is tracked, and the owner's effect outlives the    *)
(* teardown only if another owner began it.  An attempt that failed has its *)
(* teardown begun before its caller hears of it.                            *)
LifeInv ==
    /\ \A a \in Attempts : step[a] \in {"idle", "loading", "loaded"} =>
          teardown[a] = "none" /\ ~aborted[a] /\ a \notin tracked
    /\ \A a \in Attempts : step[a] = "idle" => follow[a] = "none"
    /\ \A a \in Attempts : follow[a] = "load" => step[a] \in {"loading", "loaded"}
    /\ \A a \in Attempts : follow[a] = "lifecycle" =>
          /\ step[a] \notin {"idle", "loading", "loaded"}
          /\ teardown[a] # "done"
          /\ teardown[a] = "none" => a \in tracked
    /\ \A a \in Attempts : teardown[a] # "none" => aborted[a]
    /\ \A a \in Attempts : teardown[a] \in {"draining", "unwinding"} => a \in tracked
    /\ \A a \in tracked : teardown[a] \in {"none", "draining", "unwinding"}
    /\ \A a \in Attempts : step[a] \in {"setup", "ready", "published"} /\ teardown[a] = "none"
          => a \in tracked
    /\ \A a \in Attempts : step[a] \in {"failing", "thrown"} => teardown[a] # "none"
    /\ \A a \in Attempts : step[a] = "thrown" /\ kind[a] # "create" => agents # a
    /\ \A a \in Attempts : byOwner[a] => follow[a] = "none" /\ teardown[a] # "none"
    /\ \A a \in Attempts : preparation[a] = "held" =>
          step[a] \in {"loaded", "setup", "ready", "failing"}
    /\ agents = sessions /\ (agents = Nobody \/ agents \in tracked)

(* Every step keeps LifeInv. *)
LEMMA LifeStep == TypeOK /\ LifeInv /\ [Next]_vars => LifeInv'
<1> SUFFICES ASSUME TypeOK /\ LifeInv, [Next]_vars PROVE LifeInv'
  OBVIOUS
<1> USE NobodyAssumption DEF TypeOK, LifeInv, Waiting, Over, Running,
      callVars, stateVars, lifeVars, entryVars, fiberVars
<1>1. ASSUME NEW a \in Attempts, NEW o \in Owners, Create(a, o) PROVE
         LifeInv'
  <2>1. CASE Registers(a) /\ Enter(a) /\ step' = [step EXCEPT ![a] =
         "published"] /\ Fresh /\ Preparable(a, o) /\ UNCHANGED <<teardown,
         byOwner, aborted>>
    BY <1>1, <2>1 DEF Create, Begin, Fresh, Preparable, IsActive, Registers,
           Enter
  <2>2. CASE Registers(a) /\ (Enter(a) \/ EntersNothing) /\ step' = [step
         EXCEPT ![a] = "thrown"] /\ Fresh /\ Preparable(a, o) /\ Dispose({a}, FALSE)
    <3>1. /\ teardown' = [teardown EXCEPT ![a] = IF @ = "none" THEN "draining" ELSE @]
           /\ byOwner' = [byOwner EXCEPT ![a] = IF teardown[a] = "none" THEN FALSE ELSE @]
           /\ aborted' = [aborted EXCEPT ![a] = TRUE]
      BY <2>2, DisposeOne
    <3>2. CASE Enter(a)
      BY <1>1, <2>2, <3>1, <3>2 DEF Create, Begin, Fresh, Preparable,
           IsActive, Registers, Enter
    <3>3. CASE EntersNothing
      BY <1>1, <2>2, <3>1, <3>3 DEF Create, Begin, Fresh, Preparable,
           IsActive, Registers, EntersNothing
    <3> QED BY <2>2, <3>2, <3>3
  <2>3. CASE step' = [step EXCEPT ![a] = "rejected"] /\ UNCHANGED
         <<lifeVars, aborted, entryVars>>
    BY <1>1, <2>3 DEF Create, Begin
  <2> QED BY <1>1, <2>1, <2>2, <2>3 DEF Create
<1>2. ASSUME NEW a \in Attempts, NEW o \in Owners, CreateAgent(a, o) PROVE
         LifeInv'
  <2>1. CASE Fresh /\ Preparable(a, o) /\ Constructs(a)
    BY <1>2, <2>1 DEF CreateAgent, Begin, Fresh, Preparable, IsActive, Registers,
           Constructs
  <2>2. CASE Fresh /\ Preparable(a, o) /\ ConstructionFails(a)
    <3>1. /\ teardown' = [teardown EXCEPT ![a] = IF @ = "none" THEN "draining" ELSE @]
           /\ byOwner' = [byOwner EXCEPT ![a] = IF teardown[a] = "none" THEN FALSE ELSE @]
           /\ aborted' = [aborted EXCEPT ![a] = TRUE]
      BY <2>2, DisposeOne DEF ConstructionFails
    <3> QED BY <1>2, <2>2, <3>1 DEF CreateAgent, Begin, Fresh, Preparable, IsActive,
           Registers, ConstructionFails
  <2>3. CASE Rejects(a) /\ UNCHANGED <<lifeVars, aborted>>
    BY <1>2, <2>3 DEF CreateAgent, Begin, Fresh, Rejects
  <2> QED BY <1>2, <2>1, <2>2, <2>3 DEF CreateAgent, Prepare
<1>3. ASSUME NEW a \in Attempts, NEW o \in Owners, Resume(a, o) PROVE
         LifeInv'
  BY <1>3 DEF Resume, Begin, Rejects, FactoryAborted
<1>4. ASSUME NEW a \in Attempts, LoadSettles(a) PROVE LifeInv'
  BY <1>4 DEF LoadSettles, LateArrival
<1>5. ASSUME NEW a \in Attempts, LoadAborts(a) PROVE LifeInv'
  BY <1>5 DEF LoadAborts
<1>6. ASSUME NEW a \in Attempts, LoadReturns(a) PROVE LifeInv'
  <2>1. CASE Preparable(a, owner[a]) /\ preparation[a] = "held" /\ Constructs(a)
    BY <1>6, <2>1 DEF LoadReturns, Preparable, IsActive, Registers,
           Constructs
  <2>2. CASE Preparable(a, owner[a]) /\ preparation[a] = "held" /\ ConstructionFails(a)
    <3>1. /\ teardown' = [teardown EXCEPT ![a] = IF @ = "none" THEN "draining" ELSE @]
           /\ byOwner' = [byOwner EXCEPT ![a] = IF teardown[a] = "none" THEN FALSE ELSE @]
           /\ aborted' = [aborted EXCEPT ![a] = TRUE]
      BY <2>2, DisposeOne DEF ConstructionFails
    <3> QED BY <1>6, <2>2, <3>1 DEF LoadReturns, Preparable, IsActive,
           Registers, ConstructionFails
  <2>3. CASE Rejects(a) /\ follow' = [follow EXCEPT ![a] = "none"] /\
         UNCHANGED <<tracked, aborted, teardown, byOwner>>
    BY <1>6, <2>3 DEF LoadReturns, Rejects
  <2> QED BY <1>6, <2>1, <2>2, <2>3 DEF LoadReturns, Prepare
<1>7. ASSUME NEW a \in Attempts, SetupSettles(a) PROVE LifeInv'
  <2>1. CASE ~aborted[a] /\ step' = [step EXCEPT ![a] = "ready"] /\
         UNCHANGED <<teardown, byOwner, aborted>>
    BY <1>7, <2>1 DEF SetupSettles
  <2>2. CASE step' = [step EXCEPT ![a] = "failing"] /\ Dispose({a}, FALSE)
    <3>1. /\ teardown' = [teardown EXCEPT ![a] = IF @ = "none" THEN "draining" ELSE @]
           /\ byOwner' = [byOwner EXCEPT ![a] = IF teardown[a] = "none" THEN FALSE ELSE @]
           /\ aborted' = [aborted EXCEPT ![a] = TRUE]
      BY <2>2, DisposeOne
    <3> QED BY <1>7, <2>2, <3>1 DEF SetupSettles
  <2> QED BY <1>7, <2>1, <2>2 DEF SetupSettles
<1>8. ASSUME NEW a \in Attempts, Publish(a) PROVE LifeInv'
  <2>1. CASE ~aborted[a] /\ Enter(a) /\ step' = [step EXCEPT ![a] =
         "published"] /\ preparation' = [preparation EXCEPT ![a] =
         "released"] /\ UNCHANGED <<teardown, byOwner, aborted>>
    BY <1>8, <2>1 DEF Publish, Enter
  <2>2. CASE ~aborted[a] /\ Enter(a) /\ step' = [step EXCEPT ![a] =
         "failing"] /\ Dispose({a}, FALSE) /\ UNCHANGED preparation
    <3>1. /\ teardown' = [teardown EXCEPT ![a] = IF @ = "none" THEN "draining" ELSE @]
           /\ byOwner' = [byOwner EXCEPT ![a] = IF teardown[a] = "none" THEN FALSE ELSE @]
           /\ aborted' = [aborted EXCEPT ![a] = TRUE]
      BY <2>2, DisposeOne
    <3> QED BY <1>8, <2>2, <3>1 DEF Publish, Enter
  <2>3. CASE UNCHANGED entryVars /\ step' = [step EXCEPT ![a] = "failing"]
         /\ Dispose({a}, FALSE) /\ UNCHANGED preparation
    <3>1. /\ teardown' = [teardown EXCEPT ![a] = IF @ = "none" THEN "draining" ELSE @]
           /\ byOwner' = [byOwner EXCEPT ![a] = IF teardown[a] = "none" THEN FALSE ELSE @]
           /\ aborted' = [aborted EXCEPT ![a] = TRUE]
      BY <2>3, DisposeOne
    <3> QED BY <1>8, <2>3, <3>1 DEF Publish
  <2> QED BY <1>8, <2>1, <2>2, <2>3 DEF Publish, StillLive, EntersNothing
<1>9. ASSUME NEW a \in Attempts, Fails(a) PROVE LifeInv'
  BY <1>9 DEF Fails, RolledBack, Rejects
<1>10. ASSUME NEW a \in Attempts, Drained(a) PROVE LifeInv'
  BY <1>10 DEF Drained
<1>11. ASSUME NEW a \in Attempts, Unwound(a) PROVE LifeInv'
  BY <1>11 DEF Unwound, Detach
<1>12. ASSUME NEW a \in Attempts, Unfollowed(a) PROVE LifeInv'
  BY <1>12 DEF Unfollowed
<1>13. ASSUME NEW a \in Attempts, OwnerEffect(a) PROVE LifeInv'
  <2>1. CASE LoadEffect(a)
    BY <1>13, <2>1 DEF OwnerEffect, LoadEffect
  <2>2. CASE follow[a] = "lifecycle" /\ UNCHANGED <<loadAborted, aborted,
         teardown, byOwner, ownerAwaits>>
    BY <1>13, <2>2 DEF OwnerEffect
  <2>3. CASE follow[a] = "lifecycle" /\ teardown[a] = "none" /\ Dispose({a},
         TRUE) /\ ownerAwaits' = [ownerAwaits EXCEPT ![owner[a]] = @ \cup
         {a}] /\ UNCHANGED loadAborted
    <3>1. /\ teardown' = [teardown EXCEPT ![a] = IF @ = "none" THEN "draining" ELSE @]
           /\ byOwner' = [byOwner EXCEPT ![a] = IF teardown[a] = "none" THEN TRUE ELSE @]
           /\ aborted' = [aborted EXCEPT ![a] = TRUE]
      BY <2>3, DisposeOne
    <3> QED BY <1>13, <2>3, <3>1 DEF OwnerEffect
  <2> QED BY <1>13, <2>1, <2>2, <2>3 DEF OwnerEffect, LifecycleEffect
<1>14. ASSUME NEW a \in Attempts, CallerAborts(a) PROVE LifeInv'
  BY <1>14 DEF CallerAborts
<1>15. ASSUME NEW a \in Attempts, HandleDispose(a) PROVE LifeInv'
  <2>1. /\ teardown' = [teardown EXCEPT ![a] = IF @ = "none" THEN "draining" ELSE @]
         /\ byOwner' = [byOwner EXCEPT ![a] = IF teardown[a] = "none" THEN FALSE ELSE @]
         /\ aborted' = [aborted EXCEPT ![a] = TRUE]
    BY <1>15, DisposeOne DEF HandleDispose
  <2> QED BY <1>15, <2>1 DEF HandleDispose
<1>16. ASSUME NEW o \in Owners, OwnerUnloads(o) PROVE LifeInv'
  BY <1>16 DEF OwnerUnloads
<1>17. ASSUME NEW o \in Owners, OwnerUnloaded(o) PROVE LifeInv'
  BY <1>17 DEF OwnerUnloaded
<1>18. ASSUME FactoryUnloads PROVE LifeInv'
  BY <1>18 DEF FactoryUnloads
<1>19. ASSUME FactoryDisposes PROVE LifeInv'
  BY <1>19 DEF FactoryDisposes, Wrappers, Dispose, Starts
<1>20. ASSUME FactoryDisposed PROVE LifeInv'
  BY <1>20 DEF FactoryDisposed, Finished, NoWaits
<1>21. CASE UNCHANGED vars
  BY <1>21 DEF vars
<1> HIDE DEF TypeOK, LifeInv, Waiting, Over, Running, callVars, stateVars,
      lifeVars, entryVars, fiberVars
<1> QED BY <1>1, <1>2, <1>3, <1>4, <1>5, <1>6, <1>7, <1>8, <1>9, <1>10,
      <1>11, <1>12, <1>13, <1>14, <1>15, <1>16, <1>17, <1>18, <1>19, <1>20,
      <1>21 DEF Next, Call, Progress, Teardown, Unload

(* Every step keeps what a rejection promises. *)
LEMMA RejectedStep == TypeOK /\ LifeInv /\ RejectedLeavesNothing /\ [Next]_vars => RejectedLeavesNothing'
<1> SUFFICES ASSUME TypeOK /\ LifeInv /\ RejectedLeavesNothing, [Next]_vars PROVE RejectedLeavesNothing'
  OBVIOUS
<1> USE NobodyAssumption DEF TypeOK, LifeInv, RejectedLeavesNothing, Held,
      Waiting, Over, Running, callVars, stateVars, lifeVars, entryVars,
      fiberVars
<1>1. ASSUME NEW a \in Attempts, NEW o \in Owners, Create(a, o) PROVE
         RejectedLeavesNothing'
  <2>1. CASE Registers(a) /\ Enter(a) /\ step' = [step EXCEPT ![a] =
         "published"] /\ Fresh /\ Preparable(a, o) /\ UNCHANGED <<teardown,
         byOwner, aborted>>
    BY <1>1, <2>1 DEF Create, Begin, Fresh, Preparable, IsActive, Registers,
           Enter
  <2>2. CASE Registers(a) /\ (Enter(a) \/ EntersNothing) /\ step' = [step
         EXCEPT ![a] = "thrown"] /\ Fresh /\ Preparable(a, o) /\ Dispose({a}, FALSE)
    <3>1. /\ teardown' = [teardown EXCEPT ![a] = IF @ = "none" THEN "draining" ELSE @]
           /\ byOwner' = [byOwner EXCEPT ![a] = IF teardown[a] = "none" THEN FALSE ELSE @]
           /\ aborted' = [aborted EXCEPT ![a] = TRUE]
      BY <2>2, DisposeOne
    <3>2. CASE Enter(a)
      BY <1>1, <2>2, <3>1, <3>2 DEF Create, Begin, Fresh, Preparable,
           IsActive, Registers, Enter
    <3>3. CASE EntersNothing
      BY <1>1, <2>2, <3>1, <3>3 DEF Create, Begin, Fresh, Preparable,
           IsActive, Registers, EntersNothing
    <3> QED BY <2>2, <3>2, <3>3
  <2>3. CASE step' = [step EXCEPT ![a] = "rejected"] /\ UNCHANGED
         <<lifeVars, aborted, entryVars>>
    BY <1>1, <2>3 DEF Create, Begin
  <2> QED BY <1>1, <2>1, <2>2, <2>3 DEF Create
<1>2. ASSUME NEW a \in Attempts, NEW o \in Owners, CreateAgent(a, o) PROVE
         RejectedLeavesNothing'
  <2>1. CASE Fresh /\ Preparable(a, o) /\ Constructs(a)
    BY <1>2, <2>1 DEF CreateAgent, Begin, Fresh, Preparable, IsActive, Registers,
           Constructs
  <2>2. CASE Fresh /\ Preparable(a, o) /\ ConstructionFails(a)
    <3>1. /\ teardown' = [teardown EXCEPT ![a] = IF @ = "none" THEN "draining" ELSE @]
           /\ byOwner' = [byOwner EXCEPT ![a] = IF teardown[a] = "none" THEN FALSE ELSE @]
           /\ aborted' = [aborted EXCEPT ![a] = TRUE]
      BY <2>2, DisposeOne DEF ConstructionFails
    <3> QED BY <1>2, <2>2, <3>1 DEF CreateAgent, Begin, Fresh, Preparable, IsActive,
           Registers, ConstructionFails
  <2>3. CASE Rejects(a) /\ UNCHANGED <<lifeVars, aborted>>
    BY <1>2, <2>3 DEF CreateAgent, Begin, Fresh, Rejects
  <2> QED BY <1>2, <2>1, <2>2, <2>3 DEF CreateAgent, Prepare
<1>3. ASSUME NEW a \in Attempts, NEW o \in Owners, Resume(a, o) PROVE
         RejectedLeavesNothing'
  BY <1>3 DEF Resume, Begin, Rejects, FactoryAborted
<1>4. ASSUME NEW a \in Attempts, LoadSettles(a) PROVE RejectedLeavesNothing'
  BY <1>4 DEF LoadSettles, LateArrival
<1>5. ASSUME NEW a \in Attempts, LoadAborts(a) PROVE RejectedLeavesNothing'
  BY <1>5 DEF LoadAborts
<1>6. ASSUME NEW a \in Attempts, LoadReturns(a) PROVE RejectedLeavesNothing'
  <2>1. CASE Preparable(a, owner[a]) /\ preparation[a] = "held" /\ Constructs(a)
    BY <1>6, <2>1 DEF LoadReturns, Preparable, IsActive, Registers,
           Constructs
  <2>2. CASE Preparable(a, owner[a]) /\ preparation[a] = "held" /\ ConstructionFails(a)
    <3>1. /\ teardown' = [teardown EXCEPT ![a] = IF @ = "none" THEN "draining" ELSE @]
           /\ byOwner' = [byOwner EXCEPT ![a] = IF teardown[a] = "none" THEN FALSE ELSE @]
           /\ aborted' = [aborted EXCEPT ![a] = TRUE]
      BY <2>2, DisposeOne DEF ConstructionFails
    <3> QED BY <1>6, <2>2, <3>1 DEF LoadReturns, Preparable, IsActive,
           Registers, ConstructionFails
  <2>3. CASE Rejects(a) /\ follow' = [follow EXCEPT ![a] = "none"] /\
         UNCHANGED <<tracked, aborted, teardown, byOwner>>
    BY <1>6, <2>3 DEF LoadReturns, Rejects
  <2> QED BY <1>6, <2>1, <2>2, <2>3 DEF LoadReturns, Prepare
<1>7. ASSUME NEW a \in Attempts, SetupSettles(a) PROVE
         RejectedLeavesNothing'
  <2>1. CASE ~aborted[a] /\ step' = [step EXCEPT ![a] = "ready"] /\
         UNCHANGED <<teardown, byOwner, aborted>>
    BY <1>7, <2>1 DEF SetupSettles
  <2>2. CASE step' = [step EXCEPT ![a] = "failing"] /\ Dispose({a}, FALSE)
    <3>1. /\ teardown' = [teardown EXCEPT ![a] = IF @ = "none" THEN "draining" ELSE @]
           /\ byOwner' = [byOwner EXCEPT ![a] = IF teardown[a] = "none" THEN FALSE ELSE @]
           /\ aborted' = [aborted EXCEPT ![a] = TRUE]
      BY <2>2, DisposeOne
    <3> QED BY <1>7, <2>2, <3>1 DEF SetupSettles
  <2> QED BY <1>7, <2>1, <2>2 DEF SetupSettles
<1>8. ASSUME NEW a \in Attempts, Publish(a) PROVE RejectedLeavesNothing'
  <2>1. CASE ~aborted[a] /\ Enter(a) /\ step' = [step EXCEPT ![a] =
         "published"] /\ preparation' = [preparation EXCEPT ![a] =
         "released"] /\ UNCHANGED <<teardown, byOwner, aborted>>
    BY <1>8, <2>1 DEF Publish, Enter
  <2>2. CASE ~aborted[a] /\ Enter(a) /\ step' = [step EXCEPT ![a] =
         "failing"] /\ Dispose({a}, FALSE) /\ UNCHANGED preparation
    <3>1. /\ teardown' = [teardown EXCEPT ![a] = IF @ = "none" THEN "draining" ELSE @]
           /\ byOwner' = [byOwner EXCEPT ![a] = IF teardown[a] = "none" THEN FALSE ELSE @]
           /\ aborted' = [aborted EXCEPT ![a] = TRUE]
      BY <2>2, DisposeOne
    <3> QED BY <1>8, <2>2, <3>1 DEF Publish, Enter
  <2>3. CASE UNCHANGED entryVars /\ step' = [step EXCEPT ![a] = "failing"]
         /\ Dispose({a}, FALSE) /\ UNCHANGED preparation
    <3>1. /\ teardown' = [teardown EXCEPT ![a] = IF @ = "none" THEN "draining" ELSE @]
           /\ byOwner' = [byOwner EXCEPT ![a] = IF teardown[a] = "none" THEN FALSE ELSE @]
           /\ aborted' = [aborted EXCEPT ![a] = TRUE]
      BY <2>3, DisposeOne
    <3> QED BY <1>8, <2>3, <3>1 DEF Publish
  <2> QED BY <1>8, <2>1, <2>2, <2>3 DEF Publish, StillLive, EntersNothing
<1>9. ASSUME NEW a \in Attempts, Fails(a) PROVE RejectedLeavesNothing'
  BY <1>9 DEF Fails, RolledBack, Rejects
<1>10. ASSUME NEW a \in Attempts, Drained(a) PROVE RejectedLeavesNothing'
  BY <1>10 DEF Drained
<1>11. ASSUME NEW a \in Attempts, Unwound(a) PROVE RejectedLeavesNothing'
  BY <1>11 DEF Unwound, Detach
<1>12. ASSUME NEW a \in Attempts, Unfollowed(a) PROVE RejectedLeavesNothing'
  BY <1>12 DEF Unfollowed
<1>13. ASSUME NEW a \in Attempts, OwnerEffect(a) PROVE
         RejectedLeavesNothing'
  <2>1. CASE LoadEffect(a)
    BY <1>13, <2>1 DEF OwnerEffect, LoadEffect
  <2>2. CASE follow[a] = "lifecycle" /\ UNCHANGED <<loadAborted, aborted,
         teardown, byOwner, ownerAwaits>>
    BY <1>13, <2>2 DEF OwnerEffect
  <2>3. CASE follow[a] = "lifecycle" /\ teardown[a] = "none" /\ Dispose({a},
         TRUE) /\ ownerAwaits' = [ownerAwaits EXCEPT ![owner[a]] = @ \cup
         {a}] /\ UNCHANGED loadAborted
    <3>1. /\ teardown' = [teardown EXCEPT ![a] = IF @ = "none" THEN "draining" ELSE @]
           /\ byOwner' = [byOwner EXCEPT ![a] = IF teardown[a] = "none" THEN TRUE ELSE @]
           /\ aborted' = [aborted EXCEPT ![a] = TRUE]
      BY <2>3, DisposeOne
    <3> QED BY <1>13, <2>3, <3>1 DEF OwnerEffect
  <2> QED BY <1>13, <2>1, <2>2, <2>3 DEF OwnerEffect, LifecycleEffect
<1>14. ASSUME NEW a \in Attempts, CallerAborts(a) PROVE
         RejectedLeavesNothing'
  BY <1>14 DEF CallerAborts
<1>15. ASSUME NEW a \in Attempts, HandleDispose(a) PROVE
         RejectedLeavesNothing'
  <2>1. /\ teardown' = [teardown EXCEPT ![a] = IF @ = "none" THEN "draining" ELSE @]
         /\ byOwner' = [byOwner EXCEPT ![a] = IF teardown[a] = "none" THEN FALSE ELSE @]
         /\ aborted' = [aborted EXCEPT ![a] = TRUE]
    BY <1>15, DisposeOne DEF HandleDispose
  <2> QED BY <1>15, <2>1 DEF HandleDispose
<1>16. ASSUME NEW o \in Owners, OwnerUnloads(o) PROVE RejectedLeavesNothing'
  BY <1>16 DEF OwnerUnloads
<1>17. ASSUME NEW o \in Owners, OwnerUnloaded(o) PROVE
         RejectedLeavesNothing'
  BY <1>17 DEF OwnerUnloaded
<1>18. ASSUME FactoryUnloads PROVE RejectedLeavesNothing'
  BY <1>18 DEF FactoryUnloads
<1>19. ASSUME FactoryDisposes PROVE RejectedLeavesNothing'
  BY <1>19 DEF FactoryDisposes, Wrappers, Dispose, Starts
<1>20. ASSUME FactoryDisposed PROVE RejectedLeavesNothing'
  BY <1>20 DEF FactoryDisposed, Finished, NoWaits
<1>21. CASE UNCHANGED vars
  BY <1>21 DEF vars
<1> HIDE DEF TypeOK, LifeInv, RejectedLeavesNothing, Waiting, Over, Running,
      callVars, stateVars, lifeVars, entryVars, fiberVars
<1> QED BY <1>1, <1>2, <1>3, <1>4, <1>5, <1>6, <1>7, <1>8, <1>9, <1>10,
      <1>11, <1>12, <1>13, <1>14, <1>15, <1>16, <1>17, <1>18, <1>19, <1>20,
      <1>21 DEF Next, Call, Progress, Teardown, Unload

(* Every step keeps a published agent in the registries. *)
LEMMA PublishedStep == TypeOK /\ LifeInv /\ PublishedIsRegistered /\ [Next]_vars => PublishedIsRegistered'
<1> SUFFICES ASSUME TypeOK /\ LifeInv /\ PublishedIsRegistered, [Next]_vars PROVE PublishedIsRegistered'
  OBVIOUS
<1> USE NobodyAssumption DEF TypeOK, LifeInv, PublishedIsRegistered,
      Waiting, Over, Running, callVars, stateVars, lifeVars, entryVars,
      fiberVars
<1>1. ASSUME NEW a \in Attempts, NEW o \in Owners, Create(a, o) PROVE
         PublishedIsRegistered'
  <2>1. CASE Registers(a) /\ Enter(a) /\ step' = [step EXCEPT ![a] =
         "published"] /\ Fresh /\ Preparable(a, o) /\ UNCHANGED <<teardown,
         byOwner, aborted>>
    BY <1>1, <2>1 DEF Create, Begin, Fresh, Preparable, IsActive, Registers,
           Enter
  <2>2. CASE Registers(a) /\ (Enter(a) \/ EntersNothing) /\ step' = [step
         EXCEPT ![a] = "thrown"] /\ Fresh /\ Preparable(a, o) /\ Dispose({a}, FALSE)
    <3>1. /\ teardown' = [teardown EXCEPT ![a] = IF @ = "none" THEN "draining" ELSE @]
           /\ byOwner' = [byOwner EXCEPT ![a] = IF teardown[a] = "none" THEN FALSE ELSE @]
           /\ aborted' = [aborted EXCEPT ![a] = TRUE]
      BY <2>2, DisposeOne
    <3>2. CASE Enter(a)
      BY <1>1, <2>2, <3>1, <3>2 DEF Create, Begin, Fresh, Preparable,
           IsActive, Registers, Enter
    <3>3. CASE EntersNothing
      BY <1>1, <2>2, <3>1, <3>3 DEF Create, Begin, Fresh, Preparable,
           IsActive, Registers, EntersNothing
    <3> QED BY <2>2, <3>2, <3>3
  <2>3. CASE step' = [step EXCEPT ![a] = "rejected"] /\ UNCHANGED
         <<lifeVars, aborted, entryVars>>
    BY <1>1, <2>3 DEF Create, Begin
  <2> QED BY <1>1, <2>1, <2>2, <2>3 DEF Create
<1>2. ASSUME NEW a \in Attempts, NEW o \in Owners, CreateAgent(a, o) PROVE
         PublishedIsRegistered'
  <2>1. CASE Fresh /\ Preparable(a, o) /\ Constructs(a)
    BY <1>2, <2>1 DEF CreateAgent, Begin, Fresh, Preparable, IsActive, Registers,
           Constructs
  <2>2. CASE Fresh /\ Preparable(a, o) /\ ConstructionFails(a)
    <3>1. /\ teardown' = [teardown EXCEPT ![a] = IF @ = "none" THEN "draining" ELSE @]
           /\ byOwner' = [byOwner EXCEPT ![a] = IF teardown[a] = "none" THEN FALSE ELSE @]
           /\ aborted' = [aborted EXCEPT ![a] = TRUE]
      BY <2>2, DisposeOne DEF ConstructionFails
    <3> QED BY <1>2, <2>2, <3>1 DEF CreateAgent, Begin, Fresh, Preparable, IsActive,
           Registers, ConstructionFails
  <2>3. CASE Rejects(a) /\ UNCHANGED <<lifeVars, aborted>>
    BY <1>2, <2>3 DEF CreateAgent, Begin, Fresh, Rejects
  <2> QED BY <1>2, <2>1, <2>2, <2>3 DEF CreateAgent, Prepare
<1>3. ASSUME NEW a \in Attempts, NEW o \in Owners, Resume(a, o) PROVE
         PublishedIsRegistered'
  BY <1>3 DEF Resume, Begin, Rejects, FactoryAborted
<1>4. ASSUME NEW a \in Attempts, LoadSettles(a) PROVE PublishedIsRegistered'
  BY <1>4 DEF LoadSettles, LateArrival
<1>5. ASSUME NEW a \in Attempts, LoadAborts(a) PROVE PublishedIsRegistered'
  BY <1>5 DEF LoadAborts
<1>6. ASSUME NEW a \in Attempts, LoadReturns(a) PROVE PublishedIsRegistered'
  <2>1. CASE Preparable(a, owner[a]) /\ preparation[a] = "held" /\ Constructs(a)
    BY <1>6, <2>1 DEF LoadReturns, Preparable, IsActive, Registers,
           Constructs
  <2>2. CASE Preparable(a, owner[a]) /\ preparation[a] = "held" /\ ConstructionFails(a)
    <3>1. /\ teardown' = [teardown EXCEPT ![a] = IF @ = "none" THEN "draining" ELSE @]
           /\ byOwner' = [byOwner EXCEPT ![a] = IF teardown[a] = "none" THEN FALSE ELSE @]
           /\ aborted' = [aborted EXCEPT ![a] = TRUE]
      BY <2>2, DisposeOne DEF ConstructionFails
    <3> QED BY <1>6, <2>2, <3>1 DEF LoadReturns, Preparable, IsActive,
           Registers, ConstructionFails
  <2>3. CASE Rejects(a) /\ follow' = [follow EXCEPT ![a] = "none"] /\
         UNCHANGED <<tracked, aborted, teardown, byOwner>>
    BY <1>6, <2>3 DEF LoadReturns, Rejects
  <2> QED BY <1>6, <2>1, <2>2, <2>3 DEF LoadReturns, Prepare
<1>7. ASSUME NEW a \in Attempts, SetupSettles(a) PROVE
         PublishedIsRegistered'
  <2>1. CASE ~aborted[a] /\ step' = [step EXCEPT ![a] = "ready"] /\
         UNCHANGED <<teardown, byOwner, aborted>>
    BY <1>7, <2>1 DEF SetupSettles
  <2>2. CASE step' = [step EXCEPT ![a] = "failing"] /\ Dispose({a}, FALSE)
    <3>1. /\ teardown' = [teardown EXCEPT ![a] = IF @ = "none" THEN "draining" ELSE @]
           /\ byOwner' = [byOwner EXCEPT ![a] = IF teardown[a] = "none" THEN FALSE ELSE @]
           /\ aborted' = [aborted EXCEPT ![a] = TRUE]
      BY <2>2, DisposeOne
    <3> QED BY <1>7, <2>2, <3>1 DEF SetupSettles
  <2> QED BY <1>7, <2>1, <2>2 DEF SetupSettles
<1>8. ASSUME NEW a \in Attempts, Publish(a) PROVE PublishedIsRegistered'
  <2>1. CASE ~aborted[a] /\ Enter(a) /\ step' = [step EXCEPT ![a] =
         "published"] /\ preparation' = [preparation EXCEPT ![a] =
         "released"] /\ UNCHANGED <<teardown, byOwner, aborted>>
    BY <1>8, <2>1 DEF Publish, Enter
  <2>2. CASE ~aborted[a] /\ Enter(a) /\ step' = [step EXCEPT ![a] =
         "failing"] /\ Dispose({a}, FALSE) /\ UNCHANGED preparation
    <3>1. /\ teardown' = [teardown EXCEPT ![a] = IF @ = "none" THEN "draining" ELSE @]
           /\ byOwner' = [byOwner EXCEPT ![a] = IF teardown[a] = "none" THEN FALSE ELSE @]
           /\ aborted' = [aborted EXCEPT ![a] = TRUE]
      BY <2>2, DisposeOne
    <3> QED BY <1>8, <2>2, <3>1 DEF Publish, Enter
  <2>3. CASE UNCHANGED entryVars /\ step' = [step EXCEPT ![a] = "failing"]
         /\ Dispose({a}, FALSE) /\ UNCHANGED preparation
    <3>1. /\ teardown' = [teardown EXCEPT ![a] = IF @ = "none" THEN "draining" ELSE @]
           /\ byOwner' = [byOwner EXCEPT ![a] = IF teardown[a] = "none" THEN FALSE ELSE @]
           /\ aborted' = [aborted EXCEPT ![a] = TRUE]
      BY <2>3, DisposeOne
    <3> QED BY <1>8, <2>3, <3>1 DEF Publish
  <2> QED BY <1>8, <2>1, <2>2, <2>3 DEF Publish, StillLive, EntersNothing
<1>9. ASSUME NEW a \in Attempts, Fails(a) PROVE PublishedIsRegistered'
  BY <1>9 DEF Fails, RolledBack, Rejects
<1>10. ASSUME NEW a \in Attempts, Drained(a) PROVE PublishedIsRegistered'
  BY <1>10 DEF Drained
<1>11. ASSUME NEW a \in Attempts, Unwound(a) PROVE PublishedIsRegistered'
  BY <1>11 DEF Unwound, Detach
<1>12. ASSUME NEW a \in Attempts, Unfollowed(a) PROVE PublishedIsRegistered'
  BY <1>12 DEF Unfollowed
<1>13. ASSUME NEW a \in Attempts, OwnerEffect(a) PROVE
         PublishedIsRegistered'
  <2>1. CASE LoadEffect(a)
    BY <1>13, <2>1 DEF OwnerEffect, LoadEffect
  <2>2. CASE follow[a] = "lifecycle" /\ UNCHANGED <<loadAborted, aborted,
         teardown, byOwner, ownerAwaits>>
    BY <1>13, <2>2 DEF OwnerEffect
  <2>3. CASE follow[a] = "lifecycle" /\ teardown[a] = "none" /\ Dispose({a},
         TRUE) /\ ownerAwaits' = [ownerAwaits EXCEPT ![owner[a]] = @ \cup
         {a}] /\ UNCHANGED loadAborted
    <3>1. /\ teardown' = [teardown EXCEPT ![a] = IF @ = "none" THEN "draining" ELSE @]
           /\ byOwner' = [byOwner EXCEPT ![a] = IF teardown[a] = "none" THEN TRUE ELSE @]
           /\ aborted' = [aborted EXCEPT ![a] = TRUE]
      BY <2>3, DisposeOne
    <3> QED BY <1>13, <2>3, <3>1 DEF OwnerEffect
  <2> QED BY <1>13, <2>1, <2>2, <2>3 DEF OwnerEffect, LifecycleEffect
<1>14. ASSUME NEW a \in Attempts, CallerAborts(a) PROVE
         PublishedIsRegistered'
  BY <1>14 DEF CallerAborts
<1>15. ASSUME NEW a \in Attempts, HandleDispose(a) PROVE
         PublishedIsRegistered'
  <2>1. /\ teardown' = [teardown EXCEPT ![a] = IF @ = "none" THEN "draining" ELSE @]
         /\ byOwner' = [byOwner EXCEPT ![a] = IF teardown[a] = "none" THEN FALSE ELSE @]
         /\ aborted' = [aborted EXCEPT ![a] = TRUE]
    BY <1>15, DisposeOne DEF HandleDispose
  <2> QED BY <1>15, <2>1 DEF HandleDispose
<1>16. ASSUME NEW o \in Owners, OwnerUnloads(o) PROVE PublishedIsRegistered'
  BY <1>16 DEF OwnerUnloads
<1>17. ASSUME NEW o \in Owners, OwnerUnloaded(o) PROVE
         PublishedIsRegistered'
  BY <1>17 DEF OwnerUnloaded
<1>18. ASSUME FactoryUnloads PROVE PublishedIsRegistered'
  BY <1>18 DEF FactoryUnloads
<1>19. ASSUME FactoryDisposes PROVE PublishedIsRegistered'
  BY <1>19 DEF FactoryDisposes, Wrappers, Dispose, Starts
<1>20. ASSUME FactoryDisposed PROVE PublishedIsRegistered'
  BY <1>20 DEF FactoryDisposed, Finished, NoWaits
<1>21. CASE UNCHANGED vars
  BY <1>21 DEF vars
<1> HIDE DEF TypeOK, LifeInv, PublishedIsRegistered, Waiting, Over, Running,
      callVars, stateVars, lifeVars, entryVars, fiberVars
<1> QED BY <1>1, <1>2, <1>3, <1>4, <1>5, <1>6, <1>7, <1>8, <1>9, <1>10,
      <1>11, <1>12, <1>13, <1>14, <1>15, <1>16, <1>17, <1>18, <1>19, <1>20,
      <1>21 DEF Next, Call, Progress, Teardown, Unload

(* LifeInv holds in every reachable state. *)
LEMMA Lives == Spec => []LifeInv
<1>1. Init => LifeInv
  BY NobodyAssumption DEF Init, LifeInv
<1> QED BY <1>1, Types, LifeStep, PTL DEF Spec

(* Whatever makes an attempt fail, in the driver's construction too, and    *)
(* whenever the store answers: nothing of it stays that no teardown is      *)
(* about to remove.                                                         *)
THEOREM NothingLeft == Spec => []RejectedLeavesNothing
<1>1. Init => RejectedLeavesNothing
  BY DEF Init, RejectedLeavesNothing
<1> QED BY <1>1, Types, Lives, RejectedStep, PTL DEF Spec

(* However many attempts compete for an id, a published agent stays in both *)
(* registries until its own teardown has unwound.                           *)
THEOREM Registered == Spec => []PublishedIsRegistered
<1>1. Init => PublishedIsRegistered
  BY DEF Init, PublishedIsRegistered
<1> QED BY <1>1, Types, Lives, PublishedStep, PTL DEF Spec

-----------------------------------------------------------------------------
(* A factory that is disposing waits for every tracked teardown and every   *)
(* open call; a disposed one has none.                                      *)
FactoryInv ==
    /\ factory = "disposing" =>
          /\ tracked \subseteq factoryAwaits.teardowns
          /\ \A a \in Attempts : step[a] \in Waiting => a \in factoryAwaits.wrappers
    /\ factory = "disposed" =>
          /\ tracked = {}
          /\ \A a \in Attempts : step[a] \notin Waiting

(* Every step keeps FactoryInv. *)
LEMMA FactoryStep == TypeOK /\ LifeInv /\ FactoryInv /\ [Next]_vars => FactoryInv'
<1> SUFFICES ASSUME TypeOK /\ LifeInv /\ FactoryInv, [Next]_vars PROVE FactoryInv'
  OBVIOUS
<1> USE NobodyAssumption DEF TypeOK, LifeInv, FactoryInv, Waiting, Over,
      Running, callVars, stateVars, lifeVars, entryVars, fiberVars
<1>1. ASSUME NEW a \in Attempts, NEW o \in Owners, Create(a, o) PROVE
         FactoryInv'
  <2>1. CASE Registers(a) /\ Enter(a) /\ step' = [step EXCEPT ![a] =
         "published"] /\ Fresh /\ Preparable(a, o) /\ UNCHANGED <<teardown,
         byOwner, aborted>>
    BY <1>1, <2>1 DEF Create, Begin, Fresh, Preparable, IsActive, Registers,
           Enter
  <2>2. CASE Registers(a) /\ (Enter(a) \/ EntersNothing) /\ step' = [step
         EXCEPT ![a] = "thrown"] /\ Fresh /\ Preparable(a, o) /\ Dispose({a}, FALSE)
    <3>1. /\ teardown' = [teardown EXCEPT ![a] = IF @ = "none" THEN "draining" ELSE @]
           /\ byOwner' = [byOwner EXCEPT ![a] = IF teardown[a] = "none" THEN FALSE ELSE @]
           /\ aborted' = [aborted EXCEPT ![a] = TRUE]
      BY <2>2, DisposeOne
    <3>2. CASE Enter(a)
      BY <1>1, <2>2, <3>1, <3>2 DEF Create, Begin, Fresh, Preparable,
           IsActive, Registers, Enter
    <3>3. CASE EntersNothing
      BY <1>1, <2>2, <3>1, <3>3 DEF Create, Begin, Fresh, Preparable,
           IsActive, Registers, EntersNothing
    <3> QED BY <2>2, <3>2, <3>3
  <2>3. CASE step' = [step EXCEPT ![a] = "rejected"] /\ UNCHANGED
         <<lifeVars, aborted, entryVars>>
    BY <1>1, <2>3 DEF Create, Begin
  <2> QED BY <1>1, <2>1, <2>2, <2>3 DEF Create
<1>2. ASSUME NEW a \in Attempts, NEW o \in Owners, CreateAgent(a, o) PROVE
         FactoryInv'
  <2>1. CASE Fresh /\ Preparable(a, o) /\ Constructs(a)
    BY <1>2, <2>1 DEF CreateAgent, Begin, Fresh, Preparable, IsActive, Registers,
           Constructs
  <2>2. CASE Fresh /\ Preparable(a, o) /\ ConstructionFails(a)
    <3>1. /\ teardown' = [teardown EXCEPT ![a] = IF @ = "none" THEN "draining" ELSE @]
           /\ byOwner' = [byOwner EXCEPT ![a] = IF teardown[a] = "none" THEN FALSE ELSE @]
           /\ aborted' = [aborted EXCEPT ![a] = TRUE]
      BY <2>2, DisposeOne DEF ConstructionFails
    <3> QED BY <1>2, <2>2, <3>1 DEF CreateAgent, Begin, Fresh, Preparable, IsActive,
           Registers, ConstructionFails
  <2>3. CASE Rejects(a) /\ UNCHANGED <<lifeVars, aborted>>
    BY <1>2, <2>3 DEF CreateAgent, Begin, Fresh, Rejects
  <2> QED BY <1>2, <2>1, <2>2, <2>3 DEF CreateAgent, Prepare
<1>3. ASSUME NEW a \in Attempts, NEW o \in Owners, Resume(a, o) PROVE
         FactoryInv'
  BY <1>3 DEF Resume, Begin, Rejects, FactoryAborted
<1>4. ASSUME NEW a \in Attempts, LoadSettles(a) PROVE FactoryInv'
  BY <1>4 DEF LoadSettles, LateArrival
<1>5. ASSUME NEW a \in Attempts, LoadAborts(a) PROVE FactoryInv'
  BY <1>5 DEF LoadAborts
<1>6. ASSUME NEW a \in Attempts, LoadReturns(a) PROVE FactoryInv'
  <2>1. CASE Preparable(a, owner[a]) /\ preparation[a] = "held" /\ Constructs(a)
    BY <1>6, <2>1 DEF LoadReturns, Preparable, IsActive, Registers,
           Constructs
  <2>2. CASE Preparable(a, owner[a]) /\ preparation[a] = "held" /\ ConstructionFails(a)
    <3>1. /\ teardown' = [teardown EXCEPT ![a] = IF @ = "none" THEN "draining" ELSE @]
           /\ byOwner' = [byOwner EXCEPT ![a] = IF teardown[a] = "none" THEN FALSE ELSE @]
           /\ aborted' = [aborted EXCEPT ![a] = TRUE]
      BY <2>2, DisposeOne DEF ConstructionFails
    <3> QED BY <1>6, <2>2, <3>1 DEF LoadReturns, Preparable, IsActive,
           Registers, ConstructionFails
  <2>3. CASE Rejects(a) /\ follow' = [follow EXCEPT ![a] = "none"] /\
         UNCHANGED <<tracked, aborted, teardown, byOwner>>
    BY <1>6, <2>3 DEF LoadReturns, Rejects
  <2> QED BY <1>6, <2>1, <2>2, <2>3 DEF LoadReturns, Prepare
<1>7. ASSUME NEW a \in Attempts, SetupSettles(a) PROVE FactoryInv'
  <2>1. CASE ~aborted[a] /\ step' = [step EXCEPT ![a] = "ready"] /\
         UNCHANGED <<teardown, byOwner, aborted>>
    BY <1>7, <2>1 DEF SetupSettles
  <2>2. CASE step' = [step EXCEPT ![a] = "failing"] /\ Dispose({a}, FALSE)
    <3>1. /\ teardown' = [teardown EXCEPT ![a] = IF @ = "none" THEN "draining" ELSE @]
           /\ byOwner' = [byOwner EXCEPT ![a] = IF teardown[a] = "none" THEN FALSE ELSE @]
           /\ aborted' = [aborted EXCEPT ![a] = TRUE]
      BY <2>2, DisposeOne
    <3> QED BY <1>7, <2>2, <3>1 DEF SetupSettles
  <2> QED BY <1>7, <2>1, <2>2 DEF SetupSettles
<1>8. ASSUME NEW a \in Attempts, Publish(a) PROVE FactoryInv'
  <2>1. CASE ~aborted[a] /\ Enter(a) /\ step' = [step EXCEPT ![a] =
         "published"] /\ preparation' = [preparation EXCEPT ![a] =
         "released"] /\ UNCHANGED <<teardown, byOwner, aborted>>
    BY <1>8, <2>1 DEF Publish, Enter
  <2>2. CASE ~aborted[a] /\ Enter(a) /\ step' = [step EXCEPT ![a] =
         "failing"] /\ Dispose({a}, FALSE) /\ UNCHANGED preparation
    <3>1. /\ teardown' = [teardown EXCEPT ![a] = IF @ = "none" THEN "draining" ELSE @]
           /\ byOwner' = [byOwner EXCEPT ![a] = IF teardown[a] = "none" THEN FALSE ELSE @]
           /\ aborted' = [aborted EXCEPT ![a] = TRUE]
      BY <2>2, DisposeOne
    <3> QED BY <1>8, <2>2, <3>1 DEF Publish, Enter
  <2>3. CASE UNCHANGED entryVars /\ step' = [step EXCEPT ![a] = "failing"]
         /\ Dispose({a}, FALSE) /\ UNCHANGED preparation
    <3>1. /\ teardown' = [teardown EXCEPT ![a] = IF @ = "none" THEN "draining" ELSE @]
           /\ byOwner' = [byOwner EXCEPT ![a] = IF teardown[a] = "none" THEN FALSE ELSE @]
           /\ aborted' = [aborted EXCEPT ![a] = TRUE]
      BY <2>3, DisposeOne
    <3> QED BY <1>8, <2>3, <3>1 DEF Publish
  <2> QED BY <1>8, <2>1, <2>2, <2>3 DEF Publish, StillLive, EntersNothing
<1>9. ASSUME NEW a \in Attempts, Fails(a) PROVE FactoryInv'
  BY <1>9 DEF Fails, RolledBack, Rejects
<1>10. ASSUME NEW a \in Attempts, Drained(a) PROVE FactoryInv'
  BY <1>10 DEF Drained
<1>11. ASSUME NEW a \in Attempts, Unwound(a) PROVE FactoryInv'
  BY <1>11 DEF Unwound, Detach
<1>12. ASSUME NEW a \in Attempts, Unfollowed(a) PROVE FactoryInv'
  BY <1>12 DEF Unfollowed
<1>13. ASSUME NEW a \in Attempts, OwnerEffect(a) PROVE FactoryInv'
  <2>1. CASE LoadEffect(a)
    BY <1>13, <2>1 DEF OwnerEffect, LoadEffect
  <2>2. CASE follow[a] = "lifecycle" /\ UNCHANGED <<loadAborted, aborted,
         teardown, byOwner, ownerAwaits>>
    BY <1>13, <2>2 DEF OwnerEffect
  <2>3. CASE follow[a] = "lifecycle" /\ teardown[a] = "none" /\ Dispose({a},
         TRUE) /\ ownerAwaits' = [ownerAwaits EXCEPT ![owner[a]] = @ \cup
         {a}] /\ UNCHANGED loadAborted
    <3>1. /\ teardown' = [teardown EXCEPT ![a] = IF @ = "none" THEN "draining" ELSE @]
           /\ byOwner' = [byOwner EXCEPT ![a] = IF teardown[a] = "none" THEN TRUE ELSE @]
           /\ aborted' = [aborted EXCEPT ![a] = TRUE]
      BY <2>3, DisposeOne
    <3> QED BY <1>13, <2>3, <3>1 DEF OwnerEffect
  <2> QED BY <1>13, <2>1, <2>2, <2>3 DEF OwnerEffect, LifecycleEffect
<1>14. ASSUME NEW a \in Attempts, CallerAborts(a) PROVE FactoryInv'
  BY <1>14 DEF CallerAborts
<1>15. ASSUME NEW a \in Attempts, HandleDispose(a) PROVE FactoryInv'
  <2>1. /\ teardown' = [teardown EXCEPT ![a] = IF @ = "none" THEN "draining" ELSE @]
         /\ byOwner' = [byOwner EXCEPT ![a] = IF teardown[a] = "none" THEN FALSE ELSE @]
         /\ aborted' = [aborted EXCEPT ![a] = TRUE]
    BY <1>15, DisposeOne DEF HandleDispose
  <2> QED BY <1>15, <2>1 DEF HandleDispose
<1>16. ASSUME NEW o \in Owners, OwnerUnloads(o) PROVE FactoryInv'
  BY <1>16 DEF OwnerUnloads
<1>17. ASSUME NEW o \in Owners, OwnerUnloaded(o) PROVE FactoryInv'
  BY <1>17 DEF OwnerUnloaded
<1>18. ASSUME FactoryUnloads PROVE FactoryInv'
  BY <1>18 DEF FactoryUnloads
<1>19. ASSUME FactoryDisposes PROVE FactoryInv'
  BY <1>19 DEF FactoryDisposes, Wrappers, Dispose, Starts
<1>20. ASSUME FactoryDisposed PROVE FactoryInv'
  BY <1>20 DEF FactoryDisposed, Finished, NoWaits
<1>21. CASE UNCHANGED vars
  BY <1>21 DEF vars
<1> HIDE DEF TypeOK, LifeInv, FactoryInv, Waiting, Over, Running, callVars,
      stateVars, lifeVars, entryVars, fiberVars
<1> QED BY <1>1, <1>2, <1>3, <1>4, <1>5, <1>6, <1>7, <1>8, <1>9, <1>10,
      <1>11, <1>12, <1>13, <1>14, <1>15, <1>16, <1>17, <1>18, <1>19, <1>20,
      <1>21 DEF Next, Call, Progress, Teardown, Unload

(* Once the factory is disposed nothing of it runs or will ever publish. *)
THEOREM Quiescent == Spec => []FactoryQuiescent
<1>1. Init => FactoryInv
  BY DEF Init, FactoryInv
<1>2. TypeOK /\ LifeInv /\ FactoryInv => FactoryQuiescent
  BY NobodyAssumption DEF TypeOK, LifeInv, FactoryInv, FactoryQuiescent
<1> QED BY <1>1, <1>2, Types, Lives, FactoryStep, PTL DEF Spec

=============================================================================
