---------------------------- MODULE TasksProofs ----------------------------
(***************************************************************************)
(* Theorems about Tasks for any sets of tasks, agents and calls.  Three    *)
(* inductive invariants, one on top of another: the types; how the store,  *)
(* the owners' cleanups and the lifecycles go together; who is counted as  *)
(* a waiter and why a live task may be reported.                           *)
(***************************************************************************)
EXTENDS Tasks, TLAPS

(* What handing out and settling do to the types. *)
LEMMA HandOutTypes ==
    ASSUME TypeOK, NEW t \in Tasks, HandOut(t)
    PROVE  reported' \in [Tasks -> BOOLEAN] /\ served' \subseteq Tasks
  BY DEF TypeOK, HandOut

(* A settlement keeps the types. *)
LEMMA OutcomeTypes ==
    ASSUME TypeOK, NEW S \in SUBSET Tasks, NEW end \in Terminal, Outcome(S, end)
    PROVE  /\ status' \in [Tasks -> {"none"} \cup Live \cup Terminal]
           /\ reported' \in [Tasks -> BOOLEAN]
           /\ notices' \in [Tasks -> Nat] /\ deaf' \subseteq Tasks
<1>1. status' \in [Tasks -> {"none"} \cup Live \cup Terminal]
  BY DEF TypeOK, Outcome
<1>2. reported' \in [Tasks -> BOOLEAN]
  BY DEF TypeOK, Outcome
<1>3. notices' \in [Tasks -> Nat] /\ deaf' \subseteq Tasks
  BY DEF TypeOK, Outcome
<1> QED BY <1>1, <1>2, <1>3

(* Every step keeps the types. *)
LEMMA TypeStep == TypeOK /\ [Next]_vars => TypeOK'
<1> SUFFICES ASSUME TypeOK, [Next]_vars PROVE TypeOK'
  OBVIOUS
<1> USE NoOneAssumption, EndsAssumption DEF TypeOK, Live, Terminal, Ended,
      Calm, InProgress, recordVars, outcomeVars, callVars, scopeVars,
      historyVars
<1>1. ASSUME NEW t \in Tasks, NEW a \in Agents \cup {NoOne}, NEW r \in
         BOOLEAN, Start(t, a, r) PROVE TypeOK'
  BY <1>1 DEF Start, OwnerAccepts
<1>2. ASSUME NEW t \in Tasks, NEW end \in Ends, ProducerDone(t, end) PROVE
         TypeOK'
  BY <1>2, OutcomeTypes DEF ProducerDone, Settle
<1>3. ASSUME NEW t \in Tasks, Kill(t) PROVE TypeOK'
  BY <1>3 DEF Kill
<1>4. ASSUME SettleReleases PROVE TypeOK'
  BY <1>4 DEF SettleReleases, Release
<1>5. ASSUME NEW c \in Calls, NEW a \in Agents, NEW t \in Tasks, NEW w \in
         BOOLEAN, BeginOutput(c, a, t, w) PROVE TypeOK'
  BY <1>5, HandOutTypes DEF BeginOutput, NotesOnlyCalls, Visible
<1>6. ASSUME NEW c \in Calls, WaitTimesOut(c) PROVE TypeOK'
  BY <1>6 DEF WaitTimesOut
<1>7. ASSUME NEW c \in Calls, Abort(c) PROVE TypeOK'
  BY <1>7 DEF Abort, AbortCalls, CountedOut, Rejected
<1>8. ASSUME NEW c \in Calls, WaitReturns(c) PROVE TypeOK'
  BY <1>8, HandOutTypes DEF WaitReturns, Uncounted, NotesOnlyCalls
<1>9. ASSUME NEW c \in Calls, WaitThrows(c) PROVE TypeOK'
  BY <1>9 DEF WaitThrows, Uncounted, NotesOnlyCalls
<1>10. ASSUME NEW c \in Calls, ReadsOutput(c) PROVE TypeOK'
  BY <1>10, HandOutTypes DEF ReadsOutput, NotesOnlyCalls
<1>11. ASSUME NEW c \in Calls, OutputReturns(c) PROVE TypeOK'
  BY <1>11 DEF OutputReturns, NotesOnlyCalls
<1>12. ASSUME NEW a \in Agents, AgentCancel(a) PROVE TypeOK'
  BY <1>12 DEF AgentCancel, AbortCalls, CountedOut, Rejected
<1>13. ASSUME NEW a \in Agents, ScopeDispose(a) PROVE TypeOK'
  BY <1>13 DEF ScopeDispose, NotesOnlyTeardown
<1>14. ASSUME NEW a \in Agents, OwnerCleanup(a) PROVE TypeOK'
  BY <1>14 DEF OwnerCleanup, CancelForTeardown, Cancellable, Forced,
         Listening, Release, ForgetCleanup, NotesOnlyTeardown
<1>15. ASSUME NEW a \in Agents, NoCleanup(a) PROVE TypeOK'
  BY <1>15 DEF NoCleanup, NotesOnlyTeardown
<1>16. ASSUME NEW a \in Agents, OwnerCleaned(a) PROVE TypeOK'
  BY <1>16 DEF OwnerCleaned, Settled
<1>17. ASSUME DisposeAll PROVE TypeOK'
  BY <1>17 DEF DisposeAll, CancelForTeardown, Cancellable, Forced,
         Listening, Release, NotesOnlyTeardown
<1>18. ASSUME DisposeAllDone PROVE TypeOK'
  BY <1>18 DEF DisposeAllDone, Settled, DetachCleanups
<1>19. ASSUME ReloadTools PROVE TypeOK'
  BY <1>19 DEF ReloadTools
<1>20. CASE UNCHANGED vars
  BY <1>20 DEF vars
<1> HIDE DEF TypeOK, Live, Terminal, Ended, Calm, InProgress, recordVars,
      outcomeVars, callVars, scopeVars, historyVars
<1> QED BY <1>1, <1>2, <1>3, <1>4, <1>5, <1>6, <1>7, <1>8, <1>9, <1>10,
      <1>11, <1>12, <1>13, <1>14, <1>15, <1>16, <1>17, <1>18, <1>19, <1>20
      DEF Next, Produce, CallStep, Teardown

(* The types hold in every reachable state. *)
THEOREM Types == Spec => []TypeOK
<1>1. Init => TypeOK
  BY NoOneAssumption DEF Init, TypeOK, Live, Terminal, InProgress
<1> QED BY <1>1, TypeStep, PTL DEF Spec

-----------------------------------------------------------------------------
(* A live task is in the store, whoever is being disposed of; a stored task *)
(* of an agent is covered by its cleanup effect, or by the one that runs;   *)
(* and no cleanup is attached once the effect has run.                      *)
ScopeInv ==
    /\ surface => service = "active"
    /\ \A t \in Tasks : status[t] \in Live => t \in store
    /\ service = "closing" => store \subseteq awaited[NoOne]
    /\ service = "closed" => store = {} /\ attached = {}
    /\ \A a \in Agents : agent[a] = "cleaning" =>
          \A t \in store : owner[t] = a => t \in awaited[a]
    /\ \A a \in Agents : agent[a] \in {"cleaning", "gone"} => a \notin attached
    /\ \A t \in store : owner[t] \in Agents =>
          owner[t] \in attached \/ agent[owner[t]] = "cleaning"

(* Every step keeps ScopeInv. *)
LEMMA ScopeStep == TypeOK /\ ScopeInv /\ [Next]_vars => ScopeInv'
<1> SUFFICES ASSUME TypeOK /\ ScopeInv, [Next]_vars PROVE ScopeInv'
  OBVIOUS
<1> USE NoOneAssumption, EndsAssumption DEF TypeOK, ScopeInv, Live,
      Terminal, Ended, Calm, InProgress, recordVars, outcomeVars, callVars,
      scopeVars, historyVars
<1>1. ASSUME NEW t \in Tasks, NEW a \in Agents \cup {NoOne}, NEW r \in
         BOOLEAN, Start(t, a, r) PROVE ScopeInv'
  BY <1>1 DEF Start, OwnerAccepts
<1>2. ASSUME NEW t \in Tasks, NEW end \in Ends, ProducerDone(t, end) PROVE
         ScopeInv'
  BY <1>2 DEF ProducerDone, Settle, Outcome, Listening
<1>3. ASSUME NEW t \in Tasks, Kill(t) PROVE ScopeInv'
  BY <1>3 DEF Kill
<1>4. ASSUME SettleReleases PROVE ScopeInv'
  BY <1>4 DEF SettleReleases, Release
<1>5. ASSUME NEW c \in Calls, NEW a \in Agents, NEW t \in Tasks, NEW w \in
         BOOLEAN, BeginOutput(c, a, t, w) PROVE ScopeInv'
  BY <1>5 DEF BeginOutput, HandOut, NotesOnlyCalls, Visible
<1>6. ASSUME NEW c \in Calls, WaitTimesOut(c) PROVE ScopeInv'
  BY <1>6 DEF WaitTimesOut
<1>7. ASSUME NEW c \in Calls, Abort(c) PROVE ScopeInv'
  BY <1>7 DEF Abort, AbortCalls, CountedOut, Rejected
<1>8. ASSUME NEW c \in Calls, WaitReturns(c) PROVE ScopeInv'
  BY <1>8 DEF WaitReturns, Uncounted, HandOut, NotesOnlyCalls
<1>9. ASSUME NEW c \in Calls, WaitThrows(c) PROVE ScopeInv'
  BY <1>9 DEF WaitThrows, Uncounted, NotesOnlyCalls
<1>10. ASSUME NEW c \in Calls, ReadsOutput(c) PROVE ScopeInv'
  BY <1>10 DEF ReadsOutput, HandOut, NotesOnlyCalls
<1>11. ASSUME NEW c \in Calls, OutputReturns(c) PROVE ScopeInv'
  BY <1>11 DEF OutputReturns, NotesOnlyCalls
<1>12. ASSUME NEW a \in Agents, AgentCancel(a) PROVE ScopeInv'
  BY <1>12 DEF AgentCancel, AbortCalls, CountedOut, Rejected
<1>13. ASSUME NEW a \in Agents, ScopeDispose(a) PROVE ScopeInv'
  BY <1>13 DEF ScopeDispose, NotesOnlyTeardown
<1>14. ASSUME NEW a \in Agents, OwnerCleanup(a) PROVE ScopeInv'
  BY <1>14 DEF OwnerCleanup, CancelForTeardown, Cancellable, Forced,
         Listening, Release, ForgetCleanup, NotesOnlyTeardown
<1>15. ASSUME NEW a \in Agents, NoCleanup(a) PROVE ScopeInv'
  BY <1>15 DEF NoCleanup, NotesOnlyTeardown
<1>16. ASSUME NEW a \in Agents, OwnerCleaned(a) PROVE ScopeInv'
  BY <1>16 DEF OwnerCleaned, Settled
<1>17. ASSUME DisposeAll PROVE ScopeInv'
  BY <1>17 DEF DisposeAll, CancelForTeardown, Cancellable, Forced,
         Listening, Release, NotesOnlyTeardown
<1>18. ASSUME DisposeAllDone PROVE ScopeInv'
  BY <1>18 DEF DisposeAllDone, Settled, DetachCleanups
<1>19. ASSUME ReloadTools PROVE ScopeInv'
  BY <1>19 DEF ReloadTools
<1>20. CASE UNCHANGED vars
  BY <1>20 DEF vars
<1> HIDE DEF TypeOK, ScopeInv, Live, Terminal, Ended, Calm, InProgress,
      recordVars, outcomeVars, callVars, scopeVars, historyVars
<1> QED BY <1>1, <1>2, <1>3, <1>4, <1>5, <1>6, <1>7, <1>8, <1>9, <1>10,
      <1>11, <1>12, <1>13, <1>14, <1>15, <1>16, <1>17, <1>18, <1>19, <1>20
      DEF Next, Produce, CallStep, Teardown

(* A finished teardown leaves nothing, whatever is started while it runs. *)
THEOREM NothingLeft == Spec => []TeardownLeavesNothing
<1>1. Init => ScopeInv
  BY DEF Init, ScopeInv, Live
<1>2. TypeOK /\ ScopeInv => TeardownLeavesNothing
  BY NoOneAssumption DEF TypeOK, ScopeInv, TeardownLeavesNothing
<1> QED BY <1>1, <1>2, Types, ScopeStep, PTL DEF Spec

-----------------------------------------------------------------------------
(* A counted waiter will return, not reject; only a kill reports a task     *)
(* that is still live.                                                      *)
TellInv ==
    /\ OutcomeIsTold
    /\ \A t \in Tasks : \A c \in waiters[t] :
          on[c] = t /\ call[c] \in {"waiting", "woken"}
    /\ \A t \in Tasks : reported[t] /\ ~Ended(t) => t \in asked

(* Every step keeps TellInv. *)
LEMMA TellStep == TypeOK /\ TellInv /\ [Next]_vars => TellInv'
<1> SUFFICES ASSUME TypeOK /\ TellInv, [Next]_vars PROVE TellInv'
  OBVIOUS
<1> USE NoOneAssumption, EndsAssumption DEF TypeOK, TellInv, OutcomeIsTold,
      Owed, Live, Terminal, Ended, Calm, InProgress, recordVars,
      outcomeVars, callVars, scopeVars, historyVars
<1>1. ASSUME NEW t \in Tasks, NEW a \in Agents \cup {NoOne}, NEW r \in
         BOOLEAN, Start(t, a, r) PROVE TellInv'
  BY <1>1 DEF Start, OwnerAccepts
<1>2. ASSUME NEW t \in Tasks, NEW end \in Ends, ProducerDone(t, end) PROVE
         TellInv'
  BY <1>2 DEF ProducerDone, Settle, Outcome, Listening
<1>3. ASSUME NEW t \in Tasks, Kill(t) PROVE TellInv'
  BY <1>3 DEF Kill
<1>4. ASSUME SettleReleases PROVE TellInv'
  BY <1>4 DEF SettleReleases, Release
<1>5. ASSUME NEW c \in Calls, NEW a \in Agents, NEW t \in Tasks, NEW w \in
         BOOLEAN, BeginOutput(c, a, t, w) PROVE TellInv'
  <2>1. CASE w /\ ~Ended(t)
    <3>1. /\ call' = [call EXCEPT ![c] = "waiting"] /\ on' = [on EXCEPT ![c] = t]
          /\ waiters' = [waiters EXCEPT ![t] = @ \cup {c}]
          /\ UNCHANGED <<recordVars, outcomeVars, historyVars>>
      BY <1>5, <2>1 DEF BeginOutput, NotesOnlyCalls
    <3>2. \A u \in Tasks : Owed(u) => Owed(u)'
      BY <1>5, <3>1 DEF BeginOutput
    <3> QED BY <1>5, <3>1, <3>2 DEF BeginOutput
  <2>2. CASE ~(w /\ ~Ended(t))
    <3>1. /\ call' = [call EXCEPT ![c] = IF w THEN "exited" ELSE "returned"]
          /\ on' = [on EXCEPT ![c] = t]
          /\ UNCHANGED <<waiters, status, owner, notices, deaf, asked>> /\ HandOut(t)
      BY <1>5, <2>2 DEF BeginOutput, NotesOnlyCalls
    <3>2. \A u \in Tasks : Owed(u) => Owed(u)'
      BY <1>5, <3>1 DEF BeginOutput
    <3>3. OutcomeIsTold'
      BY <1>5, <3>1, <3>2 DEF HandOut
    <3>4. \A u \in Tasks : \A d \in waiters'[u] :
            on'[d] = u /\ call'[d] \in {"waiting", "woken"}
      BY <1>5, <3>1 DEF BeginOutput
    <3>5. \A u \in Tasks : reported'[u] /\ ~Ended(u)' => u \in asked'
      BY <1>5, <3>1 DEF HandOut
    <3> QED BY <3>3, <3>4, <3>5
  <2> QED BY <2>1, <2>2
<1>6. ASSUME NEW c \in Calls, WaitTimesOut(c) PROVE TellInv'
  BY <1>6 DEF WaitTimesOut
<1>7. ASSUME NEW c \in Calls, Abort(c) PROVE TellInv'
  BY <1>7 DEF Abort, AbortCalls, CountedOut, Rejected
<1>8. ASSUME NEW c \in Calls, WaitReturns(c) PROVE TellInv'
  BY <1>8 DEF WaitReturns, Uncounted, HandOut, NotesOnlyCalls
<1>9. ASSUME NEW c \in Calls, WaitThrows(c) PROVE TellInv'
  BY <1>9 DEF WaitThrows, Uncounted, NotesOnlyCalls
<1>10. ASSUME NEW c \in Calls, ReadsOutput(c) PROVE TellInv'
  BY <1>10 DEF ReadsOutput, HandOut, NotesOnlyCalls
<1>11. ASSUME NEW c \in Calls, OutputReturns(c) PROVE TellInv'
  BY <1>11 DEF OutputReturns, NotesOnlyCalls
<1>12. ASSUME NEW a \in Agents, AgentCancel(a) PROVE TellInv'
  BY <1>12 DEF AgentCancel, AbortCalls, CountedOut, Rejected
<1>13. ASSUME NEW a \in Agents, ScopeDispose(a) PROVE TellInv'
  BY <1>13 DEF ScopeDispose, NotesOnlyTeardown
<1>14. ASSUME NEW a \in Agents, OwnerCleanup(a) PROVE TellInv'
  BY <1>14 DEF OwnerCleanup, CancelForTeardown, Cancellable, Forced,
         Listening, Release, ForgetCleanup, NotesOnlyTeardown
<1>15. ASSUME NEW a \in Agents, NoCleanup(a) PROVE TellInv'
  BY <1>15 DEF NoCleanup, NotesOnlyTeardown
<1>16. ASSUME NEW a \in Agents, OwnerCleaned(a) PROVE TellInv'
  BY <1>16 DEF OwnerCleaned, Settled
<1>17. ASSUME DisposeAll PROVE TellInv'
  BY <1>17 DEF DisposeAll, CancelForTeardown, Cancellable, Forced,
         Listening, Release, NotesOnlyTeardown
<1>18. ASSUME DisposeAllDone PROVE TellInv'
  BY <1>18 DEF DisposeAllDone, Settled, DetachCleanups
<1>19. ASSUME ReloadTools PROVE TellInv'
  BY <1>19 DEF ReloadTools
<1>20. CASE UNCHANGED vars
  BY <1>20 DEF vars
<1> HIDE DEF TypeOK, TellInv, OutcomeIsTold, Owed, Live, Terminal, Ended,
      Calm, InProgress, recordVars, outcomeVars, callVars, scopeVars,
      historyVars
<1> QED BY <1>1, <1>2, <1>3, <1>4, <1>5, <1>6, <1>7, <1>8, <1>9, <1>10,
      <1>11, <1>12, <1>13, <1>14, <1>15, <1>16, <1>17, <1>18, <1>19, <1>20
      DEF Next, Produce, CallStep, Teardown

(* Every outcome is announced, handed out, or owed to a wait that returns. *)
THEOREM Told == Spec => []OutcomeIsTold
<1>1. Init => TellInv
  BY DEF Init, TellInv, OutcomeIsTold, Ended, Terminal
<1>2. TellInv => OutcomeIsTold
  BY DEF TellInv
<1> QED BY <1>1, <1>2, Types, TellStep, PTL DEF Spec

-----------------------------------------------------------------------------

(* No step of any actor touches a terminal record or announces it again. *)
LEMMA StandsStep == TypeOK /\ [Next]_vars => OutcomesStand
<1> SUFFICES ASSUME TypeOK, [Next]_vars PROVE OutcomesStand
  OBVIOUS
<1> USE NoOneAssumption, EndsAssumption DEF TypeOK, OutcomesStand, Live,
      Terminal, Ended, Calm, InProgress, recordVars, outcomeVars, callVars,
      scopeVars, historyVars
<1>1. ASSUME NEW t \in Tasks, NEW a \in Agents \cup {NoOne}, NEW r \in
         BOOLEAN, Start(t, a, r) PROVE OutcomesStand
  BY <1>1 DEF Start, OwnerAccepts
<1>2. ASSUME NEW t \in Tasks, NEW end \in Ends, ProducerDone(t, end) PROVE
         OutcomesStand
  BY <1>2 DEF ProducerDone, Settle, Outcome, Listening
<1>3. ASSUME NEW t \in Tasks, Kill(t) PROVE OutcomesStand
  BY <1>3 DEF Kill
<1>4. ASSUME SettleReleases PROVE OutcomesStand
  BY <1>4 DEF SettleReleases, Release
<1>5. ASSUME NEW c \in Calls, NEW a \in Agents, NEW t \in Tasks, NEW w \in
         BOOLEAN, BeginOutput(c, a, t, w) PROVE OutcomesStand
  BY <1>5 DEF BeginOutput, HandOut, NotesOnlyCalls, Visible
<1>6. ASSUME NEW c \in Calls, WaitTimesOut(c) PROVE OutcomesStand
  BY <1>6 DEF WaitTimesOut
<1>7. ASSUME NEW c \in Calls, Abort(c) PROVE OutcomesStand
  BY <1>7 DEF Abort, AbortCalls, CountedOut, Rejected
<1>8. ASSUME NEW c \in Calls, WaitReturns(c) PROVE OutcomesStand
  BY <1>8 DEF WaitReturns, Uncounted, HandOut, NotesOnlyCalls
<1>9. ASSUME NEW c \in Calls, WaitThrows(c) PROVE OutcomesStand
  BY <1>9 DEF WaitThrows, Uncounted, NotesOnlyCalls
<1>10. ASSUME NEW c \in Calls, ReadsOutput(c) PROVE OutcomesStand
  BY <1>10 DEF ReadsOutput, HandOut, NotesOnlyCalls
<1>11. ASSUME NEW c \in Calls, OutputReturns(c) PROVE OutcomesStand
  BY <1>11 DEF OutputReturns, NotesOnlyCalls
<1>12. ASSUME NEW a \in Agents, AgentCancel(a) PROVE OutcomesStand
  BY <1>12 DEF AgentCancel, AbortCalls, CountedOut, Rejected
<1>13. ASSUME NEW a \in Agents, ScopeDispose(a) PROVE OutcomesStand
  BY <1>13 DEF ScopeDispose, NotesOnlyTeardown
<1>14. ASSUME NEW a \in Agents, OwnerCleanup(a) PROVE OutcomesStand
  BY <1>14 DEF OwnerCleanup, CancelForTeardown, Cancellable, Forced,
         Listening, Release, ForgetCleanup, NotesOnlyTeardown
<1>15. ASSUME NEW a \in Agents, NoCleanup(a) PROVE OutcomesStand
  BY <1>15 DEF NoCleanup, NotesOnlyTeardown
<1>16. ASSUME NEW a \in Agents, OwnerCleaned(a) PROVE OutcomesStand
  BY <1>16 DEF OwnerCleaned, Settled
<1>17. ASSUME DisposeAll PROVE OutcomesStand
  BY <1>17 DEF DisposeAll, CancelForTeardown, Cancellable, Forced,
         Listening, Release, NotesOnlyTeardown
<1>18. ASSUME DisposeAllDone PROVE OutcomesStand
  BY <1>18 DEF DisposeAllDone, Settled, DetachCleanups
<1>19. ASSUME ReloadTools PROVE OutcomesStand
  BY <1>19 DEF ReloadTools
<1>20. CASE UNCHANGED vars
  BY <1>20 DEF vars
<1> HIDE DEF TypeOK, OutcomesStand, Live, Terminal, Ended, Calm, InProgress,
      recordVars, outcomeVars, callVars, scopeVars, historyVars
<1> QED BY <1>1, <1>2, <1>3, <1>4, <1>5, <1>6, <1>7, <1>8, <1>9, <1>10,
      <1>11, <1>12, <1>13, <1>14, <1>15, <1>16, <1>17, <1>18, <1>19, <1>20
      DEF Next, Produce, CallStep, Teardown

(* The first outcome of a task stands against every later one. *)
THEOREM FirstOutcome == Spec => FirstOutcomeStands
<1> QED BY Types, StandsStep, PTL DEF Spec, FirstOutcomeStands

=============================================================================
