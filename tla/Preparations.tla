---------------------------- MODULE Preparations ----------------------------
(* How a stored session comes back: the pool of unpublished Sessions           *)
(* (session-persistence/src/preparations.ts) together with the coordinator     *)
(* methods that use it (coordinator.ts: prepare, load, inspect, append,        *)
(* commitPrepared, adopt, attachPrepared, retire) over the per-identity        *)
(* promise chain.                                                              *)
(*                                                                             *)
(* One caller makes one call.  A Session is identified with the caller that    *)
(* holds it; a stored log is its revision, its length and whether a crashed    *)
(* process left a tail to repair.  `entry` and `order` are the pool's Map:     *)
(* at most one entry per identity, and the order the Map iterates in.          *)
(* `on` is the code's test `this.entries.get(id) === entry`.                   *)
EXTENDS Integers, Sequences, FiniteSets

Lists == INSTANCE SequencesExt

CONSTANTS Ids,          \* stored sessions
          Callers,      \* one call each
          Preparers, Loaders, Inspectors, Appenders,   \* who may call what
          Home,         \* the only one prepared, appended to or written by others
          NoOne,        \* no caller
          Capacity,     \* preparedSessionCacheSize
          MaxForeign    \* writes by another process

ASSUME CapacityPositive == Capacity \in Nat \ {0}
ASSUME CallersKnown == Preparers \cup Loaders \cup Inspectors \cup Appenders \subseteq Callers
ASSUME HomeIsStored == Home \in Ids
ASSUME NoOneIsNoCaller == NoOne \notin Callers

VARIABLES stored,    \* the durable log of each identity
          states,    \* PersistenceCoordinator.states
          entry,     \* SessionPreparations.entries, by identity
          order,     \* the Map's iteration order
          chain,     \* PersistenceCoordinator.chains, the head is running
          call,      \* what each caller is waiting for
          live,      \* ctx.sessions, by the caller that published
          retiring,  \* PersistenceCoordinator.retirements
          foreign    \* writes another process has made

vars == <<stored, states, entry, order, chain, call, live, retiring, foreign>>

Log == [rev : Nat, len : Nat, dirty : BOOLEAN]
Untracked == [tracked |-> FALSE, cursor |-> 0, owner |-> NoOne]
Tracked(n, who) == [tracked |-> TRUE, cursor |-> n, owner |-> who]
NoSource == [rev |-> 0, len |-> 0, dirty |-> FALSE]
NoEntry == [phase |-> "none", src |-> NoSource]

Idle == [pc |-> "idle", kind |-> "none", id |-> CHOOSE i \in Ids : TRUE,
         on |-> FALSE, src |-> NoSource, got |-> "pending",
         aborted |-> FALSE, touched |-> FALSE]

Op(kind, who) == [kind |-> kind, who |-> who, at |-> "queued", src |-> NoSource, seq |-> 0]

-----------------------------------------------------------------------------
(* The pool.  Its methods also wake callers, so they are written over a record *)
(* of the three variables they change.                                         *)

Here == [entry |-> entry, order |-> order, call |-> call]
Becomes(p) == \E q \in {p} : entry' = q.entry /\ order' = q.order /\ call' = q.call

With(c, r) == [Here EXCEPT !.call[c] = r]

(* settleReservation: every caller waiting for the reservation is woken.       *)
Settle(p, id) ==
  [p EXCEPT !.call = [c \in Callers |->
     IF p.call[c].pc = "settle" /\ p.call[c].id = id
       THEN [p.call[c] EXCEPT !.pc = "woken"] ELSE p.call[c]]]

(* A Map has a key once.                                                       *)
DeleteKey(keys, id) == Lists!RemoveAt(keys, CHOOSE i \in DOMAIN keys : keys[i] = id)

Unlink(p, id) ==
  [entry |-> [p.entry EXCEPT ![id] = NoEntry],
   order |-> DeleteKey(p.order, id),
   call  |-> [c \in Callers |->
      IF p.call[c].id = id THEN [p.call[c] EXCEPT !.on = FALSE] ELSE p.call[c]]]

DropQuietly(p, id) == IF p.entry[id] = NoEntry THEN p ELSE Unlink(p, id)   \* mutant
Drop(p, id) == IF p.entry[id] = NoEntry THEN p ELSE Unlink(Settle(p, id), id)

Ready(p) == {id \in Ids : p.entry[id].phase = "ready"}

(* The Map is re-inserted at its end; over capacity, its first ready entry     *)
(* goes.                                                                       *)
FirstReady(p) == CHOOSE i \in DOMAIN p.order :
  /\ p.entry[p.order[i]].phase = "ready"
  /\ \A j \in 1..(i - 1) : p.entry[p.order[j]].phase # "ready"

Reinsert(p, id) ==
  [entry |-> p.entry, order |-> Append(DeleteKey(p.order, id), id), call |-> p.call]
TouchKeeps(p, id) == Reinsert(p, id)                                \* mutant
Touch(p, id) ==
  LET q == Reinsert(p, id)
      Without[x \in Ids] == Unlink(q, x)
  IN IF Cardinality(Ready(q)) <= Capacity THEN q ELSE Without[q.order[FirstReady(q)]]

MakeReady(p, id) == Touch(Settle([p EXCEPT !.entry[id].phase = "ready"], id), id)

Exclusive(id) == entry[id].phase \in {"committing", "reserved"}

-----------------------------------------------------------------------------
(* The chain.  Every step of an operation is one await of the code.            *)

Running(id) == Head(chain[id])
Pop(id) == [chain EXCEPT ![id] = Tail(@)]
Push(id, op) == [chain EXCEPT ![id] = Append(@, op)]
At(id, stage) == [chain EXCEPT ![id][1].at = stage]
Doer(id) == CHOOSE c \in Running(id).who : TRUE

(* A read that fails rejects the operation for its caller.                     *)
Outcome(c, r) == With(c, [call[c] EXCEPT !.got = IF @ = "pending" THEN r ELSE @])
(* A call that has settled, whatever its outcome.                              *)
Over(c) == [Idle EXCEPT !.pc = "over", !.id = call[c].id, !.aborted = call[c].aborted]
Finish(p, c) == [p EXCEPT !.call[c] = Over(c)]

Is(id, kind, stage) ==
  /\ chain[id] # <<>>
  /\ Running(id).kind = kind
  /\ Running(id).at = stage

(* A fresh call, or one whose entry went away, first waits for the retirement  *)
(* of the previous lifecycle.                                                  *)
Entering(kind, id) == [Idle EXCEPT !.pc = IF retiring[id] THEN "waiting" ELSE "go",
                                   !.kind = kind, !.id = id]
Retry(p, c) == IF call[c].aborted
                 THEN Finish(p, c)
                 ELSE [p EXCEPT !.call[c] = Entering(call[c].kind, call[c].id)]

-----------------------------------------------------------------------------
Init ==
  /\ \E d \in BOOLEAN :
       stored = [id \in Ids |-> [rev |-> 0, len |-> 1, dirty |-> id = Home /\ d]]
  /\ states = [id \in Ids |-> Untracked]
  /\ entry = [id \in Ids |-> NoEntry]
  /\ order = <<>>
  /\ chain = [id \in Ids |-> <<>>]
  /\ call = [c \in Callers |-> Idle]
  /\ live = [id \in Ids |-> NoOne]
  /\ retiring = [id \in Ids |-> FALSE]
  /\ foreign = 0

(* Another process writes a log this coordinator does not track; it may crash  *)
(* and leave a tail.                                                           *)
ForeignWrite ==
  /\ foreign < MaxForeign
  /\ ~states[Home].tracked
  /\ \E d \in BOOLEAN :
       stored' = [stored EXCEPT ![Home] = [rev |-> @.rev + 1, len |-> @.len + 1, dirty |-> d]]
  /\ foreign' = foreign + 1
  /\ UNCHANGED <<states, entry, order, chain, call, live, retiring>>

-----------------------------------------------------------------------------
(* Calls.                                                                      *)

Call(c, kind, id) ==
  /\ call[c].pc = "idle"
  /\ kind # "append"
  /\ call' = [call EXCEPT ![c] = Entering(kind, id)]
  /\ UNCHANGED <<stored, states, entry, order, chain, live, retiring, foreign>>

(* append() queues at once; its events continue the log as the caller knows it.*)
CallAppend(c, id, seq) ==
  /\ call[c].pc = "idle"
  /\ call' = [call EXCEPT ![c] = [Idle EXCEPT !.kind = "append", !.id = id, !.pc = "append"]]
  /\ chain' = Push(id, [Op("append", {c}) EXCEPT !.seq = seq])
  /\ UNCHANGED <<stored, states, entry, order, live, retiring, foreign>>

FindsLive(c) ==
  /\ call[c].pc = "go"
  /\ live[call[c].id] # NoOne
  /\ Becomes(Finish(Here, c))
  /\ UNCHANGED <<stored, states, chain, live, retiring, foreign>>

LastLoad(id) == CHOOSE i \in DOMAIN chain[id] :
  /\ chain[id][i].kind = "load"
  /\ \A j \in DOMAIN chain[id] : chain[id][j].kind = "load" => j <= i

(* Only inspect() keeps the source it was answered with.                       *)
Seen(kind, src) == IF kind = "inspect" THEN src ELSE NoSource

(* entryFor: start a cold read, join the one in flight, or find one finished.  *)
EntryFor(c) ==
  LET id == call[c].id
      r == [call[c] EXCEPT !.on = TRUE]
  IN /\ call[c].pc = "go"
     /\ live[id] = NoOne
     /\ \/ /\ entry[id] = NoEntry
           /\ entry' = [entry EXCEPT ![id] = [phase |-> "loading", src |-> NoSource]]
           /\ order' = Append(order, id)
           /\ chain' = Push(id, Op("load", {c}))
           /\ call' = [call EXCEPT ![c] = [r EXCEPT !.pc = "loading"]]
        \/ /\ entry[id].phase = "loading"
           /\ chain' = [chain EXCEPT ![id][LastLoad(id)].who = @ \cup {c}]
           /\ call' = [call EXCEPT ![c] = [r EXCEPT !.pc = "loading"]]
           /\ UNCHANGED <<entry, order>>
        \/ /\ entry[id].phase \in {"ready", "committing", "reserved"}
           /\ call' = [call EXCEPT ![c] = [r EXCEPT !.pc = "loaded", !.src = Seen(call[c].kind, entry[id].src)]]
           /\ UNCHANGED <<entry, order, chain>>
     /\ UNCHANGED <<stored, states, live, retiring, foreign>>

(* reserve(): wait while another caller holds the entry, give up an entry that *)
(* is no longer the pool's, else commit.                                       *)
Reserving(c) == call[c].pc \in {"loaded", "woken"} /\ call[c].kind \in {"prepare", "load"}

ReserveGone(c) ==
  /\ Reserving(c)
  /\ ~call[c].on
  /\ Becomes(Retry(Here, c))
  /\ UNCHANGED <<stored, states, chain, live, retiring, foreign>>

WaitsForCommit(c) == entry[call[c].id].phase = "committing"         \* mutant
MustWait(c) == entry[call[c].id].phase # "ready"

ReserveWaits(c) ==
  /\ Reserving(c)
  /\ call[c].on
  /\ MustWait(c)
  /\ call' = [call EXCEPT ![c].pc = "settle"]
  /\ UNCHANGED <<stored, states, entry, order, chain, live, retiring, foreign>>

ReserveCommits(c) ==
  LET id == call[c].id
  IN /\ Reserving(c)
     /\ call[c].on
     /\ ~MustWait(c)
     /\ entry' = [entry EXCEPT ![id].phase = "committing"]
     /\ call' = [call EXCEPT ![c] = [@ EXCEPT !.pc = "commit", !.src = entry[id].src]]
     /\ chain' = Push(id, [Op("commit", {c}) EXCEPT !.src = entry[id].src])
     /\ UNCHANGED <<stored, states, order, live, retiring, foreign>>

(* reserve() after `await commit(source)`.                                     *)
CommitReturns(c) ==
  LET id == call[c].id
      gone == IF call[c].on THEN Drop(Here, id) ELSE Here
      r == call[c]
  IN /\ r.pc = "commit"
     /\ \/ /\ r.got = "error"
           /\ Becomes(Finish(gone, c))
        \/ /\ r.got = "stale"
           /\ Becomes(Retry(gone, c))
        \/ /\ r.got = "state"
           /\ r.aborted
           /\ LET p == IF r.on THEN MakeReady(Here, id) ELSE Here
              IN Becomes(Finish(p, c))
        \/ /\ r.got = "state"
           /\ ~r.aborted
           /\ ~r.on
           /\ Becomes(Retry(Here, c))
        \/ /\ r.got = "state"
           /\ ~r.aborted
           /\ r.on
           /\ entry' = [entry EXCEPT ![id].phase = "reserved"]
           /\ call' = [call EXCEPT ![c].pc = "reserved"]
           /\ UNCHANGED order
     /\ UNCHANGED <<stored, states, chain, live, retiring, foreign>>

(* prepare() and load() after `await this.preparations.reserve(...)`.          *)
ReservedReturns(c) ==
  LET id == call[c].id
  IN /\ call[c].pc = "reserved"
     /\ \/ /\ call[c].kind = "prepare"
           /\ live[id] = NoOne
           /\ Becomes(With(c, [call[c] EXCEPT !.pc = "held"]))
        \/ /\ call[c].kind = "load" \/ live[id] # NoOne
           /\ LET p == IF call[c].on THEN Drop(Here, id) ELSE Here
              IN Becomes(Finish(p, c))
     /\ UNCHANGED <<stored, states, chain, live, retiring, foreign>>

-----------------------------------------------------------------------------
(* The holder of a reservation.                                                *)

(* Agent setup may append to the still unpublished Session.                    *)
SetupAppends(c) ==
  /\ call[c].pc = "held"
  /\ ~call[c].touched
  /\ call' = [call EXCEPT ![c].touched = TRUE]
  /\ UNCHANGED <<stored, states, entry, order, chain, live, retiring, foreign>>

Reusable(c) == states[call[c].id].owner = NoOne /\ ~call[c].touched

(* SessionPreparation disposed without publication.                            *)
Release(c) ==
  LET id == call[c].id
      p == IF ~call[c].on THEN Here
           ELSE IF Reusable(c) THEN MakeReady(Here, id) ELSE Drop(Here, id)
  IN /\ call[c].pc = "held"
     /\ Becomes(Finish(p, c))
     /\ UNCHANGED <<stored, states, chain, live, retiring, foreign>>

(* sessions.enter and session/created: initFor binds the exact reserved        *)
(* Session.  A Session whose reservation is gone would be taken for a new one, *)
(* and one whose identity another entry owns is refused.  What the Session     *)
(* holds past the stored log is queued: setup's events and, unless the log     *)
(* ends with one already, the session/end-seed mark of the restore.            *)
Fits(c) == LET s == states[call[c].id]
           IN s.tracked /\ s.owner = NoOne /\ s.cursor = call[c].src.len

Publish(c) ==
  LET id == call[c].id
      p == Drop(Here, id)
  IN /\ call[c].pc = "held"
     /\ \/ /\ live[id] = NoOne /\ call[c].on /\ Fits(c)
           /\ Becomes([p EXCEPT !.call[c] = [Idle EXCEPT !.pc = "live", !.id = id]])
           /\ states' = [states EXCEPT ![id].owner = c]
           /\ live' = [live EXCEPT ![id] = c]
           /\ \E suffix \in {call[c].touched, TRUE} :
                chain' = IF suffix THEN Push(id, [Op("seed", {c}) EXCEPT !.seq = states[id].cursor])
                                   ELSE chain
        \/ /\ live[id] # NoOne \/ ~call[c].on \/ ~Fits(c)
           /\ Becomes(With(c, [Over(c) EXCEPT !.pc = "refused"]))
           /\ UNCHANGED <<states, live, chain>>
     /\ UNCHANGED <<stored, retiring, foreign>>

(* session/disposed: the lifecycle retires.                                    *)
Dispose(c) ==
  LET id == call[c].id
  IN /\ call[c].pc = "live"
     /\ live' = [live EXCEPT ![id] = NoOne]
     /\ retiring' = [retiring EXCEPT ![id] = TRUE]
     /\ call' = [call EXCEPT ![c].pc = "retiring"]
     /\ UNCHANGED <<stored, states, entry, order, chain, foreign>>

(* Everyone who waited for the retirement goes on, or fails with it.           *)
Retired(id, ok) ==
  [c \in Callers |->
     IF call[c].pc # "waiting" \/ call[c].id # id THEN call[c]
     ELSE IF ok THEN [call[c] EXCEPT !.pc = "go"] ELSE Over(c)]

SeedPending(c) == \E i \in DOMAIN chain[call[c].id] :
  chain[call[c].id][i].kind = "seed" /\ c \in chain[call[c].id][i].who

(* retireCore: flush the Session, then forget it behind the queued operations. *)
(* A failed flush ends the retirement and keeps the state with its owner.      *)
RetireFlush(c) ==
  LET id == call[c].id
  IN /\ call[c].pc = "retiring"
     /\ ~SeedPending(c)
     /\ \/ /\ call[c].got # "error"
           /\ chain' = Push(id, Op("forget", {c}))
           /\ call' = [call EXCEPT ![c].pc = "forgetting"]
           /\ UNCHANGED retiring
        \/ /\ retiring' = [retiring EXCEPT ![id] = FALSE]
           /\ call' = [Retired(id, FALSE) EXCEPT ![c] = Over(c)]
           /\ UNCHANGED chain
     /\ UNCHANGED <<stored, states, entry, order, live, foreign>>

-----------------------------------------------------------------------------
(* inspect().                                                                  *)

Inspected(c) ==
  LET id == call[c].id
      p == IF call[c].on /\ entry[id].phase = "ready" THEN Touch(Here, id) ELSE Here
  IN /\ call[c].pc = "loaded"
     /\ call[c].kind = "inspect"
     /\ \/ /\ live[id] # NoOne
           /\ Becomes(Finish(p, c))
           /\ UNCHANGED chain
        \/ /\ live[id] = NoOne
           /\ Becomes([p EXCEPT !.call[c].pc = "check"])
           /\ chain' = Push(id, [Op("check", {c}) EXCEPT !.src = call[c].src])
     /\ UNCHANGED <<stored, states, live, retiring, foreign>>

CheckReturns(c) ==
  LET id == call[c].id
      r == call[c]
  IN /\ r.pc = "check"
     /\ r.got # "pending"
     /\ \/ /\ live[id] # NoOne \/ r.got \in {"state", "error"}
           /\ Becomes(Finish(Here, c))
        \/ /\ live[id] = NoOne /\ r.got = "stale"
           /\ \/ /\ r.on /\ entry[id].phase # "ready"
                 /\ Becomes(Finish(Here, c))
              \/ /\ r.on /\ entry[id].phase = "ready"
                 /\ Becomes(Retry(Drop(Here, id), c))
              \/ /\ ~r.on
                 /\ Becomes(Retry(Here, c))
     /\ UNCHANGED <<stored, states, chain, live, retiring, foreign>>

(* AppendReturns: the public append settles.                                   *)
AppendReturns(c) ==
  /\ call[c].pc = "append"
  /\ call[c].got # "pending"
  /\ Becomes(Finish(Here, c))
  /\ UNCHANGED <<stored, states, chain, live, retiring, foreign>>

(* A caller's signal: the wait is given up at once, queued work is cut, work   *)
(* that has started runs to its end.                                           *)
Started(c) == \E i \in DOMAIN chain[call[c].id] :
  /\ c \in chain[call[c].id][i].who
  /\ chain[call[c].id][i].at # "queued"

Abort(c) ==
  /\ call[c].kind \in {"prepare", "inspect"}
  /\ ~call[c].aborted
  /\ \/ /\ call[c].pc \in {"waiting", "loading", "settle"}
        /\ Becomes(Finish(Here, c))
     \/ /\ call[c].pc \in {"commit", "check"}
        /\ Becomes(With(c, [call[c] EXCEPT !.aborted = TRUE,
                      !.got = IF @ = "pending" /\ ~Started(c) THEN "error" ELSE @]))
  /\ UNCHANGED <<stored, states, chain, live, retiring, foreign>>

-----------------------------------------------------------------------------
(* The operations on the chain.                                                *)

(* appendCore once the state is known: the batch must continue the log.        *)
NotAhead(id, state) == Running(id).seq <= state.cursor              \* mutant
Continues(id, state) == Running(id).seq = state.cursor

(* adopt(): take the ready source, or read the log.                            *)
Adopt(id) ==
  \/ /\ entry[id].phase = "ready"
     /\ chain' = [chain EXCEPT ![id][1].at = "revision", ![id][1].src = entry[id].src]
     /\ Becomes(Drop(Here, id))
  \/ /\ entry[id].phase # "ready"
     /\ chain' = At(id, "read")
     /\ UNCHANGED <<entry, order, call>>

Rejects(id) ==
  /\ Becomes(Outcome(Doer(id), "error"))
  /\ chain' = Pop(id)

WritableWhileReserved(id) == entry[id].phase # "committing"         \* mutant
Writable(id) == ~Exclusive(id)

StartLoad(id) ==
  /\ Is(id, "load", "queued")
  /\ chain' = At(id, "read")
  /\ UNCHANGED <<stored, states, entry, order, call, live, retiring, foreign>>

Cut(id) == call[Doer(id)].aborted

StartCommit(id) ==
  /\ Is(id, "commit", "queued")
  /\ \/ /\ Cut(id) \/ states[id].owner # NoOne
        /\ Rejects(id)
     \/ /\ ~Cut(id)
        /\ states[id].owner = NoOne
        /\ chain' = At(id, "revision")
        /\ UNCHANGED <<entry, order, call>>
  /\ UNCHANGED <<stored, states, live, retiring, foreign>>

StartCheck(id) ==
  /\ Is(id, "check", "queued")
  /\ \/ Cut(id) /\ Rejects(id)
     \/ ~Cut(id) /\ chain' = At(id, "revision") /\ UNCHANGED <<entry, order, call>>
  /\ UNCHANGED <<stored, states, live, retiring, foreign>>

StartAppend(id) ==
  /\ Is(id, "append", "queued") \/ Is(id, "seed", "queued")
  /\ \/ /\ ~Writable(id) \/ (states[id].tracked /\ ~Continues(id, states[id]))
        /\ Rejects(id)
     \/ /\ Writable(id) /\ states[id].tracked /\ Continues(id, states[id])
        /\ chain' = At(id, "write")
        /\ UNCHANGED <<entry, order, call>>
     \/ /\ Writable(id) /\ ~states[id].tracked
        /\ Adopt(id)
  /\ UNCHANGED <<stored, states, live, retiring, foreign>>

(* The end of a retirement.                                                    *)
Forget(id) ==
  /\ Is(id, "forget", "queued")
  /\ states' = IF states[id].owner = Doer(id)
                 THEN [states EXCEPT ![id] = Untracked] ELSE states
  /\ retiring' = [retiring EXCEPT ![id] = FALSE]
  /\ call' = [Retired(id, TRUE) EXCEPT ![Doer(id)] = Over(Doer(id))]
  /\ chain' = Pop(id)
  /\ UNCHANGED <<stored, entry, order, live, foreign>>

(* prepareCore: the read of a whole log ends.  It finishes the entry that      *)
(* started it, if that is still the pool's, and answers everyone who joined.   *)
Current(id) == entry[id].phase = "loading" /\ LastLoad(id) = 1

Answers(p, id, ok) ==
  [p EXCEPT !.call = [c \in Callers |->
     IF c \notin Running(id).who \/ p.call[c].pc # "loading" THEN p.call[c]
     ELSE IF ok THEN [p.call[c] EXCEPT !.pc = "loaded", !.src = Seen(p.call[c].kind, stored[id])]
     ELSE Over(c)]]

LoadDone(id) ==
  /\ Is(id, "load", "read")
  /\ \/ LET p == [Here EXCEPT !.entry[id] = [phase |-> "loading", src |-> stored[id]]]
        IN Becomes(Answers(IF Current(id) THEN MakeReady(p, id) ELSE Here, id, TRUE))
     \/ Becomes(Answers(IF Current(id) THEN Drop(Here, id) ELSE Here, id, FALSE))
  /\ chain' = Pop(id)
  /\ UNCHANGED <<stored, states, live, retiring, foreign>>

AdoptRead(id) ==
  /\ Is(id, "append", "read")
  /\ \/ /\ chain' = [chain EXCEPT ![id][1].at = "revision", ![id][1].src = stored[id]]
        /\ UNCHANGED <<entry, order, call>>
     \/ Rejects(id)
  /\ UNCHANGED <<stored, states, live, retiring, foreign>>

(* commitPrepared after the revision read: a source that is no longer the      *)
(* log's is dropped, one with a tail is repaired and then dropped, and only a  *)
(* clean current one gives its identity a cursor.                              *)
TrustsSource(id) == TRUE                                            \* mutant
Same(id) == Running(id).src.rev = stored[id].rev

Committed(id) ==
  [states EXCEPT ![id] = Tracked(Running(id).src.len, NoOne)]

CommitRevision(id) ==
  /\ Is(id, "commit", "revision")
  /\ \/ Rejects(id) /\ UNCHANGED states
     \/ /\ ~Same(id)
        /\ Becomes(Outcome(Doer(id), "stale")) /\ chain' = Pop(id) /\ UNCHANGED states
     \/ /\ Same(id) /\ Running(id).src.dirty
        /\ chain' = At(id, "repair") /\ UNCHANGED <<states, entry, order, call>>
     \/ /\ Same(id) /\ ~Running(id).src.dirty
        /\ states' = Committed(id)
        /\ Becomes(Outcome(Doer(id), "state")) /\ chain' = Pop(id)
  /\ UNCHANGED <<stored, live, retiring, foreign>>

AdoptRevision(id) ==
  /\ Is(id, "append", "revision")
  /\ \/ Rejects(id) /\ UNCHANGED states
     \/ /\ ~Same(id) /\ Adopt(id) /\ UNCHANGED states
     \/ /\ Same(id) /\ Running(id).src.dirty
        /\ chain' = At(id, "repair") /\ UNCHANGED <<states, entry, order, call>>
     \/ /\ Same(id) /\ ~Running(id).src.dirty
        /\ states' = Committed(id)
        /\ \/ /\ Continues(id, Committed(id)[id])
              /\ chain' = At(id, "write") /\ UNCHANGED <<entry, order, call>>
           \/ /\ ~Continues(id, Committed(id)[id])
              /\ Rejects(id)
  /\ UNCHANGED <<stored, live, retiring, foreign>>

CheckRevision(id) ==
  /\ Is(id, "check", "revision")
  /\ \/ Rejects(id)
     \/ Becomes(Outcome(Doer(id), IF Same(id) THEN "state" ELSE "stale")) /\ chain' = Pop(id)
  /\ UNCHANGED <<stored, states, live, retiring, foreign>>

(* commitRepair: cut the torn tail and append the closers.  It need not be     *)
(* atomic: a failure may leave the log changed and still in need of repair.    *)
Repair(id) ==
  /\ Is(id, "commit", "repair") \/ Is(id, "append", "repair")
  /\ \/ /\ stored' = [stored EXCEPT ![id] = [rev |-> @.rev + 1, len |-> @.len + 1, dirty |-> FALSE]]
        /\ \/ /\ Running(id).kind = "commit"
              /\ Becomes(Outcome(Doer(id), "stale")) /\ chain' = Pop(id)
           \/ /\ Running(id).kind = "append"
              /\ Adopt(id)
     \/ /\ stored' \in {stored, [stored EXCEPT ![id].rev = @ + 1]}
        /\ Rejects(id)
  /\ UNCHANGED <<states, live, retiring, foreign>>

(* appendBatch: once durable, the cursor moves and the prepared view is        *)
(* dropped.                                                                    *)
WriteDone(id) ==
  /\ Is(id, "append", "write") \/ Is(id, "seed", "write")
  /\ \/ /\ stored' = [stored EXCEPT ![id] = [rev |-> @.rev + 1, len |-> @.len + 1, dirty |-> @.dirty]]
        /\ states' = [states EXCEPT ![id].cursor = @ + 1]
        /\ Becomes([Drop(Here, id) EXCEPT !.call[Doer(id)].got = "state"])
        /\ chain' = Pop(id)
     \/ Rejects(id) /\ UNCHANGED <<stored, states>>
  /\ UNCHANGED <<live, retiring, foreign>>

-----------------------------------------------------------------------------
Serve(id) == \/ StartLoad(id) \/ StartCommit(id) \/ StartCheck(id) \/ StartAppend(id)
             \/ LoadDone(id) \/ AdoptRead(id)
             \/ CommitRevision(id) \/ AdoptRevision(id) \/ CheckRevision(id)
             \/ Repair(id) \/ WriteDone(id) \/ Forget(id)

Continue(c) == \/ FindsLive(c) \/ EntryFor(c)
               \/ ReserveGone(c) \/ ReserveWaits(c) \/ ReserveCommits(c)
               \/ CommitReturns(c) \/ ReservedReturns(c)
               \/ Inspected(c) \/ CheckReturns(c) \/ AppendReturns(c)
               \/ RetireFlush(c)

May(c) == {kind \in {"prepare", "load", "inspect"} :
             CASE kind = "prepare" -> c \in Preparers
               [] kind = "load"    -> c \in Loaders
               [] kind = "inspect" -> c \in Inspectors}

Calling(c) == \/ \E kind \in May(c), id \in Ids :
                   (id = Home \/ kind = "inspect") /\ Call(c, kind, id)
              \/ /\ c \in Appenders
                 /\ \E seq \in {stored[Home].len - 1, stored[Home].len} : CallAppend(c, Home, seq)

Holder(c) == Release(c) \/ Publish(c)

Proceed == \/ \E id \in Ids : Serve(id)
           \/ \E c \in Callers : Continue(c) \/ Holder(c)

Next == \/ Proceed \/ ForeignWrite
        \/ \E c \in Callers : Calling(c) \/ SetupAppends(c) \/ Dispose(c) \/ Abort(c)

Spec == Init /\ [][Next]_vars

(* Something that can go on does: storage answers, resumed calls run, and a    *)
(* holder publishes or lets go.  Nobody must call, dispose or abort.           *)
FairSpec == Spec /\ WF_vars(Proceed)

-----------------------------------------------------------------------------
Pending == {"waiting", "go", "loading", "loaded", "settle", "woken",
            "commit", "reserved", "check", "append"}
Settled == {"idle", "over", "refused", "held", "live", "retiring", "forgetting"}

SessionStates == [tracked : BOOLEAN, cursor : Nat, owner : Callers \cup {NoOne}]
Entries == {NoEntry} \cup [phase : {"loading", "ready", "committing", "reserved"}, src : Log]
Ops == [kind : {"load", "commit", "check", "append", "seed", "forget"},
        who : SUBSET Callers,
        at : {"queued", "read", "revision", "repair", "write"},
        src : Log, seq : Int]
Calls == [pc : Pending \cup Settled,
          kind : {"none", "prepare", "load", "inspect", "append"},
          id : Ids, on : BOOLEAN, src : Log, got : {"pending", "state", "stale", "error"},
          aborted : BOOLEAN, touched : BOOLEAN]

(* The types of the logs, the pool, the chains and the calls; the pool's Map   *)
(* iterates over its entries, each of them once.                               *)
TypeOK ==
  /\ stored \in [Ids -> Log]
  /\ states \in [Ids -> SessionStates]
  /\ entry \in [Ids -> Entries]
  /\ order \in Seq(Ids)
  /\ \A id \in Ids : entry[id] # NoEntry <=> \E i \in DOMAIN order : order[i] = id
  /\ \A i, j \in DOMAIN order : order[i] = order[j] => i = j
  /\ chain \in [Ids -> Seq(Ops)]
  /\ call \in [Callers -> Calls]
  /\ live \in [Ids -> Callers \cup {NoOne}]
  /\ retiring \in [Ids -> BOOLEAN]
  /\ foreign \in Nat

(* What a caller holds reserved is the log as it now stands: repaired, at the  *)
(* stored revision, with an ownerless cursor at its end, however many other    *)
(* calls ran in between (attachPrepared throws otherwise).                     *)
ReservedIsCurrent ==
  \A id \in Ids : entry[id].phase = "reserved" =>
    /\ entry[id].src = stored[id]
    /\ ~stored[id].dirty
    /\ states[id] = Tracked(stored[id].len, NoOne)

(* A reservation lasts until its holder lets go of it: the Session that        *)
(* prepare() handed out is never refused by its own publication.               *)
NeverRefused == \A c \in Callers : call[c].pc # "refused"

(* One identity has one Session: at most one caller holds it unpublished, has  *)
(* it live or is still draining it.                                            *)
OneHolder ==
  \A c, d \in Callers :
    /\ call[c].pc \in {"held", "live", "retiring", "forgetting"}
    /\ call[d].pc \in {"held", "live", "retiring", "forgetting"}
    /\ call[c].id = call[d].id
    => c = d

(* A batch that reaches storage continues the log exactly, and no reservation  *)
(* of that log is outstanding while it is written.                             *)
AppendContinues ==
  \A id \in Ids : chain[id] # <<>> /\ Running(id).at = "write" =>
    /\ Running(id).seq = stored[id].len
    /\ states[id].cursor = stored[id].len
    /\ entry[id].phase # "reserved"

(* A call that waits for a reservation to settle waits for one that is still   *)
(* there: nobody is left on a promise no one will resolve.                     *)
NoOrphanWaiter ==
  \A c \in Callers : call[c].pc = "settle" => call[c].on /\ Exclusive(call[c].id)

(* At most `preparedSessionCacheSize` finished preparations are retained,      *)
(* whoever finishes, reuses or only looks at one.                              *)
PoolBounded == Cardinality(Ready(Here)) <= Capacity

(* Every call ends, or is handed the Session it asked for, if storage answers  *)
(* and holders publish or release: a caller makes one call, so none waits for  *)
(* ever exactly when again and again none is pending.                          *)
CallsSettle == []<>(\A c \in Callers : call[c].pc \notin Pending)

=============================================================================
