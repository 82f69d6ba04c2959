------------------------- MODULE CrashRecoveryProofs -------------------------
(* Theorems about CrashRecovery, for any number of turns, steps, calls and     *)
(* crashes.                                                                    *)
EXTENDS CrashRecovery, SequenceTheorems, WellFoundedInduction, TLAPS

-----------------------------------------------------------------------------
(* Induction over a set of numbers, and sequences.                             *)

(* A set of numbers with 0 and every successor is the whole of Nat.            *)
LEMMA Induct ==
  ASSUME NEW T, 0 \in T, \A n \in Nat : n \in T => n + 1 \in T
  PROVE  \A n \in Nat : n \in T
<1> SUFFICES ASSUME Nat \ T # {} PROVE FALSE
  OBVIOUS
<1>1. Nat \ T \subseteq Nat
  OBVIOUS
<1>2. PICK n \in Nat \ T : \A y \in Nat \ T : <<y, n>> \notin OpToRel(<, Nat)
  BY <1>1, NatLessThanWellFounded, WFMin
<1>3. n \in Nat /\ n \notin T
  OBVIOUS
<1>4. n - 1 \in Nat /\ n - 1 < n
  BY <1>3
<1>5. <<n - 1, n>> \in OpToRel(<, Nat)
  BY <1>3, <1>4 DEF OpToRel
<1>6. n - 1 \in T
  BY <1>2, <1>4, <1>5
<1> QED BY <1>3, <1>4, <1>6

(* A set of places that is not empty has a last one.                           *)
LEMMA HasLast ==
  ASSUME NEW n \in Nat, NEW A \in SUBSET (1..n), A # {}
  PROVE  \E k \in A : \A j \in A : j <= k
<1> DEFINE T == {m \in Nat : A \subseteq 1..m => \E k \in A : \A j \in A : j <= k}
<1>1. 0 \in T
  <2>1. 1..0 = {}
    OBVIOUS
  <2>2. ~(A \subseteq 1..0)
    BY <2>1
  <2> QED BY <2>2
<1>2. ASSUME NEW m \in Nat, m \in T PROVE m + 1 \in T
  <2>1. CASE m + 1 \in A
    BY <2>1
  <2>2. CASE m + 1 \notin A
    <3>1. A \subseteq 1..(m + 1) => A \subseteq 1..m
      BY <2>2
    <3> QED BY <1>2, <3>1
  <2> QED BY <2>1, <2>2
<1> HIDE DEF T
<1>3. n \in T
  BY <1>1, <1>2, Induct
<1> QED BY <1>3 DEF T

(* The scan of a longer log goes one step further.                             *)
IsScan(f, s) == f = [k \in 0..Len(s) |-> IF k = 0 THEN ScanStart ELSE Scan(f[k - 1], s[k])]

(* The scan of a log as a function of the number of events read.             *)
LEMMA ScanExists ==
  ASSUME NEW s \in Seq(Events)
  PROVE  \E f : IsScan(f, s)
<1> DEFINE Fold(f, n) == f = [k \in 0..n |-> IF k = 0 THEN ScanStart ELSE Scan(f[k - 1], s[k])]
           T == {n \in Nat : \E f : Fold(f, n)}
<1>1. 0 \in T
  <2> DEFINE g == [k \in 0..0 |-> ScanStart]
  <2>1. Fold(g, 0)
    OBVIOUS
  <2> QED BY <2>1
<1>2. ASSUME NEW n \in Nat, n \in T PROVE n + 1 \in T
  <2>1. PICK f : Fold(f, n)
    BY <1>2
  <2> DEFINE g == [k \in 0..(n + 1) |-> IF k = n + 1 THEN Scan(f[n], s[n + 1]) ELSE f[k]]
  <2>2. \A k \in 0..n : f[k] = IF k = 0 THEN ScanStart ELSE Scan(f[k - 1], s[k])
    BY <2>1
  <2>3. \A k \in 0..(n + 1) : g[k] = IF k = 0 THEN ScanStart ELSE Scan(g[k - 1], s[k])
    <3>1. CASE n = 0
      BY <2>2, <3>1
    <3>2. CASE n # 0
      BY <2>2, <3>2
    <3> QED BY <3>1, <3>2
  <2>4. Fold(g, n + 1)
    <3> DEFINE h == [k \in 0..(n + 1) |-> IF k = 0 THEN ScanStart ELSE Scan(g[k - 1], s[k])]
    <3>1. DOMAIN g = 0..(n + 1) /\ DOMAIN h = 0..(n + 1)
      OBVIOUS
    <3>2. \A k \in 0..(n + 1) : g[k] = h[k]
      BY <2>3
    <3>3. g = h
      BY <3>1, <3>2
    <3> QED BY <3>3
  <2> HIDE DEF g, Fold
  <2>5. \E x : Fold(x, n + 1)
    BY <2>4
  <2> QED BY <2>5
<1> HIDE DEF T
<1>3. Len(s) \in T
  BY <1>1, <1>2, Induct
<1> QED BY <1>3 DEF T, IsScan

(* Two such functions agree on every prefix.                                 *)
LEMMA ScanUnique ==
  ASSUME NEW s \in Seq(Events), NEW f, NEW g, IsScan(f, s), IsScan(g, s)
  PROVE  f = g
<1> DEFINE T == {n \in Nat : n <= Len(s) => f[n] = g[n]}
<1>1. 0 \in T
  BY DEF IsScan
<1>2. ASSUME NEW n \in Nat, n \in T PROVE n + 1 \in T
  BY <1>2 DEF IsScan
<1>3. \A n \in Nat : n \in T
  <2> HIDE DEF T
  <2> QED BY <1>1, <1>2, Induct
<1>4. \A n \in 0..Len(s) : f[n] = g[n]
  BY <1>3
<1> QED BY <1>4 DEF IsScan

(* Scanned is the last value of any such function.                           *)
LEMMA ScannedIs ==
  ASSUME NEW s \in Seq(Events), NEW f, IsScan(f, s)
  PROVE  Scanned(s) = f[Len(s)]
<1>1. IsScan(CHOOSE h : IsScan(h, s), s)
  OBVIOUS
<1>2. f = CHOOSE h : IsScan(h, s)
  BY <1>1, ScanUnique
<1>3. Scanned(s) = (CHOOSE h : IsScan(h, s))[Len(s)]
  BY DEF Scanned, IsScan
<1> QED BY <1>2, <1>3

(* An empty log leaves the scan at its start.                                *)
LEMMA ScannedEmpty == Scanned(<<>>) = ScanStart
<1> DEFINE f == [k \in 0..0 |-> ScanStart]
<1>1. <<>> \in Seq(Events) /\ Len(<<>>) = 0
  OBVIOUS
<1>2. IsScan(f, <<>>)
  BY <1>1 DEF IsScan
<1>3. f[0] = ScanStart
  OBVIOUS
<1> HIDE DEF f
<1> QED BY <1>1, <1>2, <1>3, ScannedIs

(* An appended event is one more step of the scan.                           *)
LEMMA ScannedAppend ==
  ASSUME NEW s \in Seq(Events), NEW e \in Events
  PROVE  Scanned(Append(s, e)) = Scan(Scanned(s), e)
<1> DEFINE u == Append(s, e)
<1>1. /\ u \in Seq(Events) /\ Len(u) = Len(s) + 1 /\ Len(s) \in Nat
      /\ u[Len(s) + 1] = e /\ \A k \in 1..Len(s) : u[k] = s[k]
  OBVIOUS
<1> HIDE DEF u
<1>2. PICK g : IsScan(g, u)
  BY <1>1, ScanExists
<1>3. /\ DOMAIN g = 0..Len(u)
      /\ \A k \in 0..Len(u) : g[k] = IF k = 0 THEN ScanStart ELSE Scan(g[k - 1], u[k])
  BY <1>2 DEF IsScan
<1> DEFINE f == [k \in 0..Len(s) |-> g[k]]
           h == [k \in 0..Len(s) |-> IF k = 0 THEN ScanStart ELSE Scan(f[k - 1], s[k])]
<1>4. \A k \in 0..Len(s) : f[k] = h[k]
  BY <1>1, <1>3
<1>5. f = h
  <2>1. DOMAIN f = 0..Len(s) /\ DOMAIN h = 0..Len(s)
    OBVIOUS
  <2> QED BY <1>4, <2>1
<1>6. IsScan(f, s)
  BY <1>5 DEF IsScan
<1>7. f[Len(s)] = g[Len(s)]
  BY <1>1
<1> HIDE DEF f
<1>8. Scanned(s) = g[Len(s)]
  BY <1>6, <1>7, ScannedIs
<1>9. Scanned(u) = g[Len(u)]
  BY <1>1, <1>2, ScannedIs
<1>10. g[Len(s) + 1] = Scan(g[Len(s)], e)
  BY <1>1, <1>3
<1> QED BY <1>1, <1>8, <1>9, <1>10 DEF u

(* So does the trace of its rules.                                             *)
IsTrace(f, s) == f = [k \in 0..Len(s) |-> IF k = 0 THEN FreshTrace ELSE Validate(f[k - 1], s[k])]

(* The trace of a log as a function of the number of events validated.       *)
LEMMA TraceExists ==
  ASSUME NEW s \in Seq(Events)
  PROVE  \E f : IsTrace(f, s)
<1> DEFINE Fold(f, n) == f = [k \in 0..n |-> IF k = 0 THEN FreshTrace ELSE Validate(f[k - 1], s[k])]
           T == {n \in Nat : \E f : Fold(f, n)}
<1>1. 0 \in T
  <2> DEFINE g == [k \in 0..0 |-> FreshTrace]
  <2>1. Fold(g, 0)
    OBVIOUS
  <2> QED BY <2>1
<1>2. ASSUME NEW n \in Nat, n \in T PROVE n + 1 \in T
  <2>1. PICK f : Fold(f, n)
    BY <1>2
  <2> DEFINE g == [k \in 0..(n + 1) |-> IF k = n + 1 THEN Validate(f[n], s[n + 1]) ELSE f[k]]
  <2>2. \A k \in 0..n : f[k] = IF k = 0 THEN FreshTrace ELSE Validate(f[k - 1], s[k])
    BY <2>1
  <2>3. \A k \in 0..(n + 1) : g[k] = IF k = 0 THEN FreshTrace ELSE Validate(g[k - 1], s[k])
    <3>1. CASE n = 0
      BY <2>2, <3>1
    <3>2. CASE n # 0
      BY <2>2, <3>2
    <3> QED BY <3>1, <3>2
  <2>4. Fold(g, n + 1)
    <3> DEFINE h == [k \in 0..(n + 1) |-> IF k = 0 THEN FreshTrace ELSE Validate(g[k - 1], s[k])]
    <3>1. DOMAIN g = 0..(n + 1) /\ DOMAIN h = 0..(n + 1)
      OBVIOUS
    <3>2. \A k \in 0..(n + 1) : g[k] = h[k]
      BY <2>3
    <3>3. g = h
      BY <3>1, <3>2
    <3> QED BY <3>3
  <2> HIDE DEF g, Fold
  <2>5. \E x : Fold(x, n + 1)
    BY <2>4
  <2> QED BY <2>5
<1> HIDE DEF T
<1>3. Len(s) \in T
  BY <1>1, <1>2, Induct
<1> QED BY <1>3 DEF T, IsTrace

(* Two such functions agree on every prefix.                                 *)
LEMMA TraceUnique ==
  ASSUME NEW s \in Seq(Events), NEW f, NEW g, IsTrace(f, s), IsTrace(g, s)
  PROVE  f = g
<1> DEFINE T == {n \in Nat : n <= Len(s) => f[n] = g[n]}
<1>1. 0 \in T
  BY DEF IsTrace
<1>2. ASSUME NEW n \in Nat, n \in T PROVE n + 1 \in T
  BY <1>2 DEF IsTrace
<1>3. \A n \in Nat : n \in T
  <2> HIDE DEF T
  <2> QED BY <1>1, <1>2, Induct
<1>4. \A n \in 0..Len(s) : f[n] = g[n]
  BY <1>3
<1> QED BY <1>4 DEF IsTrace

(* Trace is the last value of any such function.                             *)
LEMMA TraceIs ==
  ASSUME NEW s \in Seq(Events), NEW f, IsTrace(f, s)
  PROVE  Trace(s) = f[Len(s)]
<1>1. IsTrace(CHOOSE h : IsTrace(h, s), s)
  OBVIOUS
<1>2. f = CHOOSE h : IsTrace(h, s)
  BY <1>1, TraceUnique
<1>3. Trace(s) = (CHOOSE h : IsTrace(h, s))[Len(s)]
  BY DEF Trace, IsTrace
<1> QED BY <1>2, <1>3

(* An empty log leaves the trace fresh.                                      *)
LEMMA TraceEmpty == Trace(<<>>) = FreshTrace
<1> DEFINE f == [k \in 0..0 |-> FreshTrace]
<1>1. <<>> \in Seq(Events) /\ Len(<<>>) = 0
  OBVIOUS
<1>2. IsTrace(f, <<>>)
  BY <1>1 DEF IsTrace
<1>3. f[0] = FreshTrace
  OBVIOUS
<1> HIDE DEF f
<1> QED BY <1>1, <1>2, <1>3, TraceIs

(* An appended event is validated against the trace of those before it.      *)
LEMMA TraceAppend ==
  ASSUME NEW s \in Seq(Events), NEW e \in Events
  PROVE  Trace(Append(s, e)) = Validate(Trace(s), e)
<1> DEFINE u == Append(s, e)
<1>1. /\ u \in Seq(Events) /\ Len(u) = Len(s) + 1 /\ Len(s) \in Nat
      /\ u[Len(s) + 1] = e /\ \A k \in 1..Len(s) : u[k] = s[k]
  OBVIOUS
<1> HIDE DEF u
<1>2. PICK g : IsTrace(g, u)
  BY <1>1, TraceExists
<1>3. /\ DOMAIN g = 0..Len(u)
      /\ \A k \in 0..Len(u) : g[k] = IF k = 0 THEN FreshTrace ELSE Validate(g[k - 1], u[k])
  BY <1>2 DEF IsTrace
<1> DEFINE f == [k \in 0..Len(s) |-> g[k]]
           h == [k \in 0..Len(s) |-> IF k = 0 THEN FreshTrace ELSE Validate(f[k - 1], s[k])]
<1>4. \A k \in 0..Len(s) : f[k] = h[k]
  BY <1>1, <1>3
<1>5. f = h
  <2>1. DOMAIN f = 0..Len(s) /\ DOMAIN h = 0..Len(s)
    OBVIOUS
  <2> QED BY <1>4, <2>1
<1>6. IsTrace(f, s)
  BY <1>5 DEF IsTrace
<1>7. f[Len(s)] = g[Len(s)]
  BY <1>1
<1> HIDE DEF f
<1>8. Trace(s) = g[Len(s)]
  BY <1>6, <1>7, TraceIs
<1>9. Trace(u) = g[Len(u)]
  BY <1>1, <1>2, TraceIs
<1>10. g[Len(s) + 1] = Validate(g[Len(s)], e)
  BY <1>1, <1>3
<1> QED BY <1>1, <1>8, <1>9, <1>10 DEF u

-----------------------------------------------------------------------------
(* What the log says after one more event.                                     *)

(* The calls the log has recorded.                                             *)
(* The calls a log records.                                                  *)
Called(s) == {s[k].call : k \in {j \in DOMAIN s : s[j].type = "tool/call"}}

(* A log with one more event.                                                *)
LEMMA Appended ==
  ASSUME NEW s \in Seq(Events), NEW e \in Events
  PROVE  /\ Append(s, e) \in Seq(Events) /\ Len(s) \in Nat
         /\ DOMAIN s = 1..Len(s) /\ DOMAIN Append(s, e) = 1..(Len(s) + 1)
         /\ Len(Append(s, e)) = Len(s) + 1
         /\ Append(s, e)[Len(s) + 1] = e
         /\ \A k \in 1..Len(s) : Append(s, e)[k] = s[k]
OBVIOUS

(* An event adds its call to those recorded, or nothing.                     *)
LEMMA CalledAppend ==
  ASSUME NEW s \in Seq(Events), NEW e \in Events
  PROVE  Called(Append(s, e)) = Called(s) \cup (IF e.type = "tool/call" THEN {e.call} ELSE {})
<1> DEFINE u == Append(s, e)
<1>1. /\ Len(s) \in Nat /\ DOMAIN s = 1..Len(s) /\ DOMAIN u = 1..(Len(s) + 1)
      /\ u[Len(s) + 1] = e /\ \A k \in 1..Len(s) : u[k] = s[k]
  BY Appended
<1> HIDE DEF u
<1>2. DOMAIN u = DOMAIN s \cup {Len(s) + 1}
  BY <1>1
<1>3. \A c : c \in Called(u) <=> c \in Called(s) \/ (e.type = "tool/call" /\ c = e.call)
  BY <1>1, <1>2 DEF Called
<1>4. Called(u) = Called(s) \cup (IF e.type = "tool/call" THEN {e.call} ELSE {})
  BY <1>3
<1> QED BY <1>4 DEF u

(* The events of a step after an append.                                     *)
LEMMA EventsOfAppend ==
  ASSUME NEW s \in Seq(Events), NEW e \in Events, NEW type, NEW turn, NEW step
  PROVE  \A k : k \in EventsOf(Append(s, e), type, turn, step) <=>
           k \in EventsOf(s, type, turn, step) \/
           (e.type = type /\ e.turn = turn /\ e.step = step /\ k = Len(s) + 1)
<1> DEFINE u == Append(s, e)
<1>1. /\ Len(s) \in Nat /\ DOMAIN s = 1..Len(s) /\ DOMAIN u = 1..(Len(s) + 1)
      /\ u[Len(s) + 1] = e /\ \A k \in 1..Len(s) : u[k] = s[k]
  BY Appended
<1> HIDE DEF u
<1>2. DOMAIN u = DOMAIN s \cup {Len(s) + 1}
  BY <1>1
<1>3. \A k : k \in EventsOf(u, type, turn, step) <=>
        k \in EventsOf(s, type, turn, step) \/
        (e.type = type /\ e.turn = turn /\ e.step = step /\ k = Len(s) + 1)
  BY <1>1, <1>2 DEF EventsOf
<1> QED BY <1>3 DEF u

(* An event of another type or step is not one of them.                      *)
LEMMA EventsOfKept ==
  ASSUME NEW s \in Seq(Events), NEW e \in Events, NEW type, NEW turn, NEW step,
         ~(e.type = type /\ e.turn = turn /\ e.step = step)
  PROVE  EventsOf(Append(s, e), type, turn, step) = EventsOf(s, type, turn, step)
<1>1. \A k : k \in EventsOf(Append(s, e), type, turn, step) <=> k \in EventsOf(s, type, turn, step)
  BY EventsOfAppend
<1> QED BY <1>1

(* An event of the type and step is the last of them.                        *)
LEMMA EventsOfAdded ==
  ASSUME NEW s \in Seq(Events), NEW e \in Events, NEW type, NEW turn, NEW step,
         e.type = type /\ e.turn = turn /\ e.step = step
  PROVE  EventsOf(Append(s, e), type, turn, step) = EventsOf(s, type, turn, step) \cup {Len(s) + 1}
<1>1. \A k : k \in EventsOf(Append(s, e), type, turn, step) <=>
        k \in EventsOf(s, type, turn, step) \cup {Len(s) + 1}
  BY EventsOfAppend
<1> QED BY <1>1

(* Only the start of a turn moves the last turn on.                          *)
LEMMA LastTurnAppend ==
  ASSUME NEW s \in Seq(Events), NEW e \in Events
  PROVE  LastTurn(Append(s, e)) = IF e.type = "turn/start" THEN e.turn ELSE LastTurn(s)
<1> DEFINE u == Append(s, e)
           A == {k \in DOMAIN s : s[k].type = "turn/start"}
           B == {k \in DOMAIN u : u[k].type = "turn/start"}
           last == CHOOSE k \in B : \A j \in B : j <= k
<1>1. /\ Len(s) \in Nat /\ DOMAIN s = 1..Len(s) /\ DOMAIN u = 1..(Len(s) + 1)
      /\ u[Len(s) + 1] = e /\ \A k \in 1..Len(s) : u[k] = s[k]
  BY Appended
<1>2. LastTurn(u) = IF B = {} THEN 0 ELSE u[last].turn
  BY DEF LastTurn
<1>3. LastTurn(s) = IF A = {} THEN 0 ELSE s[CHOOSE k \in A : \A j \in A : j <= k].turn
  BY DEF LastTurn
<1> HIDE DEF u
<1>4. CASE e.type = "turn/start"
  <2>1. Len(s) + 1 \in B /\ \A j \in B : j <= Len(s) + 1
    BY <1>1, <1>4
  <2> DEFINE P(k) == k \in B /\ \A j \in B : j <= k
  <2>2. last \in B /\ \A j \in B : j <= last
    BY <2>1
  <2>3. last = Len(s) + 1
    BY <1>1, <2>1, <2>2
  <2> QED BY <1>1, <1>2, <1>4, <2>1, <2>3 DEF u
<1>5. CASE e.type # "turn/start"
  <2>1. A = B
    BY <1>1, <1>5
  <2>2. CASE A = {}
    BY <1>2, <1>3, <1>5, <2>1, <2>2 DEF u
  <2>3. CASE A # {}
    <3>1. last \in B
      <4>1. A \subseteq 1..Len(s) /\ Len(s) \in Nat
        BY <1>1
      <4>2. \E k \in A : \A j \in A : j <= k
        <5> HIDE DEF A
        <5> QED BY <2>3, <4>1, HasLast
      <4> QED BY <2>1, <4>2
    <3>2. u[last] = s[last]
      BY <1>1, <2>1, <3>1
    <3> QED BY <1>2, <1>3, <1>5, <2>1, <2>3, <3>2 DEF u
  <2> QED BY <2>2, <2>3
<1> QED BY <1>4, <1>5

-----------------------------------------------------------------------------
(* A log the driver and the repair write: the trace of the rules has found     *)
(* nothing wrong and agrees with the scan; every event is in a turn and step   *)
(* the trace has passed or is in; the calls of the open step are answered in   *)
(* order, and those the scan still has are the ones that come next.            *)

(* What the scan and the trace are made of.                                  *)
PendingCalls == [call : CallIds, step : Nat, started : BOOLEAN]
Scans == [turn : Nat, step : Nat, pending : Seq(PendingCalls)]
Traces == [ok : BOOLEAN, turn : Nat, step : Nat, nextTurn : Nat, nextStep : Nat, pending : SUBSET CallIds]

(* No rule has been broken, and the counters stand where the turn is.        *)
TraceOk(t) ==
  /\ t.ok /\ t.nextTurn # 0 /\ t.nextStep # 0
  /\ t.turn = 0 \/ t.turn = t.nextTurn
  /\ t.step = 0 \/ t.step = t.nextStep
  /\ t.turn = 0 => t.step = 0

(* The repair and the rules see the same turn and the same step.             *)
Agree(a, t) ==
  /\ a.turn = t.turn /\ a.step = t.step
  /\ t.step = 0 => a.pending = <<>>

(* The repair reports a call as started if the rules still wait for it, and  *)
(* as not started only if the log never recorded it.                         *)
PendingOk(a, t, s) ==
  \A i \in DOMAIN a.pending :
    /\ a.pending[i].step = t.step
    /\ a.pending[i].started => a.pending[i].call \in t.pending
    /\ ~a.pending[i].started => a.pending[i].call \notin Called(s)

Stepwise == {"assistant/message", "tool/call", "tool/result"}

(* No event is of a step to come.                                            *)
Placed(e, t) ==
  e.type \in Stepwise => \/ e.turn < t.nextTurn
                         \/ e.turn = t.turn /\ (e.step < t.nextStep \/ e.step = t.step)

(* A call is named by its place.                                             *)
Named(e) == e.type \in {"tool/call", "tool/result"} => \E i \in Nat : e.call = <<e.turn, e.step, i>>

(* Nothing is reported as not started that the log records.                  *)
NotRun(e, s) == e.code = "TOOL_NOT_STARTED" => e.type = "tool/result" /\ e.call \notin Called(s)

PastOk(t, s) == \A k \in DOMAIN s : Placed(s[k], t) /\ Named(s[k]) /\ NotRun(s[k], s)

(* The turns of the log are counted without a gap.                           *)
LastOk(t, s) == LastTurn(s) = IF t.turn # 0 THEN t.turn ELSE t.nextTurn - 1

(* r calls of the step have their result, and p are the others.                *)
Shows(p, turn, step, r, s) ==
  LET R == EventsOf(s, "tool/result", turn, step)
      M == EventsOf(s, "assistant/message", turn, step)
  IN /\ \A i \in DOMAIN p : p[i].call = <<turn, step, r + i>>
     /\ \A k \in R : \E i \in 1..r : s[k].call = <<turn, step, i>>
     /\ \A i \in 1..r : \E k \in R : s[k].call = <<turn, step, i>>
     /\ \A j, k \in R : j < k => s[j].call[3] < s[k].call[3]
     /\ \A m \in M : s[m].n = r + Len(p) /\ \A k \in R : m < k
     /\ M = {} => r = 0 /\ p = <<>>

(* So it is in the open step.                                                *)
Answering(a, t, s) == t.step # 0 => \E r \in Nat : Shows(a.pending, t.turn, t.step, r, s)

(* A log the repair can close.                                               *)
Coherent(s) ==
  LET a == Scanned(s)
      t == Trace(s)
  IN /\ a \in Scans /\ t \in Traces
     /\ TraceOk(t) /\ Agree(a, t) /\ PendingOk(a, t, s)
     /\ PastOk(t, s) /\ LastOk(t, s) /\ Answering(a, t, s)

(* Nothing of the step is in the log yet.                                      *)
Fresh(s, turn, step) ==
  \A k \in DOMAIN s : s[k].type \in Stepwise => ~(s[k].turn = turn /\ s[k].step = step)

(* What holds of the past events holds when one more is appended.            *)
LEMMA PastKept ==
  ASSUME NEW s \in Seq(Events), NEW e \in Events, NEW t, NEW u, PastOk(t, s),
         \A x \in Events : Placed(x, t) => Placed(x, u),
         Placed(e, u), Named(e), NotRun(e, Append(s, e)),
         e.type = "tool/call" =>
           \A k \in DOMAIN s : s[k].code = "TOOL_NOT_STARTED" => s[k].call # e.call
  PROVE  PastOk(u, Append(s, e))
<1> DEFINE v == Append(s, e)
<1>1. /\ Len(s) \in Nat /\ DOMAIN s = 1..Len(s) /\ DOMAIN v = 1..(Len(s) + 1)
      /\ v[Len(s) + 1] = e /\ \A k \in 1..Len(s) : v[k] = s[k]
  BY Appended
<1>2. Called(v) = Called(s) \cup (IF e.type = "tool/call" THEN {e.call} ELSE {})
  BY CalledAppend
<1>3. NotRun(e, v)
  OBVIOUS
<1> HIDE DEF v
<1>4. ASSUME NEW k \in DOMAIN v PROVE Placed(v[k], u) /\ Named(v[k]) /\ NotRun(v[k], v)
  <2>1. CASE k = Len(s) + 1
    BY <1>1, <1>3, <2>1
  <2>2. CASE k # Len(s) + 1
    <3>1. k \in DOMAIN s /\ v[k] = s[k] /\ s[k] \in Events
      BY <1>1, <1>4, <2>2
    <3>2. Placed(s[k], t) /\ Named(s[k]) /\ NotRun(s[k], s)
      BY <3>1 DEF PastOk
    <3>3. NotRun(s[k], v)
      BY <1>2, <3>1, <3>2 DEF NotRun
    <3> QED BY <3>1, <3>2, <3>3
  <2> QED BY <2>1, <2>2
<1>5. PastOk(u, v)
  BY <1>4 DEF PastOk
<1> QED BY <1>5 DEF v

(* An event of another step, or of no step, changes no answer.               *)
LEMMA ShowsKept ==
  ASSUME NEW s \in Seq(Events), NEW e \in Events, NEW turn, NEW step, NEW r \in Nat,
         NEW p \in Seq(PendingCalls), NEW q \in Seq(PendingCalls),
         Len(q) = Len(p), \A i \in 1..Len(p) : q[i].call = p[i].call,
         Shows(p, turn, step, r, s),
         ~(e.type \in {"tool/result", "assistant/message"} /\ e.turn = turn /\ e.step = step)
  PROVE  Shows(q, turn, step, r, Append(s, e))
<1> DEFINE v == Append(s, e)
           R == EventsOf(s, "tool/result", turn, step)
           M == EventsOf(s, "assistant/message", turn, step)
<1>1. DOMAIN s = 1..Len(s) /\ \A k \in 1..Len(s) : v[k] = s[k]
  BY Appended
<1>2. EventsOf(v, "tool/result", turn, step) = R
  <2>1. ~(e.type = "tool/result" /\ e.turn = turn /\ e.step = step)
    OBVIOUS
  <2> QED BY <2>1, EventsOfKept
<1>3. EventsOf(v, "assistant/message", turn, step) = M
  <2>1. ~(e.type = "assistant/message" /\ e.turn = turn /\ e.step = step)
    OBVIOUS
  <2> QED BY <2>1, EventsOfKept
<1>4. \A k \in R \cup M : v[k] = s[k]
  BY <1>1 DEF EventsOf
<1>5. DOMAIN p = 1..Len(p) /\ DOMAIN q = 1..Len(q) /\ (p = <<>> => q = <<>>)
  OBVIOUS
<1> HIDE DEF v, R, M
<1>6. Shows(q, turn, step, r, v)
  <2>1. /\ \A i \in DOMAIN p : p[i].call = <<turn, step, r + i>>
        /\ \A k \in R : \E i \in 1..r : s[k].call = <<turn, step, i>>
        /\ \A i \in 1..r : \E k \in R : s[k].call = <<turn, step, i>>
        /\ \A j, k \in R : j < k => s[j].call[3] < s[k].call[3]
        /\ \A m \in M : s[m].n = r + Len(p) /\ \A k \in R : m < k
        /\ M = {} => r = 0 /\ p = <<>>
    BY DEF Shows, R, M
  <2>2. \A i \in DOMAIN q : q[i].call = <<turn, step, r + i>>
    BY <1>5, <2>1
  <2>3. \A k \in R : \E i \in 1..r : v[k].call = <<turn, step, i>>
    BY <1>4, <2>1
  <2>4. \A i \in 1..r : \E k \in R : v[k].call = <<turn, step, i>>
    BY <1>4, <2>1
  <2>5. \A j, k \in R : j < k => v[j].call[3] < v[k].call[3]
    BY <1>4, <2>1
  <2>6. \A m \in M : v[m].n = r + Len(q) /\ \A k \in R : m < k
    BY <1>4, <2>1
  <2>7. M = {} => r = 0 /\ q = <<>>
    BY <1>5, <2>1
  <2> QED BY <1>2, <1>3, <2>2, <2>3, <2>4, <2>5, <2>6, <2>7 DEF Shows
<1> QED BY <1>6 DEF v

(* A turn starts.                                                              *)
LEMMA OnTurnStart ==
  ASSUME NEW s \in Seq(Events), Coherent(s), NEW e \in Events, e.type = "turn/start",
         e.code = "none", Trace(s).turn = 0, e.turn = Trace(s).nextTurn
  PROVE  /\ Coherent(Append(s, e))
         /\ Scanned(Append(s, e)) = [turn |-> e.turn, step |-> 0, pending |-> <<>>]
         /\ Trace(Append(s, e)) = [Trace(s) EXCEPT !.turn = e.turn, !.nextStep = 1]
<1> DEFINE a == Scanned(s)
           t == Trace(s)
           v == Append(s, e)
           b == Scanned(v)
           u == Trace(v)
<1>1. /\ a \in Scans /\ t \in Traces
      /\ TraceOk(t) /\ Agree(a, t) /\ PendingOk(a, t, s)
      /\ PastOk(t, s) /\ LastOk(t, s) /\ Answering(a, t, s)
  BY DEF Coherent
<1>2. b = Scan(a, e) /\ u = Validate(t, e)
  BY ScannedAppend, TraceAppend
<1>3. v \in Seq(Events)
  BY Appended
<1>4. LastTurn(v) = e.turn
  BY LastTurnAppend
<1>5. t.turn = 0 /\ e.turn = t.nextTurn
  OBVIOUS
<1> HIDE DEF a, t, b, u
<1>6. e.turn \in Nat
  BY DEF Events
<1>7. b = [turn |-> e.turn, step |-> 0, pending |-> <<>>]
  BY <1>2 DEF Scan
<1>8. u = [t EXCEPT !.turn = e.turn, !.nextStep = 1]
  BY <1>1, <1>2, <1>5 DEF Validate, Allowed, Transition, TraceOk
<1>9. /\ u \in Traces /\ u.ok /\ u.turn = e.turn /\ u.step = 0
      /\ u.nextTurn = t.nextTurn /\ u.nextStep = 1 /\ t.nextTurn \in Nat
  BY <1>1, <1>5, <1>6, <1>8 DEF Traces, TraceOk
<1>10. b \in Scans /\ b.turn = e.turn /\ b.step = 0 /\ b.pending = <<>>
  BY <1>6, <1>7 DEF Scans
<1>11. TraceOk(u)
  BY <1>1, <1>5, <1>9 DEF TraceOk
<1>12. Agree(b, u) /\ PendingOk(b, u, v) /\ Answering(b, u, v)
  BY <1>9, <1>10 DEF Agree, PendingOk, Answering
<1>13. LastOk(u, v)
  BY <1>1, <1>4, <1>5, <1>9 DEF LastOk, TraceOk
<1>14. PastOk(u, v)
  <2>1. \A x \in Events : Placed(x, t) => Placed(x, u)
    BY <1>1, <1>5, <1>9 DEF Placed, TraceOk, Events
  <2>2. Placed(e, u) /\ Named(e) /\ NotRun(e, v)
    BY DEF Placed, Named, NotRun, Stepwise
  <2> HIDE DEF v
  <2>3. PastOk(t, s) /\ e.type # "tool/call" /\ NotRun(e, Append(s, e))
    BY <1>1, <2>2 DEF v
  <2> QED BY <2>1, <2>2, <2>3, PastKept DEF v
<1>15. Coherent(v)
  BY <1>1, <1>9, <1>10, <1>11, <1>12, <1>13, <1>14 DEF Coherent, b, u
<1> QED BY <1>7, <1>8, <1>15 DEF b, t, u

(* A turn ends; the repair's own event has the code "interrupted".             *)
LEMMA OnTurnEnd ==
  ASSUME NEW s \in Seq(Events), Coherent(s), NEW e \in Events, e.type = "turn/end",
         e.code # "TOOL_NOT_STARTED", e.turn = Trace(s).turn, Trace(s).turn # 0, Trace(s).step = 0
  PROVE  /\ Coherent(Append(s, e))
         /\ Scanned(Append(s, e)) = ScanStart
         /\ Trace(Append(s, e)) = [Trace(s) EXCEPT !.turn = 0, !.nextTurn = @ + 1]
<1> DEFINE a == Scanned(s)
           t == Trace(s)
           v == Append(s, e)
           b == Scanned(v)
           u == Trace(v)
<1>1. /\ a \in Scans /\ t \in Traces
      /\ TraceOk(t) /\ Agree(a, t) /\ PendingOk(a, t, s)
      /\ PastOk(t, s) /\ LastOk(t, s) /\ Answering(a, t, s)
  BY DEF Coherent
<1>2. b = Scan(a, e) /\ u = Validate(t, e)
  BY ScannedAppend, TraceAppend
<1>3. v \in Seq(Events)
  BY Appended
<1>4. LastTurn(v) = LastTurn(s)
  BY LastTurnAppend
<1>5. t.turn # 0 /\ e.turn = t.turn /\ t.step = 0
  OBVIOUS
<1> HIDE DEF a, t, b, u
<1>7. b = ScanStart
  BY <1>2 DEF Scan
<1>8. u = [t EXCEPT !.turn = 0, !.nextTurn = @ + 1]
  BY <1>1, <1>2, <1>5 DEF Validate, Allowed, Transition, TraceOk
<1>9. /\ u \in Traces /\ u.ok /\ u.turn = 0 /\ u.step = 0
      /\ u.nextTurn = t.nextTurn + 1 /\ u.nextStep = t.nextStep
      /\ t.nextTurn \in Nat /\ t.nextStep \in Nat
  <2>1. t.nextTurn \in Nat /\ t.nextTurn + 1 \in Nat /\ t.nextStep \in Nat /\ t.ok
    BY <1>1 DEF Traces, TraceOk
  <2>2. u.nextTurn = t.nextTurn + 1
    BY <1>1, <1>8 DEF Traces
  <2>3. /\ u.ok = t.ok /\ u.turn = 0 /\ u.step = t.step
        /\ u.nextStep = t.nextStep /\ u.pending = t.pending
    BY <1>1, <1>8 DEF Traces
  <2>4. u = [ok |-> u.ok, turn |-> 0, step |-> t.step, nextTurn |-> u.nextTurn,
             nextStep |-> u.nextStep, pending |-> u.pending]
    BY <1>1, <1>8, <2>3 DEF Traces
  <2>5. u \in Traces
    <3>1. /\ u.ok \in BOOLEAN /\ t.turn \in Nat /\ t.step \in Nat
          /\ u.nextTurn \in Nat /\ u.nextStep \in Nat /\ u.pending \in SUBSET CallIds
      BY <1>1, <2>1, <2>2, <2>3 DEF Traces
    <3> QED BY <2>4, <3>1 DEF Traces
  <2> QED BY <1>5, <2>1, <2>2, <2>3, <2>5
<1>10. b \in Scans /\ b.turn = 0 /\ b.step = 0 /\ b.pending = <<>>
  BY <1>7 DEF Scans, ScanStart
<1>11. TraceOk(u)
  BY <1>1, <1>5, <1>9 DEF TraceOk
<1>12. Agree(b, u) /\ PendingOk(b, u, v) /\ Answering(b, u, v)
  BY <1>9, <1>10 DEF Agree, PendingOk, Answering
<1>13. LastOk(u, v)
  BY <1>1, <1>4, <1>5, <1>9 DEF LastOk, TraceOk
<1>14. PastOk(u, v)
  <2>1. \A x \in Events : Placed(x, t) => Placed(x, u)
    BY <1>1, <1>5, <1>9 DEF Placed, TraceOk, Events
  <2>2. Placed(e, u) /\ Named(e) /\ NotRun(e, v)
    BY DEF Placed, Named, NotRun, Stepwise
  <2> HIDE DEF v
  <2>3. PastOk(t, s) /\ e.type # "tool/call" /\ NotRun(e, Append(s, e))
    BY <1>1, <2>2 DEF v
  <2> QED BY <2>1, <2>2, <2>3, PastKept DEF v
<1>15. Coherent(v)
  BY <1>1, <1>9, <1>10, <1>11, <1>12, <1>13, <1>14 DEF Coherent, b, u
<1> QED BY <1>7, <1>8, <1>15 DEF a, b, t, u

(* A step starts, and nothing of it is in the log.                             *)
LEMMA OnStepStart ==
  ASSUME NEW s \in Seq(Events), Coherent(s), NEW e \in Events, e.type = "step/start",
         e.code = "none", e.turn = Trace(s).turn, Trace(s).turn # 0, Trace(s).step = 0,
         e.step = Trace(s).nextStep
  PROVE  /\ Coherent(Append(s, e)) /\ Fresh(Append(s, e), e.turn, e.step)
         /\ Scanned(Append(s, e)) = [Scanned(s) EXCEPT !.step = e.step]
         /\ Trace(Append(s, e)) = [Trace(s) EXCEPT !.step = e.step]
<1> DEFINE a == Scanned(s)
           t == Trace(s)
           v == Append(s, e)
           b == Scanned(v)
           u == Trace(v)
<1>1. /\ a \in Scans /\ t \in Traces
      /\ TraceOk(t) /\ Agree(a, t) /\ PendingOk(a, t, s)
      /\ PastOk(t, s) /\ LastOk(t, s) /\ Answering(a, t, s)
  BY DEF Coherent
<1>2. b = Scan(a, e) /\ u = Validate(t, e)
  BY ScannedAppend, TraceAppend
<1>3. v \in Seq(Events)
  BY Appended
<1>4. LastTurn(v) = LastTurn(s)
  BY LastTurnAppend
<1>5. t.turn # 0 /\ e.turn = t.turn /\ t.step = 0 /\ e.step = t.nextStep
  OBVIOUS
<1> HIDE DEF a, t, b, u
<1>6. e.turn \in Nat /\ e.step \in Nat
  BY DEF Events
<1>7. b = [a EXCEPT !.step = e.step]
  BY <1>2 DEF Scan
<1>8. u = [t EXCEPT !.step = e.step]
  BY <1>1, <1>2, <1>5 DEF Validate, Allowed, Transition, TraceOk
<1>9. /\ u \in Traces /\ u.ok /\ u.turn = t.turn /\ u.step = e.step
      /\ u.nextTurn = t.nextTurn /\ u.nextStep = t.nextStep /\ u.pending = t.pending
      /\ t.nextTurn \in Nat /\ t.nextStep \in Nat
  BY <1>1, <1>5, <1>6, <1>8 DEF Traces, TraceOk
<1>10. b \in Scans /\ b.turn = t.turn /\ b.step = e.step /\ b.pending = <<>>
  <2>1. a.turn = t.turn /\ a.pending = <<>>
    BY <1>1, <1>5 DEF Agree
  <2> QED BY <1>1, <1>6, <1>7, <2>1 DEF Scans
<1>11. TraceOk(u)
  BY <1>1, <1>5, <1>9 DEF TraceOk
<1>13. LastOk(u, v)
  BY <1>1, <1>4, <1>5, <1>9 DEF LastOk, TraceOk
<1>16. Fresh(v, e.turn, e.step)
  <2>1. /\ Len(s) \in Nat /\ DOMAIN s = 1..Len(s) /\ DOMAIN v = 1..(Len(s) + 1)
        /\ v[Len(s) + 1] = e /\ \A k \in 1..Len(s) : v[k] = s[k] /\ s[k] \in Events
    BY Appended
  <2> HIDE DEF v
  <2> SUFFICES ASSUME NEW k \in DOMAIN v, v[k].type \in Stepwise, v[k].turn = e.turn, v[k].step = e.step
               PROVE FALSE
    BY DEF Fresh
  <2>2. k # Len(s) + 1
    BY <2>1 DEF Stepwise
  <2>3. k \in DOMAIN s /\ v[k] = s[k]
    BY <2>1, <2>2
  <2>4. Placed(s[k], t)
    BY <1>1, <2>3 DEF PastOk
  <2> QED BY <1>1, <1>5, <1>6, <1>9, <2>3, <2>4 DEF Placed, TraceOk
<1>17. Shows(<<>>, u.turn, u.step, 0, v)
  <2>1. /\ EventsOf(v, "tool/result", u.turn, u.step) = {}
        /\ EventsOf(v, "assistant/message", u.turn, u.step) = {}
    BY <1>5, <1>9, <1>16 DEF Fresh, EventsOf, Stepwise
  <2>2. 1..0 = {}
    OBVIOUS
  <2> QED BY <2>1, <2>2 DEF Shows
<1>12. Agree(b, u) /\ PendingOk(b, u, v) /\ Answering(b, u, v)
  BY <1>1, <1>5, <1>9, <1>10, <1>17 DEF Agree, PendingOk, Answering, TraceOk
<1>14. PastOk(u, v)
  <2>1. \A x \in Events : Placed(x, t) => Placed(x, u)
    BY <1>1, <1>5, <1>9 DEF Placed, TraceOk, Events
  <2>2. Placed(e, u) /\ Named(e) /\ NotRun(e, v)
    BY DEF Placed, Named, NotRun, Stepwise
  <2> HIDE DEF v
  <2>3. PastOk(t, s) /\ e.type # "tool/call" /\ NotRun(e, Append(s, e))
    BY <1>1, <2>2 DEF v
  <2> QED BY <2>1, <2>2, <2>3, PastKept DEF v
<1>15. Coherent(v)
  BY <1>1, <1>9, <1>10, <1>11, <1>12, <1>13, <1>14 DEF Coherent, b, u
<1> QED BY <1>7, <1>8, <1>15, <1>16 DEF a, b, t, u

(* A step ends, and the calls it left are forgotten.                           *)
LEMMA OnStepEnd ==
  ASSUME NEW s \in Seq(Events), Coherent(s), NEW e \in Events, e.type = "step/end",
         e.code # "TOOL_NOT_STARTED", e.turn = Trace(s).turn, e.step = Trace(s).step, Trace(s).step # 0
  PROVE  /\ Coherent(Append(s, e))
         /\ Scanned(Append(s, e)) = [Scanned(s) EXCEPT !.step = 0, !.pending = <<>>]
         /\ Trace(Append(s, e)) = [Trace(s) EXCEPT !.step = 0, !.nextStep = @ + 1, !.pending = {}]
<1> DEFINE a == Scanned(s)
           t == Trace(s)
           v == Append(s, e)
           b == Scanned(v)
           u == Trace(v)
<1>1. /\ a \in Scans /\ t \in Traces
      /\ TraceOk(t) /\ Agree(a, t) /\ PendingOk(a, t, s)
      /\ PastOk(t, s) /\ LastOk(t, s) /\ Answering(a, t, s)
  BY DEF Coherent
<1>2. b = Scan(a, e) /\ u = Validate(t, e)
  BY ScannedAppend, TraceAppend
<1>3. v \in Seq(Events)
  BY Appended
<1>4. LastTurn(v) = LastTurn(s)
  BY LastTurnAppend
<1>5. t.turn # 0 /\ e.turn = t.turn /\ t.step # 0 /\ e.step = t.step
  BY <1>1 DEF TraceOk
<1> HIDE DEF a, t, b, u
<1>7. b = [a EXCEPT !.step = 0, !.pending = <<>>]
  BY <1>2 DEF Scan
<1>8. u = [t EXCEPT !.step = 0, !.nextStep = @ + 1, !.pending = {}]
  BY <1>1, <1>2, <1>5 DEF Validate, Allowed, Transition, TraceOk, InStep
<1>9. /\ u \in Traces /\ u.ok /\ u.turn = t.turn /\ u.step = 0
      /\ u.nextTurn = t.nextTurn /\ u.nextStep = t.nextStep + 1
      /\ t.nextTurn \in Nat /\ t.nextStep \in Nat
  <2>1. t.nextTurn \in Nat /\ t.nextStep + 1 \in Nat /\ t.nextStep \in Nat /\ t.ok
    BY <1>1 DEF Traces, TraceOk
  <2>2. u.nextStep = t.nextStep + 1
    BY <1>1, <1>8 DEF Traces
  <2>3. u.ok = t.ok /\ u.turn = t.turn /\ u.step = 0 /\ u.nextTurn = t.nextTurn /\ u.pending = {}
    BY <1>1, <1>8 DEF Traces
  <2>4. u = [ok |-> u.ok, turn |-> t.turn, step |-> 0, nextTurn |-> u.nextTurn,
             nextStep |-> u.nextStep, pending |-> u.pending]
    BY <1>1, <1>8, <2>3 DEF Traces
  <2>5. u \in Traces
    <3>1. /\ u.ok \in BOOLEAN /\ t.turn \in Nat /\ t.step \in Nat
          /\ u.nextTurn \in Nat /\ u.nextStep \in Nat /\ u.pending \in SUBSET CallIds
      BY <1>1, <2>1, <2>2, <2>3 DEF Traces
    <3> QED BY <2>4, <3>1 DEF Traces
  <2> QED BY <1>5, <2>1, <2>2, <2>3, <2>5
<1>10. b \in Scans /\ b.turn = t.turn /\ b.step = 0 /\ b.pending = <<>>
  <2>1. b = [turn |-> a.turn, step |-> 0, pending |-> <<>>] /\ a.turn \in Nat /\ a.turn = t.turn
    BY <1>1, <1>7 DEF Scans, Agree
  <2>2. <<>> \in Seq(PendingCalls)
    OBVIOUS
  <2> QED BY <2>1, <2>2 DEF Scans
<1>11. TraceOk(u)
  BY <1>1, <1>5, <1>9 DEF TraceOk
<1>12. Agree(b, u) /\ PendingOk(b, u, v) /\ Answering(b, u, v)
  BY <1>9, <1>10 DEF Agree, PendingOk, Answering
<1>13. LastOk(u, v)
  BY <1>1, <1>4, <1>5, <1>9 DEF LastOk, TraceOk
<1>14. PastOk(u, v)
  <2>1. \A x \in Events : Placed(x, t) => Placed(x, u)
    BY <1>1, <1>5, <1>9 DEF Placed, TraceOk, Events
  <2>2. Placed(e, u) /\ Named(e) /\ NotRun(e, v)
    BY DEF Placed, Named, NotRun, Stepwise
  <2> HIDE DEF v
  <2>3. PastOk(t, s) /\ e.type # "tool/call" /\ NotRun(e, Append(s, e))
    BY <1>1, <2>2 DEF v
  <2> QED BY <2>1, <2>2, <2>3, PastKept DEF v
<1>15. Coherent(v)
  BY <1>1, <1>9, <1>10, <1>11, <1>12, <1>13, <1>14 DEF Coherent, b, u
<1> QED BY <1>7, <1>8, <1>15 DEF a, b, t, u

(* The calls an answer offers, numbered from 1.                              *)
LEMMA AsksIs ==
  ASSUME NEW e \in Events
  PROVE  /\ Asks(e) \in Seq(PendingCalls) /\ Len(Asks(e)) = e.n /\ e.n \in Nat
         /\ \A i \in 1..e.n : /\ Asks(e)[i].call = <<e.turn, e.step, i>>
                              /\ Asks(e)[i].step = e.step /\ Asks(e)[i].started = FALSE
<1>1. e.turn \in Nat /\ e.step \in Nat /\ e.n \in Nat
  BY DEF Events
<1>2. \A i \in 1..e.n : [call |-> <<e.turn, e.step, i>>, step |-> e.step, started |-> FALSE] \in PendingCalls
  BY <1>1 DEF PendingCalls, CallIds
<1>3. Asks(e) \in [1..e.n -> PendingCalls]
  BY <1>2 DEF Asks
<1>4. Asks(e) \in Seq(PendingCalls) /\ Len(Asks(e)) = e.n
  BY <1>1, <1>3
<1> QED BY <1>1, <1>4 DEF Asks

(* The answer is logged, once in its step.                                     *)
LEMMA OnMessage ==
  ASSUME NEW s \in Seq(Events), Coherent(s), NEW e \in Events, e.type = "assistant/message",
         e.code = "none", e.turn = Trace(s).turn, e.step = Trace(s).step, Trace(s).step # 0,
         Scanned(s).pending = <<>>, Fresh(s, e.turn, e.step)
  PROVE  /\ Coherent(Append(s, e))
         /\ Scanned(Append(s, e)) = [Scanned(s) EXCEPT !.pending = Asks(e)]
         /\ Trace(Append(s, e)) = Trace(s)
<1> DEFINE a == Scanned(s)
           t == Trace(s)
           v == Append(s, e)
           b == Scanned(v)
           u == Trace(v)
<1>1. /\ a \in Scans /\ t \in Traces
      /\ TraceOk(t) /\ Agree(a, t) /\ PendingOk(a, t, s)
      /\ PastOk(t, s) /\ LastOk(t, s) /\ Answering(a, t, s)
  BY DEF Coherent
<1>2. b = Scan(a, e) /\ u = Validate(t, e)
  BY ScannedAppend, TraceAppend
<1>3. v \in Seq(Events)
  BY Appended
<1>4. LastTurn(v) = LastTurn(s)
  BY LastTurnAppend
<1>5. t.turn # 0 /\ e.turn = t.turn /\ t.step # 0 /\ e.step = t.step /\ a.pending = <<>>
  BY <1>1 DEF TraceOk
<1>6. /\ EventsOf(v, "tool/result", e.turn, e.step) = {}
      /\ EventsOf(v, "assistant/message", e.turn, e.step) = {Len(s) + 1}
  <2>1. /\ EventsOf(s, "tool/result", e.turn, e.step) = {}
        /\ EventsOf(s, "assistant/message", e.turn, e.step) = {}
    BY DEF Fresh, EventsOf, Stepwise
  <2>2. ~(e.type = "tool/result" /\ e.turn = e.turn /\ e.step = e.step)
    OBVIOUS
  <2>3. EventsOf(v, "tool/result", e.turn, e.step) = {}
    BY <2>1, <2>2, EventsOfKept
  <2>4. EventsOf(v, "assistant/message", e.turn, e.step) =
          EventsOf(s, "assistant/message", e.turn, e.step) \cup {Len(s) + 1}
    BY EventsOfAdded, SMTT(30)
  <2> QED BY <2>1, <2>3, <2>4
<1>16. v[Len(s) + 1] = e
  BY Appended
<1>17. Called(v) = Called(s)
  <2>1. Called(v) = Called(s) \cup (IF e.type = "tool/call" THEN {e.call} ELSE {})
    BY CalledAppend
  <2> QED BY <2>1
<1> HIDE DEF a, t, b, u
<1>7. b = [a EXCEPT !.pending = Asks(e)]
  <2>1. <<>> \o Asks(e) = Asks(e)
    BY AsksIs, ConcatEmptySeq
  <2>2. b = [a EXCEPT !.pending = a.pending \o Asks(e)]
    BY <1>1, <1>2 DEF Scan, Scans
  <2> QED BY <1>5, <2>1, <2>2
<1>8. u = t
  BY <1>1, <1>2, <1>5 DEF Validate, Allowed, Transition, TraceOk, InStep
<1>9. t.nextTurn \in Nat /\ t.nextStep \in Nat /\ t.turn \in Nat /\ t.step \in Nat
  BY <1>1 DEF Traces
<1>10. b \in Scans /\ b.turn = t.turn /\ b.step = t.step /\ b.pending = Asks(e)
  <2>1. b = [turn |-> a.turn, step |-> a.step, pending |-> Asks(e)] /\ a.turn = t.turn /\ a.step = t.step
    BY <1>1, <1>7 DEF Scans, Agree
  <2>2. Asks(e) \in Seq(PendingCalls)
    BY AsksIs
  <2> QED BY <1>9, <2>1, <2>2 DEF Scans
<1>19. /\ Asks(e) \in Seq(PendingCalls) /\ Len(Asks(e)) = e.n /\ e.n \in Nat
       /\ \A i \in 1..e.n : /\ Asks(e)[i].call = <<e.turn, e.step, i>>
                            /\ Asks(e)[i].step = e.step /\ Asks(e)[i].started = FALSE
  BY AsksIs, Zenon
<1>20. DOMAIN Asks(e) = 1..e.n
  BY <1>19
<1>18. Shows(Asks(e), e.turn, e.step, 0, v)
  <2>1. \A i \in DOMAIN Asks(e) : Asks(e)[i].call = <<e.turn, e.step, 0 + i>>
    BY <1>19, <1>20
  <2>2. v[Len(s) + 1].n = 0 + Len(Asks(e))
    BY <1>16, <1>19
  <2>3. 1..0 = {}
    OBVIOUS
  <2> HIDE DEF v
  <2> QED BY <1>6, <2>1, <2>2, <2>3 DEF Shows
<1>12. Agree(b, u) /\ PendingOk(b, u, v) /\ Answering(b, u, v)
  <2>1. Agree(b, u)
    BY <1>5, <1>8, <1>10 DEF Agree
  <2>2. Answering(b, u, v)
    BY <1>5, <1>8, <1>10, <1>18 DEF Answering
  <2>3. \A i \in Nat : <<e.turn, e.step, i>> \notin Called(s)
    <3> SUFFICES ASSUME NEW i \in Nat, NEW k \in DOMAIN s, s[k].type = "tool/call",
                        s[k].call = <<e.turn, e.step, i>>
                 PROVE FALSE
      BY DEF Called
    <3>1. PICK j \in Nat : s[k].call = <<s[k].turn, s[k].step, j>>
      BY <1>1 DEF PastOk, Named
    <3> QED BY <3>1 DEF Fresh, Stepwise
  <2>4. PendingOk(b, u, v)
    <3> HIDE DEF v
    <3>1. ASSUME NEW i \in DOMAIN b.pending
          PROVE  /\ b.pending[i].step = u.step
                 /\ ~b.pending[i].started
                 /\ b.pending[i].call \notin Called(v)
      <4>1. i \in 1..e.n /\ i \in Nat /\ b.pending[i] = Asks(e)[i]
        BY <1>10, <1>19, <1>20, <3>1
      <4>2. Asks(e)[i].call = <<e.turn, e.step, i>> /\ Asks(e)[i].step = e.step /\ ~Asks(e)[i].started
        BY <1>19, <4>1
      <4> QED BY <1>5, <1>8, <1>17, <2>3, <4>1, <4>2
    <3> QED BY <3>1 DEF PendingOk
  <2> QED BY <2>1, <2>2, <2>4
<1>13. LastOk(u, v)
  BY <1>1, <1>4, <1>8 DEF LastOk
<1>14. PastOk(u, v)
  <2>2. Placed(e, u) /\ Named(e) /\ NotRun(e, v)
    BY <1>5, <1>8 DEF Placed, Named, NotRun, Stepwise
  <2>3. \A x \in Events : Placed(x, t) => Placed(x, u)
    BY <1>8
  <2> HIDE DEF v
  <2>4. PastOk(t, s) /\ e.type # "tool/call" /\ NotRun(e, Append(s, e))
    BY <1>1, <2>2 DEF v
  <2> QED BY <2>2, <2>3, <2>4, PastKept DEF v
<1>15. Coherent(v)
  BY <1>1, <1>8, <1>10, <1>12, <1>13, <1>14 DEF Coherent, b, u
<1> QED BY <1>7, <1>8, <1>15 DEF a, b, t, u

(* A call that is answered already is not one of those the scan still has.     *)
LEMMA NotAnsweredYet ==
  ASSUME NEW s \in Seq(Events), Coherent(s), NEW i \in DOMAIN Scanned(s).pending,
         NEW k \in DOMAIN s, s[k].type = "tool/result"
  PROVE  s[k].call # Scanned(s).pending[i].call
<1> DEFINE a == Scanned(s)
           t == Trace(s)
<1>1. a \in Scans /\ t \in Traces /\ Agree(a, t) /\ PastOk(t, s) /\ Answering(a, t, s)
  BY DEF Coherent
<1>2. i \in DOMAIN a.pending
  OBVIOUS
<1>3. SUFFICES ASSUME s[k].call = a.pending[i].call PROVE FALSE
  OBVIOUS
<1> HIDE DEF a, t
<1>4. PICK j \in Nat : s[k].call = <<s[k].turn, s[k].step, j>>
  BY <1>1 DEF PastOk, Named
<1>5. a.pending # <<>> /\ i \in 1..Len(a.pending)
  BY <1>1, <1>2 DEF Scans
<1>6. t.step # 0
  BY <1>1, <1>5 DEF Agree
<1>7. PICK r \in Nat : Shows(a.pending, t.turn, t.step, r, s)
  BY <1>1, <1>6 DEF Answering
<1>8. a.pending[i].call = <<t.turn, t.step, r + i>>
  BY <1>2, <1>7 DEF Shows
<1>9. s[k].turn = t.turn /\ s[k].step = t.step
  <2>1. s[k] \in Events /\ r + i \in Nat
    BY <1>5
  <2>2. s[k].turn \in Nat /\ s[k].step \in Nat /\ t.turn \in Nat /\ t.step \in Nat
    BY <1>1, <2>1 DEF Events, Traces
  <2>3. <<s[k].turn, s[k].step, j>> = <<t.turn, t.step, r + i>>
    BY <1>3, <1>4, <1>8
  <2> QED BY <2>1, <2>2, <2>3
<1>10. k \in EventsOf(s, "tool/result", t.turn, t.step)
  BY <1>9 DEF EventsOf
<1>11. PICK l \in 1..r : s[k].call = <<t.turn, t.step, l>>
  BY <1>7, <1>10 DEF Shows
<1>12. l = r + i
  BY <1>3, <1>8, <1>11
<1> QED BY <1>5, <1>7, <1>11, <1>12

(* A call is recorded.                                                         *)
LEMMA OnCall ==
  ASSUME NEW s \in Seq(Events), Coherent(s), NEW e \in Events, e.type = "tool/call",
         e.code = "none", e.turn = Trace(s).turn, e.step = Trace(s).step, Trace(s).step # 0,
         NEW o \in DOMAIN Scanned(s).pending, e.call = Scanned(s).pending[o].call
  PROVE  /\ Coherent(Append(s, e))
         /\ Len(Scanned(Append(s, e)).pending) = Len(Scanned(s).pending)
         /\ \A i \in 1..Len(Scanned(s).pending) :
              Scanned(Append(s, e)).pending[i].call = Scanned(s).pending[i].call
         /\ Trace(Append(s, e)) = [Trace(s) EXCEPT !.pending = @ \cup {e.call}]
<1> DEFINE a == Scanned(s)
           t == Trace(s)
           v == Append(s, e)
           b == Scanned(v)
           u == Trace(v)
<1>1. /\ a \in Scans /\ t \in Traces
      /\ TraceOk(t) /\ Agree(a, t) /\ PendingOk(a, t, s)
      /\ PastOk(t, s) /\ LastOk(t, s) /\ Answering(a, t, s)
  BY DEF Coherent
<1>2. b = Scan(a, e) /\ u = Validate(t, e)
  BY ScannedAppend, TraceAppend
<1>3. v \in Seq(Events)
  BY Appended
<1>4. LastTurn(v) = LastTurn(s)
  BY LastTurnAppend
<1>5. t.turn # 0 /\ e.turn = t.turn /\ t.step # 0 /\ e.step = t.step
  BY <1>1 DEF TraceOk
<1>6. o \in DOMAIN a.pending /\ e.call = a.pending[o].call
  OBVIOUS
<1>16. Called(v) = Called(s) \cup {e.call}
  <2>1. Called(v) = Called(s) \cup (IF e.type = "tool/call" THEN {e.call} ELSE {})
    BY CalledAppend
  <2> QED BY <2>1
<1>17. \A k \in DOMAIN s : s[k].type = "tool/result" => s[k].call # e.call
  BY NotAnsweredYet
<1> HIDE DEF a, t, b, u
<1> DEFINE q == [i \in DOMAIN a.pending |->
                   IF a.pending[i].call = e.call THEN [a.pending[i] EXCEPT !.started = TRUE] ELSE a.pending[i]]
<1>7. b = [a EXCEPT !.pending = q]
  BY <1>1, <1>2 DEF Scan, Scans
<1>8. u = [t EXCEPT !.pending = t.pending \cup {e.call}]
  BY <1>1, <1>2, <1>5 DEF Validate, Allowed, Transition, TraceOk, InStep, Traces
<1>18. a.pending \in Seq(PendingCalls) /\ DOMAIN a.pending = 1..Len(a.pending) /\ Len(a.pending) \in Nat
  BY <1>1 DEF Scans
<1>19. \A i \in 1..Len(a.pending) :
         /\ q[i] \in PendingCalls /\ q[i].call = a.pending[i].call /\ q[i].step = a.pending[i].step
         /\ q[i].started = (a.pending[i].call = e.call \/ a.pending[i].started)
  <2> SUFFICES ASSUME NEW i \in 1..Len(a.pending)
               PROVE  /\ q[i] \in PendingCalls /\ q[i].call = a.pending[i].call /\ q[i].step = a.pending[i].step
                      /\ q[i].started = (a.pending[i].call = e.call \/ a.pending[i].started)
    OBVIOUS
  <2>1. a.pending[i] \in PendingCalls
    BY <1>18
  <2>2. q[i] = IF a.pending[i].call = e.call THEN [a.pending[i] EXCEPT !.started = TRUE] ELSE a.pending[i]
    BY <1>18
  <2> HIDE DEF q
  <2> QED BY <2>1, <2>2 DEF PendingCalls
<1>20. q \in Seq(PendingCalls) /\ Len(q) = Len(a.pending) /\ DOMAIN q = 1..Len(a.pending)
  <2>1. q \in [1..Len(a.pending) -> PendingCalls]
    BY <1>18, <1>19
  <2> HIDE DEF q
  <2> QED BY <1>18, <2>1, SMTT(30)
<1> HIDE DEF q
<1>9. /\ t.nextTurn \in Nat /\ t.nextStep \in Nat /\ t.turn \in Nat /\ t.step \in Nat
      /\ u \in Traces /\ u.ok /\ u.turn = t.turn /\ u.step = t.step /\ u.nextTurn = t.nextTurn
      /\ u.nextStep = t.nextStep /\ u.pending = t.pending \cup {e.call}
  <2>1. e.call \in CallIds
    BY DEF Events
  <2> QED BY <1>1, <1>8, <2>1 DEF Traces, TraceOk
<1>10. b \in Scans /\ b.turn = t.turn /\ b.step = t.step /\ b.pending = q
  <2>1. b = [turn |-> a.turn, step |-> a.step, pending |-> q] /\ a.turn = t.turn /\ a.step = t.step
    BY <1>1, <1>7 DEF Scans, Agree
  <2> QED BY <1>9, <1>20, <2>1 DEF Scans
<1>11. TraceOk(u)
  BY <1>1, <1>9 DEF TraceOk
<1>12. Agree(b, u) /\ PendingOk(b, u, v) /\ Answering(b, u, v)
  <2>1. Agree(b, u)
    BY <1>5, <1>9, <1>10 DEF Agree
  <2>2. PICK r \in Nat : Shows(a.pending, t.turn, t.step, r, s)
    BY <1>1, <1>5 DEF Answering
  <2>3. ~(e.type \in {"tool/result", "assistant/message"} /\ e.turn = t.turn /\ e.step = t.step)
    OBVIOUS
  <2>4. Shows(q, t.turn, t.step, r, Append(s, e))
    BY <1>18, <1>19, <1>20, <2>2, <2>3, ShowsKept
  <2>5. Answering(b, u, v)
    BY <1>9, <1>10, <2>4 DEF Answering
  <2>6. PendingOk(b, u, v)
    <3>1. ASSUME NEW i \in DOMAIN b.pending
          PROVE  /\ b.pending[i].step = u.step
                 /\ b.pending[i].started => b.pending[i].call \in u.pending
                 /\ ~b.pending[i].started => b.pending[i].call \notin Called(v)
      <4>1. i \in 1..Len(a.pending) /\ i \in DOMAIN a.pending /\ b.pending[i] = q[i]
        BY <1>10, <1>18, <1>20, <3>1
      <4>2. /\ a.pending[i].step = t.step
            /\ a.pending[i].started => a.pending[i].call \in t.pending
            /\ ~a.pending[i].started => a.pending[i].call \notin Called(s)
        BY <1>1, <4>1 DEF PendingOk
      <4>3. /\ q[i].call = a.pending[i].call /\ q[i].step = a.pending[i].step
            /\ q[i].started = (a.pending[i].call = e.call \/ a.pending[i].started)
        BY <1>19, <4>1
      <4> QED BY <1>9, <1>16, <4>1, <4>2, <4>3
    <3> QED BY <3>1 DEF PendingOk
  <2> QED BY <2>1, <2>5, <2>6
<1>13. LastOk(u, v)
  BY <1>1, <1>4, <1>9 DEF LastOk
<1>14. PastOk(u, v)
  <2>1. PICK r \in Nat : Shows(a.pending, t.turn, t.step, r, s)
    BY <1>1, <1>5 DEF Answering
  <2>2. a.pending[o].call = <<t.turn, t.step, r + o>> /\ r + o \in Nat
    BY <1>6, <1>18, <2>1 DEF Shows
  <2>3. Named(e)
    BY <1>5, <1>6, <2>2 DEF Named
  <2>4. Placed(e, u) /\ NotRun(e, v)
    BY <1>5, <1>9 DEF Placed, NotRun, Stepwise
  <2>5. \A x \in Events : Placed(x, t) => Placed(x, u)
    BY <1>9 DEF Placed
  <2>6. \A k \in DOMAIN s : s[k].code = "TOOL_NOT_STARTED" => s[k].call # e.call
    BY <1>1, <1>17 DEF PastOk, NotRun
  <2> HIDE DEF v
  <2>7. PastOk(t, s) /\ NotRun(e, Append(s, e))
    BY <1>1, <2>4 DEF v
  <2> QED BY <2>3, <2>4, <2>5, <2>6, <2>7, PastKept DEF v
<1>15. Coherent(v)
  BY <1>1, <1>9, <1>10, <1>11, <1>12, <1>13, <1>14 DEF Coherent, b, u
<1> QED BY <1>8, <1>10, <1>15, <1>19, <1>20 DEF a, b, t, u

(* The key of the first entry is deleted.                                      *)
LEMMA AnsweredFirst ==
  ASSUME NEW p \in Seq(PendingCalls), p # <<>>,
         \A i \in 2..Len(p) : p[i].call # p[1].call
  PROVE  Answered(p, p[1].call) = Tail(p)
<1>1. DOMAIN p = 1..Len(p) /\ Len(p) \in Nat /\ Len(p) # 0
  OBVIOUS
<1> DEFINE at == {i \in DOMAIN p : p[i].call = p[1].call}
<1>2. 1 \in at /\ \A i \in at : i = 1
  BY <1>1
<1>3. Answered(p, p[1].call) = IF at = {} THEN p ELSE Lists!RemoveAt(p, CHOOSE i \in at : TRUE)
  BY DEF Answered
<1> HIDE DEF at
<1>4. (CHOOSE i \in at : TRUE) = 1
  BY <1>2
<1>5. Answered(p, p[1].call) = Lists!RemoveAt(p, 1)
  BY <1>2, <1>3, <1>4
<1>6. Lists!RemoveAt(p, 1) = SubSeq(p, 1, 1 - 1) \o SubSeq(p, 1 + 1, Len(p))
  BY DEF Lists!RemoveAt
<1>7. SubSeq(p, 1, 0) = <<>>
  BY SubSeqEmpty
<1>8. SubSeq(p, 2, Len(p)) = Tail(p)
  BY TailIsSubSeq
<1>9. Tail(p) \in Seq(PendingCalls)
  BY HeadTailProperties
<1>10. <<>> \o Tail(p) = Tail(p)
  BY <1>9, ConcatEmptySeq
<1>11. 1 - 1 = 0 /\ 1 + 1 = 2
  OBVIOUS
<1> QED BY <1>5, <1>6, <1>7, <1>8, <1>10, <1>11

(* The next call in order gets its result.                                     *)
LEMMA ShowsNext ==
  ASSUME NEW s \in Seq(Events), NEW e \in Events, NEW turn \in Nat, NEW step \in Nat, NEW r \in Nat,
         NEW p \in Seq(PendingCalls), p # <<>>, Shows(p, turn, step, r, s),
         e.type = "tool/result", e.turn = turn, e.step = step, e.call = p[1].call
  PROVE  Shows(Tail(p), turn, step, r + 1, Append(s, e))
<1> DEFINE v == Append(s, e)
           R == EventsOf(s, "tool/result", turn, step)
           M == EventsOf(s, "assistant/message", turn, step)
           N == Len(s) + 1
           q == Tail(p)
<1>1. DOMAIN s = 1..Len(s) /\ Len(s) \in Nat /\ v[N] = e /\ \A k \in 1..Len(s) : v[k] = s[k]
  BY Appended
<1>2. EventsOf(v, "tool/result", turn, step) = R \cup {N}
  BY EventsOfAdded
<1>3. EventsOf(v, "assistant/message", turn, step) = M
  <2>1. ~(e.type = "assistant/message" /\ e.turn = turn /\ e.step = step)
    OBVIOUS
  <2> QED BY <2>1, EventsOfKept
<1>4. /\ R \subseteq 1..Len(s) /\ M \subseteq 1..Len(s)
      /\ \A k \in R \cup M : v[k] = s[k] /\ k \in Nat /\ k < N
  BY <1>1 DEF EventsOf
<1>5. q \in Seq(PendingCalls) /\ Len(q) = Len(p) - 1 /\ Len(p) \in Nat /\ \A i \in 1..Len(q) : q[i] = p[i + 1]
  BY HeadTailProperties
<1>6. /\ \A i \in DOMAIN p : p[i].call = <<turn, step, r + i>>
      /\ \A k \in R : \E i \in 1..r : s[k].call = <<turn, step, i>>
      /\ \A i \in 1..r : \E k \in R : s[k].call = <<turn, step, i>>
      /\ \A j, k \in R : j < k => s[j].call[3] < s[k].call[3]
      /\ \A m \in M : s[m].n = r + Len(p) /\ \A k \in R : m < k
      /\ M = {} => r = 0 /\ p = <<>>
  BY DEF Shows
<1>7. DOMAIN p = 1..Len(p) /\ DOMAIN q = 1..Len(q) /\ 1 \in DOMAIN p /\ M # {}
  BY <1>5, <1>6
<1>8. v[N].call = <<turn, step, r + 1>>
  BY <1>1, <1>6, <1>7
<1> HIDE DEF v, R, M, N, q
<1>9. \A i \in DOMAIN q : q[i].call = <<turn, step, (r + 1) + i>>
  <2> SUFFICES ASSUME NEW i \in DOMAIN q PROVE q[i].call = <<turn, step, (r + 1) + i>>
    OBVIOUS
  <2>1. i + 1 \in DOMAIN p /\ q[i] = p[i + 1] /\ i \in Nat
    BY <1>5, <1>7
  <2>2. r + (i + 1) = (r + 1) + i
    BY <2>1
  <2> QED BY <1>6, <2>1, <2>2
<1>10. \A k \in R \cup {N} : \E i \in 1..(r + 1) : v[k].call = <<turn, step, i>>
  <2> SUFFICES ASSUME NEW k \in R \cup {N} PROVE \E i \in 1..(r + 1) : v[k].call = <<turn, step, i>>
    OBVIOUS
  <2>1. CASE k = N
    BY <1>8, <2>1
  <2>2. CASE k \in R
    <3>1. PICK i \in 1..r : s[k].call = <<turn, step, i>>
      BY <1>6, <2>2
    <3> QED BY <1>4, <2>2, <3>1
  <2> QED BY <2>1, <2>2
<1>11. \A i \in 1..(r + 1) : \E k \in R \cup {N} : v[k].call = <<turn, step, i>>
  <2> SUFFICES ASSUME NEW i \in 1..(r + 1) PROVE \E k \in R \cup {N} : v[k].call = <<turn, step, i>>
    OBVIOUS
  <2>1. CASE i = r + 1
    BY <1>8, <2>1
  <2>2. CASE i \in 1..r
    <3>1. PICK k \in R : s[k].call = <<turn, step, i>>
      BY <1>6, <2>2
    <3> QED BY <1>4, <3>1
  <2> QED BY <2>1, <2>2
<1>12. \A j, k \in R \cup {N} : j < k => v[j].call[3] < v[k].call[3]
  <2> SUFFICES ASSUME NEW j \in R \cup {N}, NEW k \in R \cup {N}, j < k
               PROVE  v[j].call[3] < v[k].call[3]
    OBVIOUS
  <2>1. j \in R
    BY <1>1, <1>4 DEF N
  <2>2. CASE k \in R
    BY <1>4, <1>6, <2>1, <2>2
  <2>3. CASE k = N
    <3>1. PICK i \in 1..r : s[j].call = <<turn, step, i>>
      BY <1>6, <2>1
    <3>2. v[j].call[3] = i /\ v[k].call[3] = r + 1
      BY <1>4, <1>8, <2>1, <2>3, <3>1
    <3> QED BY <3>2
  <2> QED BY <2>2, <2>3
<1>13. \A m \in M : v[m].n = (r + 1) + Len(q) /\ \A k \in R \cup {N} : m < k
  <2> SUFFICES ASSUME NEW m \in M
               PROVE  v[m].n = (r + 1) + Len(q) /\ \A k \in R \cup {N} : m < k
    OBVIOUS
  <2>1. s[m].n = r + Len(p) /\ \A k \in R : m < k
    BY <1>6
  <2>2. r + Len(p) = (r + 1) + Len(q)
    BY <1>5
  <2> QED BY <1>4, <2>1, <2>2
<1>14. Shows(q, turn, step, r + 1, v)
  BY <1>2, <1>3, <1>7, <1>9, <1>10, <1>11, <1>12, <1>13 DEF Shows
<1> QED BY <1>14 DEF v, q

(* A result is logged, or made up by the repair.                               *)
LEMMA OnResult ==
  ASSUME NEW s \in Seq(Events), Coherent(s), NEW e \in Events, e.type = "tool/result",
         e.turn = Trace(s).turn, e.step = Trace(s).step, Trace(s).step # 0,
         Scanned(s).pending # <<>>, e.call = Scanned(s).pending[1].call,
         IF e.code = "TOOL_NOT_STARTED" THEN ~Scanned(s).pending[1].started
                                        ELSE e.call \in Trace(s).pending
  PROVE  /\ Coherent(Append(s, e))
         /\ Scanned(Append(s, e)) = [Scanned(s) EXCEPT !.pending = Tail(Scanned(s).pending)]
         /\ Trace(Append(s, e)) = [Trace(s) EXCEPT !.pending = @ \ {e.call}]
<1> DEFINE a == Scanned(s)
           t == Trace(s)
           v == Append(s, e)
           b == Scanned(v)
           u == Trace(v)
<1>1. /\ a \in Scans /\ t \in Traces
      /\ TraceOk(t) /\ Agree(a, t) /\ PendingOk(a, t, s)
      /\ PastOk(t, s) /\ LastOk(t, s) /\ Answering(a, t, s)
  BY DEF Coherent
<1>2. b = Scan(a, e) /\ u = Validate(t, e)
  BY ScannedAppend, TraceAppend
<1>3. v \in Seq(Events)
  BY Appended
<1>4. LastTurn(v) = LastTurn(s)
  BY LastTurnAppend
<1>5. /\ t.turn # 0 /\ e.turn = t.turn /\ t.step # 0 /\ e.step = t.step
      /\ a.pending # <<>> /\ e.call = a.pending[1].call
      /\ e.code = "TOOL_NOT_STARTED" => ~a.pending[1].started
      /\ e.call \in t.pending \/ e.code = "TOOL_NOT_STARTED"
  BY <1>1 DEF TraceOk
<1>16. Called(v) = Called(s)
  <2>1. Called(v) = Called(s) \cup (IF e.type = "tool/call" THEN {e.call} ELSE {})
    BY CalledAppend
  <2> QED BY <2>1
<1> HIDE DEF a, t, b, u
<1> DEFINE p == a.pending
           q == Tail(p)
<1>17. p \in Seq(PendingCalls) /\ DOMAIN p = 1..Len(p) /\ Len(p) \in Nat /\ Len(p) # 0
  BY <1>1, <1>5 DEF Scans
<1>18. q \in Seq(PendingCalls) /\ Len(q) = Len(p) - 1 /\ DOMAIN q = 1..Len(q) /\ \A i \in 1..Len(q) : q[i] = p[i + 1]
  BY <1>5, <1>17, HeadTailProperties
<1>9. t.nextTurn \in Nat /\ t.nextStep \in Nat /\ t.turn \in Nat /\ t.step \in Nat
  BY <1>1 DEF Traces
<1>19. PICK r \in Nat : Shows(p, t.turn, t.step, r, s)
  BY <1>1, <1>5 DEF Answering
<1>20. \A i \in 1..Len(p) : p[i].call = <<t.turn, t.step, r + i>>
  BY <1>17, <1>19 DEF Shows
<1>21. \A i \in 2..Len(p) : p[i].call # p[1].call
  <2> SUFFICES ASSUME NEW i \in 2..Len(p), p[i].call = p[1].call PROVE FALSE
    OBVIOUS
  <2>1. <<t.turn, t.step, r + i>> = <<t.turn, t.step, r + 1>>
    BY <1>17, <1>20
  <2> QED BY <2>1
<1>22. Answered(p, e.call) = q
  BY <1>5, <1>17, <1>21, AnsweredFirst
<1> HIDE DEF p, q
<1>7. b = [a EXCEPT !.pending = q]
  BY <1>1, <1>2, <1>22 DEF Scan, Scans, p
<1>8. u = [t EXCEPT !.pending = t.pending \ {e.call}]
  BY <1>1, <1>2, <1>5 DEF Validate, Allowed, Transition, TraceOk, InStep, Traces
<1>23. /\ u \in Traces /\ u.ok /\ u.turn = t.turn /\ u.step = t.step /\ u.nextTurn = t.nextTurn
       /\ u.nextStep = t.nextStep /\ u.pending = t.pending \ {e.call}
  BY <1>1, <1>8 DEF Traces, TraceOk
<1>10. b \in Scans /\ b.turn = t.turn /\ b.step = t.step /\ b.pending = q
  <2>1. b = [turn |-> a.turn, step |-> a.step, pending |-> q] /\ a.turn = t.turn /\ a.step = t.step
    BY <1>1, <1>7 DEF Scans, Agree
  <2> QED BY <1>9, <1>18, <2>1 DEF Scans
<1>11. TraceOk(u)
  BY <1>1, <1>23 DEF TraceOk
<1>12. Agree(b, u) /\ PendingOk(b, u, v) /\ Answering(b, u, v)
  <2>1. Agree(b, u)
    BY <1>5, <1>23, <1>10 DEF Agree
  <2>2. Shows(q, t.turn, t.step, r + 1, Append(s, e))
    BY <1>5, <1>9, <1>17, <1>19, ShowsNext DEF p, q
  <2>3. r + 1 \in Nat
    OBVIOUS
  <2>4. Answering(b, u, v)
    BY <1>10, <1>23, <2>2, <2>3 DEF Answering
  <2>5. PendingOk(b, u, v)
    <3>1. ASSUME NEW i \in DOMAIN b.pending
          PROVE  /\ b.pending[i].step = u.step
                 /\ b.pending[i].started => b.pending[i].call \in u.pending
                 /\ ~b.pending[i].started => b.pending[i].call \notin Called(v)
      <4>1. i + 1 \in 2..Len(p) /\ i + 1 \in DOMAIN p /\ b.pending[i] = p[i + 1]
        BY <1>10, <1>17, <1>18, <3>1
      <4>2. /\ p[i + 1].step = t.step
            /\ p[i + 1].started => p[i + 1].call \in t.pending
            /\ ~p[i + 1].started => p[i + 1].call \notin Called(s)
        BY <1>1, <4>1 DEF PendingOk, p
      <4>3. p[i + 1].call # e.call
        BY <1>5, <1>21, <4>1 DEF p
      <4> QED BY <1>16, <1>23, <4>1, <4>2, <4>3
    <3> QED BY <3>1 DEF PendingOk
  <2> QED BY <2>1, <2>4, <2>5
<1>13. LastOk(u, v)
  BY <1>1, <1>4, <1>23 DEF LastOk
<1>14. PastOk(u, v)
  <2>1. 1 \in 1..Len(p) /\ r + 1 \in Nat
    BY <1>17
  <2>2. e.call = <<e.turn, e.step, r + 1>>
    BY <1>5, <1>20, <2>1 DEF p
  <2>3. Named(e)
    BY <2>1, <2>2 DEF Named
  <2>4. Placed(e, u)
    BY <1>5, <1>23 DEF Placed
  <2>5. NotRun(e, v)
    <3>1. e.code = "TOOL_NOT_STARTED" => p[1].call \notin Called(s)
      BY <1>1, <1>5, <1>17, <2>1 DEF PendingOk, p
    <3> QED BY <1>5, <1>16, <3>1 DEF NotRun, p
  <2>6. \A x \in Events : Placed(x, t) => Placed(x, u)
    BY <1>23 DEF Placed
  <2> HIDE DEF v
  <2>7. PastOk(t, s) /\ e.type # "tool/call" /\ NotRun(e, Append(s, e))
    BY <1>1, <2>5 DEF v
  <2> QED BY <2>3, <2>4, <2>6, <2>7, PastKept DEF v
<1>15. Coherent(v)
  BY <1>1, <1>23, <1>10, <1>11, <1>12, <1>13, <1>14 DEF Coherent, b, u
<1> QED BY <1>7, <1>8, <1>15 DEF a, b, t, u, p, q

-----------------------------------------------------------------------------
(* The repair, one synthetic event at a time.                                  *)

Results(p, turn) == [i \in DOMAIN p |-> Result(turn, p[i].step, p[i].call, Code(p[i]))]
StepEnds(turn, step) == IF step = 0 THEN <<>> ELSE <<Ev("step/end", turn, step)>>
TurnEnds(turn) == <<[Ev("turn/end", turn, 0) EXCEPT !.code = "interrupted"]>>

(* The closers are results, the end of the step and the end of the turn.     *)
LEMMA ClosersAre ==
  ASSUME NEW s
  PROVE  InterruptedTurnClosers(s) =
           IF Scanned(s).turn = 0 THEN <<>>
           ELSE (Results(Scanned(s).pending, Scanned(s).turn) \o StepEnds(Scanned(s).turn, Scanned(s).step))
                  \o TurnEnds(Scanned(s).turn)
BY DEF InterruptedTurnClosers, Results, StepEnds, TurnEnds

Codes == {"none", "TOOL_NOT_STARTED", "TOOL_OUTCOME_UNKNOWN", "TOOL_ABORTED_BEFORE_DISPATCH"}

(* The event constructors, as records.                                       *)
LEMMA EvIs ==
  ASSUME NEW turn \in Nat, NEW step \in Nat,
         NEW type \in {"turn/start", "turn/end", "step/start", "step/end", "assistant/message", "tool/call", "tool/result"}
  PROVE  /\ Ev(type, turn, step) \in Events
         /\ Ev(type, turn, step) = [type |-> type, turn |-> turn, step |-> step, n |-> 0, call |-> <<>>, code |-> "none"]
BY DEF Ev, Events, CallIds

(* The same for the message of an answer.                                    *)
LEMMA MessageIs ==
  ASSUME NEW turn \in Nat, NEW step \in Nat, NEW n \in Nat
  PROVE  /\ Message(turn, step, n) \in Events
         /\ Message(turn, step, n) =
              [type |-> "assistant/message", turn |-> turn, step |-> step, n |-> n, call |-> <<>>, code |-> "none"]
<1>1. <<>> \in CallIds
  BY DEF CallIds
<1> QED BY <1>1 DEF Message, Ev, Events

(* The same for a recorded call.                                             *)
LEMMA CallEvIs ==
  ASSUME NEW turn \in Nat, NEW step \in Nat, NEW i \in Nat
  PROVE  /\ CallEv(turn, step, i) \in Events
         /\ CallEv(turn, step, i) =
              [type |-> "tool/call", turn |-> turn, step |-> step, n |-> 0, call |-> <<turn, step, i>>, code |-> "none"]
<1>1. <<turn, step, i>> \in CallIds
  BY DEF CallIds
<1>2. CallEv(turn, step, i) =
        [type |-> "tool/call", turn |-> turn, step |-> step, n |-> 0, call |-> <<turn, step, i>>, code |-> "none"]
  BY DEF CallEv, Ev
<1> QED BY <1>1, <1>2 DEF Events

(* The same for a result.                                                    *)
LEMMA ResultIs ==
  ASSUME NEW turn \in Nat, NEW step \in Nat, NEW c \in CallIds, NEW code \in Codes
  PROVE  /\ Result(turn, step, c, code) \in Events
         /\ Result(turn, step, c, code) =
              [type |-> "tool/result", turn |-> turn, step |-> step, n |-> 0, call |-> c, code |-> code]
<1> DEFINE x == [Ev("tool/result", turn, step) EXCEPT !.call = c]
<1>1. Ev("tool/result", turn, step) =
        [type |-> "tool/result", turn |-> turn, step |-> step, n |-> 0, call |-> <<>>, code |-> "none"]
  BY DEF Ev
<1>2. x = [type |-> "tool/result", turn |-> turn, step |-> step, n |-> 0, call |-> c, code |-> "none"]
  BY <1>1
<1>3. Result(turn, step, c, code) = [x EXCEPT !.code = code]
  BY DEF Result
<1> HIDE DEF x
<1>4. Result(turn, step, c, code) =
        [type |-> "tool/result", turn |-> turn, step |-> step, n |-> 0, call |-> c, code |-> code]
  BY <1>2, <1>3
<1> QED BY <1>4 DEF Events, Codes

(* The same for the end the repair gives a turn.                             *)
LEMMA TurnEndsIs ==
  ASSUME NEW turn \in Nat
  PROVE  /\ TurnEnds(turn) \in Seq(Events) /\ Len(TurnEnds(turn)) = 1 /\ TurnEnds(turn)[1] \in Events
         /\ TurnEnds(turn)[1] =
              [type |-> "turn/end", turn |-> turn, step |-> 0, n |-> 0, call |-> <<>>, code |-> "interrupted"]
<1> DEFINE x == [Ev("turn/end", turn, 0) EXCEPT !.code = "interrupted"]
<1>1. x = [type |-> "turn/end", turn |-> turn, step |-> 0, n |-> 0, call |-> <<>>, code |-> "interrupted"]
  BY DEF Ev
<1>2. <<>> \in CallIds
  BY DEF CallIds
<1>3. x \in Events
  BY <1>1, <1>2 DEF Events
<1>4. TurnEnds(turn) = <<x>>
  BY DEF TurnEnds
<1> HIDE DEF x
<1> QED BY <1>1, <1>3, <1>4

(* The head and the tail of a concatenation.                                 *)
LEMMA FirstOf ==
  ASSUME NEW S, NEW x \in Seq(S), x # <<>>, NEW y \in Seq(S)
  PROVE  /\ x \o y \in Seq(S) /\ x \o y # <<>>
         /\ Head(x \o y) = x[1] /\ Tail(x \o y) = Tail(x) \o y
<1> DEFINE z == x \o y
           w == Tail(x) \o y
<1>1. /\ z \in Seq(S) /\ Len(z) = Len(x) + Len(y) /\ Len(x) \in Nat /\ Len(y) \in Nat /\ Len(x) # 0
      /\ \A i \in 1..(Len(x) + Len(y)) : z[i] = IF i <= Len(x) THEN x[i] ELSE y[i - Len(x)]
  BY ConcatProperties
<1>2. /\ Tail(x) \in Seq(S) /\ Len(Tail(x)) = Len(x) - 1
      /\ \A i \in 1..Len(Tail(x)) : Tail(x)[i] = x[i + 1]
  BY HeadTailProperties
<1>3. /\ w \in Seq(S) /\ Len(w) = Len(Tail(x)) + Len(y)
      /\ \A i \in 1..(Len(Tail(x)) + Len(y)) :
           w[i] = IF i <= Len(Tail(x)) THEN Tail(x)[i] ELSE y[i - Len(Tail(x))]
  BY <1>2, ConcatProperties
<1> HIDE DEF z, w
<1>4. z # <<>> /\ Head(z) = z[1] /\ z[1] = x[1]
  BY <1>1
<1>5. /\ Tail(z) \in Seq(S) /\ Len(Tail(z)) = Len(z) - 1
      /\ \A i \in 1..Len(Tail(z)) : Tail(z)[i] = z[i + 1]
  BY <1>1, <1>4, HeadTailProperties
<1>6. Len(Tail(z)) = Len(w)
  BY <1>1, <1>2, <1>3, <1>5
<1>7. ASSUME NEW i \in 1..Len(Tail(z)) PROVE Tail(z)[i] = w[i]
  <2>1. i \in 1..(Len(Tail(x)) + Len(y)) /\ i + 1 \in 1..(Len(x) + Len(y)) /\ Tail(z)[i] = z[i + 1]
    BY <1>1, <1>2, <1>5, <1>7
  <2>2. CASE i <= Len(Tail(x))
    BY <1>1, <1>2, <1>3, <2>1, <2>2
  <2>3. CASE ~(i <= Len(Tail(x)))
    <3>1. w[i] = y[i - Len(Tail(x))] /\ z[i + 1] = y[(i + 1) - Len(x)]
      BY <1>1, <1>2, <1>3, <2>1, <2>3
    <3>2. i - Len(Tail(x)) = (i + 1) - Len(x)
      BY <1>1, <1>2, <2>1
    <3> QED BY <2>1, <3>1, <3>2
  <2> QED BY <2>2, <2>3
<1>8. Tail(z) = w
  BY <1>3, <1>5, <1>6, <1>7, SeqEqual
<1> QED BY <1>1, <1>4, <1>8 DEF z, w

(* One made-up result for every pending call.                                *)
LEMMA ResultsAre ==
  ASSUME NEW p \in Seq(PendingCalls), NEW turn \in Nat
  PROVE  /\ Results(p, turn) \in Seq(Events) /\ Len(Results(p, turn)) = Len(p)
         /\ \A i \in 1..Len(p) : Results(p, turn)[i] = Result(turn, p[i].step, p[i].call, Code(p[i]))
<1> DEFINE x == Results(p, turn)
<1>1. DOMAIN p = 1..Len(p) /\ Len(p) \in Nat
  OBVIOUS
<1>2. \A i \in 1..Len(p) : x[i] = Result(turn, p[i].step, p[i].call, Code(p[i]))
  BY <1>1 DEF Results
<1>3. \A i \in 1..Len(p) : x[i] \in Events
  <2> SUFFICES ASSUME NEW i \in 1..Len(p)
               PROVE  Result(turn, p[i].step, p[i].call, Code(p[i])) \in Events
    BY <1>2
  <2>1. p[i] \in PendingCalls
    BY <1>1
  <2>2. p[i].step \in Nat /\ p[i].call \in CallIds
    BY <2>1 DEF PendingCalls
  <2>3. Code(p[i]) \in Codes
    BY DEF Code, Codes
  <2> HIDE DEF x
  <2> QED BY <2>2, <2>3, ResultIs
<1>4. x \in [1..Len(p) -> Events]
  BY <1>1, <1>3 DEF Results
<1>5. x \in Seq(Events) /\ Len(x) = Len(p)
  <2> HIDE DEF x
  <2> QED BY <1>1, <1>4
<1> QED BY <1>2, <1>5

(* Without the first pending call, the results are those of the rest.        *)
LEMMA ResultsTail ==
  ASSUME NEW p \in Seq(PendingCalls), NEW turn \in Nat, p # <<>>
  PROVE  Results(Tail(p), turn) = Tail(Results(p, turn))
<1> DEFINE x == Results(p, turn)
           q == Tail(p)
           y == Results(q, turn)
<1>1. q \in Seq(PendingCalls) /\ Len(q) = Len(p) - 1 /\ Len(p) \in Nat /\ Len(p) # 0 /\ \A i \in 1..Len(q) : q[i] = p[i + 1]
  BY HeadTailProperties
<1>2. /\ x \in Seq(Events) /\ Len(x) = Len(p)
      /\ \A i \in 1..Len(p) : x[i] = Result(turn, p[i].step, p[i].call, Code(p[i]))
  BY ResultsAre
<1>3. /\ y \in Seq(Events) /\ Len(y) = Len(q)
      /\ \A i \in 1..Len(q) : y[i] = Result(turn, q[i].step, q[i].call, Code(q[i]))
  BY <1>1, ResultsAre
<1> HIDE DEF x, y, q
<1>4. x # <<>>
  BY <1>1, <1>2
<1>5. Tail(x) \in Seq(Events) /\ Len(Tail(x)) = Len(x) - 1 /\ \A i \in 1..Len(Tail(x)) : Tail(x)[i] = x[i + 1]
  BY <1>2, <1>4, HeadTailProperties
<1>6. Len(Tail(x)) = Len(y)
  BY <1>1, <1>2, <1>3, <1>5
<1>7. ASSUME NEW i \in 1..Len(y) PROVE y[i] = Tail(x)[i]
  <2>1. i + 1 \in 1..Len(p) /\ i \in 1..Len(q)
    BY <1>1, <1>3
  <2>2. Tail(x)[i] = x[i + 1] /\ q[i] = p[i + 1]
    BY <1>1, <1>5, <1>6, <2>1
  <2>3. x[i + 1] = Result(turn, p[i + 1].step, p[i + 1].call, Code(p[i + 1]))
    BY <1>2, <2>1
  <2> QED BY <1>3, <2>1, <2>2, <2>3
<1>8. y = Tail(x)
  BY <1>3, <1>5, <1>6, <1>7, SeqEqual
<1> QED BY <1>8 DEF x, y, q

(* An event that is neither an answer nor a result of the step leaves it as it *)
(* was.                                                                        *)
LEMMA InOrderKept ==
  ASSUME NEW s \in Seq(Events), NEW e \in Events, NEW turn, NEW step, InOrder(s, turn, step),
         ~(e.type \in {"tool/result", "assistant/message"} /\ e.turn = turn /\ e.step = step)
  PROVE  InOrder(Append(s, e), turn, step)
<1> DEFINE v == Append(s, e)
           R == EventsOf(s, "tool/result", turn, step)
           M == EventsOf(s, "assistant/message", turn, step)
<1>1. DOMAIN s = 1..Len(s) /\ \A k \in 1..Len(s) : v[k] = s[k]
  BY Appended
<1>2. EventsOf(v, "tool/result", turn, step) = R
  <2>1. ~(e.type = "tool/result" /\ e.turn = turn /\ e.step = step)
    OBVIOUS
  <2> QED BY <2>1, EventsOfKept
<1>3. EventsOf(v, "assistant/message", turn, step) = M
  <2>1. ~(e.type = "assistant/message" /\ e.turn = turn /\ e.step = step)
    OBVIOUS
  <2> QED BY <2>1, EventsOfKept
<1>4. \A k \in R \cup M : v[k] = s[k]
  BY <1>1 DEF EventsOf
<1>5. /\ \A j, k \in R : j < k => s[j].call[3] < s[k].call[3]
      /\ \A m \in M : /\ {s[k].call : k \in R} = {<<turn, step, i>> : i \in 1..s[m].n}
                      /\ \A k \in R : m < k
  BY DEF InOrder
<1> HIDE DEF v, R, M
<1>6. \A j, k \in R : j < k => v[j].call[3] < v[k].call[3]
  BY <1>4, <1>5
<1>7. {v[k].call : k \in R} = {s[k].call : k \in R}
  BY <1>4
<1>8. \A m \in M : /\ {v[k].call : k \in R} = {<<turn, step, i>> : i \in 1..v[m].n}
                   /\ \A k \in R : m < k
  <2> SUFFICES ASSUME NEW m \in M
               PROVE  /\ {v[k].call : k \in R} = {<<turn, step, i>> : i \in 1..v[m].n}
                      /\ \A k \in R : m < k
    OBVIOUS
  <2>1. v[m] = s[m]
    BY <1>4
  <2> QED BY <1>5, <1>7, <2>1
<1>9. InOrder(v, turn, step)
  BY <1>2, <1>3, <1>6, <1>8 DEF InOrder
<1> QED BY <1>9 DEF v

(* A step whose calls are all answered is in order.                            *)
LEMMA ShownInOrder ==
  ASSUME NEW s \in Seq(Events), NEW turn, NEW step, NEW r \in Nat, Shows(<<>>, turn, step, r, s)
  PROVE  InOrder(s, turn, step)
<1> DEFINE R == EventsOf(s, "tool/result", turn, step)
           M == EventsOf(s, "assistant/message", turn, step)
<1>1. /\ \A k \in R : \E i \in 1..r : s[k].call = <<turn, step, i>>
      /\ \A i \in 1..r : \E k \in R : s[k].call = <<turn, step, i>>
      /\ \A j, k \in R : j < k => s[j].call[3] < s[k].call[3]
      /\ \A m \in M : s[m].n = r + Len(<<>>) /\ \A k \in R : m < k
  BY DEF Shows
<1> HIDE DEF R, M
<1>2. r + Len(<<>>) = r
  OBVIOUS
<1>3. {s[k].call : k \in R} = {<<turn, step, i>> : i \in 1..r}
  BY <1>1
<1>4. \A m \in M : {s[k].call : k \in R} = {<<turn, step, i>> : i \in 1..s[m].n}
  <2> SUFFICES ASSUME NEW m \in M PROVE {s[k].call : k \in R} = {<<turn, step, i>> : i \in 1..s[m].n}
    OBVIOUS
  <2>1. s[m].n = r
    BY <1>1, <1>2
  <2> QED BY <1>3, <2>1
<1> QED BY <1>1, <1>4 DEF InOrder, R, M

(* A step the repair closes is open, or its calls have all been answered.      *)
OnCourse(s, turn, step) == (Trace(s).turn = turn /\ Trace(s).step = step) \/ InOrder(s, turn, step)

Closers(s) == InterruptedTurnClosers(s)

(* The repair makes up one event and is left with the rest.                    *)
Closes(s) ==
  LET v == Append(s, Head(Closers(s)))
  IN /\ Closers(s) \in Seq(Events) /\ Closers(s) # <<>>
     /\ Coherent(v) /\ Closers(v) = Tail(Closers(s)) /\ Called(v) = Called(s)
     /\ \A turn, step \in Nat : step # 0 /\ OnCourse(s, turn, step) => OnCourse(v, turn, step)

(* Between the steps only the end of the turn is missing, and in a step whose  *)
(* calls are answered its end and that of the turn.                            *)
LEMMA ClosersAtTurn ==
  ASSUME NEW s, Scanned(s).turn \in Nat \ {0}, Scanned(s).step = 0, Scanned(s).pending = <<>>
  PROVE  Closers(s) = TurnEnds(Scanned(s).turn)
<1> DEFINE a == Scanned(s)
<1>1. Closers(s) = (Results(a.pending, a.turn) \o StepEnds(a.turn, a.step)) \o TurnEnds(a.turn)
  BY ClosersAre DEF Closers
<1>2. Results(a.pending, a.turn) = <<>>
  BY DEF Results
<1>3. StepEnds(a.turn, a.step) = <<>>
  BY DEF StepEnds
<1>4. <<>> \o <<>> = <<>>
  OBVIOUS
<1>5. TurnEnds(a.turn) \in Seq(Events)
  BY TurnEndsIs
<1>6. <<>> \o TurnEnds(a.turn) = TurnEnds(a.turn)
  BY <1>5, ConcatEmptySeq
<1> QED BY <1>1, <1>2, <1>3, <1>4, <1>6

(* The second case: the end of the step and that of the turn.                *)
LEMMA ClosersAtStep ==
  ASSUME NEW s, Scanned(s).turn \in Nat \ {0}, Scanned(s).step \in Nat \ {0}, Scanned(s).pending = <<>>
  PROVE  Closers(s) = <<Ev("step/end", Scanned(s).turn, Scanned(s).step)>> \o TurnEnds(Scanned(s).turn)
<1> DEFINE a == Scanned(s)
           x == <<Ev("step/end", a.turn, a.step)>>
<1>1. Closers(s) = (Results(a.pending, a.turn) \o StepEnds(a.turn, a.step)) \o TurnEnds(a.turn)
  BY ClosersAre DEF Closers
<1>2. Results(a.pending, a.turn) = <<>>
  BY DEF Results
<1>3. StepEnds(a.turn, a.step) = x
  BY DEF StepEnds
<1>4. x \in Seq(Events)
  <2>1. Ev("step/end", a.turn, a.step) \in Events
    BY EvIs
  <2> QED BY <2>1
<1>5. <<>> \o x = x
  BY <1>4, ConcatEmptySeq
<1> HIDE DEF x
<1>6. Closers(s) = x \o TurnEnds(a.turn)
  BY <1>1, <1>2, <1>3, <1>5
<1> QED BY <1>6 DEF x

(* Between the steps: the end of the turn is written.                        *)
LEMMA ClosesTurn ==
  ASSUME NEW s \in Seq(Events), Coherent(s), Trace(s).turn # 0, Trace(s).step = 0
  PROVE  Closes(s)
<1> DEFINE a == Scanned(s)
           t == Trace(s)
           e == TurnEnds(t.turn)[1]
           v == Append(s, e)
<1>1. a \in Scans /\ t \in Traces /\ Agree(a, t)
  BY DEF Coherent
<1>2. t.turn \in Nat /\ a.turn = t.turn /\ a.step = 0 /\ a.pending = <<>>
  BY <1>1 DEF Traces, Agree
<1>3. e \in Events /\ e = [type |-> "turn/end", turn |-> t.turn, step |-> 0, n |-> 0, call |-> <<>>, code |-> "interrupted"]
  BY <1>2, TurnEndsIs
<1>4. Closers(s) = TurnEnds(t.turn)
  BY <1>2, ClosersAtTurn
<1>5. Closers(s) \in Seq(Events) /\ Closers(s) # <<>> /\ Head(Closers(s)) = e /\ Tail(Closers(s)) = <<>>
  <2>1. TurnEnds(t.turn) \in Seq(Events) /\ Len(TurnEnds(t.turn)) = 1
    BY <1>2, TurnEndsIs
  <2>2. TurnEnds(t.turn) = <<e>>
    BY <2>1
  <2> HIDE DEF e
  <2> QED BY <1>4, <2>1, <2>2
<1>6. e.type = "turn/end" /\ e.code # "TOOL_NOT_STARTED" /\ e.turn = t.turn
  BY <1>3
<1>7. Coherent(v) /\ Scanned(v) = ScanStart
  <2> HIDE DEF e
  <2> QED BY <1>3, <1>6, OnTurnEnd DEF t
<1>8. Closers(v) = <<>>
  BY <1>7, ClosersAre DEF Closers, ScanStart
<1>9. Called(v) = Called(s)
  <2> HIDE DEF e
  <2>1. Called(v) = Called(s) \cup (IF e.type = "tool/call" THEN {e.call} ELSE {})
    BY <1>3, CalledAppend
  <2> QED BY <1>6, <2>1
<1>10. ASSUME NEW turn \in Nat, NEW step \in Nat, step # 0, OnCourse(s, turn, step)
       PROVE  OnCourse(v, turn, step)
  <2>1. InOrder(s, turn, step)
    BY <1>10 DEF OnCourse
  <2> HIDE DEF e
  <2>2. InOrder(v, turn, step)
    BY <1>3, <1>6, <2>1, InOrderKept
  <2> QED BY <2>2 DEF OnCourse
<1> QED BY <1>5, <1>7, <1>8, <1>9, <1>10 DEF Closes

(* In a step whose calls are answered: its end is written.                   *)
LEMMA ClosesStep ==
  ASSUME NEW s \in Seq(Events), Coherent(s), Trace(s).step # 0, Scanned(s).pending = <<>>
  PROVE  Closes(s)
<1> DEFINE a == Scanned(s)
           t == Trace(s)
           e == Ev("step/end", t.turn, t.step)
           v == Append(s, e)
           y == TurnEnds(t.turn)
<1>1. a \in Scans /\ t \in Traces /\ Agree(a, t) /\ TraceOk(t) /\ Answering(a, t, s)
  BY DEF Coherent
<1>2. /\ t.turn \in Nat \ {0} /\ t.step \in Nat \ {0}
      /\ a.turn = t.turn /\ a.step = t.step /\ a.pending = <<>>
  BY <1>1 DEF Traces, Agree, TraceOk
<1>3. e \in Events /\ e.type = "step/end" /\ e.code = "none" /\ e.turn = t.turn /\ e.step = t.step
  BY <1>2, EvIs
<1>4. y \in Seq(Events)
  BY <1>2, TurnEndsIs
<1>5. Closers(s) = <<e>> \o y
  BY <1>2, ClosersAtStep
<1> HIDE DEF e, y
<1>6. <<e>> \in Seq(Events) /\ <<e>> # <<>> /\ <<e>>[1] = e /\ Tail(<<e>>) = <<>>
  BY <1>3
<1>7. /\ <<e>> \o y \in Seq(Events) /\ <<e>> \o y # <<>>
      /\ Head(<<e>> \o y) = <<e>>[1] /\ Tail(<<e>> \o y) = Tail(<<e>>) \o y
  BY <1>4, <1>6, FirstOf
<1>8. <<>> \o y = y
  BY <1>4, ConcatEmptySeq
<1>9. Closers(s) \in Seq(Events) /\ Closers(s) # <<>> /\ Head(Closers(s)) = e /\ Tail(Closers(s)) = y
  BY <1>5, <1>6, <1>7, <1>8
<1>10. Coherent(v) /\ Scanned(v) = [a EXCEPT !.step = 0, !.pending = <<>>]
  BY <1>2, <1>3, OnStepEnd DEF t, a
<1>11. Scanned(v).turn = t.turn /\ Scanned(v).step = 0 /\ Scanned(v).pending = <<>>
  BY <1>1, <1>2, <1>10 DEF Scans
<1>12. Closers(v) = y
  BY <1>2, <1>11, ClosersAtTurn DEF y
<1>13. Called(v) = Called(s)
  <2>1. Called(v) = Called(s) \cup (IF e.type = "tool/call" THEN {e.call} ELSE {})
    BY <1>3, CalledAppend
  <2> QED BY <1>3, <2>1
<1>14. PICK r \in Nat : Shows(a.pending, t.turn, t.step, r, s)
  BY <1>1, <1>2 DEF Answering
<1>15. Shows(<<>>, t.turn, t.step, r, s)
  BY <1>2, <1>14
<1>16. InOrder(s, t.turn, t.step)
  BY <1>15, ShownInOrder
<1>17. ASSUME NEW turn \in Nat, NEW step \in Nat, step # 0, OnCourse(s, turn, step)
       PROVE  OnCourse(v, turn, step)
  <2>1. InOrder(s, turn, step)
    BY <1>16, <1>17 DEF OnCourse
  <2>2. InOrder(v, turn, step)
    BY <1>3, <2>1, InOrderKept
  <2> QED BY <2>2 DEF OnCourse
<1> QED BY <1>9, <1>10, <1>12, <1>13, <1>17 DEF Closes

(* In a step with pending calls: the result of the first is written.         *)
LEMMA ClosesCall ==
  ASSUME NEW s \in Seq(Events), Coherent(s), Scanned(s).pending # <<>>
  PROVE  Closes(s)
<1> DEFINE a == Scanned(s)
           t == Trace(s)
           p == a.pending
           e == Result(t.turn, t.step, p[1].call, Code(p[1]))
           v == Append(s, e)
           x == Results(p, t.turn)
           z == StepEnds(t.turn, t.step)
           y == TurnEnds(t.turn)
<1>1. a \in Scans /\ t \in Traces /\ Agree(a, t) /\ TraceOk(t) /\ PendingOk(a, t, s)
  BY DEF Coherent
<1>2. /\ t.turn \in Nat \ {0} /\ t.step \in Nat \ {0}
      /\ a.turn = t.turn /\ a.step = t.step
  BY <1>1 DEF Traces, Agree, TraceOk
<1>3. /\ p \in Seq(PendingCalls) /\ p # <<>> /\ DOMAIN p = 1..Len(p) /\ Len(p) \in Nat /\ Len(p) # 0
      /\ 1 \in DOMAIN p /\ p[1] \in PendingCalls
  BY <1>1 DEF Scans
<1>4. /\ p[1].step = t.step /\ p[1].call \in CallIds
      /\ p[1].started => p[1].call \in t.pending
  BY <1>1, <1>3 DEF PendingOk, PendingCalls
<1>5. Code(p[1]) \in Codes /\ (p[1].started => Code(p[1]) # "TOOL_NOT_STARTED")
      /\ (~p[1].started => Code(p[1]) = "TOOL_NOT_STARTED")
  BY DEF Code, Codes
<1>6. /\ e \in Events /\ e.type = "tool/result" /\ e.turn = t.turn /\ e.step = t.step
      /\ e.call = p[1].call /\ e.code = Code(p[1])
  <2> DEFINE c == p[1].call
             code == Code(p[1])
  <2>1. c \in CallIds /\ code \in Codes
    BY <1>4, <1>5
  <2> HIDE DEF c, code, p
  <2>2. /\ Result(t.turn, t.step, c, code) \in Events
        /\ Result(t.turn, t.step, c, code) =
              [type |-> "tool/result", turn |-> t.turn, step |-> t.step, n |-> 0, call |-> c, code |-> code]
    BY <1>2, <2>1, ResultIs
  <2>3. e = Result(t.turn, t.step, c, code)
    BY DEF c, code
  <2> HIDE DEF e
  <2>4. /\ e \in Events /\ e.type = "tool/result" /\ e.turn = t.turn /\ e.step = t.step
        /\ e.call = c /\ e.code = code
    BY <2>2, <2>3
  <2> QED BY <2>4 DEF c, code
<1>7. x \in Seq(Events) /\ Len(x) = Len(p) /\ x[1] = e /\ x # <<>> /\ Tail(x) = Results(Tail(p), t.turn)
  <2>1. /\ x \in Seq(Events) /\ Len(x) = Len(p)
        /\ \A i \in 1..Len(p) : x[i] = Result(t.turn, p[i].step, p[i].call, Code(p[i]))
    BY <1>2, <1>3, ResultsAre
  <2>2. Tail(x) = Results(Tail(p), t.turn)
    BY <1>2, <1>3, ResultsTail
  <2>3. x[1] = e
    BY <1>3, <1>4, <2>1
  <2> HIDE DEF x
  <2>4. x # <<>>
    BY <1>3, <2>1
  <2> QED BY <2>1, <2>2, <2>3, <2>4
<1>8. y \in Seq(Events) /\ z \in Seq(Events)
  <2>1. y \in Seq(Events)
    BY <1>2, TurnEndsIs
  <2>2. Ev("step/end", t.turn, t.step) \in Events
    BY <1>2, EvIs
  <2>3. z = <<Ev("step/end", t.turn, t.step)>>
    BY <1>2 DEF StepEnds
  <2> QED BY <2>1, <2>2, <2>3
<1>9. Closers(s) = (x \o z) \o y
  BY <1>2, ClosersAre DEF Closers
<1> HIDE DEF e, x, y, z
<1>10. x \o z \in Seq(Events) /\ x \o z # <<>> /\ Head(x \o z) = x[1] /\ Tail(x \o z) = Tail(x) \o z
  BY <1>7, <1>8, FirstOf
<1>11. (x \o z)[1] = x[1]
  BY <1>10
<1>12. /\ (x \o z) \o y \in Seq(Events) /\ (x \o z) \o y # <<>>
       /\ Head((x \o z) \o y) = (x \o z)[1] /\ Tail((x \o z) \o y) = Tail(x \o z) \o y
  <2> DEFINE w == x \o z
  <2>1. w \in Seq(Events) /\ w # <<>>
    BY <1>10
  <2> HIDE DEF w
  <2>2. /\ w \o y \in Seq(Events) /\ w \o y # <<>>
        /\ Head(w \o y) = w[1] /\ Tail(w \o y) = Tail(w) \o y
    BY <1>8, <2>1, FirstOf
  <2> QED BY <2>2 DEF w
<1>13. /\ Closers(s) \in Seq(Events) /\ Closers(s) # <<>> /\ Head(Closers(s)) = e
       /\ Tail(Closers(s)) = (Tail(x) \o z) \o y
  BY <1>7, <1>9, <1>10, <1>11, <1>12
<1>14. IF e.code = "TOOL_NOT_STARTED" THEN ~p[1].started ELSE e.call \in t.pending
  BY <1>4, <1>5, <1>6
<1>15. /\ Coherent(v) /\ Scanned(v) = [a EXCEPT !.pending = Tail(p)]
       /\ Trace(v) = [t EXCEPT !.pending = @ \ {e.call}]
  BY <1>2, <1>3, <1>6, <1>14, OnResult DEF t, a, p
<1>16. Scanned(v).turn = t.turn /\ Scanned(v).step = t.step /\ Scanned(v).pending = Tail(p)
  BY <1>1, <1>2, <1>15 DEF Scans
<1>17. Closers(v) = (Tail(x) \o z) \o y
  <2>1. Closers(v) = (Results(Tail(p), t.turn) \o StepEnds(t.turn, t.step)) \o TurnEnds(t.turn)
    BY <1>2, <1>16, ClosersAre DEF Closers
  <2> QED BY <1>7, <2>1 DEF y, z
<1>18. Called(v) = Called(s)
  <2>1. Called(v) = Called(s) \cup (IF e.type = "tool/call" THEN {e.call} ELSE {})
    BY <1>6, CalledAppend
  <2> QED BY <1>6, <2>1
<1>19. Trace(v).turn = t.turn /\ Trace(v).step = t.step
  BY <1>1, <1>15 DEF Traces
<1>20. ASSUME NEW turn \in Nat, NEW step \in Nat, step # 0, OnCourse(s, turn, step)
       PROVE  OnCourse(v, turn, step)
  <2>1. CASE t.turn = turn /\ t.step = step
    BY <1>19, <2>1 DEF OnCourse
  <2>2. CASE ~(t.turn = turn /\ t.step = step)
    <3>1. InOrder(s, turn, step)
      BY <1>20, <2>2 DEF OnCourse
    <3>2. InOrder(v, turn, step)
      BY <1>6, <2>2, <3>1, InOrderKept
    <3> QED BY <3>2 DEF OnCourse
  <2> QED BY <2>1, <2>2
<1> QED BY <1>13, <1>15, <1>17, <1>18, <1>20 DEF Closes

(* In every open turn the repair writes one event and needs the rest.        *)
LEMMA ClosesOne ==
  ASSUME NEW s \in Seq(Events), Coherent(s), Trace(s).turn # 0
  PROVE  Closes(s)
<1>1. Agree(Scanned(s), Trace(s))
  BY DEF Coherent
<1>2. CASE Scanned(s).pending # <<>>
  BY <1>2, ClosesCall
<1>3. CASE Scanned(s).pending = <<>> /\ Trace(s).step # 0
  BY <1>3, ClosesStep
<1>4. CASE Trace(s).step = 0
  BY <1>4, ClosesTurn
<1> QED BY <1>2, <1>3, <1>4

(* A log needs closers exactly when its turn is open.                        *)
LEMMA ClosersTyped ==
  ASSUME NEW s \in Seq(Events), Coherent(s)
  PROVE  /\ Closers(s) \in Seq(Events)
         /\ Closers(s) = <<>> <=> Trace(s).turn = 0
         /\ Scanned(s).turn = Trace(s).turn /\ Scanned(s).step = Trace(s).step
<1>1. Scanned(s).turn = Trace(s).turn /\ Scanned(s).step = Trace(s).step
  BY DEF Coherent, Agree
<1>2. CASE Trace(s).turn = 0
  <2>1. Closers(s) = <<>>
    BY <1>1, <1>2, ClosersAre DEF Closers
  <2> QED BY <1>1, <1>2, <2>1
<1>3. CASE Trace(s).turn # 0
  <2>1. Closes(s)
    BY <1>3, ClosesOne
  <2>2. Closers(s) \in Seq(Events) /\ Closers(s) # <<>>
    BY <2>1 DEF Closes
  <2> QED BY <1>1, <1>3, <2>2
<1> QED BY <1>2, <1>3

(* A first element moved from the second sequence to the first.              *)
LEMMA MoveHead ==
  ASSUME NEW S, NEW s \in Seq(S), NEW c \in Seq(S), c # <<>>
  PROVE  s \o c = Append(s, Head(c)) \o Tail(c)
<1> DEFINE h == Head(c)
           d == Tail(c)
           x == <<h>>
<1>1. h \in S /\ d \in Seq(S) /\ Len(d) = Len(c) - 1 /\ \A i \in 1..Len(d) : d[i] = c[i + 1]
  BY HeadTailProperties
<1>2. x \in Seq(S) /\ x # <<>> /\ Len(x) = 1 /\ x[1] = h
  BY <1>1
<1>3. h = c[1] /\ Len(c) \in Nat /\ Len(c) # 0
  OBVIOUS
<1> HIDE DEF h, d
<1>4. Append(s, h) = s \o x
  BY <1>1, AppendIsConcat
<1> HIDE DEF x
<1>5. /\ x \o d \in Seq(S) /\ Len(x \o d) = Len(x) + Len(d)
      /\ \A i \in 1..(Len(x) + Len(d)) : (x \o d)[i] = IF i <= Len(x) THEN x[i] ELSE d[i - Len(x)]
  <2>1. x \in Seq(S) /\ d \in Seq(S)
    BY <1>1, <1>2
  <2> QED BY <2>1, ConcatProperties
<1>6. c = x \o d
  <2>1. Len(c) = Len(x \o d)
    BY <1>1, <1>2, <1>3, <1>5
  <2>2. ASSUME NEW i \in 1..Len(c) PROVE c[i] = (x \o d)[i]
    <3>1. CASE i = 1
      BY <1>1, <1>2, <1>3, <1>5, <2>2, <3>1
    <3>2. CASE i # 1
      <4>1. i - 1 \in 1..Len(d) /\ (i - 1) + 1 = i
        BY <1>1, <1>3, <2>2, <3>2
      <4>2. (x \o d)[i] = d[i - 1]
        BY <1>1, <1>2, <1>3, <1>5, <2>2, <3>2
      <4>3. d[i - 1] = c[(i - 1) + 1]
        BY <1>1, <4>1
      <4> QED BY <4>1, <4>2, <4>3
    <3> QED BY <3>1, <3>2
  <2> QED BY <1>5, <2>1, <2>2, SeqEqual
<1>7. (s \o x) \o d = s \o (x \o d)
  BY <1>1, <1>2, ConcatAssociative, SMTT(30)
<1> QED BY <1>4, <1>6, <1>7 DEF h, d

(* The whole repair: whatever the log was cut after, it is closed, keeps the   *)
(* rules, records no new call, and its interrupted step is in order.           *)
Repairs(s) ==
  LET w == s \o Closers(s)
  IN /\ w \in Seq(Events) /\ Coherent(w) /\ Trace(w).turn = 0 /\ Called(w) = Called(s)
     /\ \A turn, step \in Nat : step # 0 /\ OnCourse(s, turn, step) => InOrder(w, turn, step)

(* By induction over the number of closers.                                  *)
LEMMA RepairIsWhole ==
  ASSUME NEW cut \in Seq(Events), Coherent(cut)
  PROVE  Repairs(cut)
<1> DEFINE T == {n \in Nat : \A s \in Seq(Events) : Coherent(s) /\ Len(Closers(s)) = n => Repairs(s)}
<1>1. 0 \in T
  <2> SUFFICES ASSUME NEW s \in Seq(Events), Coherent(s), Len(Closers(s)) = 0
               PROVE  Repairs(s)
    OBVIOUS
  <2>1. Closers(s) \in Seq(Events) /\ (Closers(s) = <<>> <=> Trace(s).turn = 0)
    BY ClosersTyped
  <2>2. Closers(s) = <<>> /\ Trace(s).turn = 0
    BY <2>1
  <2>3. s \o Closers(s) = s
    BY <2>2, ConcatEmptySeq
  <2>4. Trace(s).step = 0
    BY <2>2 DEF Coherent, TraceOk
  <2> QED BY <2>2, <2>3, <2>4 DEF Repairs, OnCourse
<1>2. ASSUME NEW n \in Nat, n \in T PROVE n + 1 \in T
  <2> SUFFICES ASSUME NEW s \in Seq(Events), Coherent(s), Len(Closers(s)) = n + 1
               PROVE  Repairs(s)
    OBVIOUS
  <2> DEFINE c == Closers(s)
             v == Append(s, Head(c))
  <2>1. c \in Seq(Events) /\ (c = <<>> <=> Trace(s).turn = 0)
    BY ClosersTyped
  <2>2. Len(c) = n + 1
    OBVIOUS
  <2>3. \A x \in Seq(Events) : Coherent(x) /\ Len(Closers(x)) = n => Repairs(x)
    BY <1>2
  <2> HIDE DEF c
  <2>4. c # <<>> /\ Trace(s).turn # 0
    BY <2>1, <2>2
  <2>5. /\ Coherent(v) /\ Closers(v) = Tail(c) /\ Called(v) = Called(s)
        /\ \A turn, step \in Nat : step # 0 /\ OnCourse(s, turn, step) => OnCourse(v, turn, step)
    BY <2>4, ClosesOne DEF Closes, c
  <2>6. Head(c) \in Events /\ Len(Tail(c)) = Len(c) - 1
    BY <2>1, <2>4, HeadTailProperties
  <2>7. v \in Seq(Events)
    BY <2>6, Appended
  <2>8. s \o c = v \o Tail(c)
    BY <2>1, <2>4, MoveHead
  <2> HIDE DEF v
  <2>9. Len(Closers(v)) = n
    BY <2>2, <2>5, <2>6
  <2>10. Repairs(v)
    BY <2>3, <2>5, <2>7, <2>9
  <2>11. v \o Closers(v) = s \o Closers(s)
    BY <2>5, <2>8 DEF c
  <2> QED BY <2>5, <2>10, <2>11 DEF Repairs
<1> HIDE DEF T
<1>3. Closers(cut) \in Seq(Events)
  BY ClosersTyped
<1>4. Len(Closers(cut)) \in Nat
  BY <1>3
<1>5. Len(Closers(cut)) \in T
  BY <1>1, <1>2, <1>4, Induct
<1> QED BY <1>5 DEF T

-----------------------------------------------------------------------------
(* The inductive invariant.  A crash may leave any prefix of the log, so every *)
(* prefix has to be one the repair can close; the driver stands where the log  *)
(* says it does; and what has had an effect is in the durable part.            *)

Sound(s) == \A k \in 0..Len(s) : Coherent(SubSeq(s, 1, k))

(* The driver and its calls.                                                 *)
Drivers == [at : {"idle", "proposing", "requesting", "streaming", "calling",
                  "stepEnding", "failing", "turnEnding"},
            turn : Nat, step : Nat, aborted : BOOLEAN]
CallStates == {"offered", "recorded", "running", "settled", "committed"}
InAStep == {"requesting", "streaming", "calling", "stepEnding", "failing"}

(* Driver d over log s.                                                        *)
Stands(d, s) ==
  LET t == Trace(s)
  IN /\ d.at = "idle" => t.turn = 0
     /\ d.at # "idle" => t.turn = d.turn /\ t.turn # 0
     /\ d.at \in InAStep => t.step = d.step /\ t.step # 0
     /\ d.at \notin InAStep => t.step = 0
     /\ d.at = "proposing" => t.nextStep = d.step + 1
     /\ d.at \in {"requesting", "streaming"} =>
          Scanned(s).pending = <<>> /\ Fresh(s, t.turn, t.step)
     /\ d.at = "requesting" => \E k \in DOMAIN s : k = Len(s) /\ s[k] = Ev("step/start", d.turn, d.step)

(* The first r calls are committed, and the scan has the others.               *)
Progress(d, cs, s, r) ==
  LET p == Scanned(s).pending
  IN /\ Len(cs) = r + Len(p)
     /\ \A i \in 1..Len(p) : p[i].call = <<d.turn, d.step, r + i>>
     /\ \A i \in 1..Len(cs) :
          /\ cs[i] = "committed" <=> i <= r
          /\ cs[i] \in {"recorded", "running", "settled"} => <<d.turn, d.step, i>> \in Trace(s).pending
          /\ cs[i] = "recorded" => \E k \in DOMAIN s : s[k] = CallEv(d.turn, d.step, i)

Calling(d, cs, s) == d.at = "calling" => \E r \in Nat : Progress(d, cs, s, r)

(* What was entered is recorded in the durable part.                         *)
RanRecorded == \A c \in ran : \E k \in 1..stored : log[k].type = "tool/call" /\ log[k].call = c

RecoveryInv ==
  /\ TypeOK /\ Sound(log)
  /\ mode = "up" => Stands(driver, log) /\ Calling(driver, calls, log)
  /\ mode = "repairing" => closers = Closers(log)
  /\ RanRecorded /\ RequestsAreLogged

(* A log is a prefix of itself.                                              *)
LEMMA SoundWhole ==
  ASSUME NEW s \in Seq(Events), Sound(s)
  PROVE  Coherent(s)
<1>1. Len(s) \in 0..Len(s) /\ SubSeq(s, 1, Len(s)) = s
  BY SubSeqFull
<1> QED BY <1>1 DEF Sound

(* A prefix of a prefix is a prefix.                                         *)
LEMMA PrefixOfPrefix ==
  ASSUME NEW s \in Seq(Events), NEW k \in 0..Len(s)
  PROVE  /\ SubSeq(s, 1, k) \in Seq(Events) /\ Len(SubSeq(s, 1, k)) = k
         /\ \A i \in 1..k : SubSeq(s, 1, k)[i] = s[i]
         /\ \A j \in 0..k : SubSeq(SubSeq(s, 1, k), 1, j) = SubSeq(s, 1, j)
<1> DEFINE u == SubSeq(s, 1, k)
<1>1. Len(s) \in Nat /\ \A i \in 1..Len(s) : s[i] \in Events
  OBVIOUS
<1>2. u \in Seq(Events) /\ Len(u) = k /\ \A i \in 1..k : u[i] = s[i]
  <2>1. \A i \in 1..k : s[i] \in Events
    BY <1>1
  <2>2. /\ u \in Seq(Events) /\ Len(u) = IF 1 <= k THEN k - 1 + 1 ELSE 0
        /\ \A i \in 1..(k - 1 + 1) : u[i] = s[1 + i - 1]
    BY <1>1, <2>1, SubSeqProperties
  <2> QED BY <1>1, <2>2
<1> HIDE DEF u
<1>3. ASSUME NEW j \in 0..k PROVE SubSeq(u, 1, j) = SubSeq(s, 1, j)
  <2> DEFINE x == SubSeq(u, 1, j)
             y == SubSeq(s, 1, j)
  <2>1. \A i \in 1..j : u[i] = s[i] /\ s[i] \in Events
    BY <1>1, <1>2, <1>3
  <2>2. /\ x \in Seq(Events) /\ Len(x) = IF 1 <= j THEN j - 1 + 1 ELSE 0
        /\ \A i \in 1..(j - 1 + 1) : x[i] = u[1 + i - 1]
    <3>1. \A i \in 1..j : u[i] \in Events
      BY <2>1
    <3> QED BY <3>1, SubSeqProperties
  <2>3. /\ y \in Seq(Events) /\ Len(y) = IF 1 <= j THEN j - 1 + 1 ELSE 0
        /\ \A i \in 1..(j - 1 + 1) : y[i] = s[1 + i - 1]
    BY <2>1, SubSeqProperties
  <2> HIDE DEF x, y
  <2>4. Len(x) = j /\ Len(y) = j /\ \A i \in 1..j : x[i] = y[i]
    BY <2>1, <2>2, <2>3
  <2>5. x = y
    BY <2>2, <2>3, <2>4, SeqEqual
  <2> QED BY <2>5 DEF x, y
<1> QED BY <1>2, <1>3 DEF u

(* What a crash leaves of a sound log is sound.                              *)
LEMMA SoundPrefix ==
  ASSUME NEW s \in Seq(Events), Sound(s), NEW k \in 0..Len(s)
  PROVE  Sound(SubSeq(s, 1, k))
<1>1. Len(SubSeq(s, 1, k)) = k /\ \A j \in 0..k : SubSeq(SubSeq(s, 1, k), 1, j) = SubSeq(s, 1, j)
  BY PrefixOfPrefix
<1>2. 0..k \subseteq 0..Len(s)
  OBVIOUS
<1> QED BY <1>1, <1>2 DEF Sound

(* An append adds one prefix: the whole log.                                 *)
LEMMA SoundAppend ==
  ASSUME NEW s \in Seq(Events), NEW e \in Events, Sound(s), Coherent(Append(s, e))
  PROVE  Sound(Append(s, e))
<1> DEFINE v == Append(s, e)
<1>1. v \in Seq(Events) /\ Len(v) = Len(s) + 1 /\ Len(s) \in Nat /\ \A k \in 1..Len(s) : v[k] = s[k]
  BY Appended
<1>2. SubSeq(v, 1, Len(v)) = v
  BY <1>1, SubSeqFull
<1>3. SubSeq(v, 1, Len(s)) = s
  <2>1. Len(s) \in 0..Len(v)
    BY <1>1
  <2> HIDE DEF v
  <2>2. /\ SubSeq(v, 1, Len(s)) \in Seq(Events) /\ Len(SubSeq(v, 1, Len(s))) = Len(s)
        /\ \A i \in 1..Len(s) : SubSeq(v, 1, Len(s))[i] = v[i]
    BY <1>1, <2>1, PrefixOfPrefix
  <2> QED BY <1>1, <2>2, SeqEqual
<1>4. ASSUME NEW k \in 0..Len(v) PROVE Coherent(SubSeq(v, 1, k))
  <2>1. CASE k = Len(v)
    BY <1>2, <2>1
  <2>2. CASE k # Len(v)
    <3>1. k \in 0..Len(s) /\ Len(s) \in 0..Len(v)
      BY <1>1, <2>2
    <3> HIDE DEF v
    <3>2. SubSeq(SubSeq(v, 1, Len(s)), 1, k) = SubSeq(v, 1, k)
      BY <1>1, <3>1, PrefixOfPrefix
    <3> QED BY <1>3, <3>1, <3>2 DEF Sound
  <2> QED BY <2>1, <2>2
<1> HIDE DEF v
<1>5. Sound(v)
  BY <1>4 DEF Sound
<1> QED BY <1>5 DEF v

-----------------------------------------------------------------------------
(* Steps of the process: the log grows by one event, or not at all.            *)

Here == mode = "up" /\ mode' = mode /\ stored' = stored /\ closers' = closers /\ crashes' = crashes

(* While the durable part only grows, what has had an effect stays in it.    *)
LEMMA EffectsKept ==
  ASSUME TypeOK, RanRecorded, RequestsAreLogged, log' \in Seq(Events), stored' \in Nat, stored <= stored',
         \A k \in 1..stored : log'[k] = log[k], ran' = ran, asked' = asked
  PROVE  RanRecorded' /\ RequestsAreLogged'
<1>1. 1..stored \subseteq 1..stored'
  BY DEF TypeOK
<1>2. RanRecorded'
  BY <1>1 DEF RanRecorded
<1>3. RequestsAreLogged'
  BY <1>1 DEF RequestsAreLogged
<1> QED BY <1>2, <1>3

(* A step of the process that only appends, and leaves the storage alone.    *)
LEMMA Extends ==
  ASSUME RecoveryInv, Here, log' \in Seq(Events), Len(log) <= Len(log'),
         \A k \in 1..Len(log) : log'[k] = log[k], Sound(log'),
         driver' \in Drivers, calls' \in Seq(CallStates), ran' = ran, asked' = asked,
         driver'.turn = LastTurn(log'), Stands(driver', log'), Calling(driver', calls', log')
  PROVE  RecoveryInv'
<1>1. TypeOK /\ log \in Seq(Events)
  BY DEF RecoveryInv, TypeOK
<1>2. Len(log) \in Nat /\ Len(log') \in Nat
  BY <1>1
<1>3. stored \in 0..Len(log)
  BY <1>1 DEF TypeOK
<1>4. TypeOK'
  <2>1. stored' \in 0..Len(log')
    BY <1>2, <1>3 DEF Here
  <2>2. /\ closers \in Seq(Events) /\ (mode = "repairing" <=> closers # <<>>)
        /\ ran \subseteq CallIds /\ asked \subseteq Nat \X Nat /\ crashes \in Nat
    BY <1>1 DEF TypeOK
  <2> QED BY <2>1, <2>2 DEF TypeOK, Here, Drivers, CallStates
<1>5. RanRecorded' /\ RequestsAreLogged'
  <2>1. stored' \in Nat /\ stored <= stored' /\ \A k \in 1..stored : log'[k] = log[k]
    BY <1>2, <1>3 DEF Here
  <2> QED BY <1>1, <2>1, EffectsKept DEF RecoveryInv
<1>6. mode' # "repairing"
  BY DEF Here
<1>7. Sound(log)' /\ Stands(driver, log)' /\ Calling(driver, calls, log)'
  OBVIOUS
<1> QED BY <1>4, <1>5, <1>6, <1>7 DEF RecoveryInv

(* A step that appends one event.                                            *)
LEMMA Grows ==
  ASSUME RecoveryInv, Here, NEW e \in Events, log' = Append(log, e), Coherent(Append(log, e)),
         driver' \in Drivers, calls' \in Seq(CallStates), ran' = ran, asked' = asked,
         driver'.turn = LastTurn(Append(log, e)),
         Stands(driver', Append(log, e)), Calling(driver', calls', Append(log, e))
  PROVE  RecoveryInv'
<1>1. Sound(log) /\ log \in Seq(Events)
  BY DEF RecoveryInv, TypeOK
<1>2. /\ log' \in Seq(Events) /\ Len(log') = Len(log) + 1 /\ Len(log) \in Nat
      /\ \A k \in 1..Len(log) : log'[k] = log[k]
  BY <1>1, Appended
<1>3. Sound(log')
  BY <1>1, SoundAppend
<1>4. Len(log) <= Len(log')
  BY <1>2
<1>5. driver'.turn = LastTurn(log') /\ Stands(driver', log') /\ Calling(driver', calls', log')
  OBVIOUS
<1> QED BY <1>2, <1>3, <1>4, <1>5, Extends

(* A step that appends nothing.                                              *)
LEMMA Rests ==
  ASSUME RecoveryInv, Here, log' = log,
         driver' \in Drivers, calls' \in Seq(CallStates), ran' = ran, asked' = asked,
         driver'.turn = driver.turn,
         Stands(driver', log), Calling(driver', calls', log)
  PROVE  RecoveryInv'
<1>1. TypeOK /\ Sound(log) /\ log \in Seq(Events)
  BY DEF RecoveryInv, TypeOK
<1>2. Sound(log)' /\ Stands(driver, log)' /\ Calling(driver, calls, log)'
  BY <1>1
<1>3. TypeOK'
  BY <1>1 DEF TypeOK, Here, Drivers, CallStates
<1>4. RanRecorded' /\ RequestsAreLogged'
  BY DEF RecoveryInv, RanRecorded, RequestsAreLogged, Here
<1>5. mode' # "repairing"
  BY DEF Here
<1> QED BY <1>2, <1>3, <1>4, <1>5 DEF RecoveryInv

(* What every step of the process knows.                                       *)
LEMMA UpHas ==
  ASSUME RecoveryInv, mode = "up"
  PROVE  /\ log \in Seq(Events) /\ Coherent(log) /\ driver \in Drivers /\ calls \in Seq(CallStates)
         /\ Stands(driver, log) /\ Calling(driver, calls, log) /\ driver.turn = LastTurn(log)
         /\ Trace(log) \in Traces /\ TraceOk(Trace(log)) /\ LastOk(Trace(log), log)
         /\ Scanned(log) \in Scans /\ Agree(Scanned(log), Trace(log))
<1>1. log \in Seq(Events) /\ Sound(log)
  BY DEF RecoveryInv, TypeOK
<1>2. Coherent(log)
  BY <1>1, SoundWhole
<1> QED BY <1>1, <1>2 DEF RecoveryInv, TypeOK, Drivers, CallStates, Coherent

(* A turn starts where the last one was closed.                              *)
LEMMA TurnStartKeeps ==
  ASSUME RecoveryInv, TurnStart
  PROVE  RecoveryInv'
<1> DEFINE t == Trace(log)
           e == Ev("turn/start", driver.turn + 1, 0)
           d == [at |-> "proposing", turn |-> driver.turn + 1, step |-> 0, aborted |-> FALSE]
           v == Append(log, e)
<1>1. /\ mode = "up" /\ driver.at = "idle" /\ log' = v /\ Here
      /\ driver' = d /\ calls' = calls /\ ran' = ran /\ asked' = asked
  BY DEF TurnStart, At, Append1, Parked, elsewhere, Here
<1>2. /\ log \in Seq(Events) /\ Coherent(log) /\ driver \in Drivers /\ calls \in Seq(CallStates)
      /\ Stands(driver, log) /\ driver.turn = LastTurn(log)
      /\ t \in Traces /\ TraceOk(t) /\ LastOk(t, log)
  BY <1>1, UpHas
<1>3. t.turn = 0 /\ t.step = 0 /\ t.nextTurn \in Nat /\ t.nextTurn = driver.turn + 1 /\ driver.turn \in Nat
  BY <1>1, <1>2 DEF Stands, TraceOk, LastOk, Traces, Drivers
<1>4. e \in Events /\ e.type = "turn/start" /\ e.code = "none" /\ e.turn = driver.turn + 1
  BY <1>3, EvIs
<1> HIDE DEF e
<1>5. /\ Coherent(v) /\ Trace(v) = [t EXCEPT !.turn = e.turn, !.nextStep = 1]
  BY <1>2, <1>3, <1>4, OnTurnStart DEF t
<1>6. LastTurn(v) = e.turn
  BY <1>2, <1>4, LastTurnAppend
<1>7. Trace(v).turn = d.turn /\ d.turn # 0 /\ Trace(v).step = 0 /\ Trace(v).nextStep = 1
  BY <1>2, <1>3, <1>4, <1>5 DEF Traces
<1>8. d \in Drivers
  BY <1>3 DEF Drivers
<1>9. Stands(d, v) /\ Calling(d, calls, v)
  <2> HIDE DEF v
  <2> QED BY <1>7 DEF Stands, Calling, InAStep
<1>10. d.turn = LastTurn(v)
  BY <1>4, <1>6
<1> QED BY <1>1, <1>2, <1>4, <1>5, <1>8, <1>9, <1>10, Grows

(* Goto moves the driver and nothing else.                                   *)
LEMMA GotoIs ==
  ASSUME driver \in Drivers, NEW pc \in {"idle", "proposing", "requesting", "streaming", "calling",
                                         "stepEnding", "failing", "turnEnding"}, Goto(pc)
  PROVE  /\ driver' \in Drivers /\ driver'.at = pc /\ driver'.turn = driver.turn
         /\ driver'.step = driver.step /\ driver'.aborted = driver.aborted
BY DEF Drivers, Goto

(* The new step has no event yet.                                            *)
LEMMA StepStartKeeps ==
  ASSUME RecoveryInv, StepStart
  PROVE  RecoveryInv'
<1> DEFINE t == Trace(log)
           e == Ev("step/start", driver.turn, driver.step + 1)
           d == [at |-> "requesting", turn |-> driver.turn, step |-> driver.step + 1, aborted |-> driver.aborted]
           v == Append(log, e)
<1>1. /\ mode = "up" /\ driver.at = "proposing" /\ log' = v /\ Here
      /\ driver' = [driver EXCEPT !.at = "requesting", !.step = driver.step + 1]
      /\ calls' = <<>> /\ ran' = ran /\ asked' = asked
  BY DEF StepStart, At, Append1, NoCalls, elsewhere, Here
<1>2. /\ log \in Seq(Events) /\ Coherent(log) /\ driver \in Drivers
      /\ Stands(driver, log) /\ driver.turn = LastTurn(log)
      /\ t \in Traces /\ TraceOk(t) /\ Agree(Scanned(log), t) /\ Scanned(log) \in Scans
  BY <1>1, UpHas
<1>3. /\ t.turn = driver.turn /\ t.turn # 0 /\ t.step = 0 /\ t.nextStep = driver.step + 1
      /\ driver.turn \in Nat /\ driver.step \in Nat /\ driver.step + 1 \in Nat /\ t.nextStep # 0
  BY <1>1, <1>2 DEF Stands, TraceOk, Drivers, InAStep
<1>4. driver' = d
  BY <1>1, <1>2 DEF Drivers
<1>5. e \in Events /\ e.type = "step/start" /\ e.code = "none" /\ e.turn = driver.turn /\ e.step = driver.step + 1
  BY <1>3, EvIs, SMTT(30)
<1>6. d \in Drivers
  BY <1>2, <1>3 DEF Drivers
<1>7. e = Ev("step/start", d.turn, d.step)
  OBVIOUS
<1> HIDE DEF e
<1>8. /\ Coherent(v) /\ Fresh(v, e.turn, e.step)
      /\ Scanned(v) = [Scanned(log) EXCEPT !.step = e.step]
      /\ Trace(v) = [t EXCEPT !.step = e.step]
  BY <1>2, <1>3, <1>5, OnStepStart DEF t
<1>9. LastTurn(v) = LastTurn(log)
  BY <1>2, <1>5, LastTurnAppend
<1>10. Trace(v).turn = t.turn /\ Trace(v).step = e.step /\ Scanned(v).pending = <<>>
  BY <1>2, <1>3, <1>8 DEF Traces, Scans, Agree
<1>11. Len(v) \in DOMAIN v /\ v[Len(v)] = e
  BY <1>2, <1>5, Appended
<1>12. Stands(d, v) /\ Calling(d, <<>>, v)
  <2> HIDE DEF v
  <2> QED BY <1>3, <1>5, <1>7, <1>8, <1>10, <1>11 DEF Stands, Calling, InAStep
<1>13. d.turn = LastTurn(v) /\ <<>> \in Seq(CallStates)
  BY <1>2, <1>9
<1> HIDE DEF d, v
<1> QED BY <1>1, <1>2, <1>4, <1>5, <1>6, <1>8, <1>12, <1>13, Grows DEF v

(* The turn ends between the steps.                                          *)
LEMMA TurnEndKeeps ==
  ASSUME RecoveryInv, TurnEnd
  PROVE  RecoveryInv'
<1> DEFINE t == Trace(log)
           e == Ev("turn/end", driver.turn, 0)
           d == [at |-> "idle", turn |-> driver.turn, step |-> 0, aborted |-> FALSE]
           v == Append(log, e)
<1>1. /\ mode = "up" /\ driver.at \in {"proposing", "turnEnding"} /\ log' = v /\ Here
      /\ driver' = d /\ calls' = calls /\ ran' = ran /\ asked' = asked
  BY DEF TurnEnd, At, Append1, Parked, elsewhere, Here
<1>2. /\ log \in Seq(Events) /\ Coherent(log) /\ driver \in Drivers /\ calls \in Seq(CallStates)
      /\ Stands(driver, log) /\ driver.turn = LastTurn(log)
      /\ t \in Traces /\ TraceOk(t)
  BY <1>1, UpHas
<1>3. t.turn = driver.turn /\ t.turn # 0 /\ t.step = 0 /\ driver.turn \in Nat
  BY <1>1, <1>2 DEF Stands, Drivers, InAStep
<1>4. e \in Events /\ e.type = "turn/end" /\ e.code = "none" /\ e.turn = driver.turn
  BY <1>3, EvIs
<1>5. d \in Drivers
  BY <1>3 DEF Drivers
<1> HIDE DEF e
<1>6. Coherent(v) /\ Trace(v) = [t EXCEPT !.turn = 0, !.nextTurn = @ + 1]
  BY <1>2, <1>3, <1>4, OnTurnEnd DEF t
<1>7. LastTurn(v) = LastTurn(log)
  BY <1>2, <1>4, LastTurnAppend
<1>8. Trace(v).turn = 0 /\ Trace(v).step = 0
  BY <1>2, <1>3, <1>6 DEF Traces
<1>9. Stands(d, v) /\ Calling(d, calls, v)
  <2> HIDE DEF v
  <2> QED BY <1>8 DEF Stands, Calling, InAStep
<1>10. d.turn = LastTurn(v)
  BY <1>2, <1>7
<1> HIDE DEF d, v
<1> QED BY <1>1, <1>2, <1>4, <1>5, <1>6, <1>9, <1>10, Grows DEF v

(* The request is sent when the start of its step is durable.                *)
LEMMA RequestSentKeeps ==
  ASSUME RecoveryInv, RequestSent
  PROVE  RecoveryInv'
<1>1. /\ mode = "up" /\ driver.at = "requesting" /\ Goto("streaming") /\ stored >= Len(log)
      /\ asked' = asked \cup {<<driver.turn, driver.step>>}
      /\ log' = log /\ mode' = mode /\ stored' = stored /\ closers' = closers /\ crashes' = crashes
      /\ calls' = calls /\ ran' = ran
  BY DEF RequestSent, At, Durable, elsewhere
<1>2. /\ log \in Seq(Events) /\ driver \in Drivers /\ calls \in Seq(CallStates)
      /\ Stands(driver, log) /\ driver.turn = LastTurn(log)
  BY <1>1, UpHas
<1>3. /\ driver' \in Drivers /\ driver'.at = "streaming" /\ driver'.turn = driver.turn
      /\ driver'.step = driver.step
  BY <1>1, <1>2, GotoIs
<1>4. TypeOK /\ Sound(log) /\ RanRecorded /\ RequestsAreLogged
  BY DEF RecoveryInv
<1>5. driver.turn \in Nat /\ driver.step \in Nat
  BY <1>2 DEF Drivers
<1>6. TypeOK'
  <2>1. asked' \subseteq Nat \X Nat
    BY <1>1, <1>4, <1>5 DEF TypeOK
  <2>2. driver'.turn = LastTurn(log')
    BY <1>1, <1>2, <1>3
  <2> QED BY <1>1, <1>3, <1>4, <2>1, <2>2 DEF TypeOK, Drivers
<1>7. Stands(driver', log') /\ Calling(driver', calls', log')
  BY <1>1, <1>2, <1>3 DEF Stands, Calling, InAStep
<1>8. RequestsAreLogged'
  <2>1. PICK k \in DOMAIN log : k = Len(log) /\ log[k] = Ev("step/start", driver.turn, driver.step)
    BY <1>1, <1>2 DEF Stands
  <2>2. k \in 1..stored
    BY <1>1, <1>2, <1>4, <2>1 DEF TypeOK
  <2> SUFFICES ASSUME NEW x \in asked'
               PROVE  \E j \in 1..stored : log[j] = Ev("step/start", x[1], x[2])
    BY <1>1 DEF RequestsAreLogged
  <2>3. CASE x \in asked
    BY <1>4, <2>3 DEF RequestsAreLogged
  <2>4. CASE x = <<driver.turn, driver.step>>
    BY <2>1, <2>2, <2>4
  <2> QED BY <1>1, <2>3, <2>4
<1>9. RanRecorded'
  BY <1>1, <1>4 DEF RanRecorded
<1>10. Sound(log)' /\ Stands(driver, log)' /\ Calling(driver, calls, log)'
  BY <1>1, <1>4, <1>7
<1> QED BY <1>1, <1>6, <1>8, <1>9, <1>10 DEF RecoveryInv

(* The calls the answer offers are those the scan now waits for.             *)
LEMMA AnswerLoggedKeeps ==
  ASSUME RecoveryInv, AnswerLogged
  PROVE  RecoveryInv'
<1> DEFINE t == Trace(log)
<1>1. mode = "up" /\ driver.at = "streaming" /\ Here /\ ran' = ran /\ asked' = asked
  BY DEF AnswerLogged, At, elsewhere, Here
<1>2. PICK n \in 0..MaxCalls :
        /\ Append1(Message(driver.turn, driver.step, n))
        /\ \/ calls' = [i \in 1..n |-> "offered"] /\ Goto("calling")
           \/ n > 0 /\ calls' = NoCalls /\ Goto("stepEnding")
  BY DEF AnswerLogged
<1>3. n \in Nat
  BY BoundsAreNat
<1> DEFINE e == Message(driver.turn, driver.step, n)
           v == Append(log, e)
<1>4. log' = v
  BY <1>2 DEF Append1
<1>5. /\ log \in Seq(Events) /\ Coherent(log) /\ driver \in Drivers
      /\ Stands(driver, log) /\ driver.turn = LastTurn(log)
      /\ t \in Traces /\ TraceOk(t) /\ Scanned(log) \in Scans
  BY <1>1, UpHas
<1>6. /\ t.turn = driver.turn /\ t.turn # 0 /\ t.step = driver.step /\ t.step # 0
      /\ driver.turn \in Nat /\ driver.step \in Nat
      /\ Scanned(log).pending = <<>> /\ Fresh(log, driver.turn, driver.step)
  BY <1>1, <1>5 DEF Stands, Drivers, InAStep
<1>7. /\ e \in Events /\ e.type = "assistant/message" /\ e.code = "none"
      /\ e.turn = driver.turn /\ e.step = driver.step /\ e.n = n
  BY <1>3, <1>6, MessageIs
<1> HIDE DEF e
<1>8. /\ Coherent(v) /\ Scanned(v) = [Scanned(log) EXCEPT !.pending = Asks(e)] /\ Trace(v) = t
  BY <1>5, <1>6, <1>7, OnMessage DEF t
<1>9. LastTurn(v) = LastTurn(log)
  BY <1>5, <1>7, LastTurnAppend
<1>10. /\ Len(Asks(e)) = n
       /\ \A i \in 1..n : Asks(e)[i].call = <<driver.turn, driver.step, i>>
  <2>1. /\ Len(Asks(e)) = e.n
        /\ \A i \in 1..e.n : Asks(e)[i].call = <<e.turn, e.step, i>>
    BY <1>7, AsksIs, Zenon
  <2> QED BY <1>7, <2>1
<1>11. Scanned(v).pending = Asks(e)
  BY <1>5, <1>8 DEF Scans
<1> HIDE DEF v
<1>12. CASE calls' = [i \in 1..n |-> "offered"] /\ Goto("calling")
  <2>1. /\ driver' \in Drivers /\ driver'.at = "calling" /\ driver'.turn = driver.turn
        /\ driver'.step = driver.step
    BY <1>5, <1>12, GotoIs
  <2>2. /\ calls' \in Seq(CallStates) /\ Len(calls') = n /\ \A i \in 1..n : calls'[i] = "offered"
    BY <1>3, <1>12 DEF CallStates
  <2>3. Progress(driver', calls', v, 0)
    <3>1. Len(calls') = 0 + Len(Scanned(v).pending)
      BY <1>3, <1>10, <1>11, <2>2
    <3>2. \A i \in 1..Len(Scanned(v).pending) :
            Scanned(v).pending[i].call = <<driver'.turn, driver'.step, 0 + i>>
      BY <1>10, <1>11, <2>1
    <3>3. \A i \in 1..Len(calls') : calls'[i] = "offered" /\ ~(i <= 0)
      BY <2>2
    <3> QED BY <3>1, <3>2, <3>3 DEF Progress
  <2>4. Calling(driver', calls', v)
    BY <2>3 DEF Calling
  <2>5. Stands(driver', v)
    BY <1>6, <1>8, <2>1 DEF Stands, InAStep
  <2>6. driver'.turn = LastTurn(v)
    BY <1>5, <1>9, <2>1
  <2> QED BY <1>1, <1>4, <1>7, <1>8, <2>1, <2>2, <2>4, <2>5, <2>6, Grows DEF v
<1>13. CASE calls' = NoCalls /\ Goto("stepEnding")
  <2>1. /\ driver' \in Drivers /\ driver'.at = "stepEnding" /\ driver'.turn = driver.turn
        /\ driver'.step = driver.step
    BY <1>5, <1>13, GotoIs
  <2>2. calls' \in Seq(CallStates)
    BY <1>13 DEF NoCalls
  <2>3. Calling(driver', calls', v)
    BY <2>1 DEF Calling
  <2>4. Stands(driver', v)
    BY <1>6, <1>8, <2>1 DEF Stands, InAStep
  <2>5. driver'.turn = LastTurn(v)
    BY <1>5, <1>9, <2>1
  <2> QED BY <1>1, <1>4, <1>7, <1>8, <2>1, <2>2, <2>3, <2>4, <2>5, Grows DEF v
<1> QED BY <1>2, <1>12, <1>13

(* The step is left with its calls where they are.                           *)
LEMMA StepFailsKeeps ==
  ASSUME RecoveryInv, StepFails
  PROVE  RecoveryInv'
<1>1. /\ mode = "up" /\ driver.at \in {"requesting", "streaming", "calling"} /\ Goto("failing")
      /\ Here /\ log' = log /\ calls' = calls /\ ran' = ran /\ asked' = asked
  BY DEF StepFails, At, elsewhere, Here
<1>2. driver \in Drivers /\ calls \in Seq(CallStates) /\ Stands(driver, log)
  BY <1>1, UpHas
<1>3. /\ driver' \in Drivers /\ driver'.at = "failing" /\ driver'.turn = driver.turn
      /\ driver'.step = driver.step
  BY <1>1, <1>2, GotoIs
<1>4. Stands(driver', log) /\ Calling(driver', calls', log)
  BY <1>1, <1>2, <1>3 DEF Stands, Calling, InAStep
<1> QED BY <1>1, <1>2, <1>3, <1>4, Rests

(* The step ends, answered or not.                                           *)
LEMMA StepEndKeeps ==
  ASSUME RecoveryInv, StepEnd
  PROVE  RecoveryInv'
<1> DEFINE t == Trace(log)
           e == Ev("step/end", driver.turn, driver.step)
           v == Append(log, e)
<1>1. /\ mode = "up" /\ driver.at \in {"stepEnding", "failing"} /\ log' = v /\ Here
      /\ calls' = calls /\ ran' = ran /\ asked' = asked
  BY DEF StepEnd, At, Append1, elsewhere, Here
<1>2. PICK pc \in {"turnEnding", "proposing"} : Goto(pc)
  BY DEF StepEnd
<1>3. /\ log \in Seq(Events) /\ Coherent(log) /\ driver \in Drivers /\ calls \in Seq(CallStates)
      /\ Stands(driver, log) /\ driver.turn = LastTurn(log)
      /\ t \in Traces /\ TraceOk(t)
  BY <1>1, UpHas
<1>4. /\ t.turn = driver.turn /\ t.turn # 0 /\ t.step = driver.step /\ t.step # 0
      /\ driver.turn \in Nat /\ driver.step \in Nat /\ t.nextStep = t.step /\ t.nextStep \in Nat
  BY <1>1, <1>3 DEF Stands, Drivers, InAStep, TraceOk, Traces
<1>5. e \in Events /\ e.type = "step/end" /\ e.code = "none" /\ e.turn = driver.turn /\ e.step = driver.step
  BY <1>4, EvIs
<1>6. /\ driver' \in Drivers /\ driver'.at = pc /\ driver'.turn = driver.turn
      /\ driver'.step = driver.step
  BY <1>2, <1>3, GotoIs
<1> HIDE DEF e
<1>7. Coherent(v) /\ Trace(v) = [t EXCEPT !.step = 0, !.nextStep = @ + 1, !.pending = {}]
  BY <1>3, <1>4, <1>5, OnStepEnd DEF t
<1>8. LastTurn(v) = LastTurn(log)
  BY <1>3, <1>5, LastTurnAppend
<1>9. Trace(v).turn = t.turn /\ Trace(v).step = 0 /\ Trace(v).nextStep = driver.step + 1
  <2>1. Trace(v) = [[[t EXCEPT !.step = 0] EXCEPT !.nextStep = t.nextStep + 1] EXCEPT !.pending = {}]
    BY <1>3, <1>7 DEF Traces
  <2> QED BY <1>3, <1>4, <2>1 DEF Traces
<1>10. Stands(driver', v) /\ Calling(driver', calls', v)
  <2> HIDE DEF v
  <2> QED BY <1>2, <1>4, <1>6, <1>9 DEF Stands, Calling, InAStep
<1>11. driver'.turn = LastTurn(v)
  BY <1>3, <1>6, <1>8
<1> HIDE DEF v
<1> QED BY <1>1, <1>3, <1>5, <1>6, <1>7, <1>10, <1>11, Grows DEF v

(* A cancel only marks the driver.                                           *)
LEMMA CancelKeeps ==
  ASSUME RecoveryInv, Cancel
  PROVE  RecoveryInv'
<1>1. /\ mode = "up" /\ driver.at = "calling" /\ driver' = [driver EXCEPT !.aborted = TRUE]
      /\ Here /\ log' = log /\ calls' = calls /\ ran' = ran /\ asked' = asked
  BY DEF Cancel, At, elsewhere, Here
<1>2. driver \in Drivers /\ calls \in Seq(CallStates) /\ Stands(driver, log) /\ Calling(driver, calls, log)
  BY <1>1, UpHas
<1>3. /\ driver' \in Drivers /\ driver'.at = driver.at /\ driver'.turn = driver.turn
      /\ driver'.step = driver.step
  BY <1>1, <1>2 DEF Drivers
<1>4. Stands(driver', log)
  BY <1>1, <1>2, <1>3 DEF Stands
<1>5. Calling(driver', calls', log)
  BY <1>1, <1>2, <1>3 DEF Calling, Progress
<1> QED BY <1>1, <1>2, <1>3, <1>4, <1>5, Rests

(* The step goes on to its end.                                              *)
LEMMA CallsDoneKeeps ==
  ASSUME RecoveryInv, CallsDone
  PROVE  RecoveryInv'
<1>1. /\ mode = "up" /\ driver.at = "calling"
      /\ Here /\ log' = log /\ calls' = calls /\ ran' = ran /\ asked' = asked
  BY DEF CallsDone, At, elsewhere, Here
<1>2. PICK pc \in {"failing", "stepEnding"} : Goto(pc)
  BY DEF CallsDone
<1>3. driver \in Drivers /\ calls \in Seq(CallStates) /\ Stands(driver, log)
  BY <1>1, UpHas
<1>4. /\ driver' \in Drivers /\ driver'.at = pc /\ driver'.turn = driver.turn
      /\ driver'.step = driver.step
  BY <1>2, <1>3, GotoIs
<1>5. Stands(driver', log) /\ Calling(driver', calls', log)
  BY <1>1, <1>2, <1>3, <1>4 DEF Stands, Calling, InAStep
<1> QED BY <1>1, <1>3, <1>4, <1>5, Rests

-----------------------------------------------------------------------------
(* The calls of a step: the first r are committed, the next is p[1].           *)

(* Becomes moves one call and no other.                                      *)
LEMMA BecomesIs ==
  ASSUME calls \in Seq(CallStates), NEW i \in DOMAIN calls, NEW state \in CallStates, Becomes(i, state)
  PROVE  /\ calls' \in Seq(CallStates) /\ Len(calls') = Len(calls) /\ Len(calls) \in Nat
         /\ i \in 1..Len(calls) /\ calls'[i] = state
         /\ \A j \in 1..Len(calls) : j # i => calls'[j] = calls[j]
<1>1. DOMAIN calls = 1..Len(calls) /\ Len(calls) \in Nat
  OBVIOUS
<1>2. calls' = [calls EXCEPT ![i] = state]
  BY DEF Becomes
<1> QED BY <1>1, <1>2

(* What a step of the scheduler knows.                                       *)
LEMMA CallingHas ==
  ASSUME RecoveryInv, mode = "up", driver.at = "calling"
  PROVE  /\ log \in Seq(Events) /\ Coherent(log) /\ driver \in Drivers /\ calls \in Seq(CallStates)
         /\ Stands(driver, log) /\ driver.turn = LastTurn(log) /\ Trace(log) \in Traces
         /\ driver.turn \in Nat /\ driver.step \in Nat
         /\ Trace(log).turn = driver.turn /\ Trace(log).step = driver.step
         /\ Trace(log).turn # 0 /\ Trace(log).step # 0
         /\ Scanned(log) \in Scans /\ Scanned(log).pending \in Seq(PendingCalls)
         /\ Len(Scanned(log).pending) \in Nat
         /\ DOMAIN Scanned(log).pending = 1..Len(Scanned(log).pending)
         /\ DOMAIN calls = 1..Len(calls) /\ Len(calls) \in Nat
         /\ \E r \in Nat : Progress(driver, calls, log, r)
<1>1. /\ log \in Seq(Events) /\ Coherent(log) /\ driver \in Drivers /\ calls \in Seq(CallStates)
      /\ Stands(driver, log) /\ Calling(driver, calls, log) /\ driver.turn = LastTurn(log)
      /\ Trace(log) \in Traces /\ Scanned(log) \in Scans
  BY UpHas
<1>2. Scanned(log).pending \in Seq(PendingCalls)
  BY <1>1 DEF Scans
<1>3. \E r \in Nat : Progress(driver, calls, log, r)
  BY <1>1 DEF Calling
<1>4. driver.turn \in Nat /\ driver.step \in Nat
  BY <1>1 DEF Drivers
<1>5. /\ Trace(log).turn = driver.turn /\ Trace(log).step = driver.step
      /\ Trace(log).turn # 0 /\ Trace(log).step # 0
  BY <1>1 DEF Stands, InAStep
<1> QED BY <1>1, <1>2, <1>3, <1>4, <1>5

(* The driver stays in the step.                                               *)
LEMMA StandsOn ==
  ASSUME NEW s, NEW v, NEW d, d.at = "calling", Stands(d, s),
         Trace(v).turn = Trace(s).turn, Trace(v).step = Trace(s).step
  PROVE  Stands(d, v)
BY DEF Stands, InAStep

(* A call is recorded: the scan has it as started, and the trace as pending. *)
LEMMA CallStartKeeps ==
  ASSUME RecoveryInv, NEW i, CallStart(i)
  PROVE  RecoveryInv'
<1> DEFINE t == Trace(log)
           p == Scanned(log).pending
           e == CallEv(driver.turn, driver.step, i)
           v == Append(log, e)
<1>1. /\ mode = "up" /\ driver.at = "calling" /\ i \in DOMAIN calls /\ Started = 1..(i - 1)
      /\ log' = v /\ Becomes(i, "recorded")
      /\ Here /\ driver' = driver /\ ran' = ran /\ asked' = asked
  BY DEF CallStart, At, Append1, elsewhere, Here
<1>2. /\ log \in Seq(Events) /\ Coherent(log) /\ driver \in Drivers /\ calls \in Seq(CallStates)
      /\ Stands(driver, log) /\ driver.turn = LastTurn(log) /\ t \in Traces
      /\ driver.turn \in Nat /\ driver.step \in Nat
      /\ t.turn = driver.turn /\ t.step = driver.step /\ t.step # 0
      /\ p \in Seq(PendingCalls) /\ DOMAIN p = 1..Len(p) /\ Len(p) \in Nat
      /\ DOMAIN calls = 1..Len(calls) /\ Len(calls) \in Nat
  BY <1>1, CallingHas
<1>3. PICK r \in Nat : Progress(driver, calls, log, r)
  BY <1>1, CallingHas
<1>4. /\ Len(calls) = r + Len(p)
      /\ \A j \in 1..Len(p) : p[j].call = <<driver.turn, driver.step, r + j>>
      /\ \A j \in 1..Len(calls) :
          /\ calls[j] = "committed" <=> j <= r
          /\ calls[j] \in {"recorded", "running", "settled"} => <<driver.turn, driver.step, j>> \in t.pending
          /\ calls[j] = "recorded" => \E k \in DOMAIN log : log[k] = CallEv(driver.turn, driver.step, j)
  BY <1>3 DEF Progress
<1>5. i \in Nat /\ i \in 1..Len(calls) /\ calls[i] = "offered"
  BY <1>1, <1>2 DEF Started
<1>6. i - r \in DOMAIN p /\ r + (i - r) = i
  <2>1. calls[i] = "committed" <=> i <= r
    BY <1>4, <1>5
  <2>2. ~(i <= r) /\ i <= r + Len(p)
    BY <1>2, <1>4, <1>5, <2>1
  <2> HIDE DEF p
  <2> QED BY <1>2, <1>5, <2>2
<1>7. /\ e \in Events /\ e.type = "tool/call" /\ e.code = "none" /\ e.turn = driver.turn
      /\ e.step = driver.step /\ e.call = <<driver.turn, driver.step, i>>
  <2>1. /\ e \in Events
        /\ e = [type |-> "tool/call", turn |-> driver.turn, step |-> driver.step, n |-> 0,
                call |-> <<driver.turn, driver.step, i>>, code |-> "none"]
    <3>1. driver.turn \in Nat /\ driver.step \in Nat /\ i \in Nat
      BY <1>2, <1>5
    <3> QED BY <3>1, CallEvIs, Zenon
  <2> HIDE DEF e
  <2> QED BY <2>1
<1>8. e.call = p[i - r].call
  BY <1>2, <1>4, <1>6, <1>7
<1>9. e = CallEv(driver.turn, driver.step, i)
  OBVIOUS
<1> HIDE DEF e
<1>10. /\ Coherent(v) /\ Len(Scanned(v).pending) = Len(p)
       /\ \A j \in 1..Len(p) : Scanned(v).pending[j].call = p[j].call
       /\ Trace(v) = [t EXCEPT !.pending = @ \cup {e.call}]
  BY <1>2, <1>6, <1>7, <1>8, OnCall DEF t, p
<1>11. LastTurn(v) = LastTurn(log)
  BY <1>2, <1>7, LastTurnAppend
<1>12. Trace(v).turn = t.turn /\ Trace(v).step = t.step /\ Trace(v).pending = t.pending \cup {e.call}
  BY <1>2, <1>10 DEF Traces
<1>13. /\ calls' \in Seq(CallStates) /\ Len(calls') = Len(calls) /\ calls'[i] = "recorded"
       /\ \A j \in 1..Len(calls) : j # i => calls'[j] = calls[j]
  BY <1>1, <1>2, BecomesIs DEF CallStates
<1>14. /\ DOMAIN log = 1..Len(log) /\ DOMAIN v = 1..(Len(log) + 1) /\ Len(log) \in Nat
       /\ v[Len(log) + 1] = e /\ \A k \in 1..Len(log) : v[k] = log[k]
  BY <1>2, <1>7, Appended
<1> HIDE DEF v, p, t
<1>15. Progress(driver, calls', v, r)
  <2>1. Len(calls') = r + Len(Scanned(v).pending)
    BY <1>4, <1>10, <1>13
  <2>2. \A j \in 1..Len(Scanned(v).pending) :
          Scanned(v).pending[j].call = <<driver.turn, driver.step, r + j>>
    BY <1>4, <1>10
  <2>3. ASSUME NEW j \in 1..Len(calls')
        PROVE  /\ calls'[j] = "committed" <=> j <= r
               /\ calls'[j] \in {"recorded", "running", "settled"} => <<driver.turn, driver.step, j>> \in Trace(v).pending
               /\ calls'[j] = "recorded" => \E k \in DOMAIN v : v[k] = CallEv(driver.turn, driver.step, j)
    <3>1. CASE j = i
      <4>1. ~(i <= r)
        BY <1>4, <1>5
      <4>2. Len(log) + 1 \in DOMAIN v
        BY <1>14
      <4> QED BY <1>7, <1>9, <1>12, <1>13, <1>14, <3>1, <4>1, <4>2
    <3>2. CASE j # i
      <4>1. j \in 1..Len(calls) /\ calls'[j] = calls[j]
        BY <1>13, <2>3, <3>2
      <4>2. /\ calls[j] = "committed" <=> j <= r
            /\ calls[j] \in {"recorded", "running", "settled"} => <<driver.turn, driver.step, j>> \in t.pending
            /\ calls[j] = "recorded" => \E k \in DOMAIN log : log[k] = CallEv(driver.turn, driver.step, j)
        BY <1>4, <4>1
      <4>3. calls[j] = "recorded" => \E k \in DOMAIN v : v[k] = CallEv(driver.turn, driver.step, j)
        BY <1>14, <4>2
      <4> QED BY <1>12, <4>1, <4>2, <4>3
    <3> QED BY <3>1, <3>2
  <2> QED BY <2>1, <2>2, <2>3 DEF Progress
<1>16. Calling(driver, calls', v)
  BY <1>15 DEF Calling
<1>17. Stands(driver, v)
  BY <1>1, <1>2, <1>12, StandsOn DEF t
<1>18. /\ driver' \in Drivers /\ driver'.turn = LastTurn(v) /\ Stands(driver', v)
       /\ Calling(driver', calls', v)
  BY <1>1, <1>2, <1>11, <1>16, <1>17
<1> QED BY <1>1, <1>7, <1>10, <1>13, <1>18, Grows DEF v

(* A call in flight goes on.                                                   *)
LEMMA ProgressMoves ==
  ASSUME NEW d, NEW s, NEW r \in Nat, calls \in Seq(CallStates), Progress(d, calls, s, r),
         NEW i \in DOMAIN calls, calls[i] \in {"recorded", "running"},
         NEW state \in {"running", "settled"}, Becomes(i, state)
  PROVE  Progress(d, calls', s, r)
<1> DEFINE p == Scanned(s).pending
           q == Trace(s).pending
<1>1. /\ Len(calls) = r + Len(p)
      /\ \A j \in 1..Len(p) : p[j].call = <<d.turn, d.step, r + j>>
      /\ \A j \in 1..Len(calls) :
          /\ calls[j] = "committed" <=> j <= r
          /\ calls[j] \in {"recorded", "running", "settled"} => <<d.turn, d.step, j>> \in q
          /\ calls[j] = "recorded" => \E k \in DOMAIN s : s[k] = CallEv(d.turn, d.step, j)
  BY DEF Progress
<1>2. /\ Len(calls') = Len(calls) /\ i \in 1..Len(calls) /\ calls'[i] = state
      /\ \A j \in 1..Len(calls) : j # i => calls'[j] = calls[j]
  BY BecomesIs DEF CallStates
<1> HIDE DEF p, q
<1>3. ASSUME NEW j \in 1..Len(calls')
      PROVE  /\ calls'[j] = "committed" <=> j <= r
             /\ calls'[j] \in {"recorded", "running", "settled"} => <<d.turn, d.step, j>> \in q
             /\ calls'[j] = "recorded" => \E k \in DOMAIN s : s[k] = CallEv(d.turn, d.step, j)
  <2>1. j \in 1..Len(calls)
    BY <1>2, <1>3
  <2>2. /\ calls[j] = "committed" <=> j <= r
        /\ calls[j] \in {"recorded", "running", "settled"} => <<d.turn, d.step, j>> \in q
        /\ calls[j] = "recorded" => \E k \in DOMAIN s : s[k] = CallEv(d.turn, d.step, j)
    BY <1>1, <2>1
  <2>3. CASE j = i
    BY <1>2, <2>2, <2>3
  <2>4. CASE j # i
    BY <1>2, <2>1, <2>2, <2>4
  <2> QED BY <2>3, <2>4
<1> QED BY <1>1, <1>2, <1>3 DEF Progress, p, q

(* A body that returns changes no event.                                     *)
LEMMA CallSettlesKeeps ==
  ASSUME RecoveryInv, NEW i, CallSettles(i)
  PROVE  RecoveryInv'
<1>1. /\ mode = "up" /\ driver.at = "calling" /\ i \in DOMAIN calls /\ calls[i] \in {"recorded", "running"}
      /\ log' = log /\ Becomes(i, "settled")
      /\ Here /\ driver' = driver /\ ran' = ran /\ asked' = asked
  BY DEF CallSettles, At, elsewhere, Here, InFlight
<1>2. driver \in Drivers /\ calls \in Seq(CallStates) /\ Stands(driver, log)
  BY <1>1, CallingHas
<1>3. PICK r \in Nat : Progress(driver, calls, log, r)
  BY <1>1, CallingHas
<1>4. Progress(driver, calls', log, r)
  BY <1>1, <1>2, <1>3, ProgressMoves
<1>5. calls' \in Seq(CallStates)
  BY <1>1, <1>2, BecomesIs DEF CallStates
<1>6. Stands(driver', log) /\ Calling(driver', calls', log)
  BY <1>1, <1>2, <1>4 DEF Calling
<1> QED BY <1>1, <1>2, <1>5, <1>6, Rests

(* A body is entered when its recorded call is durable.                      *)
LEMMA CallRunsKeeps ==
  ASSUME RecoveryInv, NEW i, CallRuns(i)
  PROVE  RecoveryInv'
<1>1. /\ mode = "up" /\ driver.at = "calling" /\ i \in DOMAIN calls /\ calls[i] = "recorded"
      /\ stored >= RecordedAt(i) /\ Becomes(i, "running") /\ ran' = ran \cup {<<driver.turn, driver.step, i>>}
      /\ log' = log /\ mode' = mode /\ stored' = stored /\ closers' = closers /\ crashes' = crashes
      /\ driver' = driver /\ asked' = asked
  BY DEF CallRuns, At, elsewhere, Durable, CallId
<1>2. /\ log \in Seq(Events) /\ driver \in Drivers /\ calls \in Seq(CallStates) /\ Stands(driver, log)
      /\ driver.turn \in Nat /\ driver.step \in Nat
      /\ DOMAIN calls = 1..Len(calls) /\ Len(calls) \in Nat
  BY <1>1, CallingHas
<1>3. PICK r \in Nat : Progress(driver, calls, log, r)
  BY <1>1, CallingHas
<1>4. Progress(driver, calls', log, r)
  BY <1>1, <1>2, <1>3, ProgressMoves
<1>5. calls' \in Seq(CallStates)
  BY <1>1, <1>2, BecomesIs DEF CallStates
<1>6. TypeOK /\ Sound(log) /\ RanRecorded /\ RequestsAreLogged
  BY DEF RecoveryInv
<1>7. RanRecorded'
  <2> DEFINE k == RecordedAt(i)
             c == <<driver.turn, driver.step, i>>
  <2>1. \E j \in DOMAIN log : log[j] = CallEv(driver.turn, driver.step, i)
    BY <1>1, <1>2, <1>3 DEF Progress
  <2>2. k \in DOMAIN log /\ log[k] = CallEv(driver.turn, driver.step, i)
    BY <2>1 DEF RecordedAt
  <2>3. i \in Nat
    BY <1>1, <1>2
  <2> HIDE DEF k
  <2>4. log[k].type = "tool/call" /\ log[k].call = c
    BY <1>2, <2>2, <2>3, CallEvIs
  <2>5. k \in 1..stored
    BY <1>1, <1>2, <1>6, <2>2 DEF TypeOK, k
  <2>6. ASSUME NEW x \in ran' PROVE \E j \in 1..stored : log[j].type = "tool/call" /\ log[j].call = x
    <3>1. CASE x \in ran
      BY <1>6, <3>1 DEF RanRecorded
    <3>2. CASE x = c
      BY <2>4, <2>5, <3>2
    <3> QED BY <1>1, <2>6, <3>1, <3>2
  <2> QED BY <1>1, <2>6 DEF RanRecorded
<1>8. RequestsAreLogged'
  BY <1>1, <1>6 DEF RequestsAreLogged
<1>9. TypeOK'
  <2>1. <<driver.turn, driver.step, i>> \in CallIds
    BY <1>1, <1>2 DEF CallIds
  <2>2. ran' \subseteq CallIds
    BY <1>1, <1>6, <2>1 DEF TypeOK
  <2> QED BY <1>1, <1>5, <1>6, <2>2 DEF TypeOK, CallStates
<1>10. Sound(log)' /\ Stands(driver, log)' /\ Calling(driver, calls, log)'
  BY <1>1, <1>2, <1>4, <1>6 DEF Calling
<1> QED BY <1>1, <1>7, <1>8, <1>9, <1>10 DEF RecoveryInv

(* The call to be committed is the first of those the scan has.                *)
LEMMA NextUp ==
  ASSUME NEW d, NEW cs \in Seq(CallStates), NEW s, NEW r \in Nat, Progress(d, cs, s, r),
         Scanned(s).pending \in Seq(PendingCalls), NEW i \in DOMAIN cs, cs[i] # "committed",
         \A j \in 1..(i - 1) : cs[j] = "committed"
  PROVE  /\ i = r + 1 /\ Scanned(s).pending # <<>>
         /\ Scanned(s).pending[1].call = <<d.turn, d.step, i>>
<1> DEFINE p == Scanned(s).pending
<1>1. /\ Len(cs) = r + Len(p)
      /\ \A j \in 1..Len(p) : p[j].call = <<d.turn, d.step, r + j>>
      /\ \A j \in 1..Len(cs) : cs[j] = "committed" <=> j <= r
  BY DEF Progress
<1> HIDE DEF p
<1>2. DOMAIN cs = 1..Len(cs) /\ Len(cs) \in Nat /\ i \in 1..Len(cs)
  OBVIOUS
<1>3. ~(i <= r)
  BY <1>1, <1>2
<1>4. ~(r + 1 < i)
  <2> SUFFICES ASSUME r + 1 < i PROVE FALSE
    OBVIOUS
  <2>1. r + 1 \in 1..(i - 1) /\ r + 1 \in 1..Len(cs)
    BY <1>2
  <2>2. cs[r + 1] = "committed"
    BY <2>1
  <2>3. r + 1 <= r
    BY <1>1, <2>1, <2>2
  <2> QED BY <2>3
<1>5. i = r + 1
  BY <1>2, <1>3, <1>4
<1>6. p \in Seq(PendingCalls) /\ Len(p) \in Nat
  BY DEF p
<1>7. Len(p) # 0
  BY <1>1, <1>2, <1>5, <1>6
<1>8. 1 \in 1..Len(p) /\ p # <<>>
  BY <1>6, <1>7
<1>9. p[1].call = <<d.turn, d.step, i>>
  BY <1>1, <1>5, <1>8
<1> QED BY <1>5, <1>8, <1>9 DEF p

(* The next call gets its result, and the scan is rid of it.                 *)
LEMMA ProgressCommits ==
  ASSUME NEW d, NEW s \in Seq(Events), NEW e \in Events, NEW r \in Nat,
         calls \in Seq(CallStates), Progress(d, calls, s, r),
         NEW i \in DOMAIN calls, i = r + 1, Becomes(i, "committed"), e.call = <<d.turn, d.step, i>>,
         Scanned(s).pending \in Seq(PendingCalls), Scanned(s).pending # <<>>,
         Scanned(Append(s, e)).pending = Tail(Scanned(s).pending),
         Trace(Append(s, e)).pending = Trace(s).pending \ {e.call},
         d.turn \in Nat, d.step \in Nat
  PROVE  Progress(d, calls', Append(s, e), r + 1)
<1> DEFINE v == Append(s, e)
           p == Scanned(s).pending
           q == Scanned(v).pending
           x == Trace(s).pending
           y == Trace(v).pending
<1>1. /\ Len(calls) = r + Len(p)
      /\ \A j \in 1..Len(p) : p[j].call = <<d.turn, d.step, r + j>>
      /\ \A j \in 1..Len(calls) :
          /\ calls[j] = "committed" <=> j <= r
          /\ calls[j] \in {"recorded", "running", "settled"} => <<d.turn, d.step, j>> \in x
          /\ calls[j] = "recorded" => \E k \in DOMAIN s : s[k] = CallEv(d.turn, d.step, j)
  BY DEF Progress
<1>2. /\ Len(calls') = Len(calls) /\ i \in 1..Len(calls) /\ calls'[i] = "committed" /\ Len(calls) \in Nat
      /\ \A j \in 1..Len(calls) : j # i => calls'[j] = calls[j]
  BY BecomesIs DEF CallStates
<1>3. /\ Len(q) = Len(p) - 1 /\ Len(p) \in Nat /\ \A j \in 1..Len(q) : q[j] = p[j + 1]
  BY HeadTailProperties
<1>4. /\ DOMAIN s = 1..Len(s) /\ DOMAIN v = 1..(Len(s) + 1) /\ Len(s) \in Nat
      /\ \A k \in 1..Len(s) : v[k] = s[k]
  BY Appended
<1>5. y = x \ {<<d.turn, d.step, i>>}
  OBVIOUS
<1> HIDE DEF v, p, q, x, y
<1>6. Len(calls') = (r + 1) + Len(q)
  BY <1>1, <1>2, <1>3
<1>7. ASSUME NEW j \in 1..Len(q) PROVE q[j].call = <<d.turn, d.step, (r + 1) + j>>
  <2>1. q[j] = p[j + 1]
    BY <1>3
  <2>2. j \in Nat /\ j + 1 \in 1..Len(p)
    BY <1>3
  <2>3. r + (j + 1) = (r + 1) + j
    BY <2>2
  <2>4. p[j + 1].call = <<d.turn, d.step, r + (j + 1)>>
    BY <1>1, <2>2
  <2> QED BY <2>1, <2>3, <2>4
<1>8. ASSUME NEW j \in 1..Len(calls')
      PROVE  /\ calls'[j] = "committed" <=> j <= r + 1
             /\ calls'[j] \in {"recorded", "running", "settled"} => <<d.turn, d.step, j>> \in y
             /\ calls'[j] = "recorded" => \E k \in DOMAIN v : v[k] = CallEv(d.turn, d.step, j)
  <2>1. j \in 1..Len(calls)
    BY <1>2, <1>8
  <2>2. /\ calls[j] = "committed" <=> j <= r
        /\ calls[j] \in {"recorded", "running", "settled"} => <<d.turn, d.step, j>> \in x
        /\ calls[j] = "recorded" => \E k \in DOMAIN s : s[k] = CallEv(d.turn, d.step, j)
    BY <1>1, <2>1
  <2>3. CASE j = i
    BY <1>2, <2>3
  <2>4. CASE j # i
    <3>1. calls'[j] = calls[j]
      BY <1>2, <2>1, <2>4
    <3>2. <<d.turn, d.step, j>> # <<d.turn, d.step, i>>
      BY <2>4
    <3>3. j <= r <=> j <= r + 1
      BY <2>1, <2>4
    <3>4. calls[j] = "recorded" => \E k \in DOMAIN v : v[k] = CallEv(d.turn, d.step, j)
      BY <1>4, <2>2
    <3> QED BY <1>5, <2>2, <3>1, <3>2, <3>3, <3>4
  <2> QED BY <2>3, <2>4
<1>9. Progress(d, calls', v, r + 1)
  BY <1>6, <1>7, <1>8 DEF Progress, q, y
<1> QED BY <1>9 DEF v

(* A result is appended for the first call without one.                      *)
LEMMA CallCommitsKeeps ==
  ASSUME RecoveryInv, NEW i, CallCommits(i)
  PROVE  RecoveryInv'
<1> DEFINE t == Trace(log)
           p == Scanned(log).pending
           c == <<driver.turn, driver.step, i>>
           e == Result(driver.turn, driver.step, c, "none")
           v == Append(log, e)
<1>1. /\ mode = "up" /\ driver.at = "calling" /\ i \in DOMAIN calls /\ calls[i] = "settled"
      /\ \A j \in 1..(i - 1) : calls[j] = "committed"
      /\ log' = v /\ Becomes(i, "committed")
      /\ Here /\ driver' = driver /\ ran' = ran /\ asked' = asked
  BY DEF CallCommits, At, Append1, elsewhere, Here, Committable, CallId
<1>2. /\ log \in Seq(Events) /\ Coherent(log) /\ driver \in Drivers /\ calls \in Seq(CallStates)
      /\ Stands(driver, log) /\ driver.turn = LastTurn(log) /\ t \in Traces
      /\ driver.turn \in Nat /\ driver.step \in Nat
      /\ t.turn = driver.turn /\ t.step = driver.step /\ t.step # 0
      /\ Scanned(log) \in Scans /\ p \in Seq(PendingCalls)
      /\ DOMAIN calls = 1..Len(calls) /\ Len(calls) \in Nat
  BY <1>1, CallingHas
<1>3. PICK r \in Nat : Progress(driver, calls, log, r)
  BY <1>1, CallingHas
<1>4. i = r + 1 /\ p # <<>> /\ p[1].call = c
  <2>1. i \in DOMAIN calls /\ calls[i] # "committed" /\ \A j \in 1..(i - 1) : calls[j] = "committed"
    BY <1>1
  <2>2. calls \in Seq(CallStates) /\ p \in Seq(PendingCalls) /\ Progress(driver, calls, log, r)
    BY <1>2, <1>3
  <2> QED BY <2>1, <2>2, NextUp, ZenonT(40)
<1>5. c \in t.pending
  <2>1. i \in 1..Len(calls) /\ calls[i] \in {"recorded", "running", "settled"}
    BY <1>1, <1>2
  <2>2. \A j \in 1..Len(calls) : calls[j] \in {"recorded", "running", "settled"} =>
                                  <<driver.turn, driver.step, j>> \in t.pending
    BY <1>3 DEF Progress
  <2> QED BY <2>1, <2>2
<1>6. /\ e \in Events /\ e.type = "tool/result" /\ e.turn = driver.turn /\ e.step = driver.step
      /\ e.call = c /\ e.code = "none"
  <2>1. c \in CallIds
    BY <1>1, <1>2 DEF CallIds
  <2> HIDE DEF c
  <2>2. /\ e \in Events
        /\ e = [type |-> "tool/result", turn |-> driver.turn, step |-> driver.step, n |-> 0, call |-> c, code |-> "none"]
    BY <1>2, <2>1, ResultIs DEF Codes
  <2> HIDE DEF e
  <2> QED BY <2>2
<1> HIDE DEF e
<1>7. IF e.code = "TOOL_NOT_STARTED" THEN ~p[1].started ELSE e.call \in t.pending
  BY <1>5, <1>6
<1>8. /\ Coherent(v) /\ Scanned(v) = [Scanned(log) EXCEPT !.pending = Tail(p)]
      /\ Trace(v) = [t EXCEPT !.pending = @ \ {e.call}]
  <2>1. e.call = p[1].call
    BY <1>4, <1>6
  <2> HIDE DEF c
  <2> QED BY <1>2, <1>4, <1>6, <1>7, <2>1, OnResult DEF t, p
<1>9. LastTurn(v) = LastTurn(log)
  <2>1. e.type # "turn/start"
    BY <1>6
  <2> QED BY <1>2, <1>6, <2>1, LastTurnAppend
<1>10. /\ Trace(v).turn = t.turn /\ Trace(v).step = t.step /\ Trace(v).pending = t.pending \ {e.call}
       /\ Scanned(v).pending = Tail(p)
  BY <1>2, <1>8 DEF Traces, Scans
<1>11. calls' \in Seq(CallStates)
  BY <1>1, <1>2, BecomesIs DEF CallStates
<1>12. Progress(driver, calls', v, r + 1)
  <2>1. e.call = <<driver.turn, driver.step, i>>
    BY <1>6
  <2> QED BY <1>1, <1>2, <1>3, <1>4, <1>6, <1>10, <2>1, ProgressCommits DEF p, t
<1> HIDE DEF v
<1>13. /\ driver' \in Drivers /\ driver'.turn = LastTurn(v) /\ Stands(driver', v)
       /\ Calling(driver', calls', v)
  <2>1. Stands(driver, v)
    BY <1>1, <1>2, <1>10, StandsOn DEF t
  <2>2. Calling(driver, calls', v)
    BY <1>12 DEF Calling
  <2> QED BY <1>1, <1>2, <1>9, <2>1, <2>2
<1> QED BY <1>1, <1>6, <1>8, <1>11, <1>13, Grows DEF v

(* An event that answers no call keeps the calls where they are.             *)
LEMMA ProgressKept ==
  ASSUME NEW d, NEW cs, NEW s \in Seq(Events), NEW e \in Events, NEW r, Progress(d, cs, s, r),
         Len(Scanned(Append(s, e)).pending) = Len(Scanned(s).pending),
         \A j \in 1..Len(Scanned(s).pending) :
           Scanned(Append(s, e)).pending[j].call = Scanned(s).pending[j].call,
         Trace(s).pending \subseteq Trace(Append(s, e)).pending
  PROVE  Progress(d, cs, Append(s, e), r)
<1> DEFINE v == Append(s, e)
           p == Scanned(s).pending
           q == Scanned(v).pending
           x == Trace(s).pending
           y == Trace(v).pending
<1>1. /\ Len(cs) = r + Len(p)
      /\ \A j \in 1..Len(p) : p[j].call = <<d.turn, d.step, r + j>>
      /\ \A j \in 1..Len(cs) :
          /\ cs[j] = "committed" <=> j <= r
          /\ cs[j] \in {"recorded", "running", "settled"} => <<d.turn, d.step, j>> \in x
          /\ cs[j] = "recorded" => \E k \in DOMAIN s : s[k] = CallEv(d.turn, d.step, j)
  BY DEF Progress
<1>2. DOMAIN s \subseteq DOMAIN v /\ \A k \in DOMAIN s : v[k] = s[k]
  BY Appended
<1>3. Len(q) = Len(p) /\ (\A j \in 1..Len(p) : q[j].call = p[j].call) /\ x \subseteq y
  OBVIOUS
<1> HIDE DEF v, p, q, x, y
<1>4. Len(cs) = r + Len(q) /\ \A j \in 1..Len(q) : q[j].call = <<d.turn, d.step, r + j>>
  BY <1>1, <1>3
<1>5. ASSUME NEW j \in 1..Len(cs)
      PROVE  /\ cs[j] = "committed" <=> j <= r
             /\ cs[j] \in {"recorded", "running", "settled"} => <<d.turn, d.step, j>> \in y
             /\ cs[j] = "recorded" => \E k \in DOMAIN v : v[k] = CallEv(d.turn, d.step, j)
  <2>1. /\ cs[j] = "committed" <=> j <= r
        /\ cs[j] \in {"recorded", "running", "settled"} => <<d.turn, d.step, j>> \in x
        /\ cs[j] = "recorded" => \E k \in DOMAIN s : s[k] = CallEv(d.turn, d.step, j)
    BY <1>1
  <2>2. cs[j] = "recorded" => \E k \in DOMAIN v : v[k] = CallEv(d.turn, d.step, j)
    BY <1>2, <2>1
  <2> QED BY <1>3, <2>1, <2>2
<1>6. Progress(d, cs, v, r)
  BY <1>4, <1>5 DEF Progress, q, y
<1> QED BY <1>6 DEF v

(* A call never started gets its record and its result in one step.          *)
LEMMA CallSkippedKeeps ==
  ASSUME RecoveryInv, NEW i, CallSkipped(i)
  PROVE  RecoveryInv'
<1> DEFINE t == Trace(log)
           p == Scanned(log).pending
           c == <<driver.turn, driver.step, i>>
           x == CallEv(driver.turn, driver.step, i)
           y == Result(driver.turn, driver.step, c, "TOOL_ABORTED_BEFORE_DISPATCH")
           u == Append(log, x)
           v == Append(u, y)
<1>1. /\ mode = "up" /\ driver.at = "calling" /\ i \in DOMAIN calls /\ calls[i] = "offered"
      /\ \A j \in 1..(i - 1) : calls[j] = "committed"
      /\ log' = log \o <<x, y>> /\ Becomes(i, "committed")
      /\ Here /\ driver' = driver /\ ran' = ran /\ asked' = asked
  BY DEF CallSkipped, At, elsewhere, Here, CallId
<1>2. /\ log \in Seq(Events) /\ Coherent(log) /\ driver \in Drivers /\ calls \in Seq(CallStates)
      /\ Stands(driver, log) /\ driver.turn = LastTurn(log) /\ t \in Traces
      /\ driver.turn \in Nat /\ driver.step \in Nat
      /\ t.turn = driver.turn /\ t.step = driver.step /\ t.step # 0
      /\ Scanned(log) \in Scans /\ p \in Seq(PendingCalls)
      /\ DOMAIN p = 1..Len(p) /\ Len(p) \in Nat
      /\ DOMAIN calls = 1..Len(calls) /\ Len(calls) \in Nat
  BY <1>1, CallingHas
<1>3. PICK r \in Nat : Progress(driver, calls, log, r)
  BY <1>1, CallingHas
<1>4. i = r + 1 /\ p # <<>> /\ p[1].call = c
  <2>1. i \in DOMAIN calls /\ calls[i] # "committed" /\ \A j \in 1..(i - 1) : calls[j] = "committed"
    BY <1>1
  <2>2. calls \in Seq(CallStates) /\ p \in Seq(PendingCalls) /\ Progress(driver, calls, log, r)
    BY <1>2, <1>3
  <2> QED BY <2>1, <2>2, NextUp, ZenonT(40)
<1>5. i \in Nat /\ c \in CallIds /\ 1 \in DOMAIN p
  <2>1. i \in Nat
    BY <1>4
  <2>2. 1 \in DOMAIN p
    BY <1>2, <1>4
  <2> QED BY <1>2, <2>1, <2>2 DEF CallIds
<1> HIDE DEF c
<1>6. /\ x \in Events /\ x.type = "tool/call" /\ x.code = "none" /\ x.turn = driver.turn
      /\ x.step = driver.step /\ x.call = c
  <2>1. /\ x \in Events
        /\ x = [type |-> "tool/call", turn |-> driver.turn, step |-> driver.step, n |-> 0,
                call |-> c, code |-> "none"]
    BY <1>2, <1>5, CallEvIs DEF c
  <2> HIDE DEF x
  <2> QED BY <2>1
<1>7. /\ y \in Events /\ y.type = "tool/result" /\ y.turn = driver.turn /\ y.step = driver.step
      /\ y.call = c /\ y.code = "TOOL_ABORTED_BEFORE_DISPATCH"
  <2>1. /\ y \in Events
        /\ y = [type |-> "tool/result", turn |-> driver.turn, step |-> driver.step, n |-> 0,
                call |-> c, code |-> "TOOL_ABORTED_BEFORE_DISPATCH"]
    BY <1>2, <1>5, ResultIs DEF Codes
  <2> HIDE DEF y
  <2> QED BY <2>1
<1> HIDE DEF x, y
<1>8. /\ u \in Seq(Events) /\ Len(u) = Len(log) + 1 /\ Len(log) \in Nat
      /\ \A k \in 1..Len(log) : u[k] = log[k]
  BY <1>2, <1>6, Appended
<1>9. /\ Coherent(u) /\ Len(Scanned(u).pending) = Len(p)
      /\ \A j \in 1..Len(p) : Scanned(u).pending[j].call = p[j].call
      /\ Trace(u) = [t EXCEPT !.pending = @ \cup {x.call}]
  BY <1>2, <1>4, <1>5, <1>6, OnCall DEF t, p
<1>10. Trace(u).turn = t.turn /\ Trace(u).step = t.step /\ Trace(u).pending = t.pending \cup {c}
  BY <1>2, <1>6, <1>9 DEF Traces
<1>11. LastTurn(u) = LastTurn(log)
  BY <1>2, <1>6, LastTurnAppend
<1>12. Progress(driver, calls, u, r)
  <2>1. t.pending \subseteq Trace(u).pending
    BY <1>10
  <2> QED BY <1>2, <1>3, <1>6, <1>9, <2>1, ProgressKept DEF p, t, u
<1> HIDE DEF u
<1>13. Scanned(u) \in Scans /\ Trace(u) \in Traces
  BY <1>9 DEF Coherent
<1>14. /\ Scanned(u).pending \in Seq(PendingCalls) /\ Scanned(u).pending # <<>>
       /\ Scanned(u).pending[1].call = c
  <2>1. Scanned(u).pending \in Seq(PendingCalls)
    BY <1>13 DEF Scans
  <2>2. Len(p) # 0 /\ 1 \in 1..Len(p)
    BY <1>2, <1>4
  <2> QED BY <1>4, <1>9, <2>1, <2>2
<1>15. /\ Coherent(v) /\ Scanned(v) = [Scanned(u) EXCEPT !.pending = Tail(Scanned(u).pending)]
       /\ Trace(v) = [Trace(u) EXCEPT !.pending = @ \ {y.call}]
  <2>1. IF y.code = "TOOL_NOT_STARTED" THEN ~Scanned(u).pending[1].started ELSE y.call \in Trace(u).pending
    BY <1>7, <1>10
  <2>2. /\ y.turn = Trace(u).turn /\ y.step = Trace(u).step /\ Trace(u).step # 0
        /\ y.call = Scanned(u).pending[1].call
    BY <1>2, <1>7, <1>10, <1>14
  <2> QED BY <1>7, <1>8, <1>9, <1>14, <2>1, <2>2, OnResult
<1>16. /\ Trace(v).turn = t.turn /\ Trace(v).step = t.step /\ Trace(v).pending = Trace(u).pending \ {y.call}
       /\ Scanned(v).pending = Tail(Scanned(u).pending)
  BY <1>10, <1>13, <1>15 DEF Traces, Scans
<1>17. LastTurn(v) = LastTurn(log)
  <2>1. y.type # "turn/start"
    BY <1>7
  <2> QED BY <1>7, <1>8, <1>11, <2>1, LastTurnAppend
<1>18. calls' \in Seq(CallStates)
  BY <1>1, <1>2, BecomesIs DEF CallStates
<1>19. Progress(driver, calls', v, r + 1)
  <2>1. y.call = <<driver.turn, driver.step, i>>
    BY <1>7 DEF c
  <2> QED BY <1>1, <1>2, <1>4, <1>7, <1>8, <1>12, <1>14, <1>16, <2>1, ProgressCommits
<1>20. v \in Seq(Events) /\ Len(v) = Len(u) + 1 /\ \A k \in 1..Len(u) : v[k] = u[k]
  BY <1>7, <1>8, Appended
<1>21. log' = v
  <2>1. log \o <<x, y>> = Append(Append(log, x), y)
    BY <1>2, <1>6, <1>7
  <2> QED BY <1>1, <2>1 DEF u
<1>22. Sound(v)
  <2>1. Sound(log)
    BY DEF RecoveryInv
  <2>2. Sound(u)
    BY <1>2, <1>6, <1>9, <2>1, SoundAppend DEF u
  <2> QED BY <1>7, <1>8, <1>15, <2>2, SoundAppend
<1>23. Len(log) <= Len(v) /\ \A k \in 1..Len(log) : v[k] = log[k]
  BY <1>8, <1>20
<1> HIDE DEF v
<1>24. Stands(driver, v)
  BY <1>1, <1>2, <1>16, StandsOn DEF t
<1>25. Calling(driver, calls', v)
  BY <1>19 DEF Calling
<1>26. /\ log' \in Seq(Events) /\ Len(log) <= Len(log') /\ \A k \in 1..Len(log) : log'[k] = log[k]
  BY <1>20, <1>21, <1>23
<1>27. /\ Sound(log') /\ driver' \in Drivers /\ driver'.turn = LastTurn(log')
       /\ Stands(driver', log') /\ Calling(driver', calls', log')
  BY <1>1, <1>2, <1>17, <1>21, <1>22, <1>24, <1>25
<1> QED BY <1>1, <1>18, <1>26, <1>27, Extends

-----------------------------------------------------------------------------
(* The storage, the crash and the repair.                                      *)

(* A write makes the whole log durable.                                      *)
LEMMA StoreKeeps ==
  ASSUME RecoveryInv, Store
  PROVE  RecoveryInv'
<1>1. /\ mode = "up" /\ mode' = mode /\ stored < Len(log) /\ stored' = Len(log) /\ log' = log
      /\ closers' = closers /\ driver' = driver /\ calls' = calls /\ ran' = ran /\ asked' = asked
      /\ crashes' = crashes
  BY DEF Store
<1>2. TypeOK /\ Sound(log) /\ RanRecorded /\ RequestsAreLogged /\ log \in Seq(Events)
  BY DEF RecoveryInv, TypeOK
<1>3. stored' \in 0..Len(log') /\ stored' \in Nat /\ stored <= stored'
  BY <1>1, <1>2 DEF TypeOK
<1>4. TypeOK'
  BY <1>1, <1>2, <1>3 DEF TypeOK
<1>5. RanRecorded' /\ RequestsAreLogged'
  BY <1>1, <1>2, <1>3, EffectsKept
<1>6. Sound(log)' /\ Stands(driver, log)' /\ Calling(driver, calls, log)'
  <2>1. Stands(driver, log) /\ Calling(driver, calls, log)
    BY <1>1 DEF RecoveryInv
  <2> QED BY <1>1, <1>2, <2>1
<1> QED BY <1>1, <1>4, <1>5, <1>6 DEF RecoveryInv

(* A crash leaves a prefix that holds at least what was durable.               *)
LEMMA CrashKeeps ==
  ASSUME RecoveryInv, Crash
  PROVE  RecoveryInv'
<1>1. /\ mode' = "down" /\ closers' = <<>> /\ crashes' = crashes + 1 /\ calls' = <<>>
      /\ driver' = [at |-> "idle", turn |-> 0, step |-> 0, aborted |-> FALSE]
      /\ ran' = ran /\ asked' = asked
  BY DEF Crash, Parked, NoCalls
<1>2. PICK k \in stored..Len(log) : log' = SubSeq(log, 1, k) /\ stored' = k
  BY DEF Crash
<1>3. TypeOK /\ Sound(log) /\ RanRecorded /\ RequestsAreLogged /\ log \in Seq(Events)
  BY DEF RecoveryInv, TypeOK
<1>4. stored \in Nat /\ Len(log) \in Nat /\ k \in 0..Len(log) /\ k \in Nat /\ stored <= k
  BY <1>2, <1>3 DEF TypeOK
<1>5. log' \in Seq(Events) /\ Len(log') = k /\ \A i \in 1..k : log'[i] = log[i]
  BY <1>2, <1>3, <1>4, PrefixOfPrefix
<1>6. TypeOK'
  <2>1. crashes' \in Nat /\ ran' \subseteq CallIds /\ asked' \subseteq Nat \X Nat
    BY <1>1, <1>3 DEF TypeOK
  <2>2. stored' \in 0..Len(log')
    BY <1>2, <1>4, <1>5
  <2>3. calls' \in Seq({"offered", "recorded", "running", "settled", "committed"}) /\ closers' \in Seq(Events)
    BY <1>1
  <2> QED BY <1>1, <1>5, <2>1, <2>2, <2>3 DEF TypeOK
<1>7. RanRecorded' /\ RequestsAreLogged'
  <2>1. stored' \in Nat /\ stored <= stored' /\ \A i \in 1..stored : log'[i] = log[i]
    BY <1>2, <1>4, <1>5
  <2> QED BY <1>1, <1>3, <1>5, <2>1, EffectsKept
<1>8. Sound(log)'
  BY <1>2, <1>3, <1>4, SoundPrefix
<1> QED BY <1>1, <1>6, <1>7, <1>8 DEF RecoveryInv

(* The repair has the closers of the log it read.                            *)
LEMMA RepairKeeps ==
  ASSUME RecoveryInv, Repair
  PROVE  RecoveryInv'
<1>1. /\ Scanned(log).turn # 0 /\ closers' = Closers(log) /\ mode' = "repairing"
      /\ log' = log /\ stored' = stored /\ driver' = driver /\ calls' = calls /\ ran' = ran
      /\ asked' = asked /\ crashes' = crashes
  BY DEF Repair, Interrupted, Closers
<1>2. TypeOK /\ Sound(log) /\ RanRecorded /\ RequestsAreLogged /\ log \in Seq(Events)
  BY DEF RecoveryInv, TypeOK
<1>3. Coherent(log)
  BY <1>2, SoundWhole
<1>4. Closers(log) \in Seq(Events) /\ Closers(log) # <<>>
  BY <1>1, <1>2, <1>3, ClosersTyped
<1>5. TypeOK'
  BY <1>1, <1>2, <1>4 DEF TypeOK
<1>6. RanRecorded' /\ RequestsAreLogged'
  BY <1>1, <1>2 DEF RanRecorded, RequestsAreLogged
<1>7. Sound(log)' /\ closers' = Closers(log)'
  BY <1>1, <1>2
<1> QED BY <1>1, <1>5, <1>6, <1>7 DEF RecoveryInv

(* Cut after any of them, the log needs the events the repair has still to     *)
(* write.                                                                      *)
LEMMA WriteCloserKeeps ==
  ASSUME RecoveryInv, WriteCloser
  PROVE  RecoveryInv'
<1> DEFINE e == Head(closers)
           v == Append(log, e)
<1>1. /\ mode = "repairing" /\ log' = v /\ stored' = stored + 1 /\ closers' = Tail(closers)
      /\ mode' = (IF Tail(closers) = <<>> THEN "down" ELSE "repairing")
      /\ driver' = driver /\ calls' = calls /\ ran' = ran /\ asked' = asked /\ crashes' = crashes
  BY DEF WriteCloser, Append1
<1>2. TypeOK /\ Sound(log) /\ RanRecorded /\ RequestsAreLogged /\ log \in Seq(Events)
  BY DEF RecoveryInv, TypeOK
<1>3. closers = Closers(log) /\ closers # <<>> /\ closers \in Seq(Events)
  BY <1>1 DEF RecoveryInv, TypeOK
<1>4. Coherent(log)
  BY <1>2, SoundWhole
<1>5. Trace(log).turn # 0
  BY <1>2, <1>3, <1>4, ClosersTyped
<1>6. Coherent(v) /\ Closers(v) = Tail(closers)
  <2>1. Closes(log)
    BY <1>2, <1>4, <1>5, ClosesOne
  <2> QED BY <1>3, <2>1 DEF Closes
<1>7. e \in Events /\ Tail(closers) \in Seq(Events)
  BY <1>3, HeadTailProperties
<1> HIDE DEF e
<1>8. /\ v \in Seq(Events) /\ Len(v) = Len(log) + 1 /\ Len(log) \in Nat
      /\ \A k \in 1..Len(log) : v[k] = log[k]
  BY <1>2, <1>7, Appended
<1>9. Sound(v)
  BY <1>2, <1>6, <1>7, SoundAppend
<1> HIDE DEF v
<1>10. stored \in Nat /\ stored <= Len(log) /\ stored' \in 0..Len(log')
  BY <1>1, <1>2, <1>8 DEF TypeOK
<1>11. TypeOK'
  <2>1. (mode' = "repairing" <=> closers' # <<>>) /\ mode' \in {"down", "repairing"}
    BY <1>1
  <2>2. log' \in Seq(Events) /\ closers' \in Seq(Events)
    BY <1>1, <1>7, <1>8
  <2> QED BY <1>1, <1>2, <1>10, <2>1, <2>2 DEF TypeOK
<1>12. RanRecorded' /\ RequestsAreLogged'
  <2>1. /\ log' \in Seq(Events) /\ stored' \in Nat /\ stored <= stored'
        /\ \A k \in 1..stored : log'[k] = log[k]
    BY <1>1, <1>8, <1>10
  <2> QED BY <1>1, <1>2, <2>1, EffectsKept
<1>13. Sound(log)' /\ closers' = Closers(log)'
  BY <1>1, <1>6, <1>9
<1>14. mode' # "up"
  BY <1>1
<1> QED BY <1>11, <1>12, <1>13, <1>14 DEF RecoveryInv

(* The driver of a balanced log is parked at its last turn.                  *)
LEMMA ResumeKeeps ==
  ASSUME RecoveryInv, Resume
  PROVE  RecoveryInv'
<1>1. /\ mode = "down" /\ Scanned(log).turn = 0 /\ mode' = "up"
      /\ driver' = [at |-> "idle", turn |-> LastTurn(log), step |-> 0, aborted |-> FALSE]
      /\ log' = log /\ stored' = stored /\ closers' = closers /\ calls' = calls /\ ran' = ran
      /\ asked' = asked /\ crashes' = crashes
  BY DEF Resume, Interrupted, Parked
<1>2. TypeOK /\ Sound(log) /\ RanRecorded /\ RequestsAreLogged /\ log \in Seq(Events)
  BY DEF RecoveryInv, TypeOK
<1>3. Coherent(log)
  BY <1>2, SoundWhole
<1>4. Trace(log).turn = 0 /\ Trace(log).step = 0 /\ LastTurn(log) \in Nat
  <2>1. /\ Trace(log) \in Traces /\ TraceOk(Trace(log)) /\ Agree(Scanned(log), Trace(log))
        /\ LastOk(Trace(log), log)
    BY <1>3 DEF Coherent
  <2>2. Trace(log).turn = 0 /\ Trace(log).step = 0
    BY <1>1, <2>1 DEF Agree, TraceOk
  <2> QED BY <2>1, <2>2 DEF LastOk, TraceOk, Traces
<1>5. driver' \in Drivers /\ driver'.at = "idle" /\ driver'.turn = LastTurn(log)
  BY <1>1, <1>4 DEF Drivers
<1>6. TypeOK'
  <2>1. driver'.turn = LastTurn(log')
    BY <1>1, <1>5
  <2> QED BY <1>1, <1>2, <1>5, <2>1 DEF TypeOK, Drivers
<1>7. Stands(driver', log) /\ Calling(driver', calls', log)
  BY <1>4, <1>5 DEF Stands, Calling, InAStep
<1>8. Sound(log)' /\ Stands(driver, log)' /\ Calling(driver, calls, log)'
  BY <1>1, <1>2, <1>7
<1>9. RanRecorded' /\ RequestsAreLogged'
  BY <1>1, <1>2 DEF RanRecorded, RequestsAreLogged
<1> QED BY <1>1, <1>6, <1>8, <1>9 DEF RecoveryInv

-----------------------------------------------------------------------------
(* The theorems.                                                               *)

(* The empty session.                                                        *)
LEMMA InitEstablishes == Init => RecoveryInv
<1> SUFFICES ASSUME Init PROVE RecoveryInv
  OBVIOUS
<1>1. /\ log = <<>> /\ stored = 0 /\ mode = "up" /\ closers = <<>> /\ calls = <<>> /\ ran = {}
      /\ asked = {} /\ crashes = 0
      /\ driver = [at |-> "idle", turn |-> 0, step |-> 0, aborted |-> FALSE]
  BY DEF Init, NoCalls, Parked
<1>2. LastTurn(<<>>) = 0
  BY DEF LastTurn
<1>3. Scanned(<<>>) = [turn |-> 0, step |-> 0, pending |-> <<>>]
  BY ScannedEmpty DEF ScanStart
<1>4. Trace(<<>>) = [ok |-> TRUE, turn |-> 0, step |-> 0, nextTurn |-> 1, nextStep |-> 1, pending |-> {}]
  BY TraceEmpty DEF FreshTrace
<1>5. Coherent(<<>>)
  <2> DEFINE a == Scanned(<<>>)
             t == Trace(<<>>)
  <2>1. a = [turn |-> 0, step |-> 0, pending |-> <<>>]
    BY <1>3
  <2>2. t = [ok |-> TRUE, turn |-> 0, step |-> 0, nextTurn |-> 1, nextStep |-> 1, pending |-> {}]
    BY <1>4
  <2> HIDE DEF a, t
  <2>3. a.turn = 0 /\ a.step = 0 /\ a.pending = <<>>
    BY <2>1
  <2>4. <<>> \in Seq(PendingCalls)
    OBVIOUS
  <2>5. a \in Scans
    BY <2>1, <2>4 DEF Scans
  <2>6. t.ok /\ t.turn = 0 /\ t.step = 0 /\ t.nextTurn = 1 /\ t.nextStep = 1 /\ t.pending = {}
    BY <2>2
  <2>7. t \in Traces
    BY <2>2 DEF Traces
  <2>8. TraceOk(t) /\ Agree(a, t) /\ PendingOk(a, t, <<>>) /\ PastOk(t, <<>>) /\ Answering(a, t, <<>>)
    BY <2>3, <2>6 DEF TraceOk, Agree, PendingOk, PastOk, Answering
  <2>9. LastOk(t, <<>>)
    BY <1>2, <2>6 DEF LastOk
  <2> QED BY <2>5, <2>7, <2>8, <2>9 DEF Coherent, a, t
<1>6. Sound(<<>>)
  <2>1. <<>> \in Seq(Events) /\ Len(<<>>) = 0
    OBVIOUS
  <2>2. SubSeq(<<>>, 1, 0) = <<>>
    BY <2>1, SubSeqFull
  <2>3. 0..Len(<<>>) = {0}
    BY <2>1
  <2> QED BY <1>5, <2>2, <2>3 DEF Sound
<1>7. TypeOK
  BY <1>1, <1>2 DEF TypeOK
<1>8. Stands(driver, log) /\ Calling(driver, calls, log)
  BY <1>1, <1>4 DEF Stands, Calling, InAStep
<1>9. RanRecorded /\ RequestsAreLogged
  BY <1>1 DEF RanRecorded, RequestsAreLogged
<1> QED BY <1>1, <1>6, <1>7, <1>8, <1>9 DEF RecoveryInv

(* Every step keeps the invariant.                                           *)
LEMMA StepKeeps == RecoveryInv /\ [Next]_vars => RecoveryInv'
<1> SUFFICES ASSUME RecoveryInv, [Next]_vars PROVE RecoveryInv'
  OBVIOUS
<1>1. CASE TurnStart
  BY <1>1, TurnStartKeeps
<1>2. CASE StepStart
  BY <1>2, StepStartKeeps
<1>3. CASE TurnEnd
  BY <1>3, TurnEndKeeps
<1>4. CASE RequestSent
  BY <1>4, RequestSentKeeps
<1>5. CASE AnswerLogged
  BY <1>5, AnswerLoggedKeeps
<1>6. CASE StepFails
  BY <1>6, StepFailsKeeps
<1>7. CASE StepEnd
  BY <1>7, StepEndKeeps
<1>8. CASE Cancel
  BY <1>8, CancelKeeps
<1>9. CASE CallsDone
  BY <1>9, CallsDoneKeeps
<1>10. ASSUME NEW i \in 1..MaxCalls, CallStart(i) PROVE RecoveryInv'
  BY <1>10, CallStartKeeps
<1>11. ASSUME NEW i \in 1..MaxCalls, CallRuns(i) PROVE RecoveryInv'
  BY <1>11, CallRunsKeeps
<1>12. ASSUME NEW i \in 1..MaxCalls, CallSettles(i) PROVE RecoveryInv'
  BY <1>12, CallSettlesKeeps
<1>13. ASSUME NEW i \in 1..MaxCalls, CallCommits(i) PROVE RecoveryInv'
  BY <1>13, CallCommitsKeeps
<1>14. ASSUME NEW i \in 1..MaxCalls, CallSkipped(i) PROVE RecoveryInv'
  BY <1>14, CallSkippedKeeps
<1>15. CASE Store
  BY <1>15, StoreKeeps
<1>16. CASE Crash
  BY <1>16, CrashKeeps
<1>17. CASE Repair
  BY <1>17, RepairKeeps
<1>18. CASE WriteCloser
  BY <1>18, WriteCloserKeeps
<1>19. CASE Resume
  BY <1>19, ResumeKeeps
<1>20. CASE UNCHANGED vars
  <2>1. /\ log' = log /\ stored' = stored /\ mode' = mode /\ closers' = closers /\ driver' = driver
        /\ calls' = calls /\ ran' = ran /\ asked' = asked /\ crashes' = crashes
    BY <1>20 DEF vars
  <2>2. TypeOK' /\ RanRecorded' /\ RequestsAreLogged'
    BY <2>1 DEF RecoveryInv, TypeOK, RanRecorded, RequestsAreLogged
  <2>3. /\ Sound(log)' /\ (mode = "up" => Stands(driver, log) /\ Calling(driver, calls, log))'
        /\ (mode = "repairing" => closers = Closers(log))'
    BY <2>1 DEF RecoveryInv
  <2> QED BY <2>2, <2>3 DEF RecoveryInv
<1> QED BY <1>1, <1>2, <1>3, <1>4, <1>5, <1>6, <1>7, <1>8, <1>9, <1>10, <1>11, <1>12, <1>13, <1>14,
           <1>15, <1>16, <1>17, <1>18, <1>19, <1>20 DEF Next, Recover

(* The inductive invariant holds throughout.                                   *)
THEOREM RecoveryInvHolds == Spec => []RecoveryInv
<1>1. Init => RecoveryInv
  BY InitEstablishes
<1>2. RecoveryInv /\ [Next]_vars => RecoveryInv'
  BY StepKeeps
<1> QED BY <1>1, <1>2, PTL DEF Spec

(* The state is well typed, and the driver counts on from the turns of the     *)
(* log, also across crashes and resumes.                                       *)
THEOREM Types == Spec => []TypeOK
<1>1. RecoveryInv => TypeOK
  BY DEF RecoveryInv
<1> QED BY <1>1, RecoveryInvHolds, PTL

(* A request that reached an adapter belongs to a step every later log of the  *)
(* session knows about: the checkpoint before the request is enough.           *)
THEOREM RequestsLogged == Spec => []RequestsAreLogged
<1>1. RecoveryInv => RequestsAreLogged
  BY DEF RecoveryInv
<1> QED BY <1>1, RecoveryInvHolds, PTL

(* What the repair makes of the log a crash leaves.                            *)
LEMMA DownHas ==
  ASSUME RecoveryInv
  PROVE  /\ log \in Seq(Events) /\ Coherent(log)
         /\ Repaired \in Seq(Events) /\ Coherent(Repaired) /\ Trace(Repaired).turn = 0
         /\ Called(Repaired) = Called(log)
         /\ \A turn, step \in Nat : step # 0 /\ OnCourse(log, turn, step) => InOrder(Repaired, turn, step)
<1>1. log \in Seq(Events) /\ Sound(log)
  BY DEF RecoveryInv, TypeOK
<1>2. Coherent(log)
  BY <1>1, SoundWhole
<1>3. Repairs(log)
  BY <1>1, <1>2, RepairIsWhole
<1>4. Repaired = log \o Closers(log)
  BY DEF Repaired, Closers
<1> QED BY <1>1, <1>2, <1>3, <1>4 DEF Repairs

(* Whatever a crash leaves, at any event and in the middle of a repair, the    *)
(* repair makes it a log that obeys the rules of the session, has no open turn *)
(* and needs no further repair.                                                *)
THEOREM Repairable == Spec => []RepairIsValid
<1>1. RecoveryInv => RepairIsValid
  <2> SUFFICES ASSUME RecoveryInv PROVE RepairIsValid
    OBVIOUS
  <2>1. Coherent(Repaired) /\ Trace(Repaired).turn = 0
    BY DownHas
  <2>2. TraceOk(Trace(Repaired)) /\ Agree(Scanned(Repaired), Trace(Repaired))
    BY <2>1 DEF Coherent
  <2> QED BY <2>1, <2>2 DEF RepairIsValid, TraceOk, Agree, Interrupted
<1> QED BY <1>1, RecoveryInvHolds, PTL

(* The step a crash interrupts ends with one result for every call it offered, *)
(* in the model's order, however far its calls had come.                       *)
THEOREM StepIsAnswered == Spec => []AnsweredInOrder
<1>1. RecoveryInv => AnsweredInOrder
  <2> SUFFICES ASSUME RecoveryInv, Scanned(log).step # 0
               PROVE  InOrder(Repaired, Scanned(log).turn, Scanned(log).step)
    BY DEF AnsweredInOrder
  <2>1. /\ Coherent(log)
        /\ \A turn, step \in Nat : step # 0 /\ OnCourse(log, turn, step) => InOrder(Repaired, turn, step)
    BY DownHas
  <2>2. Scanned(log) \in Scans /\ Agree(Scanned(log), Trace(log))
    BY <2>1 DEF Coherent
  <2>3. Scanned(log).turn \in Nat /\ Scanned(log).step \in Nat
    BY <2>2 DEF Scans
  <2>4. OnCourse(log, Scanned(log).turn, Scanned(log).step)
    BY <2>2 DEF OnCourse, Agree
  <2> QED BY <2>1, <2>3, <2>4
<1> QED BY <1>1, RecoveryInvHolds, PTL

(* A call whose body was entered, in any process, is in the durable log, so no *)
(* repair says that it was not started.                                        *)
THEOREM NoRetryOfWhatRan == Spec => []NeverRetryWhatRan
<1>1. RecoveryInv => NeverRetryWhatRan
  <2> SUFFICES ASSUME RecoveryInv, NEW e \in Lists!Range(Repaired), e.code = "TOOL_NOT_STARTED", e.call \in ran
               PROVE  FALSE
    BY DEF NeverRetryWhatRan
  <2>1. /\ log \in Seq(Events) /\ Repaired \in Seq(Events) /\ Coherent(Repaired)
        /\ Called(Repaired) = Called(log)
    BY DownHas
  <2>2. PICK k \in DOMAIN Repaired : Repaired[k] = e
    BY DEF Lists!Range
  <2>3. e.call \notin Called(log)
    BY <2>1, <2>2 DEF Coherent, PastOk, NotRun
  <2>4. PICK j \in 1..stored : log[j].type = "tool/call" /\ log[j].call = e.call
    BY DEF RecoveryInv, RanRecorded
  <2>5. j \in DOMAIN log
    BY <2>1, <2>4 DEF RecoveryInv, TypeOK
  <2>6. e.call \in Called(log)
    BY <2>4, <2>5 DEF Called
  <2> QED BY <2>3, <2>6
<1> QED BY <1>1, RecoveryInvHolds, PTL

=============================================================================
