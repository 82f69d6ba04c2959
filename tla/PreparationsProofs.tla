------------------------- MODULE PreparationsProofs -------------------------
(* Theorems about Preparations, for every set of identities and callers and    *)
(* every capacity of the pool.                                                 *)
EXTENDS Preparations, FiniteSetTheorems, SequenceTheorems, NaturalsInduction, TLAPS

-----------------------------------------------------------------------------
(* The pool's Map: its keys are the entries, each of them once.                *)

Pools == [entry : [Ids -> Entries], order : Seq(Ids), call : [Callers -> Calls]]

Keyed(p) ==
  /\ \A id \in Ids : p.entry[id] # NoEntry <=> \E i \in DOMAIN p.order : p.order[i] = id
  /\ \A i, j \in DOMAIN p.order : p.order[i] = p.order[j] => i = j

(* What happens to a caller whose entry's reservation settles, and to one      *)
(* whose entry goes.                                                           *)
Woken(r) == [r EXCEPT !.pc = IF @ = "settle" THEN "woken" ELSE @]
Freed(r) == [r EXCEPT !.pc = IF @ = "settle" THEN "woken" ELSE @, !.on = FALSE]

(* A sequence without its i-th element.                                        *)
LEMMA RemovedAt ==
  ASSUME NEW S, NEW s \in Seq(S), NEW k \in 1..Len(s)
  PROVE  /\ Lists!RemoveAt(s, k) \in Seq(S)
         /\ Len(Lists!RemoveAt(s, k)) = Len(s) - 1
         /\ \A j \in 1..(Len(s) - 1) : Lists!RemoveAt(s, k)[j] = s[IF j < k THEN j ELSE j + 1]
<1> DEFINE a == SubSeq(s, 1, k - 1)
           b == SubSeq(s, k + 1, Len(s))
<1>1. Len(s) \in Nat /\ DOMAIN s = 1..Len(s)
  OBVIOUS
<1>2. \A j \in 1..(k - 1) : s[j] \in S
  BY <1>1
<1>3. /\ a \in Seq(S) /\ Len(a) = k - 1 /\ \A j \in 1..Len(a) : a[j] = s[j]
  BY <1>1, <1>2, SubSeqProperties
<1>4. \A j \in (k + 1)..Len(s) : s[j] \in S
  BY <1>1
<1>5. /\ b \in Seq(S) /\ Len(b) = Len(s) - k /\ \A j \in 1..Len(b) : b[j] = s[k + j]
  <2>1. /\ b \in Seq(S) /\ Len(b) = IF k + 1 <= Len(s) THEN Len(s) - (k + 1) + 1 ELSE 0
        /\ \A j \in 1..(Len(s) - (k + 1) + 1) : b[j] = s[(k + 1) + j - 1]
    BY <1>1, <1>4, SubSeqProperties
  <2> HIDE DEF b
  <2>2. Len(b) = Len(s) - k
    <3>1. Len(s) \in Nat /\ k \in 1..Len(s) /\ Len(b) = IF k + 1 <= Len(s) THEN Len(s) - (k + 1) + 1 ELSE 0
      BY <1>1, <2>1
    <3> QED BY <3>1
  <2>3. ASSUME NEW j \in 1..Len(b) PROVE b[j] = s[k + j]
    <3>1. j \in 1..(Len(s) - (k + 1) + 1) /\ (k + 1) + j - 1 = k + j
      BY <1>1, <2>2
    <3> QED BY <2>1, <3>1
  <2> QED BY <2>1, <2>2, <2>3
<1> HIDE DEF a, b
<1>6. /\ a \o b \in Seq(S) /\ Len(a \o b) = Len(a) + Len(b)
      /\ \A j \in 1..Len(a) + Len(b) : (a \o b)[j] = IF j <= Len(a) THEN a[j] ELSE b[j - Len(a)]
  BY <1>3, <1>5, ConcatProperties
<1>7. Len(a \o b) = Len(s) - 1
  BY <1>1, <1>3, <1>5, <1>6
<1>8. ASSUME NEW j \in 1..(Len(s) - 1) PROVE (a \o b)[j] = s[IF j < k THEN j ELSE j + 1]
  <2>1. j \in 1..Len(a) + Len(b)
    BY <1>1, <1>3, <1>5
  <2>2. CASE j < k
    BY <1>3, <1>6, <2>1, <2>2
  <2>3. CASE ~(j < k)
    <3>1. j - Len(a) \in 1..Len(b) /\ k + (j - Len(a)) = j + 1 /\ ~(j <= Len(a))
      BY <1>1, <1>3, <1>5, <2>1, <2>3
    <3> QED BY <1>5, <1>6, <2>1, <2>3, <3>1
  <2> QED BY <2>2, <2>3
<1> QED BY <1>6, <1>7, <1>8 DEF a, b, Lists!RemoveAt

(* DeleteKey removes one key and keeps the others, in their order.             *)
LEMMA KeyDeleted ==
  ASSUME NEW s \in Seq(Ids), NEW id \in Ids, \E i \in DOMAIN s : s[i] = id,
         \A i, j \in DOMAIN s : s[i] = s[j] => i = j
  PROVE  /\ DeleteKey(s, id) \in Seq(Ids)
         /\ \A i, j \in DOMAIN DeleteKey(s, id) : DeleteKey(s, id)[i] = DeleteKey(s, id)[j] => i = j
         /\ \A x \in Ids : (\E i \in DOMAIN DeleteKey(s, id) : DeleteKey(s, id)[i] = x)
                             <=> x # id /\ \E i \in DOMAIN s : s[i] = x
<1> DEFINE k == CHOOSE i \in DOMAIN s : s[i] = id
           t == Lists!RemoveAt(s, k)
<1>1. k \in 1..Len(s) /\ s[k] = id /\ Len(s) \in Nat /\ DOMAIN s = 1..Len(s)
  OBVIOUS
<1> HIDE DEF k
<1>5. t \in Seq(Ids) /\ Len(t) = Len(s) - 1
  BY <1>1, RemovedAt
<1>6. \A j \in 1..Len(t) : t[j] = s[IF j < k THEN j ELSE j + 1]
  BY <1>1, <1>5, RemovedAt
<1> HIDE DEF t
<1>7. ASSUME NEW i \in 1..Len(t), NEW j \in 1..Len(t), t[i] = t[j] PROVE i = j
  <2> DEFINE f(m) == IF m < k THEN m ELSE m + 1
  <2>1. f(i) \in 1..Len(s) /\ f(j) \in 1..Len(s) /\ t[i] = s[f(i)] /\ t[j] = s[f(j)]
    <3>1. i \in 1..(Len(s) - 1) /\ j \in 1..(Len(s) - 1)
      BY <1>1, <1>5
    <3>2. f(i) \in 1..Len(s) /\ f(j) \in 1..Len(s)
      BY <1>1, <3>1
    <3> QED BY <1>6, <3>2
  <2>2. f(i) = f(j)
    BY <1>1, <1>7, <2>1
  <2> QED BY <1>1, <2>2
<1>8. ASSUME NEW x \in Ids
      PROVE  (\E i \in 1..Len(t) : t[i] = x) <=> x # id /\ \E i \in 1..Len(s) : s[i] = x
  <2>1. ASSUME NEW i \in 1..Len(t), t[i] = x PROVE x # id /\ \E j \in 1..Len(s) : s[j] = x
    <3>1. t[i] = s[IF i < k THEN i ELSE i + 1]
      BY <1>6, <2>1
    <3>2. PICK j \in 1..Len(s) : j # k /\ t[i] = s[j]
      <4>1. CASE i < k
        BY <1>1, <2>1, <3>1, <4>1
      <4>2. CASE ~(i < k)
        <5>1. i + 1 \in 1..Len(s) /\ i + 1 # k
          BY <1>1, <1>5, <2>1, <4>2
        <5> QED BY <3>1, <4>2, <5>1
      <4> QED BY <4>1, <4>2
    <3>3. s[j] # id
      BY <1>1, <3>2
    <3> QED BY <2>1, <3>2, <3>3
  <2>2. ASSUME x # id, NEW i \in 1..Len(s), s[i] = x PROVE \E j \in 1..Len(t) : t[j] = x
    <3>1. CASE i < k
      BY <1>1, <1>5, <1>6, <2>2, <3>1
    <3>2. CASE i > k
      <4>1. i - 1 \in 1..Len(t) /\ ~(i - 1 < k) /\ (i - 1) + 1 = i
        BY <1>1, <1>5, <1>6, <3>2
      <4> QED BY <1>6, <2>2, <4>1
    <3> QED BY <1>1, <2>2, <3>1, <3>2
  <2> QED BY <2>1, <2>2
<1>9. DeleteKey(s, id) = t
  BY DEF DeleteKey, t, k
<1>10. DOMAIN t = 1..Len(t)
  BY <1>5
<1>11. \A i, j \in DOMAIN t : t[i] = t[j] => i = j
  BY <1>7, <1>10
<1>12. \A x \in Ids : (\E i \in DOMAIN t : t[i] = x) <=> x # id /\ \E i \in DOMAIN s : s[i] = x
  BY <1>1, <1>8, <1>10
<1> QED BY <1>5, <1>9, <1>11, <1>12

(* Re-insertion at the end keeps the keys.                                     *)
LEMMA KeyAppended ==
  ASSUME NEW s \in Seq(Ids), NEW id \in Ids, ~\E i \in DOMAIN s : s[i] = id,
         \A i, j \in DOMAIN s : s[i] = s[j] => i = j
  PROVE  /\ Append(s, id) \in Seq(Ids)
         /\ \A i, j \in DOMAIN Append(s, id) : Append(s, id)[i] = Append(s, id)[j] => i = j
         /\ \A x \in Ids : (\E i \in DOMAIN Append(s, id) : Append(s, id)[i] = x)
                             <=> x = id \/ \E i \in DOMAIN s : s[i] = x
<1> DEFINE t == Append(s, id)
<1>1. /\ t \in Seq(Ids) /\ Len(t) = Len(s) + 1 /\ t[Len(s) + 1] = id
      /\ \A i \in 1..Len(s) : t[i] = s[i]
  BY AppendProperties
<1>2. DOMAIN t = 1..Len(t) /\ DOMAIN s = 1..Len(s) /\ Len(s) \in Nat
  BY <1>1
<1> HIDE DEF t
<1>3. \A i, j \in 1..Len(t) : t[i] = t[j] => i = j
  BY <1>1, <1>2
<1>4. ASSUME NEW x \in Ids
      PROVE  (\E i \in 1..Len(t) : t[i] = x) <=> x = id \/ \E i \in 1..Len(s) : s[i] = x
  <2>1. ASSUME NEW i \in 1..Len(t), t[i] = x PROVE x = id \/ \E j \in 1..Len(s) : s[j] = x
    BY <1>1, <1>2, <2>1
  <2>2. ASSUME NEW i \in 1..Len(s), s[i] = x PROVE \E j \in 1..Len(t) : t[j] = x
    BY <1>1, <1>2, <2>2
  <2>3. x = id => \E j \in 1..Len(t) : t[j] = x
    BY <1>1, <1>2
  <2> QED BY <2>1, <2>2, <2>3
<1> QED BY <1>1, <1>2, <1>3, <1>4 DEF t

-----------------------------------------------------------------------------
(* What the pool's methods do.                                                 *)

(* What no entry is.                                                           *)
LEMMA NoEntryIs == NoEntry \in Entries /\ NoEntry.phase = "none" /\ NoEntry = [phase |-> "none", src |-> NoSource]
  BY DEF NoEntry, Entries

(* An entry is there exactly when it has a phase.                              *)
LEMMA PhaseTells ==
  ASSUME NEW e \in Entries
  PROVE  (e = NoEntry) = (e.phase = "none") /\ e = [phase |-> e.phase, src |-> e.src]
  BY DEF NoEntry, Entries

(* Being woken or losing the entry keeps a call a call.                        *)
LEMMA CallParts ==
  ASSUME NEW r \in Calls
  PROVE  /\ Woken(r) \in Calls /\ Freed(r) \in Calls /\ [r EXCEPT !.on = FALSE] \in Calls
         /\ r.pc # "settle" => Woken(r) = r /\ Freed(r) = [r EXCEPT !.on = FALSE]
         /\ ~r.on => [r EXCEPT !.on = FALSE] = r
         /\ Freed(r) = [Woken(r) EXCEPT !.on = FALSE]
         /\ Woken(r).id = r.id /\ Freed(r).id = r.id
  BY DEF Woken, Freed, Calls, Pending, Settled

(* What a woken or freed call keeps.                                           *)
LEMMA CallFields ==
  ASSUME NEW r \in Calls, NEW q \in {Woken(r), Freed(r)}
  PROVE  /\ q.id = r.id /\ q.kind = r.kind /\ q.src = r.src /\ q.got = r.got
         /\ q.aborted = r.aborted /\ q.touched = r.touched
         /\ q.pc = IF r.pc = "settle" THEN "woken" ELSE r.pc
         /\ q.on = (q = Woken(r) /\ r.on)
  BY DEF Woken, Freed, Calls, Pending, Settled

(* A call that has lost its entry.                                             *)
LEMMA FreedIs ==
  ASSUME NEW r \in Calls
  PROVE  /\ Freed(r) \in Calls /\ Freed(r).id = r.id /\ ~Freed(r).on /\ Freed(r).aborted = r.aborted
         /\ Freed(r).pc = IF r.pc = "settle" THEN "woken" ELSE r.pc
  BY DEF Freed, Calls, Pending, Settled

(* A call whose wait for a reservation is over.                                *)
LEMMA WokenIs ==
  ASSUME NEW r \in Calls
  PROVE  /\ Woken(r) \in Calls /\ Woken(r).id = r.id /\ Woken(r).on = r.on /\ Woken(r).got = r.got
         /\ Woken(r).aborted = r.aborted
         /\ Woken(r).pc = IF r.pc = "settle" THEN "woken" ELSE r.pc
  BY DEF Woken, Calls, Pending, Settled

(* A call whose read has ended.                                                *)
LoadedFrom(r, src) == [r EXCEPT !.pc = "loaded", !.src = src]

(* The fields of such a call.                                                  *)
LEMMA LoadedIs ==
  ASSUME NEW r \in Calls, NEW src \in Log, NEW n, n = LoadedFrom(r, src)
  PROVE  /\ n \in Calls /\ n.pc = "loaded" /\ n.id = r.id /\ n.on = r.on /\ n.got = r.got
         /\ n.aborted = r.aborted
  BY DEF Calls, Pending, LoadedFrom

(* Removing an entry leaves a pool, and the other entries.                     *)
LEMMA UnlinkIs ==
  ASSUME NEW p \in Pools, Keyed(p), NEW id \in Ids, p.entry[id] # NoEntry
  PROVE  /\ Unlink(p, id) \in Pools
         /\ Keyed(Unlink(p, id))
         /\ Unlink(p, id).entry = [p.entry EXCEPT ![id] = NoEntry]
         /\ \A c \in Callers : Unlink(p, id).call[c] =
              IF p.call[c].id = id THEN [p.call[c] EXCEPT !.on = FALSE] ELSE p.call[c]
<1> DEFINE q == Unlink(p, id)
           k == [c \in Callers |-> IF p.call[c].id = id THEN [p.call[c] EXCEPT !.on = FALSE] ELSE p.call[c]]
<1>1. /\ p.entry \in [Ids -> Entries] /\ p.order \in Seq(Ids) /\ p.call \in [Callers -> Calls]
      /\ p = [entry |-> p.entry, order |-> p.order, call |-> p.call]
  BY DEF Pools
<1>2. \E i \in DOMAIN p.order : p.order[i] = id
  BY DEF Keyed
<1>3. /\ DeleteKey(p.order, id) \in Seq(Ids)
      /\ \A i, j \in DOMAIN DeleteKey(p.order, id) :
           DeleteKey(p.order, id)[i] = DeleteKey(p.order, id)[j] => i = j
      /\ \A x \in Ids : (\E i \in DOMAIN DeleteKey(p.order, id) : DeleteKey(p.order, id)[i] = x)
                          <=> x # id /\ \E i \in DOMAIN p.order : p.order[i] = x
  BY <1>1, <1>2, KeyDeleted DEF Keyed
<1>4. q.entry = [p.entry EXCEPT ![id] = NoEntry] /\ q.order = DeleteKey(p.order, id) /\ q.call = k
      /\ q = [entry |-> q.entry, order |-> q.order, call |-> q.call]
  BY DEF Unlink
<1>5. k \in [Callers -> Calls]
  <2>1. ASSUME NEW c \in Callers PROVE k[c] \in Calls
    <3>1. p.call[c] \in Calls
      BY <1>1
    <3> QED BY <3>1, CallParts
  <2> QED BY <2>1
<1>6. [p.entry EXCEPT ![id] = NoEntry] \in [Ids -> Entries]
  BY <1>1, NoEntryIs
<1> HIDE DEF q
<1>7. q \in Pools
  BY <1>3, <1>4, <1>5, <1>6 DEF Pools
<1>8. Keyed(q)
  <2>1. \A x \in Ids : q.entry[x] # NoEntry <=> x # id /\ p.entry[x] # NoEntry
    BY <1>1, <1>4
  <2>2. \A x \in Ids : q.entry[x] # NoEntry <=> \E i \in DOMAIN q.order : q.order[i] = x
    BY <1>3, <1>4, <2>1 DEF Keyed
  <2> QED BY <1>3, <1>4, <2>2 DEF Keyed
<1> QED BY <1>4, <1>7, <1>8 DEF q

(* Settling a reservation only wakes its waiters.                              *)
LEMMA SettleIs ==
  ASSUME NEW p \in Pools, Keyed(p), NEW id \in Ids
  PROVE  /\ Settle(p, id) \in Pools
         /\ Keyed(Settle(p, id))
         /\ Settle(p, id).entry = p.entry
         /\ Settle(p, id).order = p.order
         /\ \A c \in Callers : Settle(p, id).call[c] =
              IF p.call[c].id = id THEN Woken(p.call[c]) ELSE p.call[c]
<1> DEFINE k == [c \in Callers |->
     IF p.call[c].pc = "settle" /\ p.call[c].id = id
       THEN [p.call[c] EXCEPT !.pc = "woken"] ELSE p.call[c]]
<1>1. /\ p.entry \in [Ids -> Entries] /\ p.order \in Seq(Ids) /\ p.call \in [Callers -> Calls]
      /\ p = [entry |-> p.entry, order |-> p.order, call |-> p.call]
  BY DEF Pools
<1>2. Settle(p, id) = [entry |-> p.entry, order |-> p.order, call |-> k]
  BY DEF Settle, Pools
<1>3. ASSUME NEW c \in Callers
      PROVE  k[c] = (IF p.call[c].id = id THEN Woken(p.call[c]) ELSE p.call[c]) /\ k[c] \in Calls
  <2>1. p.call[c] \in Calls
    BY <1>1
  <2>2. k[c] = IF p.call[c].id = id THEN Woken(p.call[c]) ELSE p.call[c]
    BY <2>1 DEF Woken, Calls
  <2>3. Woken(p.call[c]) \in Calls
    BY <2>1, CallParts
  <2> HIDE DEF k
  <2> QED BY <2>1, <2>2, <2>3
<1>4. k \in [Callers -> Calls]
  BY <1>3
<1> HIDE DEF k
<1> QED BY <1>1, <1>2, <1>3, <1>4 DEF Pools, Keyed

(* An entry that goes wakes and leaves its callers.                            *)
LEMMA DropIs ==
  ASSUME NEW p \in Pools, Keyed(p), NEW id \in Ids,
         p.entry[id] = NoEntry =>
           \A c \in Callers : p.call[c].id = id => ~p.call[c].on /\ p.call[c].pc # "settle"
  PROVE  /\ Drop(p, id) \in Pools
         /\ Keyed(Drop(p, id))
         /\ Drop(p, id).entry = [p.entry EXCEPT ![id] = NoEntry]
         /\ \A c \in Callers : Drop(p, id).call[c] =
              IF p.call[c].id = id THEN Freed(p.call[c]) ELSE p.call[c]
<1>1. p.entry \in [Ids -> Entries] /\ p.call \in [Callers -> Calls]
  BY DEF Pools
<1>2. CASE p.entry[id] = NoEntry
  <2>1. Drop(p, id) = p /\ p.entry = [p.entry EXCEPT ![id] = NoEntry]
    BY <1>1, <1>2 DEF Drop
  <2>2. ASSUME NEW c \in Callers, p.call[c].id = id PROVE Freed(p.call[c]) = p.call[c]
    <3>1. p.call[c] \in Calls /\ ~p.call[c].on /\ p.call[c].pc # "settle"
      BY <1>1, <1>2, <2>2
    <3>2. Freed(p.call[c]) = [p.call[c] EXCEPT !.on = FALSE] /\ [p.call[c] EXCEPT !.on = FALSE] = p.call[c]
      BY <3>1, CallParts
    <3> QED BY <3>2
  <2> QED BY <2>1, <2>2
<1>3. CASE p.entry[id] # NoEntry
  <2> DEFINE s == Settle(p, id)
  <2>1. /\ s \in Pools /\ Keyed(s) /\ s.entry = p.entry
        /\ \A c \in Callers : s.call[c] = IF p.call[c].id = id THEN Woken(p.call[c]) ELSE p.call[c]
    BY SettleIs
  <2>2. Drop(p, id) = Unlink(s, id)
    BY <1>3 DEF Drop
  <2> HIDE DEF s
  <2>3. /\ Unlink(s, id) \in Pools /\ Keyed(Unlink(s, id))
        /\ Unlink(s, id).entry = [s.entry EXCEPT ![id] = NoEntry]
        /\ \A c \in Callers : Unlink(s, id).call[c] =
             IF s.call[c].id = id THEN [s.call[c] EXCEPT !.on = FALSE] ELSE s.call[c]
    BY <1>3, <2>1, UnlinkIs
  <2>4. ASSUME NEW c \in Callers
        PROVE  Unlink(s, id).call[c] = IF p.call[c].id = id THEN Freed(p.call[c]) ELSE p.call[c]
    <3>1. p.call[c] \in Calls
      BY <1>1
    <3>2. Woken(p.call[c]).id = p.call[c].id /\ Freed(p.call[c]) = [Woken(p.call[c]) EXCEPT !.on = FALSE]
      BY <3>1, CallParts
    <3> QED BY <2>1, <2>3, <3>2
  <2> QED BY <2>1, <2>2, <2>3, <2>4
<1> QED BY <1>2, <1>3

(* A finite Map has finitely many ready entries.                               *)
LEMMA ReadyIsFinite ==
  ASSUME NEW p \in Pools, Keyed(p)
  PROVE  IsFiniteSet(Ready(p))
<1> DEFINE n == Len(p.order)
           K == {p.order[i] : i \in 1..n}
           f == [i \in 1..n |-> p.order[i]]
<1>1. p.order \in Seq(Ids) /\ n \in Nat /\ DOMAIN p.order = 1..n /\ p.entry \in [Ids -> Entries]
  BY DEF Pools
<1> HIDE DEF n
<1>2. f \in Surjection(1..n, K)
  BY DEF Surjection
<1>3. IsFiniteSet(1..n)
  BY <1>1, FS_Interval
<1> HIDE DEF f, K
<1>4. IsFiniteSet(K)
  BY <1>2, <1>3, FS_Surjection
<1>5. Ready(p) \in SUBSET K
  <2>1. ASSUME NEW x \in Ids, p.entry[x].phase = "ready" PROVE x \in K
    <3>1. p.entry[x] # NoEntry
      BY <2>1, NoEntryIs
    <3>2. PICK i \in 1..n : p.order[i] = x
      BY <1>1, <3>1 DEF Keyed
    <3> QED BY <3>2 DEF K
  <2> QED BY <2>1 DEF Ready
<1> QED BY <1>4, <1>5, FS_Subset

(* A pool with a ready entry has a first one.                                  *)
LEMMA FirstReadyExists ==
  ASSUME NEW p \in Pools, Keyed(p), NEW x \in Ready(p)
  PROVE  FirstReady(p) \in DOMAIN p.order /\ p.order[FirstReady(p)] \in Ready(p)
<1> DEFINE T == {i \in DOMAIN p.order : p.order[i] \in Ready(p)}
<1>1. p.order \in Seq(Ids) /\ DOMAIN p.order \subseteq Nat /\ p.entry \in [Ids -> Entries]
  BY DEF Pools
<1>2. T \subseteq Nat
  BY <1>1
<1>3. T # {}
  <2>1. x \in Ids /\ p.entry[x] # NoEntry
    BY NoEntryIs DEF Ready
  <2> QED BY <2>1 DEF Keyed
<1> HIDE DEF T
<1>4. PICK i \in T : \A j \in T : <<j, i>> \notin OpToRel(<, Nat)
  BY <1>2, <1>3, NatLessThanWellFounded, WFMin
<1>5. \A j \in T : i <= j
  <2>1. ASSUME NEW j \in T, ~(i <= j) PROVE FALSE
    <3>1. i \in Nat /\ j \in Nat /\ j < i
      BY <1>2, <2>1
    <3>2. <<j, i>> \in OpToRel(<, Nat)
      BY <3>1 DEF OpToRel
    <3> QED BY <1>4, <2>1, <3>2
  <2> QED BY <2>1
<1>6. \A k \in DOMAIN p.order : p.order[k] \in Ids
  BY <1>1
<1>7. \A k \in DOMAIN p.order : k \in T <=> p.entry[p.order[k]].phase = "ready"
  BY <1>6 DEF T, Ready
<1>8. T \subseteq DOMAIN p.order
  BY DEF T
<1>9. i \in DOMAIN p.order /\ p.entry[p.order[i]].phase = "ready"
  BY <1>4, <1>7, <1>8
<1>10. \A j \in 1..(i - 1) : p.entry[p.order[j]].phase # "ready"
  <2>1. ASSUME NEW j \in 1..(i - 1), p.entry[p.order[j]].phase = "ready" PROVE FALSE
    <3>1. j \in DOMAIN p.order /\ ~(i <= j)
      BY <1>1, <1>9
    <3> QED BY <1>5, <1>7, <2>1, <3>1
  <2> QED BY <2>1
<1>11. FirstReady(p) \in DOMAIN p.order /\ p.entry[p.order[FirstReady(p)]].phase = "ready"
  BY <1>9, <1>10 DEF FirstReady
<1> QED BY <1>6, <1>11 DEF Ready

(* touch(): at most one ready entry goes, and then there is room.              *)
Evicted(p, G, q) ==
  /\ q.entry = [x \in Ids |-> IF x \in G THEN NoEntry ELSE p.entry[x]]
  /\ \A c \in Callers : q.call[c] =
       IF p.call[c].id \in G THEN [p.call[c] EXCEPT !.on = FALSE] ELSE p.call[c]

(* Touching an entry keeps the pool within its capacity.                       *)
LEMMA TouchIs ==
  ASSUME NEW p \in Pools, Keyed(p), NEW id \in Ids, p.entry[id].phase = "ready",
         Cardinality(Ready(p)) <= Capacity + 1, CapacityPositive
  PROVE  /\ Touch(p, id) \in Pools
         /\ Keyed(Touch(p, id))
         /\ Cardinality(Ready(Touch(p, id))) <= Capacity
         /\ \E G \in SUBSET Ready(p) : Evicted(p, G, Touch(p, id))
<1> DEFINE q == Reinsert(p, id)
<1>1. /\ p.entry \in [Ids -> Entries] /\ p.order \in Seq(Ids) /\ p.call \in [Callers -> Calls]
      /\ p = [entry |-> p.entry, order |-> p.order, call |-> p.call]
  BY DEF Pools
<1>2. q.entry = p.entry /\ q.call = p.call /\ q.order = Append(DeleteKey(p.order, id), id)
      /\ q = [entry |-> q.entry, order |-> q.order, call |-> q.call]
  BY DEF Reinsert
<1>3. q \in Pools /\ Keyed(q)
  <2> DEFINE d == DeleteKey(p.order, id)
  <2>1. p.entry[id] # NoEntry
    BY NoEntryIs
  <2>2. /\ d \in Seq(Ids) /\ \A i, j \in DOMAIN d : d[i] = d[j] => i = j
        /\ \A x \in Ids : (\E i \in DOMAIN d : d[i] = x) <=> x # id /\ \E i \in DOMAIN p.order : p.order[i] = x
    BY <1>1, <2>1, KeyDeleted DEF Keyed
  <2> HIDE DEF d
  <2>3. ~\E i \in DOMAIN d : d[i] = id
    BY <2>2
  <2>4. /\ Append(d, id) \in Seq(Ids)
        /\ \A i, j \in DOMAIN Append(d, id) : Append(d, id)[i] = Append(d, id)[j] => i = j
        /\ \A x \in Ids : (\E i \in DOMAIN Append(d, id) : Append(d, id)[i] = x)
                             <=> x = id \/ \E i \in DOMAIN d : d[i] = x
    BY <2>2, <2>3, KeyAppended
  <2>5. \A x \in Ids : (\E i \in DOMAIN Append(d, id) : Append(d, id)[i] = x) <=> p.entry[x] # NoEntry
    BY <2>1, <2>2, <2>4 DEF Keyed
  <2>6. q.order = Append(d, id)
    BY <1>2 DEF d
  <2> HIDE DEF q
  <2>7. q \in Pools
    BY <1>1, <1>2, <2>4, <2>6 DEF Pools
  <2> QED BY <1>2, <2>4, <2>5, <2>6, <2>7 DEF Keyed
<1>4. Ready(q) = Ready(p)
  BY <1>2 DEF Ready
<1>5. Touch(p, id) = IF Cardinality(Ready(q)) <= Capacity THEN q
                     ELSE [x \in Ids |-> Unlink(q, x)][q.order[FirstReady(q)]]
  BY DEF Touch
<1> HIDE DEF q
<1>6. IsFiniteSet(Ready(p)) /\ Cardinality(Ready(p)) \in Nat
  <2>1. IsFiniteSet(Ready(p))
    BY ReadyIsFinite
  <2> QED BY <2>1, FS_CardinalityType
<1>7. CASE Cardinality(Ready(q)) <= Capacity
  <2>1. Touch(p, id) = q
    BY <1>5, <1>7
  <2>2. Evicted(p, {}, q)
    BY <1>1, <1>2 DEF Evicted
  <2>3. {} \in SUBSET Ready(p)
    OBVIOUS
  <2> QED BY <1>3, <1>4, <1>7, <2>1, <2>2, <2>3
<1>8. CASE ~(Cardinality(Ready(q)) <= Capacity)
  <2> DEFINE x == q.order[FirstReady(q)]
             u == Unlink(q, x)
  <2>1. id \in Ready(q)
    BY <1>2 DEF Ready
  <2>2. x \in Ready(q) /\ x \in Ids
    BY <1>3, <2>1, FirstReadyExists DEF Ready
  <2>3. Touch(p, id) = u
    BY <1>5, <1>8, <2>2
  <2> HIDE DEF x
  <2>4. q.entry[x] # NoEntry
    BY <2>2, NoEntryIs DEF Ready
  <2>5. /\ u \in Pools /\ Keyed(u) /\ u.entry = [q.entry EXCEPT ![x] = NoEntry]
        /\ \A c \in Callers : u.call[c] = IF q.call[c].id = x THEN [q.call[c] EXCEPT !.on = FALSE] ELSE q.call[c]
    BY <1>3, <2>2, <2>4, UnlinkIs
  <2> HIDE DEF u
  <2>6. Evicted(p, {x}, u)
    BY <1>1, <1>2, <2>2, <2>5 DEF Evicted
  <2>7. Ready(u) = Ready(p) \ {x}
    BY <1>1, <1>2, <2>2, <2>5, NoEntryIs DEF Ready
  <2>8. Cardinality(Ready(u)) = Cardinality(Ready(p)) - 1
    <3>1. IsFiniteSet(Ready(p)) /\ x \in Ready(p)
      BY <1>4, <1>6, <2>2
    <3>2. Cardinality(Ready(p) \ {x}) = Cardinality(Ready(p)) - 1
      BY <3>1, FS_RemoveElement
    <3> QED BY <2>7, <3>2
  <2>9. Cardinality(Ready(u)) <= Capacity
    BY <1>6, <2>8 DEF CapacityPositive
  <2>10. {x} \in SUBSET Ready(p)
    BY <1>4, <2>2
  <2> QED BY <2>3, <2>5, <2>6, <2>9, <2>10
<1> QED BY <1>7, <1>8

(* makeReady(): the waiters are woken before touch() may let the entry go.     *)
LEMMA MakeReadyIs ==
  ASSUME NEW p \in Pools, Keyed(p), NEW id \in Ids, CapacityPositive,
         p.entry[id].phase \in {"loading", "committing", "reserved"},
         Cardinality(Ready(p)) <= Capacity
  PROVE  /\ MakeReady(p, id) \in Pools
         /\ Keyed(MakeReady(p, id))
         /\ Cardinality(Ready(MakeReady(p, id))) <= Capacity
         /\ \E G \in SUBSET (Ready(p) \cup {id}) :
              /\ MakeReady(p, id).entry = [x \in Ids |->
                   IF x \in G THEN NoEntry
                   ELSE IF x = id THEN [phase |-> "ready", src |-> p.entry[id].src] ELSE p.entry[x]]
              /\ \A c \in Callers : MakeReady(p, id).call[c] =
                   IF p.call[c].id \in G
                     THEN [(IF p.call[c].id = id THEN Woken(p.call[c]) ELSE p.call[c]) EXCEPT !.on = FALSE]
                     ELSE IF p.call[c].id = id THEN Woken(p.call[c]) ELSE p.call[c]
<1> DEFINE e == [phase |-> "ready", src |-> p.entry[id].src]
           s == [p EXCEPT !.entry[id].phase = "ready"]
           t == Settle(s, id)
<1>1. /\ p.entry \in [Ids -> Entries] /\ p.order \in Seq(Ids) /\ p.call \in [Callers -> Calls]
      /\ p = [entry |-> p.entry, order |-> p.order, call |-> p.call]
  BY DEF Pools
<1>2. p.entry[id] \in [phase : {"loading", "ready", "committing", "reserved"}, src : Log]
  BY <1>1 DEF Entries, NoEntry
<1>3. e \in Entries /\ e # NoEntry /\ e.phase = "ready"
  BY <1>2 DEF Entries, NoEntry
<1>4. [p.entry[id] EXCEPT !.phase = "ready"] = e
  BY <1>2
<1>5. s.entry = [p.entry EXCEPT ![id] = e] /\ s.order = p.order /\ s.call = p.call
      /\ s = [entry |-> s.entry, order |-> s.order, call |-> s.call]
  <2>1. s = [entry |-> [p.entry EXCEPT ![id].phase = "ready"], order |-> p.order, call |-> p.call]
    BY DEF Pools
  <2>2. [p.entry EXCEPT ![id].phase = "ready"] = [p.entry EXCEPT ![id] = e]
    BY <1>1, <1>4
  <2> HIDE DEF s, e
  <2> QED BY <2>1, <2>2
<1> HIDE DEF s, e
<1>6. s \in Pools
  BY <1>1, <1>3, <1>5 DEF Pools
<1>7. Keyed(s)
  <2>1. p.entry[id] # NoEntry
    BY <1>2, NoEntryIs
  <2>2. \A x \in Ids : s.entry[x] # NoEntry <=> p.entry[x] # NoEntry
    BY <1>1, <1>3, <1>5, <2>1
  <2> QED BY <1>5, <2>2 DEF Keyed
<1>8. /\ t \in Pools /\ Keyed(t) /\ t.entry = s.entry
      /\ \A c \in Callers : t.call[c] = IF p.call[c].id = id THEN Woken(p.call[c]) ELSE p.call[c]
  BY <1>5, <1>6, <1>7, SettleIs
<1>9. MakeReady(p, id) = Touch(t, id)
  BY DEF MakeReady, s
<1> HIDE DEF t
<1>10. Ready(t) = Ready(p) \cup {id}
  BY <1>1, <1>3, <1>5, <1>8 DEF Ready
<1>11. Cardinality(Ready(t)) <= Capacity + 1
  <2>1. IsFiniteSet(Ready(p))
    BY ReadyIsFinite
  <2>2. Cardinality(Ready(p)) \in Nat
    BY <2>1, FS_CardinalityType
  <2>3. Cardinality(Ready(p) \cup {id}) = IF id \in Ready(p) THEN Cardinality(Ready(p)) ELSE Cardinality(Ready(p)) + 1
    BY <2>1, FS_AddElement
  <2> QED BY <1>10, <2>2, <2>3 DEF CapacityPositive
<1>12. t.entry[id].phase = "ready"
  BY <1>1, <1>3, <1>5, <1>8
<1>13. /\ Touch(t, id) \in Pools /\ Keyed(Touch(t, id)) /\ Cardinality(Ready(Touch(t, id))) <= Capacity
       /\ \E G \in SUBSET Ready(t) : Evicted(t, G, Touch(t, id))
  BY <1>8, <1>11, <1>12, TouchIs
<1>14. PICK G \in SUBSET (Ready(p) \cup {id}) : Evicted(t, G, Touch(t, id))
  BY <1>10, <1>13
<1>15. Touch(t, id).entry = [x \in Ids |-> IF x \in G THEN NoEntry ELSE IF x = id THEN e ELSE p.entry[x]]
  BY <1>1, <1>5, <1>8, <1>14 DEF Evicted
<1>16. \A c \in Callers : t.call[c].id = p.call[c].id
  BY <1>1, <1>8, CallParts
<1>17. \A c \in Callers : Touch(t, id).call[c] =
         IF p.call[c].id \in G
           THEN [(IF p.call[c].id = id THEN Woken(p.call[c]) ELSE p.call[c]) EXCEPT !.on = FALSE]
           ELSE IF p.call[c].id = id THEN Woken(p.call[c]) ELSE p.call[c]
  BY <1>8, <1>14, <1>16 DEF Evicted
<1> QED BY <1>9, <1>13, <1>15, <1>17 DEF e

-----------------------------------------------------------------------------
(* The invariant.                                                              *)

(* A source is the log as stored, or of an earlier revision.                   *)
Fresh(src, id) == /\ src.rev <= stored[id].rev
                  /\ src.rev = stored[id].rev => src = stored[id]

(* Whoever owns an entry: its commit runs, or it holds the reservation.        *)
Owning == {"commit", "reserved", "held"}
Owns(c, id) == call[c].id = id /\ call[c].on /\ call[c].pc \in Owning

(* From the end of a commit to the end of the reservation nothing may write.   *)
Secured(id) ==
  \/ entry[id].phase = "reserved"
  \/ \E c \in Callers : Owns(c, id) /\ call[c].pc = "commit" /\ call[c].got = "state"

(* What a caller relies on about the entry it started from.                    *)
CallerOk(c) ==
  /\ call[c].pc # "refused"
  /\ call[c].aborted => call[c].pc \in {"commit", "check", "over"}
  /\ call[c].pc \in {"waiting", "go", "loading", "loaded", "settle", "woken"} => call[c].got = "pending"
  /\ call[c].on => entry[call[c].id].phase # "none"
  /\ call[c].pc = "loading" /\ call[c].on => entry[call[c].id].phase = "loading"
  /\ call[c].pc \in {"loaded", "woken"} /\ call[c].on => entry[call[c].id].phase # "loading"
  /\ call[c].pc = "settle" => call[c].on /\ entry[call[c].id].phase \in {"committing", "reserved"}
  /\ call[c].pc = "commit" /\ call[c].on => /\ entry[call[c].id].phase = "committing"
                                            /\ entry[call[c].id].src = call[c].src
  /\ call[c].pc \in {"reserved", "held"} => /\ call[c].on
                                            /\ entry[call[c].id].phase = "reserved"
                                            /\ entry[call[c].id].src = call[c].src

CallerInv == \A c \in Callers : CallerOk(c)

OwnerInv == \A c, d \in Callers : \A id \in Ids : Owns(c, id) /\ Owns(d, id) => c = d

(* Why an operation of the chain may still speak for a caller.                 *)
Awaits(c, op) ==
  /\ op.kind = "load" => call[c].pc \in {"loading", "over"}
  /\ op.kind \in {"commit", "check"} => \/ call[c].pc = op.kind /\ call[c].got = "pending"
                                        \/ call[c].aborted /\ op.at = "queued"
  /\ op.kind = "append" => call[c].pc = "append" /\ call[c].got = "pending"
  /\ op.kind = "seed" => call[c].pc \in {"live", "retiring"}
  /\ op.kind = "forget" => call[c].pc = "forgetting"

(* A commit works on its caller's source; once that caller lost the entry the  *)
(* log has moved on, and the revision check will tell.                         *)
CommitOk(c, id, op) ==
  op.kind = "commit" /\ call[c].pc = "commit" /\ call[c].got = "pending" =>
    /\ op.src = call[c].src
    /\ call[c].on \/ op.src.rev < stored[id].rev
    /\ op.at = "revision" /\ call[c].on => states[id].owner = NoOne
    /\ op.at = "repair" => call[c].on /\ ~states[id].tracked

WriteOk(id, op) ==
  op.kind \in {"append", "seed"} =>
    /\ op.at # "queued" => ~Secured(id)
    /\ op.at \in {"read", "revision", "repair"} => ~states[id].tracked
    /\ op.at \in {"revision", "repair"} => Fresh(op.src, id)
    /\ op.at = "write" => states[id].tracked /\ op.seq = states[id].cursor

StageOk(op) ==
  /\ op.at = "read" => op.kind \in {"load", "append"}
  /\ op.at = "revision" => op.kind \in {"commit", "check", "append"}
  /\ op.at = "repair" => op.kind \in {"commit", "append"}
  /\ op.at = "write" => op.kind \in {"append", "seed"}

OpOk(id, op) ==
  /\ StageOk(op)
  /\ op.kind # "load" => \E c \in Callers : op.who = {c}
  /\ \A c \in op.who : call[c].id = id /\ Awaits(c, op) /\ CommitOk(c, id, op)
  /\ WriteOk(id, op)

(* Only the head of a chain has started, and no caller is in it twice.         *)
ChainInv ==
  \A id \in Ids : \A i \in DOMAIN chain[id] :
    /\ OpOk(id, chain[id][i])
    /\ i > 1 => chain[id][i].at = "queued"
    /\ \A j \in DOMAIN chain[id] : \A c \in chain[id][i].who : c \in chain[id][j].who => i = j

(* A loading entry belongs to the last load of its chain, and so do those who  *)
(* wait for it.                                                                *)
IsLastLoad(id, i) ==
  /\ i \in DOMAIN chain[id]
  /\ chain[id][i].kind = "load"
  /\ \A j \in DOMAIN chain[id] : chain[id][j].kind = "load" => j <= i

LoadInv ==
  /\ \A id \in Ids : entry[id].phase = "loading" => \E i \in DOMAIN chain[id] : IsLastLoad(id, i)
  /\ \A c \in Callers : call[c].pc = "loading" /\ call[c].on =>
       \A i \in DOMAIN chain[call[c].id] :
         IsLastLoad(call[c].id, i) => c \in chain[call[c].id][i].who

(* A tracked log is clean and its cursor is its length; sources are fresh; who *)
(* is secured holds the log as stored; who is live owns the state.             *)
LogOk(id) ==
  /\ states[id].tracked => states[id].cursor = stored[id].len /\ ~stored[id].dirty
  /\ ~states[id].tracked => states[id].owner = NoOne
  /\ entry[id].phase \in {"ready", "committing", "reserved"} => Fresh(entry[id].src, id)
  /\ Secured(id) => /\ entry[id].src = stored[id]
                    /\ states[id].tracked
                    /\ states[id].owner = NoOne

LogInv == \A id \in Ids : LogOk(id)

LiveInv ==
  /\ \A id \in Ids : live[id] # NoOne => call[live[id]].pc = "live" /\ call[live[id]].id = id
  /\ \A c \in Callers : call[c].pc \in {"live", "retiring", "forgetting"} =>
       states[call[c].id].tracked /\ states[call[c].id].owner = c

PoolInv ==
  /\ TypeOK /\ PoolBounded
  /\ CallerInv /\ OwnerInv
  /\ ChainInv /\ LoadInv
  /\ LogInv /\ LiveInv

-----------------------------------------------------------------------------
(* What a step leaves to the callers and operations it is not about.           *)

(* The caller is where it was, but may have been woken or lost its entry.      *)
Same3(c) == call'[c] \in {call[c], Woken(call[c]), Freed(call[c])}

(* What such a caller keeps.                                                   *)
LEMMA Aside ==
  ASSUME TypeOK, NEW c \in Callers, Same3(c)
  PROVE  /\ call'[c] \in Calls
         /\ call'[c].id = call[c].id /\ call'[c].src = call[c].src /\ call'[c].got = call[c].got
         /\ call'[c].aborted = call[c].aborted /\ call'[c].kind = call[c].kind
         /\ call'[c].touched = call[c].touched
         /\ call'[c].pc = call[c].pc \/ (call[c].pc = "settle" /\ call'[c].pc = "woken")
         /\ call'[c].on => call[c].on
<1>1. call[c] \in Calls
  BY DEF TypeOK
<1>2. CASE call'[c] = call[c]
  BY <1>1, <1>2
<1>3. CASE call'[c] # call[c]
  <2>1. call'[c] \in {Woken(call[c]), Freed(call[c])}
    BY <1>3 DEF Same3
  <2>2. call'[c] \in Calls
    <3>1. PICK r \in Calls : r = call[c]
      BY <1>1
    <3>2. Woken(r) \in Calls /\ Freed(r) \in Calls
      BY CallParts
    <3> QED BY <2>1, <3>1, <3>2
  <2>3. /\ call'[c].id = call[c].id /\ call'[c].kind = call[c].kind /\ call'[c].src = call[c].src
        /\ call'[c].got = call[c].got /\ call'[c].aborted = call[c].aborted
        /\ call'[c].touched = call[c].touched
        /\ call'[c].pc = IF call[c].pc = "settle" THEN "woken" ELSE call[c].pc
        /\ call'[c].on = (call'[c] = Woken(call[c]) /\ call[c].on)
    BY <1>1, <2>1, CallFields
  <2> QED BY <2>2, <2>3
<1> QED BY <1>2, <1>3

(* What an operation needs to keep speaking for its callers.                   *)
LEMMA OpKept ==
  ASSUME TypeOK, TypeOK', NEW id \in Ids, NEW op \in Ops, OpOk(id, op),
         stored'[id] = stored[id] \/ stored'[id].rev > stored[id].rev,
         \A c \in op.who :
           \/ call'[c].id = id /\ Awaits(c, op)' /\ CommitOk(c, id, op)'
           \/ /\ Same3(c)
              /\ op.kind = "commit" /\ call[c].pc = "commit" /\ call[c].got = "pending" /\ call[c].on =>
                   call'[c].on \/ (op.at = "queued" /\ op.src.rev < stored'[id].rev),
         op.at # "queued" =>
           \/ states'[id] = states[id] /\ (Secured(id)' => Secured(id))
           \/ op.kind \notin {"append", "seed"} /\ (op.kind = "commit" => \A c \in op.who : ~call[c].on)
  PROVE  OpOk(id, op)'
<1>1. op.who \subseteq Callers /\ op.src \in Log /\ op.src.rev \in Nat
  BY DEF Ops, Log
<1>2. stored[id].rev \in Nat /\ stored'[id].rev \in Nat
  BY DEF TypeOK, Log
<1>3. ASSUME NEW c \in op.who
      PROVE  call'[c].id = id /\ Awaits(c, op)' /\ CommitOk(c, id, op)'
  <2> SUFFICES ASSUME Same3(c),
                      op.kind = "commit" /\ call[c].pc = "commit" /\ call[c].got = "pending" /\ call[c].on =>
                        call'[c].on \/ (op.at = "queued" /\ op.src.rev < stored'[id].rev)
               PROVE  call'[c].id = id /\ Awaits(c, op)' /\ CommitOk(c, id, op)'
    OBVIOUS
  <2>1. call[c].id = id /\ Awaits(c, op) /\ CommitOk(c, id, op) /\ Same3(c) /\ c \in Callers
    BY <1>1 DEF OpOk
  <2>2. /\ call'[c].id = call[c].id /\ call'[c].src = call[c].src /\ call'[c].got = call[c].got
        /\ call'[c].aborted = call[c].aborted
        /\ call'[c].pc = call[c].pc \/ (call[c].pc = "settle" /\ call'[c].pc = "woken")
        /\ call'[c].on => call[c].on
    BY <2>1, Aside
  <2>3. Awaits(c, op)'
    BY <2>1, <2>2 DEF Awaits
  <2>4. CommitOk(c, id, op)'
    <3>1. SUFFICES ASSUME op.kind = "commit", call'[c].pc = "commit", call'[c].got = "pending"
                   PROVE  /\ op.src = call'[c].src
                          /\ call'[c].on \/ op.src.rev < stored'[id].rev
                          /\ op.at = "revision" /\ call'[c].on => states'[id].owner = NoOne
                          /\ op.at = "repair" => call'[c].on /\ ~states'[id].tracked
      BY DEF CommitOk
    <3>2. /\ op.src = call[c].src
          /\ call[c].on \/ op.src.rev < stored[id].rev
          /\ op.at = "revision" /\ call[c].on => states[id].owner = NoOne
          /\ op.at = "repair" => call[c].on /\ ~states[id].tracked
          /\ call[c].pc = "commit" /\ call[c].got = "pending"
      BY <2>1, <2>2, <3>1 DEF CommitOk
    <3>3. call'[c].on \/ op.src.rev < stored'[id].rev
      BY <1>1, <1>2, <3>1, <3>2
    <3> QED BY <2>2, <3>1, <3>2, <3>3
  <2> QED BY <2>1, <2>2, <2>3, <2>4
<1>4. WriteOk(id, op)'
  <2>1. Fresh(op.src, id) => Fresh(op.src, id)'
    BY <1>1, <1>2 DEF Fresh
  <2> QED BY <2>1 DEF WriteOk, OpOk
<1> QED BY <1>3, <1>4 DEF OpOk

(* The parts of a chain.                                                       *)
LEMMA ChainIs ==
  ASSUME TypeOK, NEW id \in Ids
  PROVE  /\ chain[id] \in Seq(Ops) /\ Len(chain[id]) \in Nat /\ DOMAIN chain[id] = 1..Len(chain[id])
         /\ chain[id] # <<>> => 1 \in DOMAIN chain[id] /\ Running(id) = chain[id][1] /\ Running(id) \in Ops
<1>1. chain[id] \in Seq(Ops)
  BY DEF TypeOK
<1> QED BY <1>1 DEF Running

(* An operation is queued at the end.                                          *)
LEMMA PushIs ==
  ASSUME TypeOK, NEW id \in Ids, NEW op \in Ops, chain' = Push(id, op)
  PROVE  /\ chain' \in [Ids -> Seq(Ops)]
         /\ \A x \in Ids : x # id => chain'[x] = chain[x]
         /\ DOMAIN chain'[id] = 1..(Len(chain[id]) + 1)
         /\ chain'[id][Len(chain[id]) + 1] = op
         /\ \A i \in 1..Len(chain[id]) : chain'[id][i] = chain[id][i]
<1>1. chain \in [Ids -> Seq(Ops)] /\ chain[id] \in Seq(Ops)
  BY DEF TypeOK
<1>2. chain'[id] = Append(chain[id], op) /\ \A x \in Ids : x # id => chain'[x] = chain[x]
  BY <1>1 DEF Push
<1>3. /\ Append(chain[id], op) \in Seq(Ops) /\ Len(Append(chain[id], op)) = Len(chain[id]) + 1
      /\ \A i \in 1..Len(chain[id]) : Append(chain[id], op)[i] = chain[id][i]
      /\ Append(chain[id], op)[Len(chain[id]) + 1] = op
  BY <1>1, AppendProperties
<1>4. chain' = [chain EXCEPT ![id] = Append(chain[id], op)]
  BY DEF Push
<1> QED BY <1>1, <1>2, <1>3, <1>4

(* The head leaves, and the others move up.                                    *)
LEMMA PopIs ==
  ASSUME TypeOK, NEW id \in Ids, chain[id] # <<>>, chain' = Pop(id)
  PROVE  /\ chain' \in [Ids -> Seq(Ops)]
         /\ \A x \in Ids : x # id => chain'[x] = chain[x]
         /\ DOMAIN chain'[id] = 1..(Len(chain[id]) - 1)
         /\ \A i \in 1..(Len(chain[id]) - 1) : chain'[id][i] = chain[id][i + 1]
<1>1. chain \in [Ids -> Seq(Ops)] /\ chain[id] \in Seq(Ops)
  BY DEF TypeOK
<1>2. chain'[id] = Tail(chain[id]) /\ \A x \in Ids : x # id => chain'[x] = chain[x]
  BY <1>1 DEF Pop
<1>3. /\ Tail(chain[id]) \in Seq(Ops) /\ Len(Tail(chain[id])) = Len(chain[id]) - 1
      /\ \A i \in 1..Len(Tail(chain[id])) : Tail(chain[id])[i] = chain[id][i + 1]
  BY <1>1, HeadTailProperties
<1>4. chain' = [chain EXCEPT ![id] = Tail(chain[id])]
  BY DEF Pop
<1> QED BY <1>1, <1>2, <1>3, <1>4

(* The head moves to another stage, perhaps with another source.               *)
Moved(id, op) == chain' = [chain EXCEPT ![id] = [@ EXCEPT ![1] = op]]

(* The head is replaced, and nothing else.                                     *)
LEMMA MovedIs ==
  ASSUME TypeOK, NEW id \in Ids, chain[id] # <<>>, NEW op \in Ops, Moved(id, op)
  PROVE  /\ chain' \in [Ids -> Seq(Ops)]
         /\ \A x \in Ids : x # id => chain'[x] = chain[x]
         /\ DOMAIN chain'[id] = 1..Len(chain[id])
         /\ chain'[id][1] = op
         /\ \A i \in 2..Len(chain[id]) : chain'[id][i] = chain[id][i]
<1>1. chain \in [Ids -> Seq(Ops)] /\ chain[id] \in Seq(Ops) /\ Len(chain[id]) \in Nat
      /\ DOMAIN chain[id] = 1..Len(chain[id]) /\ 1 \in DOMAIN chain[id]
  BY DEF TypeOK
<1>2. chain'[id] = [chain[id] EXCEPT ![1] = op] /\ \A x \in Ids : x # id => chain'[x] = chain[x]
  BY <1>1 DEF Moved
<1>3. [chain[id] EXCEPT ![1] = op] \in Seq(Ops)
  BY <1>1
<1>4. chain' \in [Ids -> Seq(Ops)]
  BY <1>1, <1>3 DEF Moved
<1> QED BY <1>1, <1>2, <1>3, <1>4

(* A new stage of the head is such a replacement.                              *)
LEMMA AtIs ==
  ASSUME TypeOK, NEW id \in Ids, chain[id] # <<>>,
         NEW stage \in {"queued", "read", "revision", "repair", "write"}, NEW src \in Log
  PROVE  /\ [Running(id) EXCEPT !.at = stage] \in Ops
         /\ [Running(id) EXCEPT !.at = stage, !.src = src] \in Ops
         /\ chain' = At(id, stage) => Moved(id, [Running(id) EXCEPT !.at = stage])
         /\ chain' = [chain EXCEPT ![id][1].at = stage, ![id][1].src = src] =>
              Moved(id, [Running(id) EXCEPT !.at = stage, !.src = src])
<1>1. chain \in [Ids -> Seq(Ops)] /\ chain[id] \in Seq(Ops) /\ 1 \in DOMAIN chain[id]
      /\ chain[id][1] \in Ops /\ Running(id) = chain[id][1]
  BY ChainIs DEF TypeOK
<1>2. [Running(id) EXCEPT !.at = stage] \in Ops /\ [Running(id) EXCEPT !.at = stage, !.src = src] \in Ops
  BY <1>1 DEF Ops
<1>3. chain' = At(id, stage) => Moved(id, [Running(id) EXCEPT !.at = stage])
  BY <1>1 DEF At, Moved
<1>4. chain' = [chain EXCEPT ![id][1].at = stage, ![id][1].src = src] =>
              Moved(id, [Running(id) EXCEPT !.at = stage, !.src = src])
  BY <1>1 DEF Moved
<1> QED BY <1>2, <1>3, <1>4

(* No entry starts to load and no caller joins one.                            *)
NobodyJoins ==
  /\ \A x \in Ids : entry'[x].phase = "loading" => entry[x].phase = "loading"
  /\ \A c \in Callers : call'[c].pc = "loading" /\ call'[c].on =>
       call[c].pc = "loading" /\ call[c].on /\ call'[c].id = call[c].id

(* An operation of the chain keeps speaking for its callers.                   *)
Kept(x, i) == \A op \in Ops : op = chain[x][i] => OpOk(x, op)'

(* What holds of an operation holds of its place.                              *)
LEMMA OpOkThere ==
  ASSUME NEW x \in Ids, NEW i, NEW op, op = chain'[x][i], OpOk(x, op)'
  PROVE  OpOk(x, chain[x][i])'
  BY DEF OpOk, StageOk, Awaits, CommitOk, WriteOk, Fresh

(* And so does what was kept, wherever the operation moved to.                 *)
LEMMA KeptThere ==
  ASSUME TypeOK, NEW x \in Ids, NEW i \in DOMAIN chain[x], Kept(x, i),
         NEW j, chain'[x][j] = chain[x][i]
  PROVE  OpOk(x, chain[x][j])'
<1>1. chain[x][i] \in Ops
  BY ChainIs
<1>2. PICK op \in Ops : op = chain[x][i]
  BY <1>1
<1>3. OpOk(x, op)'
  BY <1>2 DEF Kept
<1> QED BY <1>2, <1>3, OpOkThere

(* The last load is in the chain.                                              *)
LEMMA LastLoadType == ASSUME NEW id \in Ids, NEW i, IsLastLoad(id, i) PROVE i \in DOMAIN chain[id]
  BY DEF IsLastLoad

(* A step that leaves the chains alone.                                        *)
LEMMA ChainSame ==
  ASSUME TypeOK, TypeOK', ChainInv, LoadInv, NobodyJoins, chain' = chain,
         \A x \in Ids : \A i \in DOMAIN chain[x] : Kept(x, i)
  PROVE  ChainInv' /\ LoadInv'
<1>1. ChainInv'
  <2>1. ASSUME NEW x \in Ids, NEW i \in DOMAIN chain[x] PROVE OpOk(x, chain[x][i])'
    BY KeptThere
  <2> QED BY <2>1 DEF ChainInv
<1>2. \A x \in Ids : \A i : IsLastLoad(x, i)' <=> IsLastLoad(x, i)
  BY DEF IsLastLoad
<1>3. \A c \in Callers : call[c].id \in Ids /\ call'[c].id \in Ids
  BY DEF TypeOK, Calls
<1>4. LoadInv'
  <2>1. ASSUME NEW x \in Ids, entry'[x].phase = "loading" PROVE \E i \in DOMAIN chain'[x] : IsLastLoad(x, i)'
    <3>1. \E i \in DOMAIN chain[x] : IsLastLoad(x, i)
      BY <2>1 DEF LoadInv, NobodyJoins
    <3> QED BY <1>2, <3>1
  <2>2. ASSUME NEW c \in Callers, call'[c].pc = "loading", call'[c].on,
               NEW i \in DOMAIN chain'[call'[c].id], IsLastLoad(call[c].id, i)'
        PROVE  c \in chain'[call'[c].id][i].who
    <3>1. call[c].pc = "loading" /\ call[c].on /\ call'[c].id = call[c].id
      BY <2>2 DEF NobodyJoins
    <3>2. IsLastLoad(call[c].id, i) /\ i \in DOMAIN chain[call[c].id]
      BY <1>2, <1>3, <2>2, <3>1
    <3>3. c \in chain[call[c].id][i].who
      BY <3>1, <3>2 DEF LoadInv
    <3> QED BY <3>1, <3>3
  <2> QED BY <2>1, <2>2 DEF LoadInv
<1> QED BY <1>1, <1>4

(* A step that moves a head.                                                   *)
LEMMA ChainMoved ==
  ASSUME TypeOK, TypeOK', ChainInv, LoadInv, NobodyJoins, NEW id \in Ids, chain[id] # <<>>,
         NEW op \in Ops, Moved(id, op), op.kind = Running(id).kind, op.who = Running(id).who,
         OpOk(id, op)',
         \A x \in Ids : \A i \in DOMAIN chain[x] : x # id \/ i # 1 => Kept(x, i)
  PROVE  ChainInv' /\ LoadInv'
<1> DEFINE n == Len(chain[id])
<1>1. n \in Nat /\ DOMAIN chain[id] = 1..n /\ 1 \in 1..n /\ Running(id) = chain[id][1]
  BY ChainIs
<1>2. /\ \A x \in Ids : x # id => chain'[x] = chain[x]
      /\ DOMAIN chain'[id] = 1..n /\ chain'[id][1] = op
      /\ \A i \in 2..n : chain'[id][i] = chain[id][i]
  BY MovedIs
<1> HIDE DEF n
<1>3. \A x \in Ids : /\ DOMAIN chain'[x] = DOMAIN chain[x]
                     /\ \A i \in DOMAIN chain[x] : /\ chain'[x][i].kind = chain[x][i].kind
                                                   /\ chain'[x][i].who = chain[x][i].who
  BY <1>1, <1>2
<1>4. \A x \in Ids : \A i \in DOMAIN chain[x] :
        OpOk(x, chain[x][i])' /\ (i > 1 => chain'[x][i].at = "queued")
  <2>1. ASSUME NEW x \in Ids, NEW i \in DOMAIN chain[x], x # id \/ i # 1 PROVE chain'[x][i] = chain[x][i]
    BY <1>1, <1>2, <2>1
  <2>2. ASSUME NEW x \in Ids, NEW i \in DOMAIN chain[x], x # id \/ i # 1
        PROVE  OpOk(x, chain[x][i])' /\ (i > 1 => chain'[x][i].at = "queued")
    <3>1. OpOk(x, chain[x][i])'
      BY <2>1, <2>2, KeptThere
    <3> QED BY <2>1, <2>2, <3>1 DEF ChainInv
  <2>3. OpOk(id, chain[id][1])'
    BY <1>2
  <2> QED BY <2>2, <2>3
<1>5. ChainInv'
  <2>1. ASSUME NEW x \in Ids, NEW i \in DOMAIN chain[x], NEW j \in DOMAIN chain[x],
               NEW c \in chain'[x][i].who, c \in chain'[x][j].who
        PROVE  i = j
    <3>1. c \in chain[x][i].who /\ c \in chain[x][j].who
      BY <1>3, <2>1
    <3> QED BY <3>1 DEF ChainInv
  <2> QED BY <1>3, <1>4, <2>1 DEF ChainInv
<1>6. \A x \in Ids : \A i : IsLastLoad(x, i)' <=> IsLastLoad(x, i)
  BY <1>3 DEF IsLastLoad
<1>7. \A c \in Callers : call[c].id \in Ids /\ call'[c].id \in Ids
  BY DEF TypeOK, Calls
<1>8. LoadInv'
  <2>1. ASSUME NEW x \in Ids, entry'[x].phase = "loading" PROVE \E i \in DOMAIN chain'[x] : IsLastLoad(x, i)'
    <3>1. \E i \in DOMAIN chain[x] : IsLastLoad(x, i)
      BY <2>1 DEF LoadInv, NobodyJoins
    <3> QED BY <1>3, <1>6, <3>1
  <2>2. ASSUME NEW c \in Callers, call'[c].pc = "loading", call'[c].on,
               NEW i \in DOMAIN chain'[call'[c].id], IsLastLoad(call[c].id, i)'
        PROVE  c \in chain'[call'[c].id][i].who
    <3>1. call[c].pc = "loading" /\ call[c].on /\ call'[c].id = call[c].id
      BY <2>2 DEF NobodyJoins
    <3>2. IsLastLoad(call[c].id, i) /\ i \in DOMAIN chain[call[c].id]
      BY <1>3, <1>6, <1>7, <2>2, <3>1
    <3>3. c \in chain[call[c].id][i].who
      BY <3>1, <3>2 DEF LoadInv
    <3> QED BY <1>3, <1>7, <3>1, <3>2, <3>3
  <2> QED BY <2>1, <2>2 DEF LoadInv
<1> QED BY <1>5, <1>8

(* A step that queues an operation, whatever it does to loads.                 *)
LEMMA ChainGrown ==
  ASSUME TypeOK, TypeOK', ChainInv, NEW id \in Ids,
         NEW op \in Ops, chain' = Push(id, op), op.at = "queued",
         OpOk(id, op)',
         \A i \in DOMAIN chain[id] : \A c \in op.who : c \notin chain[id][i].who,
         \A x \in Ids : \A i \in DOMAIN chain[x] : Kept(x, i)
  PROVE  ChainInv'
<1> DEFINE n == Len(chain[id])
<1>1. n \in Nat /\ DOMAIN chain[id] = 1..n
  BY ChainIs
<1>2. /\ \A x \in Ids : x # id => chain'[x] = chain[x]
      /\ DOMAIN chain'[id] = 1..(n + 1) /\ chain'[id][n + 1] = op
      /\ \A i \in 1..n : chain'[id][i] = chain[id][i]
  BY PushIs
<1> HIDE DEF n
<1>3. \A x \in Ids : \A i \in DOMAIN chain[x] : i \in DOMAIN chain'[x] /\ chain'[x][i] = chain[x][i]
  BY <1>1, <1>2
<1>4. \A x \in Ids : \A i \in DOMAIN chain'[x] : i \in DOMAIN chain[x] \/ (x = id /\ i = n + 1)
  BY <1>1, <1>2
<1>5. ASSUME NEW x \in Ids, NEW i \in DOMAIN chain'[x]
      PROVE  OpOk(x, chain[x][i])' /\ (i > 1 => chain'[x][i].at = "queued")
  <2>1. CASE i \in DOMAIN chain[x]
    <3>1. OpOk(x, chain[x][i])'
      BY <1>3, <2>1, KeptThere
    <3> QED BY <1>3, <2>1, <3>1 DEF ChainInv
  <2>2. CASE x = id /\ i = n + 1
    BY <1>2, <2>2
  <2> QED BY <1>4, <2>1, <2>2
<1>6. ASSUME NEW x \in Ids, NEW i \in DOMAIN chain'[x], NEW j \in DOMAIN chain'[x],
             NEW c \in chain'[x][i].who, c \in chain'[x][j].who
      PROVE  i = j
  <2>1. CASE i \in DOMAIN chain[x] /\ j \in DOMAIN chain[x]
    <3>1. c \in chain[x][i].who /\ c \in chain[x][j].who
      BY <1>3, <1>6, <2>1
    <3> QED BY <2>1, <3>1 DEF ChainInv
  <2>2. CASE i \in DOMAIN chain[x] /\ x = id /\ j = n + 1
    BY <1>2, <1>3, <1>6, <2>2
  <2>3. CASE j \in DOMAIN chain[x] /\ x = id /\ i = n + 1
    BY <1>2, <1>3, <1>6, <2>3
  <2> QED BY <1>4, <2>1, <2>2, <2>3
<1> QED BY <1>5, <1>6 DEF ChainInv

(* A step that queues an operation other than a load.                          *)
LEMMA ChainPushed ==
  ASSUME TypeOK, TypeOK', ChainInv, LoadInv, NobodyJoins, NEW id \in Ids,
         NEW op \in Ops, chain' = Push(id, op), op.kind # "load", op.at = "queued",
         OpOk(id, op)',
         \A i \in DOMAIN chain[id] : \A c \in op.who : c \notin chain[id][i].who,
         \A x \in Ids : \A i \in DOMAIN chain[x] : Kept(x, i)
  PROVE  ChainInv' /\ LoadInv'
<1> DEFINE n == Len(chain[id])
<1>1. n \in Nat /\ DOMAIN chain[id] = 1..n
  BY ChainIs
<1>2. /\ \A x \in Ids : x # id => chain'[x] = chain[x]
      /\ DOMAIN chain'[id] = 1..(n + 1) /\ chain'[id][n + 1] = op
      /\ \A i \in 1..n : chain'[id][i] = chain[id][i]
  BY PushIs
<1> HIDE DEF n
<1>3. \A x \in Ids : \A i \in DOMAIN chain[x] : i \in DOMAIN chain'[x] /\ chain'[x][i] = chain[x][i]
  BY <1>1, <1>2
<1>4. \A x \in Ids : \A i \in DOMAIN chain'[x] : i \in DOMAIN chain[x] \/ (x = id /\ i = n + 1)
  BY <1>1, <1>2
<1>5. ChainInv'
  BY ChainGrown
<1>6. \A x \in Ids : \A i : IsLastLoad(x, i)' <=> IsLastLoad(x, i)
  <2>1. ASSUME NEW x \in Ids, NEW i, IsLastLoad(x, i) PROVE IsLastLoad(x, i)'
    <3>1. i \in DOMAIN chain[x] /\ chain[x][i].kind = "load"
          /\ \A j \in DOMAIN chain[x] : chain[x][j].kind = "load" => j <= i
      BY <2>1 DEF IsLastLoad
    <3>2. ASSUME NEW j \in DOMAIN chain'[x], chain'[x][j].kind = "load" PROVE j <= i
      <4>1. j \in DOMAIN chain[x]
        BY <1>2, <1>4, <3>2
      <4> QED BY <1>3, <3>1, <3>2, <4>1
    <3> QED BY <1>3, <3>1, <3>2 DEF IsLastLoad
  <2>2. ASSUME NEW x \in Ids, NEW i, IsLastLoad(x, i)' PROVE IsLastLoad(x, i)
    <3>1. i \in DOMAIN chain'[x] /\ chain'[x][i].kind = "load"
          /\ \A j \in DOMAIN chain'[x] : chain'[x][j].kind = "load" => j <= i
      BY <2>2 DEF IsLastLoad
    <3>2. i \in DOMAIN chain[x]
      BY <1>2, <1>4, <3>1
    <3> QED BY <1>3, <3>1, <3>2 DEF IsLastLoad
  <2> QED BY <2>1, <2>2
<1>7. \A c \in Callers : call[c].id \in Ids /\ call'[c].id \in Ids
  BY DEF TypeOK, Calls
<1>8. LoadInv'
  <2>1. ASSUME NEW x \in Ids, entry'[x].phase = "loading" PROVE \E i \in DOMAIN chain'[x] : IsLastLoad(x, i)'
    <3>1. \E i \in DOMAIN chain[x] : IsLastLoad(x, i)
      BY <2>1 DEF LoadInv, NobodyJoins
    <3> QED BY <1>3, <1>6, <3>1
  <2>2. ASSUME NEW c \in Callers, call'[c].pc = "loading", call'[c].on,
               NEW i \in DOMAIN chain'[call'[c].id], IsLastLoad(call[c].id, i)'
        PROVE  c \in chain'[call'[c].id][i].who
    <3>1. call[c].pc = "loading" /\ call[c].on /\ call'[c].id = call[c].id
      BY <2>2 DEF NobodyJoins
    <3>2. IsLastLoad(call[c].id, i)
      BY <1>6, <1>7, <2>2, <3>1
    <3>3. i \in DOMAIN chain[call[c].id]
      BY <3>2 DEF IsLastLoad
    <3>4. c \in chain[call[c].id][i].who
      BY <3>1, <3>2, <3>3 DEF LoadInv
    <3> QED BY <1>3, <1>7, <3>1, <3>3, <3>4
  <2> QED BY <2>1, <2>2 DEF LoadInv
<1> QED BY <1>5, <1>8

(* A step that ends the operation at the head.                                 *)
LEMMA ChainPopped ==
  ASSUME TypeOK, TypeOK', ChainInv, LoadInv, NobodyJoins, NEW id \in Ids, chain[id] # <<>>,
         chain' = Pop(id),
         IsLastLoad(id, 1) => entry'[id].phase # "loading",
         \A x \in Ids : \A i \in DOMAIN chain[x] : x # id \/ i # 1 => Kept(x, i)
  PROVE  ChainInv' /\ LoadInv'
<1> DEFINE n == Len(chain[id])
           up(x, i) == IF x = id THEN i + 1 ELSE i
<1>1. n \in Nat /\ DOMAIN chain[id] = 1..n /\ 1 \in 1..n
  BY ChainIs
<1>2. /\ \A x \in Ids : x # id => chain'[x] = chain[x]
      /\ DOMAIN chain'[id] = 1..(n - 1)
      /\ \A i \in 1..(n - 1) : chain'[id][i] = chain[id][i + 1]
  BY PopIs
<1> HIDE DEF n
<1>3. \A x \in Ids : \A i \in DOMAIN chain'[x] :
        /\ i \in Nat /\ i >= 1
        /\ up(x, i) \in DOMAIN chain[x] /\ chain'[x][i] = chain[x][up(x, i)]
        /\ x # id \/ up(x, i) # 1
        /\ i > 1 => up(x, i) > 1
  <2>1. \A x \in Ids : x # id => \A i \in DOMAIN chain[x] : i \in Nat /\ i >= 1
    BY ChainIs
  <2> QED BY <1>1, <1>2, <2>1
<1>4. \A x \in Ids : \A i \in DOMAIN chain[x] :
        x # id \/ i # 1 => \E k \in DOMAIN chain'[x] : i = up(x, k)
  <2>1. ASSUME NEW i \in DOMAIN chain[id], i # 1 PROVE i - 1 \in DOMAIN chain'[id] /\ i = up(id, i - 1)
    BY <1>1, <1>2, <2>1
  <2>2. ASSUME NEW x \in Ids, x # id, NEW i \in DOMAIN chain[x] PROVE i \in DOMAIN chain'[x] /\ i = up(x, i)
    BY <1>2, <2>2
  <2> QED BY <2>1, <2>2
<1>5. \A x \in Ids : \A i, j \in DOMAIN chain'[x] : up(x, i) <= up(x, j) <=> i <= j
  BY <1>3
<1>6. \A x \in Ids : \A i, j \in DOMAIN chain'[x] : up(x, i) = up(x, j) => i = j
  BY <1>3
<1> HIDE DEF up
<1>7. ChainInv'
  <2>1. ASSUME NEW x \in Ids, NEW i \in DOMAIN chain'[x]
        PROVE  OpOk(x, chain[x][i])' /\ (i > 1 => chain'[x][i].at = "queued")
    <3>1. up(x, i) \in DOMAIN chain[x] /\ chain'[x][i] = chain[x][up(x, i)] /\ (x # id \/ up(x, i) # 1)
          /\ (i > 1 => up(x, i) > 1)
      BY <1>3
    <3>2. OpOk(x, chain[x][i])'
      BY <3>1, KeptThere
    <3> QED BY <3>1, <3>2 DEF ChainInv
  <2>2. ASSUME NEW x \in Ids, NEW i \in DOMAIN chain'[x], NEW j \in DOMAIN chain'[x],
               NEW c \in chain'[x][i].who, c \in chain'[x][j].who
        PROVE  i = j
    <3>1. up(x, i) \in DOMAIN chain[x] /\ chain'[x][i] = chain[x][up(x, i)]
          /\ up(x, j) \in DOMAIN chain[x] /\ chain'[x][j] = chain[x][up(x, j)]
      BY <1>3
    <3>2. up(x, i) = up(x, j)
      BY <2>2, <3>1 DEF ChainInv
    <3> QED BY <1>6, <3>2
  <2> QED BY <2>1, <2>2 DEF ChainInv
<1>8. ASSUME NEW x \in Ids, NEW i, IsLastLoad(x, i)' PROVE i \in DOMAIN chain'[x] /\ IsLastLoad(x, up(x, i))
  <2>1. i \in DOMAIN chain'[x] /\ chain'[x][i].kind = "load"
        /\ \A j \in DOMAIN chain'[x] : chain'[x][j].kind = "load" => j <= i
    BY <1>8 DEF IsLastLoad
  <2>2. up(x, i) \in DOMAIN chain[x] /\ chain[x][up(x, i)].kind = "load" /\ up(x, i) \in Nat /\ up(x, i) >= 1
    BY <1>3, <2>1, ChainIs
  <2>3. ASSUME NEW j \in DOMAIN chain[x], chain[x][j].kind = "load" PROVE j <= up(x, i)
    <3>1. CASE x = id /\ j = 1
      BY <2>2, <3>1
    <3>2. CASE x # id \/ j # 1
      <4>1. PICK k \in DOMAIN chain'[x] : j = up(x, k)
        BY <1>4, <3>2
      <4>2. k <= i
        BY <1>3, <2>1, <2>3, <4>1
      <4> QED BY <1>5, <2>1, <4>1, <4>2
    <3> QED BY <3>1, <3>2
  <2> QED BY <2>1, <2>2, <2>3 DEF IsLastLoad
<1>9. \A c \in Callers : call[c].id \in Ids /\ call'[c].id \in Ids
  BY DEF TypeOK, Calls
<1>10. LoadInv'
  <2>1. ASSUME NEW x \in Ids, entry'[x].phase = "loading" PROVE \E i \in DOMAIN chain'[x] : IsLastLoad(x, i)'
    <3>1. PICK i \in DOMAIN chain[x] : IsLastLoad(x, i)
      BY <2>1 DEF LoadInv, NobodyJoins
    <3>2. x # id \/ i # 1
      BY <2>1, <3>1
    <3>3. PICK k \in DOMAIN chain'[x] : i = up(x, k)
      BY <1>4, <3>2
    <3>4. chain'[x][k].kind = "load"
      BY <1>3, <3>1, <3>3 DEF IsLastLoad
    <3>5. ASSUME NEW j \in DOMAIN chain'[x], chain'[x][j].kind = "load" PROVE j <= k
      <4>1. up(x, j) <= up(x, k)
        BY <1>3, <3>1, <3>3, <3>5 DEF IsLastLoad
      <4> QED BY <1>5, <4>1
    <3> QED BY <3>4, <3>5 DEF IsLastLoad
  <2>2. ASSUME NEW c \in Callers, call'[c].pc = "loading", call'[c].on,
               NEW i \in DOMAIN chain'[call'[c].id], IsLastLoad(call[c].id, i)'
        PROVE  c \in chain'[call'[c].id][i].who
    <3>1. call[c].pc = "loading" /\ call[c].on /\ call'[c].id = call[c].id
      BY <2>2 DEF NobodyJoins
    <3>2. IsLastLoad(call[c].id, up(call[c].id, i)) /\ i \in DOMAIN chain'[call[c].id]
      BY <1>8, <1>9, <2>2, <3>1
    <3>3. up(call[c].id, i) \in DOMAIN chain[call[c].id]
      BY <3>2 DEF IsLastLoad
    <3>4. c \in chain[call[c].id][up(call[c].id, i)].who
      BY <3>1, <3>2, <3>3 DEF LoadInv
    <3> QED BY <1>3, <1>9, <3>1, <3>2, <3>4
  <2> QED BY <2>1, <2>2 DEF LoadInv
<1> QED BY <1>7, <1>10

-----------------------------------------------------------------------------
(* What a step does to the pool: the entries in G go, those in R are ready,    *)
(* another one may turn for the sake of a caller in A, and the callers outside *)
(* A are woken or lose their entry accordingly.                                *)
Turns(x, A) ==
  \/ entry[x].phase = "none" /\ entry'[x].phase = "loading"
  \/ /\ entry[x].phase = "ready" /\ entry'[x].phase = "committing"
     /\ entry'[x].src = entry[x].src
  \/ /\ entry[x].phase = "committing" /\ entry'[x].phase = "reserved"
     /\ entry'[x].src = entry[x].src
     /\ Secured(x)
     /\ \A c \in Callers \ A : ~Owns(c, x)

Effect(G, R, A) ==
  /\ \A x \in Ids :
       \/ x \in G /\ entry'[x] = NoEntry
       \/ x \in R \ G /\ entry'[x].phase = "ready" /\ Fresh(entry'[x].src, x)
       \/ x \notin G \cup R /\ (entry'[x] = entry[x] \/ Turns(x, A))
  /\ \A c \in Callers \ A : call'[c] =
       IF call[c].id \in G THEN Freed(call[c])
       ELSE IF call[c].id \in R THEN Woken(call[c]) ELSE call[c]

(* Those the step is not about still find what they rely on.                   *)
LEMMA Outsiders ==
  ASSUME TypeOK, TypeOK', CallerInv, NEW G \in SUBSET Ids, NEW R \in SUBSET Ids,
         NEW A \in SUBSET Callers, Effect(G, R, A), NEW c \in Callers \ A,
         call[c].on /\ call[c].id \in G \cup R => call[c].pc \notin {"reserved", "held"},
         call[c].on /\ call[c].id \in R \ G => call[c].pc \notin {"commit", "loading"}
  PROVE  /\ CallerOk(c)' /\ Same3(c)
         /\ \A x \in Ids : Owns(c, x)' => Owns(c, x) /\ x \notin G \cup R
<1> DEFINE id == call[c].id
<1>1. call[c] \in Calls /\ id \in Ids
  BY DEF TypeOK, Calls
<1>2. CallerOk(c)
  BY DEF CallerInv
<1>3. Same3(c)
  BY DEF Effect, Same3
<1>4. /\ call'[c].id = id /\ call'[c].src = call[c].src
      /\ call'[c].aborted = call[c].aborted /\ call'[c].got = call[c].got
  BY <1>3, Aside
<1>5. CASE id \in G
  <2>1. call'[c] = Freed(call[c])
    BY <1>5 DEF Effect
  <2>2. ~call'[c].on /\ call'[c].pc = IF call[c].pc = "settle" THEN "woken" ELSE call[c].pc
    BY <1>1, <2>1 DEF Freed, Calls
  <2>3. call[c].pc \notin {"reserved", "held"}
    BY <1>2, <1>5 DEF CallerOk
  <2> QED BY <1>2, <1>3, <1>4, <2>2, <2>3 DEF CallerOk, Owns
<1>6. CASE id \in R \ G
  <2>1. call'[c] = Woken(call[c])
    BY <1>6 DEF Effect
  <2>2. call'[c].on = call[c].on /\ call'[c].pc = IF call[c].pc = "settle" THEN "woken" ELSE call[c].pc
    BY <1>1, <2>1 DEF Woken, Calls
  <2>3. entry'[id].phase = "ready"
    BY <1>1, <1>6 DEF Effect
  <2>4. call[c].pc \notin {"reserved", "held"} /\ (call[c].on => call[c].pc \notin {"commit", "loading"})
    BY <1>2, <1>6 DEF CallerOk
  <2> QED BY <1>2, <1>3, <1>4, <2>2, <2>3, <2>4 DEF CallerOk, Owns, Owning
<1>7. CASE id \notin G \cup R
  <2>1. call'[c] = call[c]
    BY <1>7 DEF Effect
  <2>2. entry'[id] = entry[id] \/ Turns(id, A)
    BY <1>1, <1>7, NoEntryIs DEF Effect
  <2>3. entry'[id] = entry[id] => CallerOk(c)'
    BY <1>2, <2>1 DEF CallerOk
  <2>4. ASSUME entry[id].phase = "none" PROVE CallerOk(c)'
    BY <1>2, <2>1, <2>4 DEF CallerOk
  <2>5. ASSUME entry[id].phase = "ready", entry'[id].phase = "committing" PROVE CallerOk(c)'
    BY <1>2, <2>1, <2>5 DEF CallerOk
  <2>6. ASSUME entry[id].phase = "committing", entry'[id].phase = "reserved", ~Owns(c, id)
        PROVE  CallerOk(c)'
    BY <1>2, <2>1, <2>6 DEF CallerOk, Owns, Owning
  <2>7. CallerOk(c)'
    BY <2>2, <2>3, <2>4, <2>5, <2>6 DEF Turns
  <2> QED BY <1>3, <1>7, <2>1, <2>7 DEF Owns
<1> QED BY <1>5, <1>6, <1>7

(* c still is the one that the i-th operation of x's chain speaks for.         *)
Speaks(c, x, i) == \A op \in Ops : op = chain[x][i] =>
  call'[c].id = x /\ Awaits(c, op)' /\ CommitOk(c, x, op)'

Lively == {"live", "retiring", "forgetting"}

(* What a caller of the step may do: it keeps what it owned, or comes to own   *)
(* what nobody did; only a finished commit secures.                            *)
ActorOk(c, G, R, A) ==
  /\ CallerOk(c)'
  /\ call[c].pc \in Lively \/ call'[c].pc \in Lively =>
       call'[c].pc = call[c].pc /\ call'[c].id = call[c].id
  /\ \A x \in Ids : Owns(c, x)' =>
       /\ A = {c}
       /\ \A d \in Callers : Owns(d, x) => d = c
       /\ call'[c].pc = "commit" /\ call'[c].got = "state" => Secured(x) /\ x \notin G \cup R

(* A secured log has an entry somebody owns.                                   *)
LEMMA SecuredPhase ==
  ASSUME CallerInv, NEW x \in Ids, Secured(x)
  PROVE  entry[x].phase \in {"committing", "reserved"}
  BY DEF Secured, CallerInv, CallerOk, Owns

(* A step on the pool that leaves the logs and the cursors alone.              *)
LEMMA PoolKept ==
  ASSUME TypeOK, TypeOK', CallerInv, OwnerInv, ChainInv, LogInv, LiveInv,
         NEW G \in SUBSET Ids, NEW R \in SUBSET Ids, NEW A \in SUBSET Callers, Effect(G, R, A),
         stored' = stored, states' = states, live' = live,
         \A c \in Callers \ A : \A x \in G \cup R : ~Owns(c, x),
         \A c \in Callers \ A : call[c].on /\ call[c].id \in R \ G => call[c].pc # "loading",
         \A c \in A : ActorOk(c, G, R, A)
  PROVE  /\ CallerInv' /\ OwnerInv' /\ LogInv' /\ LiveInv'
         /\ \A x \in Ids : \A i \in DOMAIN chain[x] :
              (\A c \in A : c \in chain[x][i].who => Speaks(c, x, i)) => Kept(x, i)
<1>1. ASSUME NEW c \in Callers \ A
      PROVE  /\ CallerOk(c)' /\ Same3(c)
             /\ \A x \in Ids : Owns(c, x)' => Owns(c, x) /\ x \notin G \cup R
  <2>1. call[c].id \in Ids
    BY DEF TypeOK, Calls
  <2>2. call[c].on /\ call[c].id \in G \cup R => call[c].pc \notin Owning
    BY <2>1 DEF Owns
  <2>3. /\ call[c].on /\ call[c].id \in G \cup R => call[c].pc \notin {"reserved", "held"}
        /\ call[c].on /\ call[c].id \in R \ G => call[c].pc \notin {"commit", "loading"}
    BY <2>2 DEF Owning
  <2> QED BY <2>3, Outsiders
<1>2. CallerInv'
  BY <1>1 DEF CallerInv, ActorOk
<1>3. OwnerInv'
  <2> SUFFICES ASSUME NEW c \in Callers, NEW d \in Callers, NEW x \in Ids, Owns(c, x)', Owns(d, x)'
               PROVE  c = d
    BY DEF OwnerInv
  <2>1. CASE c \notin A /\ d \notin A
    BY <1>1, <2>1 DEF OwnerInv
  <2>2. CASE c \in A
    BY <1>1, <2>2 DEF ActorOk
  <2>3. CASE d \in A
    BY <1>1, <2>3 DEF ActorOk
  <2> QED BY <2>1, <2>2, <2>3
<1>4. ASSUME NEW x \in Ids, Secured(x)' PROVE Secured(x) /\ entry'[x].src = entry[x].src
  <2>1. entry'[x] = entry[x] \/ Turns(x, A) \/ entry'[x].phase \in {"none", "ready"}
    BY NoEntryIs DEF Effect
  <2>2. CASE entry'[x].phase = "reserved"
    <3>1. CASE entry'[x] = entry[x]
      BY <2>2, <3>1 DEF Secured
    <3>2. CASE Turns(x, A)
      BY <2>2, <3>2 DEF Turns
    <3> QED BY <2>1, <2>2, <3>1, <3>2
  <2>3. CASE entry'[x].phase # "reserved"
    <3>1. PICK c \in Callers : Owns(c, x)' /\ call'[c].pc = "commit" /\ call'[c].got = "state"
      BY <1>4, <2>3 DEF Secured
    <3>2. entry'[x].phase = "committing"
      BY <1>2, <3>1 DEF CallerInv, CallerOk, Owns
    <3>3. Secured(x)
      <4>1. CASE c \in A
        BY <3>1, <4>1 DEF ActorOk
      <4>2. CASE c \notin A
        <5>1. Owns(c, x) /\ Same3(c)
          BY <1>1, <3>1, <4>2
        <5>2. call[c].pc = "commit" /\ call[c].got = "state"
          BY <3>1, <5>1, Aside
        <5> QED BY <5>1, <5>2 DEF Secured
      <4> QED BY <4>1, <4>2
    <3>4. ~Turns(x, A) \/ entry'[x].src = entry[x].src
      BY <3>2, SecuredPhase, <3>3 DEF Turns
    <3> QED BY <2>1, <3>2, <3>3, <3>4
  <2> QED BY <2>2, <2>3
<1>5. LogInv'
  <2> SUFFICES ASSUME NEW x \in Ids
               PROVE  /\ states'[x].tracked => states'[x].cursor = stored'[x].len /\ ~stored'[x].dirty
                      /\ ~states'[x].tracked => states'[x].owner = NoOne
                      /\ entry'[x].phase \in {"ready", "committing", "reserved"} => Fresh(entry[x].src, x)'
                      /\ Secured(x)' => /\ entry'[x].src = stored'[x]
                                        /\ states'[x].tracked
                                        /\ states'[x].owner = NoOne
    BY DEF LogInv, LogOk
  <2>1. /\ states'[x].tracked => states'[x].cursor = stored'[x].len /\ ~stored'[x].dirty
        /\ ~states'[x].tracked => states'[x].owner = NoOne
    <3>1. /\ states[x].tracked => states[x].cursor = stored[x].len /\ ~stored[x].dirty
          /\ ~states[x].tracked => states[x].owner = NoOne
      BY DEF LogInv, LogOk
    <3> QED BY <3>1
  <2>2. Secured(x)' => entry'[x].src = stored'[x] /\ states'[x].tracked /\ states'[x].owner = NoOne
    BY <1>4 DEF LogInv, LogOk
  <2>3. ASSUME entry'[x].phase \in {"ready", "committing", "reserved"} PROVE Fresh(entry'[x].src, x)
    <3>1. CASE entry'[x] = entry[x]
      BY <2>3, <3>1 DEF LogInv, LogOk
    <3>2. CASE Turns(x, A)
      BY <2>3, <3>2 DEF LogInv, LogOk, Turns
    <3> QED BY <2>3, <3>1, <3>2, NoEntryIs DEF Effect
  <2>4. Fresh(entry'[x].src, x) => Fresh(entry[x].src, x)'
    BY DEF Fresh
  <2> QED BY <2>1, <2>2, <2>3, <2>4
<1>6. LiveInv'
  <2>1. ASSUME NEW c \in Callers
        PROVE  /\ call[c].pc = "live" => call'[c].pc = "live" /\ call'[c].id = call[c].id
               /\ call'[c].pc \in Lively => call[c].pc = call'[c].pc /\ call'[c].id = call[c].id
    <3>1. CASE c \in A
      BY <3>1 DEF ActorOk, Lively
    <3>2. CASE c \notin A
      <4>1. Same3(c)
        BY <1>1, <3>2
      <4>2. call'[c].id = call[c].id /\ (call'[c].pc = call[c].pc \/ (call[c].pc = "settle" /\ call'[c].pc = "woken"))
        BY <4>1, Aside
      <4> QED BY <4>2 DEF Lively
    <3> QED BY <3>1, <3>2
  <2>2. \A x \in Ids : live[x] # NoOne => live[x] \in Callers
    BY DEF TypeOK
  <2> QED BY <2>1, <2>2 DEF LiveInv, Lively
<1>7. ASSUME NEW x \in Ids, NEW i \in DOMAIN chain[x],
             \A c \in A : c \in chain[x][i].who => Speaks(c, x, i)
      PROVE  Kept(x, i)
  <2> SUFFICES ASSUME NEW op \in Ops, op = chain[x][i] PROVE OpOk(x, op)'
    BY DEF Kept
  <2>1. OpOk(x, op) /\ op.who \in SUBSET Callers
    BY DEF ChainInv, Ops
  <2>2. ASSUME NEW c \in op.who
        PROVE  \/ call'[c].id = x /\ Awaits(c, op)' /\ CommitOk(c, x, op)'
               \/ Same3(c) /\ (call[c].pc = "commit" /\ call[c].on => call'[c].on)
    <3>1. CASE c \in A
      BY <1>7, <3>1 DEF Speaks
    <3>2. CASE c \notin A
      <4>1. Same3(c) /\ c \in Callers /\ call[c].id = x
        BY <1>1, <2>1, <3>2 DEF OpOk
      <4>2. ASSUME call[c].pc = "commit", call[c].on PROVE call'[c].on
        <5>1. Owns(c, x) /\ x \notin G \cup R
          BY <3>2, <4>1, <4>2 DEF Owns, Owning
        <5>2. call'[c] = call[c]
          BY <3>2, <4>1, <5>1 DEF Effect
        <5> QED BY <4>2, <5>2
      <4> QED BY <4>1, <4>2
    <3> QED BY <3>1, <3>2
  <2> QED BY <1>4, <2>1, <2>2, OpKept
<1> QED BY <1>2, <1>3, <1>5, <1>6, <1>7

-----------------------------------------------------------------------------
(* What a step makes of the pool before its caller goes on.                    *)
Pooled(p, G, R) ==
  /\ p \in Pools /\ Keyed(p) /\ Cardinality(Ready(p)) <= Capacity
  /\ \A x \in Ids :
       \/ x \in G /\ p.entry[x] = NoEntry
       \/ x \in R \ G /\ p.entry[x].phase = "ready" /\ Fresh(p.entry[x].src, x)
       \/ x \notin G \cup R /\ p.entry[x] = entry[x]
  /\ \A c \in Callers : p.call[c] =
       IF call[c].id \in G THEN Freed(call[c])
       ELSE IF call[c].id \in R THEN Woken(call[c]) ELSE call[c]

(* The pool as it stands is one.                                               *)
LEMMA HereIs ==
  ASSUME TypeOK
  PROVE  /\ Here \in Pools /\ Keyed(Here)
         /\ Here.entry = entry /\ Here.order = order /\ Here.call = call
  BY DEF Here, Pools, Keyed, TypeOK

(* Nothing has been done to it yet.                                            *)
LEMMA HerePooled ==
  ASSUME TypeOK, PoolBounded
  PROVE  Pooled(Here, {}, {})
  BY HereIs DEF Pooled, PoolBounded

(* Ready entries and those nobody finished reading are nobody's.               *)
LEMMA NotOwned ==
  ASSUME CallerInv, NEW x \in Ids, entry[x].phase \in {"none", "loading", "ready"}
  PROVE  \A c \in Callers : ~Owns(c, x)
  BY DEF CallerInv, CallerOk, Owns, Owning

(* Fewer finished entries are within the capacity too.                         *)
LEMMA FewerReady ==
  ASSUME NEW p \in Pools, Keyed(p), NEW q \in Pools, Keyed(q), Ready(q) \subseteq Ready(p),
         Cardinality(Ready(p)) <= Capacity, CapacityPositive
  PROVE  Cardinality(Ready(q)) <= Capacity
<1>1. IsFiniteSet(Ready(p)) /\ IsFiniteSet(Ready(q))
  BY ReadyIsFinite
<1>2. Cardinality(Ready(q)) <= Cardinality(Ready(p))
  BY <1>1, FS_Subset
<1>3. Cardinality(Ready(p)) \in Nat /\ Cardinality(Ready(q)) \in Nat
  BY <1>1, FS_CardinalityType
<1> QED BY <1>2, <1>3 DEF CapacityPositive

(* What dropping an entry does to the pool.                                    *)
LEMMA DropPooled ==
  ASSUME TypeOK, PoolBounded, CallerInv, CapacityPositive, NEW id \in Ids
  PROVE  Pooled(Drop(Here, id), {id}, {})
<1> DEFINE q == Drop(Here, id)
<1>1. /\ Here \in Pools /\ Keyed(Here) /\ Here.entry = entry /\ Here.call = call
      /\ entry \in [Ids -> Entries]
  BY HereIs DEF TypeOK
<1>2. entry[id] = NoEntry => \A c \in Callers : call[c].id = id => ~call[c].on /\ call[c].pc # "settle"
  BY NoEntryIs DEF CallerInv, CallerOk
<1>3. /\ q \in Pools /\ Keyed(q) /\ q.entry = [entry EXCEPT ![id] = NoEntry]
      /\ \A c \in Callers : q.call[c] = IF call[c].id = id THEN Freed(call[c]) ELSE call[c]
  <2>1. Here.entry[id] = NoEntry =>
          \A c \in Callers : Here.call[c].id = id => ~Here.call[c].on /\ Here.call[c].pc # "settle"
    BY <1>1, <1>2
  <2>2. /\ q \in Pools /\ Keyed(q) /\ q.entry = [Here.entry EXCEPT ![id] = NoEntry]
        /\ \A c \in Callers : q.call[c] =
             IF Here.call[c].id = id THEN Freed(Here.call[c]) ELSE Here.call[c]
    BY <1>1, <2>1, DropIs
  <2> HIDE DEF q
  <2> QED BY <1>1, <2>2
<1> HIDE DEF q
<1>4. Ready(q) \subseteq Ready(Here)
  BY <1>1, <1>3, NoEntryIs DEF Ready
<1>5. Cardinality(Ready(q)) <= Capacity
  BY <1>1, <1>3, <1>4, FewerReady DEF PoolBounded
<1>6. Pooled(q, {id}, {})
  BY <1>1, <1>3, <1>5 DEF Pooled
<1> QED BY <1>6 DEF q

(* What touching a finished entry does to the pool.                            *)
LEMMA TouchPooled ==
  ASSUME TypeOK, PoolBounded, CallerInv, CapacityPositive, NEW id \in Ids, entry[id].phase = "ready"
  PROVE  \E G \in SUBSET Ready(Here) : Pooled(Touch(Here, id), G, {})
<1> DEFINE q == Touch(Here, id)
<1>1. /\ Here \in Pools /\ Keyed(Here) /\ Here.entry = entry /\ Here.call = call
      /\ call \in [Callers -> Calls]
  BY HereIs DEF TypeOK
<1>2. Cardinality(Ready(Here)) <= Capacity + 1
  <2>1. Cardinality(Ready(Here)) \in Nat
    BY <1>1, ReadyIsFinite, FS_CardinalityType
  <2> QED BY <2>1 DEF PoolBounded, CapacityPositive
<1>3. /\ q \in Pools /\ Keyed(q) /\ Cardinality(Ready(q)) <= Capacity
      /\ \E G \in SUBSET Ready(Here) : Evicted(Here, G, q)
  BY <1>1, <1>2, TouchIs
<1>4. PICK G \in SUBSET Ready(Here) : Evicted(Here, G, q)
  BY <1>3
<1> HIDE DEF q
<1>5. ASSUME NEW c \in Callers, call[c].id \in G PROVE [call[c] EXCEPT !.on = FALSE] = Freed(call[c])
  <2>1. call[c] \in Calls /\ entry[call[c].id].phase = "ready"
    BY <1>1, <1>5 DEF Ready
  <2>2. call[c].pc # "settle"
    BY <2>1 DEF CallerInv, CallerOk
  <2> QED BY <2>1, <2>2, CallParts
<1>6. Pooled(q, G, {})
  BY <1>1, <1>3, <1>4, <1>5 DEF Pooled, Evicted
<1> QED BY <1>6 DEF q

(* What finishing an entry, or giving it back, does to the pool.               *)
LEMMA ReadyPooled ==
  ASSUME TypeOK, CallerInv, CapacityPositive, NEW id \in Ids,
         NEW p \in Pools, Keyed(p), Cardinality(Ready(p)) <= Capacity, p.call = call,
         \A x \in Ids : x # id => p.entry[x] = entry[x],
         p.entry[id].phase \in {"loading", "committing", "reserved"},
         Fresh(p.entry[id].src, id)
  PROVE  \E G \in SUBSET (Ready(Here) \cup {id}) : Pooled(MakeReady(p, id), G, {id})
<1> DEFINE q == MakeReady(p, id)
<1>1. /\ Here.entry = entry /\ call \in [Callers -> Calls]
  BY HereIs DEF TypeOK
<1>2. Ready(p) \subseteq Ready(Here) \cup {id}
  BY <1>1 DEF Ready
<1>3. /\ q \in Pools /\ Keyed(q) /\ Cardinality(Ready(q)) <= Capacity
      /\ \E G \in SUBSET (Ready(p) \cup {id}) :
           /\ q.entry = [x \in Ids |->
                IF x \in G THEN NoEntry
                ELSE IF x = id THEN [phase |-> "ready", src |-> p.entry[id].src] ELSE p.entry[x]]
           /\ \A c \in Callers : q.call[c] =
                IF p.call[c].id \in G
                  THEN [(IF p.call[c].id = id THEN Woken(p.call[c]) ELSE p.call[c]) EXCEPT !.on = FALSE]
                  ELSE IF p.call[c].id = id THEN Woken(p.call[c]) ELSE p.call[c]
  BY MakeReadyIs
<1> HIDE DEF q
<1>4. PICK G \in SUBSET (Ready(p) \cup {id}) :
           /\ q.entry = [x \in Ids |->
                IF x \in G THEN NoEntry
                ELSE IF x = id THEN [phase |-> "ready", src |-> p.entry[id].src] ELSE p.entry[x]]
           /\ \A c \in Callers : q.call[c] =
                IF call[c].id \in G
                  THEN [(IF call[c].id = id THEN Woken(call[c]) ELSE call[c]) EXCEPT !.on = FALSE]
                  ELSE IF call[c].id = id THEN Woken(call[c]) ELSE call[c]
  BY <1>3
<1>5. ASSUME NEW c \in Callers, call[c].id \in G
      PROVE  [(IF call[c].id = id THEN Woken(call[c]) ELSE call[c]) EXCEPT !.on = FALSE] = Freed(call[c])
  <2>1. call[c] \in Calls
    BY <1>1
  <2>2. CASE call[c].id = id
    BY <2>1, <2>2, CallParts
  <2>3. CASE call[c].id # id
    <3>1. entry[call[c].id].phase = "ready"
      BY <1>1, <1>2, <1>5, <2>3 DEF Ready
    <3>2. call[c].pc # "settle"
      BY <3>1 DEF CallerInv, CallerOk
    <3> QED BY <2>1, <2>3, <3>2, CallParts
  <2> QED BY <2>2, <2>3
<1>6. \A x \in Ids :
       \/ x \in G /\ q.entry[x] = NoEntry
       \/ x \in {id} \ G /\ q.entry[x].phase = "ready" /\ Fresh(q.entry[x].src, x)
       \/ x \notin G \cup {id} /\ q.entry[x] = entry[x]
  BY <1>4
<1>7. \A c \in Callers : q.call[c] =
       IF call[c].id \in G THEN Freed(call[c])
       ELSE IF call[c].id \in {id} THEN Woken(call[c]) ELSE call[c]
  BY <1>4, <1>5
<1>8. Pooled(q, G, {id})
  BY <1>3, <1>6, <1>7 DEF Pooled
<1> QED BY <1>2, <1>8 DEF q

(* A caller that gives up, has its answer or starts again.                     *)
Out(r, id) ==
  /\ r \in Calls /\ r.id = id /\ ~r.on /\ r.got = "pending" /\ r.pc \in {"over", "waiting", "go"}
  /\ r.aborted => r.pc = "over"

Leaves(p, c, q) ==
  /\ q \in Pools /\ Keyed(q) /\ q.entry = p.entry
  /\ \E r : /\ q.call = [p.call EXCEPT ![c] = r]
            /\ Out(r, call[c].id)
            /\ call[c].aborted => r = Over(c)

(* A caller that has made no call.                                             *)
LEMMA IdleIs ==
  ASSUME HomeIsStored
  PROVE  /\ Idle \in Calls
         /\ Idle.pc = "idle" /\ Idle.kind = "none" /\ ~Idle.on /\ Idle.src = NoSource
         /\ Idle.got = "pending" /\ ~Idle.aborted /\ ~Idle.touched
<1>1. (CHOOSE i \in Ids : TRUE) \in Ids
  BY DEF HomeIsStored
<1>2. NoSource \in Log
  BY DEF NoSource, Log
<1> QED BY <1>1, <1>2 DEF Idle, Calls, Pending, Settled

(* A call that has settled.                                                    *)
LEMMA OverIs ==
  ASSUME TypeOK, HomeIsStored, NEW c \in Callers
  PROVE  /\ Over(c) \in Calls /\ Out(Over(c), call[c].id)
         /\ Over(c).pc = "over" /\ Over(c).id = call[c].id /\ ~Over(c).on
         /\ Over(c).aborted = call[c].aborted
<1>1. call[c].id \in Ids /\ call[c].aborted \in BOOLEAN
  BY DEF TypeOK, Calls
<1>2. Idle \in Calls /\ ~Idle.on /\ Idle.got = "pending"
  BY IdleIs
<1>3. /\ Over(c) \in Calls
      /\ Over(c).pc = "over" /\ Over(c).id = call[c].id /\ Over(c).on = Idle.on
      /\ Over(c).aborted = call[c].aborted /\ Over(c).got = Idle.got
  BY <1>1, <1>2 DEF Over, Calls, Settled
<1> QED BY <1>2, <1>3 DEF Out

(* A call at its beginning.                                                    *)
LEMMA EnteringIs ==
  ASSUME TypeOK, HomeIsStored, NEW id \in Ids, NEW kind \in {"none", "prepare", "load", "inspect", "append"}
  PROVE  Out(Entering(kind, id), id)
<1> DEFINE pc == IF retiring[id] THEN "waiting" ELSE "go"
<1>1. Idle \in Calls /\ ~Idle.on /\ ~Idle.aborted /\ Idle.got = "pending"
  BY IdleIs
<1>2. pc \in Pending \cup Settled /\ pc \in {"waiting", "go"} /\ Entering(kind, id) = [Idle EXCEPT !.pc = pc, !.kind = kind, !.id = id]
  BY DEF Entering, Pending
<1> HIDE DEF pc
<1>3. /\ Entering(kind, id) \in Calls
      /\ Entering(kind, id).pc = pc /\ Entering(kind, id).id = id
      /\ Entering(kind, id).on = Idle.on /\ Entering(kind, id).aborted = Idle.aborted
      /\ Entering(kind, id).got = Idle.got
  BY <1>1, <1>2 DEF Calls
<1> QED BY <1>1, <1>2, <1>3 DEF Out

(* Settling a call, or starting it anew, leaves the pool to the others.        *)
LEMMA LeavesIs ==
  ASSUME TypeOK, HomeIsStored, NEW p \in Pools, Keyed(p), NEW c \in Callers
  PROVE  Leaves(p, c, Finish(p, c)) /\ Leaves(p, c, Retry(p, c))
<1>1. /\ p.entry \in [Ids -> Entries] /\ p.order \in Seq(Ids) /\ p.call \in [Callers -> Calls]
      /\ p = [entry |-> p.entry, order |-> p.order, call |-> p.call]
  BY DEF Pools
<1>2. ASSUME NEW r, Out(r, call[c].id), call[c].aborted => r = Over(c)
      PROVE  Leaves(p, c, [p EXCEPT !.call[c] = r])
  <2> DEFINE q == [p EXCEPT !.call[c] = r]
  <2>1. /\ q.entry = p.entry /\ q.order = p.order /\ q.call = [p.call EXCEPT ![c] = r]
        /\ q = [entry |-> q.entry, order |-> q.order, call |-> q.call]
    BY <1>1
  <2> HIDE DEF q
  <2>2. q \in Pools
    BY <1>1, <1>2, <2>1 DEF Pools, Out
  <2>3. Keyed(q)
    BY <2>1 DEF Keyed
  <2>4. Leaves(p, c, q)
    BY <1>2, <2>1, <2>2, <2>3 DEF Leaves
  <2> QED BY <2>4 DEF q
<1>3. Leaves(p, c, Finish(p, c))
  BY <1>2, OverIs DEF Finish
<1>4. call[c] \in Calls
  BY DEF TypeOK
<1>5. Out(Entering(call[c].kind, call[c].id), call[c].id)
  BY <1>4, EnteringIs DEF Calls
<1>6. Leaves(p, c, Retry(p, c))
  BY <1>2, <1>3, <1>5 DEF Retry
<1> QED BY <1>3, <1>6

(* A caller no operation of the chain speaks for, except one it aborted.       *)
Free(c) ==
  \/ call[c].pc \in {"idle", "waiting", "go", "loaded", "settle", "woken", "reserved", "held"}
  \/ call[c].pc \in {"commit", "check", "append"} /\ call[c].got # "pending"

(* An operation that names a free caller was aborted in the queue.             *)
LEMMA FreeIs ==
  ASSUME TypeOK, ChainInv, NEW c \in Callers, Free(c),
         NEW x \in Ids, NEW i \in DOMAIN chain[x], c \in chain[x][i].who
  PROVE  /\ call[c].id = x /\ call[c].aborted
         /\ chain[x][i].at = "queued" /\ chain[x][i].kind \in {"commit", "check"}
<1>1. chain[x][i] \in Ops
  BY ChainIs
<1>2. call[c].id = x /\ Awaits(c, chain[x][i])
  BY DEF ChainInv, OpOk
<1> QED BY <1>1, <1>2 DEF Awaits, Ops, Free

(* No operation names a caller that has nothing queued.                        *)
LEMMA FreeNow ==
  ASSUME TypeOK, ChainInv, CallerInv, NEW c \in Callers,
         call[c].pc \in {"idle", "waiting", "go", "loaded", "settle", "woken", "reserved", "held"},
         NEW x \in Ids, NEW i \in DOMAIN chain[x]
  PROVE  c \notin chain[x][i].who
<1>1. ~call[c].aborted
  BY DEF CallerInv, CallerOk
<1> QED BY <1>1, FreeIs DEF Free

(* An operation may outlive the call it speaks for.                            *)
LEMMA LeftAlone ==
  ASSUME TypeOK, HomeIsStored, ChainInv, NEW c \in Callers,
         \/ Free(c) /\ (call[c].aborted => call'[c] = Over(c))
         \/ call[c].pc = "loading" /\ call'[c] = Over(c),
         NEW x \in Ids, NEW i \in DOMAIN chain[x], c \in chain[x][i].who
  PROVE  Speaks(c, x, i)
<1>1. chain[x][i] \in Ops
  BY ChainIs
<1>2. call[c].id = x /\ Awaits(c, chain[x][i])
  BY DEF ChainInv, OpOk
<1>3. call'[c] = Over(c)
  BY FreeIs
<1>4. call'[c].pc = "over" /\ call'[c].id = x /\ call'[c].aborted = call[c].aborted
  BY <1>2, <1>3, OverIs
<1>5. chain[x][i].kind = "load" \/ /\ call[c].aborted /\ chain[x][i].at = "queued"
                                   /\ chain[x][i].kind \in {"commit", "check"}
  <2>1. CASE Free(c)
    BY <2>1, FreeIs
  <2>2. CASE call[c].pc = "loading"
    BY <1>1, <1>2, <2>2 DEF Awaits, Ops
  <2> QED BY <2>1, <2>2
<1>6. ASSUME NEW op \in Ops, op = chain[x][i] PROVE Awaits(c, op)' /\ CommitOk(c, x, op)'
  BY <1>4, <1>5, <1>6 DEF Awaits, CommitOk
<1> QED BY <1>4, <1>6 DEF Speaks

(* The types follow from those of the pool.                                    *)
LEMMA PoolTyped ==
  ASSUME TypeOK, NEW q \in Pools, Keyed(q), Becomes(q), Cardinality(Ready(q)) <= Capacity,
         stored' = stored, states' = states, live' \in [Ids -> Callers \cup {NoOne}],
         retiring' \in [Ids -> BOOLEAN], foreign' = foreign, chain' \in [Ids -> Seq(Ops)]
  PROVE  TypeOK' /\ PoolBounded'
<1>1. q.entry = entry' /\ q.order = order' /\ q.call = call'
  BY DEF Becomes
<1>2. TypeOK'
  BY <1>1 DEF TypeOK, Pools, Keyed
<1>3. Ready(Here)' = Ready(q)
  BY <1>1 DEF Ready, Here
<1> QED BY <1>2, <1>3 DEF PoolBounded

(* The step of a caller that leaves the pool to the others.                    *)
LEMMA CallerLeaves ==
  ASSUME PoolInv, HomeIsStored, NEW c \in Callers, NEW p, NEW q,
         NEW G \in SUBSET Ids, NEW R \in SUBSET Ids, Pooled(p, G, R), Leaves(p, c, q), Becomes(q),
         UNCHANGED <<stored, states, chain, live, retiring, foreign>>,
         \A d \in Callers \ {c} : \A x \in G \cup R : ~Owns(d, x),
         \A d \in Callers \ {c} : call[d].on /\ call[d].id \in R \ G => call[d].pc # "loading",
         Free(c) \/ (call[c].pc = "loading" /\ call'[c] = Over(c))
  PROVE  PoolInv'
<1>1. /\ TypeOK /\ CallerInv /\ OwnerInv /\ ChainInv /\ LoadInv /\ LogInv /\ LiveInv
  BY DEF PoolInv
<1>2. /\ q \in Pools /\ Keyed(q) /\ q.entry = p.entry /\ p \in Pools
      /\ entry' = q.entry /\ order' = q.order /\ call' = q.call
  BY DEF Leaves, Becomes, Pooled
<1>3. PICK r : /\ q.call = [p.call EXCEPT ![c] = r] /\ Out(r, call[c].id)
               /\ call[c].aborted => r = Over(c)
  BY DEF Leaves
<1>4. /\ call'[c] = r /\ \A d \in Callers \ {c} : call'[d] = p.call[d]
  BY <1>2, <1>3 DEF Pools
<1>5. Cardinality(Ready(q)) <= Capacity
  <2>1. Ready(q) = Ready(p)
    BY <1>2 DEF Ready
  <2> QED BY <2>1 DEF Pooled
<1>6. TypeOK' /\ PoolBounded'
  BY <1>1, <1>2, <1>5, PoolTyped DEF TypeOK
<1>7. Effect(G, R, {c})
  BY <1>2, <1>4 DEF Effect, Pooled
<1>8. ActorOk(c, G, R, {c})
  <2>1. /\ call'[c].pc \in {"over", "waiting", "go"} /\ ~call'[c].on /\ call'[c].got = "pending"
        /\ call'[c].aborted => call'[c].pc = "over"
    BY <1>3, <1>4 DEF Out
  <2>2. CallerOk(c)'
    BY <2>1 DEF CallerOk
  <2>3. call[c].pc \notin Lively
    BY DEF Free, Lively
  <2> QED BY <2>1, <2>2, <2>3 DEF ActorOk, Lively, Owns
<1>9. /\ CallerInv' /\ OwnerInv' /\ LogInv' /\ LiveInv'
      /\ \A x \in Ids : \A i \in DOMAIN chain[x] :
              (\A d \in {c} : d \in chain[x][i].who => Speaks(d, x, i)) => Kept(x, i)
  <2>1. {c} \in SUBSET Callers /\ (\A d \in {c} : ActorOk(d, G, R, {c}))
    BY <1>8
  <2>2. stored' = stored /\ states' = states /\ live' = live
    OBVIOUS
  <2> QED BY <1>1, <1>6, <1>7, <2>1, <2>2, PoolKept
<1>10. \A x \in Ids : \A i \in DOMAIN chain[x] : Kept(x, i)
  BY <1>1, <1>3, <1>4, <1>9, LeftAlone
<1>11. NobodyJoins
  <2>1. \A x \in Ids : entry'[x].phase = "loading" => entry[x].phase = "loading"
    BY <1>2, NoEntryIs DEF Pooled
  <2>2. ASSUME NEW d \in Callers, call'[d].pc = "loading", call'[d].on
        PROVE  call[d].pc = "loading" /\ call[d].on /\ call'[d].id = call[d].id
    <3>1. d # c
      BY <1>3, <1>4, <2>2 DEF Out
    <3>2. Same3(d)
      BY <1>7, <3>1 DEF Effect, Same3
    <3> QED BY <1>1, <2>2, <3>2, Aside
  <2> QED BY <2>1, <2>2 DEF NobodyJoins
<1>12. ChainInv' /\ LoadInv'
  BY <1>1, <1>6, <1>10, <1>11, ChainSame
<1> QED BY <1>6, <1>9, <1>12 DEF PoolInv

(* A finished call is over.                                                    *)
LEMMA FinishedIs ==
  ASSUME NEW p \in Pools, NEW c \in Callers, Becomes(Finish(p, c))
  PROVE  call'[c] = Over(c)
<1>1. Finish(p, c).call = [p.call EXCEPT ![c] = Over(c)] /\ p.call \in [Callers -> Calls]
  BY DEF Finish, Pools
<1> QED BY <1>1 DEF Becomes

(* A caller leaves, and the pool stays as it is.                               *)
LEMMA LeavesPlain ==
  ASSUME PoolInv, HomeIsStored, NEW c \in Callers,
         UNCHANGED <<stored, states, chain, live, retiring, foreign>>,
         \/ Free(c) /\ (Becomes(Finish(Here, c)) \/ Becomes(Retry(Here, c)))
         \/ call[c].pc = "loading" /\ Becomes(Finish(Here, c))
  PROVE  PoolInv'
<1>1. TypeOK /\ PoolBounded
  BY DEF PoolInv
<1>2. Here \in Pools /\ Keyed(Here) /\ Pooled(Here, {}, {})
  BY <1>1, HereIs, HerePooled
<1>3. Leaves(Here, c, Finish(Here, c)) /\ Leaves(Here, c, Retry(Here, c))
  BY <1>1, <1>2, LeavesIs
<1>4. Becomes(Finish(Here, c)) => call'[c] = Over(c)
  BY <1>2, FinishedIs
<1>5. {} \in SUBSET Ids
  OBVIOUS
<1>6. CASE Becomes(Finish(Here, c))
  BY <1>2, <1>3, <1>4, <1>5, <1>6, CallerLeaves
<1>7. CASE Becomes(Retry(Here, c)) /\ Free(c)
  BY <1>2, <1>3, <1>5, <1>7, CallerLeaves
<1> QED BY <1>6, <1>7

(* A caller leaves, and its entry goes with it.                                *)
LEMMA LeavesDropping ==
  ASSUME PoolInv, HomeIsStored, CapacityPositive, NEW c \in Callers, NEW id \in Ids,
         UNCHANGED <<stored, states, chain, live, retiring, foreign>>,
         Free(c), Becomes(Finish(Drop(Here, id), c)) \/ Becomes(Retry(Drop(Here, id), c)),
         \A d \in Callers \ {c} : ~Owns(d, id)
  PROVE  PoolInv'
<1>1. TypeOK /\ PoolBounded /\ CallerInv
  BY DEF PoolInv
<1>2. Pooled(Drop(Here, id), {id}, {})
  BY <1>1, DropPooled
<1>3. Drop(Here, id) \in Pools /\ Keyed(Drop(Here, id))
  BY <1>2 DEF Pooled
<1>4. Leaves(Drop(Here, id), c, Finish(Drop(Here, id), c)) /\ Leaves(Drop(Here, id), c, Retry(Drop(Here, id), c))
  BY <1>1, <1>3, LeavesIs
<1>5. {} \in SUBSET Ids /\ {id} \in SUBSET Ids
  OBVIOUS
<1>6. CASE Becomes(Finish(Drop(Here, id), c))
  BY <1>2, <1>4, <1>5, <1>6, CallerLeaves
<1>7. CASE Becomes(Retry(Drop(Here, id), c))
  BY <1>2, <1>4, <1>5, <1>7, CallerLeaves
<1> QED BY <1>6, <1>7

(* An owned entry is not somebody else's.                                      *)
LEMMA OthersDoNot ==
  ASSUME OwnerInv, NEW c \in Callers, NEW id \in Ids, Owns(c, id)
  PROVE  \A d \in Callers \ {c} : ~Owns(d, id)
  BY DEF OwnerInv

(* A caller leaves, and gives its entry back.                                  *)
LEMMA LeavesReady ==
  ASSUME PoolInv, HomeIsStored, CapacityPositive, NEW c \in Callers, NEW id \in Ids,
         UNCHANGED <<stored, states, chain, live, retiring, foreign>>,
         Free(c), Becomes(Finish(MakeReady(Here, id), c)), Owns(c, id)
  PROVE  PoolInv'
<1>1. TypeOK /\ PoolBounded /\ CallerInv /\ OwnerInv /\ LogInv
  BY DEF PoolInv
<1>2. entry[id].phase \in {"committing", "reserved"} /\ Fresh(entry[id].src, id)
  BY <1>1 DEF CallerInv, CallerOk, Owns, Owning, LogInv, LogOk
<1>3. Here \in Pools /\ Keyed(Here) /\ Here.entry = entry /\ Here.call = call
      /\ Cardinality(Ready(Here)) <= Capacity
  BY <1>1, HereIs DEF PoolBounded
<1>4. PICK G \in SUBSET (Ready(Here) \cup {id}) : Pooled(MakeReady(Here, id), G, {id})
  BY <1>1, <1>2, <1>3, ReadyPooled
<1>5. MakeReady(Here, id) \in Pools /\ Keyed(MakeReady(Here, id))
  BY <1>4 DEF Pooled
<1>6. Leaves(MakeReady(Here, id), c, Finish(MakeReady(Here, id), c))
  BY <1>1, <1>5, LeavesIs
<1>7. G \in SUBSET Ids /\ {id} \in SUBSET Ids
  BY <1>4 DEF Ready
<1>8. \A d \in Callers \ {c} : \A x \in G \cup {id} : ~Owns(d, x)
  <2>1. ASSUME NEW d \in Callers \ {c}, NEW x \in G, x # id PROVE ~Owns(d, x)
    <3>1. x \in Ids /\ entry[x].phase = "ready"
      BY <1>3, <2>1 DEF Ready
    <3> QED BY <1>1, <3>1, NotOwned
  <2>2. \A d \in Callers \ {c} : ~Owns(d, id)
    BY <1>1, OthersDoNot
  <2> QED BY <2>1, <2>2
<1>9. \A d \in Callers \ {c} : call[d].on /\ call[d].id \in {id} \ G => call[d].pc # "loading"
  BY <1>1, <1>2 DEF CallerInv, CallerOk
<1> QED BY <1>4, <1>6, <1>7, <1>8, <1>9, CallerLeaves

-----------------------------------------------------------------------------
(* The callers' steps.                                                         *)

(* A call that finds the Session live is answered with it.                     *)
LEMMA StepFindsLive ==
  ASSUME PoolInv, HomeIsStored, NEW c \in Callers, FindsLive(c)
  PROVE  PoolInv'
  BY LeavesPlain DEF FindsLive, Free

(* A call whose entry went away starts anew, or ends.                          *)
LEMMA StepReserveGone ==
  ASSUME PoolInv, HomeIsStored, NEW c \in Callers, ReserveGone(c)
  PROVE  PoolInv'
  BY LeavesPlain DEF ReserveGone, Reserving, Free

(* The public append settles.                                                  *)
LEMMA StepAppendReturns ==
  ASSUME PoolInv, HomeIsStored, NEW c \in Callers, AppendReturns(c)
  PROVE  PoolInv'
  BY LeavesPlain DEF AppendReturns, Free

(* inspect() after the revision check.                                         *)
LEMMA StepCheckReturns ==
  ASSUME PoolInv, HomeIsStored, CapacityPositive, NEW c \in Callers, CheckReturns(c)
  PROVE  PoolInv'
<1>1. Free(c) /\ UNCHANGED <<stored, states, chain, live, retiring, foreign>> /\ call[c].id \in Ids
  BY DEF CheckReturns, Free, PoolInv, TypeOK, Calls
<1>2. CASE Becomes(Finish(Here, c)) \/ Becomes(Retry(Here, c))
  BY <1>1, <1>2, LeavesPlain
<1>3. CASE entry[call[c].id].phase = "ready" /\ Becomes(Retry(Drop(Here, call[c].id), c))
  <2>1. \A d \in Callers \ {c} : ~Owns(d, call[c].id)
    BY <1>1, <1>3, NotOwned DEF PoolInv
  <2> QED BY <1>1, <1>3, <2>1, LeavesDropping
<1> QED BY <1>2, <1>3 DEF CheckReturns

(* A holder lets go of its reservation.                                        *)
LEMMA StepRelease ==
  ASSUME PoolInv, HomeIsStored, CapacityPositive, NEW c \in Callers, Release(c)
  PROVE  PoolInv'
<1>1. Free(c) /\ UNCHANGED <<stored, states, chain, live, retiring, foreign>> /\ call[c].id \in Ids
  BY DEF Release, Free, PoolInv, TypeOK, Calls
<1>2. call[c].on => Owns(c, call[c].id)
  BY DEF Release, Owns, Owning
<1>3. call[c].on => \A d \in Callers \ {c} : ~Owns(d, call[c].id)
  BY <1>1, <1>2, OthersDoNot DEF PoolInv
<1>4. CASE ~call[c].on
  BY <1>1, <1>4, LeavesPlain DEF Release
<1>5. CASE call[c].on /\ Reusable(c)
  BY <1>1, <1>2, <1>5, LeavesReady DEF Release
<1>6. CASE call[c].on /\ ~Reusable(c)
  BY <1>1, <1>3, <1>6, LeavesDropping DEF Release
<1> QED BY <1>4, <1>5, <1>6

(* A caller's record changes, and perhaps the phase of an entry with it.       *)
CallerTo(c, r) ==
  /\ call' = [call EXCEPT ![c] = r]
  /\ order' = order
  /\ entry' \in [Ids -> Entries]
  /\ \A x \in Ids : entry'[x] = entry[x] \/ (Turns(x, {c}) /\ entry[x].phase # "none")
  /\ UNCHANGED <<stored, states, live, retiring, foreign>>

(* The step of one caller, which may take its entry further.                   *)
LEMMA CallerTurns ==
  ASSUME PoolInv, CapacityPositive, NEW c \in Callers, NEW r \in Calls, CallerTo(c, r),
         ActorOk(c, {}, {}, {c}), chain' \in [Ids -> Seq(Ops)]
  PROVE  /\ TypeOK' /\ PoolBounded' /\ CallerInv' /\ OwnerInv' /\ LogInv' /\ LiveInv'
         /\ r.pc # "loading" \/ ~r.on => NobodyJoins
         /\ \A x \in Ids : \A i \in DOMAIN chain[x] :
              (c \in chain[x][i].who => Speaks(c, x, i)) => Kept(x, i)
<1>1. /\ TypeOK /\ CallerInv /\ OwnerInv /\ ChainInv /\ LogInv /\ LiveInv /\ PoolBounded
      /\ call \in [Callers -> Calls] /\ entry \in [Ids -> Entries]
  BY DEF PoolInv, TypeOK
<1>2. call'[c] = r /\ \A d \in Callers \ {c} : call'[d] = call[d]
  BY <1>1 DEF CallerTo
<1> DEFINE q == [entry |-> entry', order |-> order', call |-> call']
<1>3. q.entry = entry' /\ q.order = order' /\ q.call = call'
  OBVIOUS
<1>4. q \in Pools
  BY <1>1 DEF CallerTo, Pools, TypeOK
<1> HIDE DEF q
<1>5. Keyed(q)
  <2>1. \A x \in Ids : entry'[x] # NoEntry <=> entry[x] # NoEntry
    BY <1>1, NoEntryIs, PhaseTells DEF CallerTo, Turns
  <2> QED BY <1>1, <1>3, <2>1 DEF Keyed, CallerTo, TypeOK
<1>6. Cardinality(Ready(q)) <= Capacity
  <2>1. Here \in Pools /\ Keyed(Here) /\ Here.entry = entry
    BY <1>1, HereIs
  <2>2. Ready(q) \subseteq Ready(Here)
    BY <1>3, <2>1 DEF Ready, CallerTo, Turns
  <2> QED BY <1>1, <1>4, <1>5, <2>1, <2>2, FewerReady DEF PoolBounded
<1>7. TypeOK'
  BY <1>1, <1>3, <1>4, <1>5 DEF TypeOK, Pools, Keyed, CallerTo
<1>8. PoolBounded'
  <2>1. Ready(Here)' = Ready(q)
    BY <1>3 DEF Ready, Here
  <2> QED BY <1>6, <2>1 DEF PoolBounded
<1>9. Effect({}, {}, {c})
  BY <1>2 DEF Effect, CallerTo
<1>10. /\ CallerInv' /\ OwnerInv' /\ LogInv' /\ LiveInv'
       /\ \A x \in Ids : \A i \in DOMAIN chain[x] :
              (\A d \in {c} : d \in chain[x][i].who => Speaks(d, x, i)) => Kept(x, i)
  <2>1. {c} \in SUBSET Callers /\ {} \in SUBSET Ids /\ (\A d \in {c} : ActorOk(d, {}, {}, {c}))
    OBVIOUS
  <2>2. stored' = stored /\ states' = states /\ live' = live
    BY DEF CallerTo
  <2> QED BY <1>1, <1>7, <1>9, <2>1, <2>2, PoolKept
<1>11. r.pc # "loading" \/ ~r.on => NobodyJoins
  BY <1>2 DEF NobodyJoins, CallerTo, Turns
<1> QED BY <1>7, <1>8, <1>10, <1>11

(* One that queues nothing.                                                    *)
LEMMA TurnsQuietly ==
  ASSUME PoolInv, CapacityPositive, NEW c \in Callers, NEW r \in Calls, CallerTo(c, r),
         ActorOk(c, {}, {}, {c}), chain' = chain, r.pc # "loading" \/ ~r.on,
         \A x \in Ids : \A i \in DOMAIN chain[x] : c \in chain[x][i].who => Speaks(c, x, i)
  PROVE  PoolInv'
<1>1. TypeOK /\ ChainInv /\ LoadInv /\ chain' \in [Ids -> Seq(Ops)]
  BY DEF PoolInv, TypeOK
<1>2. /\ TypeOK' /\ PoolBounded' /\ CallerInv' /\ OwnerInv' /\ LogInv' /\ LiveInv'
      /\ NobodyJoins
      /\ \A x \in Ids : \A i \in DOMAIN chain[x] :
           (c \in chain[x][i].who => Speaks(c, x, i)) => Kept(x, i)
  BY <1>1, CallerTurns
<1>3. ChainInv' /\ LoadInv'
  BY <1>1, <1>2, ChainSame
<1> QED BY <1>2, <1>3 DEF PoolInv

(* One that queues an operation of its own.                                    *)
LEMMA TurnsAndQueues ==
  ASSUME PoolInv, CapacityPositive, NEW c \in Callers, NEW r \in Calls, CallerTo(c, r),
         ActorOk(c, {}, {}, {c}), r.pc # "loading" \/ ~r.on,
         NEW id \in Ids, NEW op \in Ops, chain' = Push(id, op),
         op.kind # "load", op.at = "queued", op.who = {c}, OpOk(id, op)',
         \A x \in Ids : \A i \in DOMAIN chain[x] : c \notin chain[x][i].who
  PROVE  PoolInv'
<1>1. TypeOK /\ ChainInv /\ LoadInv
  BY DEF PoolInv
<1>2. chain' \in [Ids -> Seq(Ops)]
  BY <1>1, PushIs
<1>3. /\ TypeOK' /\ PoolBounded' /\ CallerInv' /\ OwnerInv' /\ LogInv' /\ LiveInv'
      /\ NobodyJoins
      /\ \A x \in Ids : \A i \in DOMAIN chain[x] :
           (c \in chain[x][i].who => Speaks(c, x, i)) => Kept(x, i)
  BY <1>2, CallerTurns
<1>4. ChainInv' /\ LoadInv'
  BY <1>1, <1>3, ChainPushed
<1> QED BY <1>3, <1>4 DEF PoolInv

(* A fresh operation.                                                          *)
LEMMA OpIs ==
  ASSUME NEW kind \in {"load", "commit", "check", "append", "seed", "forget"}, NEW c \in Callers
  PROVE  /\ Op(kind, {c}) \in Ops
         /\ Op(kind, {c}).kind = kind /\ Op(kind, {c}).who = {c} /\ Op(kind, {c}).at = "queued"
  BY DEF Op, Ops, NoSource, Log

(* A fresh operation with a source, or with a sequence number.                 *)
LEMMA OpWith ==
  ASSUME NEW op \in Ops
  PROVE  /\ \A src \in Log : /\ [op EXCEPT !.src = src] \in Ops /\ [op EXCEPT !.src = src].kind = op.kind
                             /\ [op EXCEPT !.src = src].who = op.who /\ [op EXCEPT !.src = src].at = op.at
                             /\ [op EXCEPT !.src = src].src = src
         /\ \A seq \in Int : /\ [op EXCEPT !.seq = seq] \in Ops /\ [op EXCEPT !.seq = seq].kind = op.kind
                             /\ [op EXCEPT !.seq = seq].who = op.who /\ [op EXCEPT !.seq = seq].at = op.at
                             /\ [op EXCEPT !.seq = seq].seq = seq
  BY DEF Ops

(* prepare(), load() or inspect() is called.                                   *)
LEMMA StepCall ==
  ASSUME PoolInv, HomeIsStored, CapacityPositive, NEW c \in Callers,
         NEW kind \in {"prepare", "load", "inspect"}, NEW id \in Ids, Call(c, kind, id)
  PROVE  PoolInv'
<1>1. TypeOK /\ ChainInv /\ CallerInv /\ call[c].pc = "idle"
  BY DEF PoolInv, Call
<1>2. Out(Entering(kind, id), id)
  BY <1>1, EnteringIs
<1>3. CallerTo(c, Entering(kind, id)) /\ call'[c] = Entering(kind, id)
  BY <1>1 DEF Call, CallerTo, TypeOK
<1>4. Out(call'[c], id) /\ call'[c] \in Calls
  BY <1>2, <1>3 DEF Out
<1>5. ActorOk(c, {}, {}, {c})
  <2>1. CallerOk(c)'
    BY <1>4 DEF Out, CallerOk
  <2> QED BY <1>1, <1>4, <2>1 DEF Out, ActorOk, Owns, Lively
<1>6. \A x \in Ids : \A i \in DOMAIN chain[x] : c \notin chain[x][i].who
  BY <1>1, FreeNow
<1>7. Entering(kind, id).pc # "loading" /\ Entering(kind, id) \in Calls /\ chain' = chain
  BY <1>2 DEF Out, Call
<1> QED BY <1>3, <1>5, <1>6, <1>7, TurnsQuietly

(* append() is called, and queues at once.                                     *)
LEMMA StepCallAppend ==
  ASSUME PoolInv, HomeIsStored, CapacityPositive, NEW c \in Callers,
         NEW id \in Ids, NEW seq \in Int, CallAppend(c, id, seq)
  PROVE  PoolInv'
<1> DEFINE r == [Idle EXCEPT !.kind = "append", !.id = id, !.pc = "append"]
           op == [Op("append", {c}) EXCEPT !.seq = seq]
<1>1. TypeOK /\ ChainInv /\ CallerInv /\ call[c].pc = "idle"
  BY DEF PoolInv, CallAppend
<1>2. /\ r \in Calls /\ r.pc = "append" /\ r.id = id /\ r.on = Idle.on
      /\ r.aborted = Idle.aborted /\ r.got = Idle.got
  BY IdleIs DEF Calls, Pending
<1>3. ~r.on /\ ~r.aborted /\ r.got = "pending"
  BY <1>2, IdleIs
<1>4. op \in Ops /\ op.kind = "append" /\ op.who = {c} /\ op.at = "queued"
  <2>1. /\ Op("append", {c}) \in Ops /\ Op("append", {c}).kind = "append"
        /\ Op("append", {c}).who = {c} /\ Op("append", {c}).at = "queued"
    BY OpIs
  <2> QED BY <2>1, OpWith
<1>5. CallerTo(c, r) /\ call'[c] = r /\ chain' = Push(id, op)
  BY <1>1 DEF CallAppend, CallerTo, TypeOK
<1> HIDE DEF r, op
<1>6. ActorOk(c, {}, {}, {c})
  <2>1. CallerOk(c)'
    BY <1>2, <1>3, <1>5 DEF CallerOk
  <2> QED BY <1>1, <1>2, <1>3, <1>5, <2>1 DEF ActorOk, Owns, Lively
<1>7. \A x \in Ids : \A i \in DOMAIN chain[x] : c \notin chain[x][i].who
  BY <1>1, FreeNow
<1>8. OpOk(id, op)'
  <2>1. PICK o \in Ops : o = op
    BY <1>4
  <2>2. OpOk(id, o)'
    BY <1>2, <1>3, <1>4, <1>5, <2>1 DEF OpOk, StageOk, Awaits, CommitOk, WriteOk
  <2> QED BY <2>1, <2>2 DEF op
<1> QED BY <1>2, <1>4, <1>5, <1>6, <1>7, <1>8, TurnsAndQueues

(* reserve() waits for another caller's reservation to settle.                 *)
LEMMA StepReserveWaits ==
  ASSUME PoolInv, CapacityPositive, NEW c \in Callers, ReserveWaits(c)
  PROVE  PoolInv'
<1> DEFINE r == [call[c] EXCEPT !.pc = "settle"]
<1>1. TypeOK /\ ChainInv /\ CallerInv /\ call[c] \in Calls /\ CallerOk(c)
  BY DEF PoolInv, TypeOK, CallerInv
<1>2. /\ r \in Calls /\ r.pc = "settle" /\ r.id = call[c].id /\ r.on = call[c].on
      /\ r.aborted = call[c].aborted /\ r.got = call[c].got
  BY <1>1 DEF Calls, Pending
<1>3. CallerTo(c, r) /\ call'[c] = r /\ chain' = chain /\ entry' = entry
  BY <1>1 DEF ReserveWaits, CallerTo, TypeOK
<1>4. call[c].pc \in {"loaded", "woken"} /\ call[c].on /\ entry[call[c].id].phase # "ready"
  BY DEF ReserveWaits, Reserving, MustWait
<1>5. entry[call[c].id].phase \in {"committing", "reserved"}
  <2>1. entry[call[c].id] \in Entries
    BY <1>1 DEF TypeOK, Calls
  <2>2. entry[call[c].id].phase \in {"none", "loading", "ready", "committing", "reserved"}
    BY <2>1 DEF Entries, NoEntry
  <2> QED BY <1>1, <1>4, <2>2 DEF CallerOk
<1> HIDE DEF r
<1>6. ActorOk(c, {}, {}, {c})
  <2>1. CallerOk(c)'
    BY <1>1, <1>2, <1>3, <1>4, <1>5 DEF CallerOk
  <2> QED BY <1>2, <1>3, <1>4, <2>1 DEF ActorOk, Owns, Owning, Lively
<1>7. \A x \in Ids : \A i \in DOMAIN chain[x] : c \notin chain[x][i].who
  BY <1>1, <1>4, FreeNow
<1> QED BY <1>2, <1>3, <1>6, <1>7, TurnsQuietly

(* An entry in its next phase.                                                 *)
LEMMA EntryAs ==
  ASSUME TypeOK, NEW id \in Ids, entry[id].phase # "none",
         NEW ph \in {"loading", "ready", "committing", "reserved"},
         entry' = [entry EXCEPT ![id].phase = ph]
  PROVE  /\ entry' \in [Ids -> Entries]
         /\ entry'[id].phase = ph /\ entry'[id].src = entry[id].src /\ entry[id].src \in Log
         /\ \A x \in Ids : x # id => entry'[x] = entry[x]
<1>1. entry \in [Ids -> Entries] /\ entry[id] \in Entries
  BY DEF TypeOK
<1>2. entry[id] \in [phase : {"loading", "ready", "committing", "reserved"}, src : Log]
  BY <1>1 DEF Entries, NoEntry
<1>3. entry'[id] = [entry[id] EXCEPT !.phase = ph] /\ \A x \in Ids : x # id => entry'[x] = entry[x]
  BY <1>1
<1>4. entry'[id] \in Entries /\ entry'[id].phase = ph /\ entry'[id].src = entry[id].src
  BY <1>2, <1>3 DEF Entries
<1> QED BY <1>1, <1>2, <1>3, <1>4

(* reserve() takes the entry and queues its commit.                            *)
LEMMA StepReserveCommits ==
  ASSUME PoolInv, CapacityPositive, NEW c \in Callers, ReserveCommits(c)
  PROVE  PoolInv'
<1> DEFINE id == call[c].id
           s == entry[id].src
           r == [call[c] EXCEPT !.pc = "commit", !.src = s]
           op == [Op("commit", {c}) EXCEPT !.src = s]
<1>1. TypeOK /\ ChainInv /\ CallerInv /\ call[c] \in Calls /\ CallerOk(c) /\ id \in Ids
      /\ call \in [Callers -> Calls]
  BY DEF PoolInv, TypeOK, CallerInv, Calls
<1>2. call[c].pc \in {"loaded", "woken"} /\ call[c].on /\ entry[id].phase = "ready"
  BY DEF ReserveCommits, Reserving, MustWait
<1>3. /\ entry' \in [Ids -> Entries]
      /\ entry'[id].phase = "committing" /\ entry'[id].src = s /\ s \in Log
      /\ \A x \in Ids : x # id => entry'[x] = entry[x]
  BY <1>1, <1>2, EntryAs DEF ReserveCommits
<1> HIDE DEF s
<1>4. /\ r \in Calls /\ r.pc = "commit" /\ r.id = id /\ r.on = call[c].on /\ r.src = s
      /\ r.aborted = call[c].aborted /\ r.got = call[c].got
  BY <1>1, <1>3 DEF Calls, Pending
<1>5. ~r.aborted /\ r.got = "pending"
  BY <1>1, <1>2, <1>4 DEF CallerOk
<1>6. op \in Ops /\ op.kind = "commit" /\ op.who = {c} /\ op.at = "queued" /\ op.src = s
  <2>1. /\ Op("commit", {c}) \in Ops /\ Op("commit", {c}).kind = "commit"
        /\ Op("commit", {c}).who = {c} /\ Op("commit", {c}).at = "queued"
    BY OpIs
  <2>2. PICK o \in Ops : o = Op("commit", {c})
    BY <2>1
  <2>3. /\ [o EXCEPT !.src = s] \in Ops /\ [o EXCEPT !.src = s].kind = o.kind
        /\ [o EXCEPT !.src = s].who = o.who /\ [o EXCEPT !.src = s].at = o.at
        /\ [o EXCEPT !.src = s].src = s
    BY <1>3, OpWith
  <2> QED BY <2>1, <2>2, <2>3
<1>7. CallerTo(c, r) /\ call'[c] = r /\ chain' = Push(id, op)
  <2>1. call' = [call EXCEPT ![c] = r] /\ chain' = Push(id, op) /\ order' = order
        /\ UNCHANGED <<stored, states, live, retiring, foreign>>
    BY <1>1 DEF ReserveCommits, s
  <2>2. Turns(id, {c})
    BY <1>2, <1>3 DEF Turns, s
  <2> HIDE DEF r, op
  <2> QED BY <1>1, <1>2, <1>3, <2>1, <2>2 DEF CallerTo
<1> HIDE DEF r, op
<1>8. ActorOk(c, {}, {}, {c})
  <2>1. CallerOk(c)'
    BY <1>2, <1>3, <1>4, <1>5, <1>7 DEF CallerOk
  <2>2. \A d \in Callers : ~Owns(d, id)
    BY <1>1, <1>2, NotOwned
  <2>3. \A x \in Ids : Owns(c, x)' => x = id
    BY <1>4, <1>7 DEF Owns
  <2> QED BY <1>2, <1>4, <1>5, <1>7, <2>1, <2>2, <2>3 DEF ActorOk, Lively
<1>9. \A x \in Ids : \A i \in DOMAIN chain[x] : c \notin chain[x][i].who
  BY <1>1, <1>2, FreeNow
<1>10. PICK o \in Ops : o = op
  BY <1>6
<1>11. PICK k \in Ids : k = id
  BY <1>1
<1>12. OpOk(k, o)'
  BY <1>2, <1>4, <1>5, <1>6, <1>7, <1>10, <1>11 DEF OpOk, StageOk, Awaits, CommitOk, WriteOk
<1> QED BY <1>4, <1>6, <1>7, <1>8, <1>9, <1>10, <1>11, <1>12, TurnsAndQueues

(* reserve() after its commit.                                                 *)
LEMMA StepCommitReturns ==
  ASSUME PoolInv, HomeIsStored, CapacityPositive, NEW c \in Callers, CommitReturns(c)
  PROVE  PoolInv'
<1> DEFINE id == call[c].id
           r == [call[c] EXCEPT !.pc = "reserved"]
<1>1. TypeOK /\ ChainInv /\ CallerInv /\ OwnerInv /\ call[c] \in Calls /\ CallerOk(c) /\ id \in Ids
      /\ call \in [Callers -> Calls]
  BY DEF PoolInv, TypeOK, CallerInv, Calls
<1>2. call[c].pc = "commit" /\ UNCHANGED <<stored, states, chain, live, retiring, foreign>>
      /\ call[c].got # "pending"
  BY DEF CommitReturns
<1>3. Free(c)
  BY <1>2 DEF Free
<1>4. call[c].on => Owns(c, id) /\ \A d \in Callers \ {c} : ~Owns(d, id)
  <2>1. call[c].on => Owns(c, id)
    BY <1>2 DEF Owns, Owning
  <2> QED BY <1>1, <2>1, OthersDoNot
<1>5. CASE Becomes(Finish(Here, c)) \/ Becomes(Retry(Here, c))
  BY <1>2, <1>3, <1>5, LeavesPlain
<1>6. CASE call[c].on /\ (Becomes(Finish(Drop(Here, id), c)) \/ Becomes(Retry(Drop(Here, id), c)))
  BY <1>1, <1>2, <1>3, <1>4, <1>6, LeavesDropping
<1>7. CASE call[c].on /\ Becomes(Finish(MakeReady(Here, id), c))
  BY <1>1, <1>2, <1>3, <1>4, <1>7, LeavesReady
<1>8. CASE /\ call[c].got = "state" /\ ~call[c].aborted /\ call[c].on
           /\ entry' = [entry EXCEPT ![id].phase = "reserved"]
           /\ call' = [call EXCEPT ![c].pc = "reserved"]
           /\ UNCHANGED order
  <2>1. entry[id].phase = "committing" /\ entry[id].src = call[c].src
    BY <1>1, <1>2, <1>8 DEF CallerOk
  <2>2. /\ entry' \in [Ids -> Entries]
        /\ entry'[id].phase = "reserved" /\ entry'[id].src = entry[id].src
        /\ \A x \in Ids : x # id => entry'[x] = entry[x]
    BY <1>1, <1>8, <2>1, EntryAs
  <2>3. /\ r \in Calls /\ r.pc = "reserved" /\ r.id = id /\ r.on = call[c].on /\ r.src = call[c].src
        /\ r.aborted = call[c].aborted
    BY <1>1 DEF Calls, Pending
  <2>4. call' = [call EXCEPT ![c] = r] /\ call'[c] = r
    BY <1>1, <1>8
  <2>5. Secured(id)
    BY <1>2, <1>4, <1>8 DEF Secured
  <2> HIDE DEF r
  <2>6. CallerTo(c, r)
    <3>1. Turns(id, {c})
      BY <1>4, <1>8, <2>1, <2>2, <2>5 DEF Turns
    <3> QED BY <1>2, <1>8, <2>1, <2>2, <2>4, <3>1 DEF CallerTo
  <2>7. ActorOk(c, {}, {}, {c})
    <3>1. CallerOk(c)'
      BY <1>8, <2>1, <2>2, <2>3, <2>4 DEF CallerOk
    <3>2. \A x \in Ids : Owns(c, x)' => x = id
      BY <2>3, <2>4 DEF Owns
    <3> QED BY <1>2, <1>4, <1>8, <2>3, <2>4, <3>1, <3>2 DEF ActorOk, Lively
  <2>8. \A x \in Ids : \A i \in DOMAIN chain[x] : c \notin chain[x][i].who
    BY <1>1, <1>3, <1>8, FreeIs
  <2> QED BY <1>2, <2>3, <2>6, <2>7, <2>8, TurnsQuietly
<1>9. \/ /\ call[c].got = "state" /\ ~call[c].aborted /\ call[c].on
         /\ entry' = [entry EXCEPT ![id].phase = "reserved"]
         /\ call' = [call EXCEPT ![c].pc = "reserved"]
         /\ UNCHANGED order
      \/ call[c].on /\ Becomes(Finish(MakeReady(Here, id), c))
      \/ call[c].on /\ (Becomes(Finish(Drop(Here, id), c)) \/ Becomes(Retry(Drop(Here, id), c)))
      \/ Becomes(Finish(Here, c)) \/ Becomes(Retry(Here, c))
  <2>1. CASE call[c].on
    BY <2>1 DEF CommitReturns
  <2>2. CASE ~call[c].on
    BY <2>2 DEF CommitReturns
  <2> QED BY <2>1, <2>2
<1> QED BY <1>5, <1>6, <1>7, <1>8, <1>9

(* prepare() hands out the reservation, load() gives it up.                    *)
LEMMA StepReservedReturns ==
  ASSUME PoolInv, HomeIsStored, CapacityPositive, NEW c \in Callers, ReservedReturns(c)
  PROVE  PoolInv'
<1> DEFINE id == call[c].id
           r == [call[c] EXCEPT !.pc = "held"]
<1>1. TypeOK /\ ChainInv /\ CallerInv /\ OwnerInv /\ call[c] \in Calls /\ CallerOk(c) /\ id \in Ids
      /\ call \in [Callers -> Calls]
  BY DEF PoolInv, TypeOK, CallerInv, Calls
<1>2. call[c].pc = "reserved" /\ UNCHANGED <<stored, states, chain, live, retiring, foreign>>
  BY DEF ReservedReturns
<1>3. Free(c)
  BY <1>2 DEF Free
<1>4. call[c].on /\ Owns(c, id) /\ \A d \in Callers \ {c} : ~Owns(d, id)
  <2>1. call[c].on /\ Owns(c, id)
    BY <1>1, <1>2 DEF Owns, Owning, CallerOk
  <2> QED BY <1>1, <2>1, OthersDoNot
<1>5. CASE Becomes(With(c, r))
  <2>1. entry' = entry /\ order' = order /\ call' = [call EXCEPT ![c] = r] /\ call'[c] = r
    BY <1>1, <1>5 DEF Becomes, With, Here
  <2>2. /\ r \in Calls /\ r.pc = "held" /\ r.id = id /\ r.on = call[c].on /\ r.src = call[c].src
        /\ r.aborted = call[c].aborted
    BY <1>1 DEF Calls, Settled
  <2> HIDE DEF r
  <2>3. CallerTo(c, r)
    BY <1>1, <1>2, <2>1 DEF CallerTo, TypeOK
  <2>4. ActorOk(c, {}, {}, {c})
    <3>1. CallerOk(c)'
      BY <1>1, <1>2, <2>1, <2>2 DEF CallerOk
    <3>2. \A x \in Ids : Owns(c, x)' => x = id
      BY <2>1, <2>2 DEF Owns
    <3> QED BY <1>2, <1>4, <2>1, <2>2, <3>1, <3>2 DEF ActorOk, Lively
  <2>5. \A x \in Ids : \A i \in DOMAIN chain[x] : c \notin chain[x][i].who
    BY <1>1, <1>2, FreeNow
  <2> QED BY <1>2, <2>2, <2>3, <2>4, <2>5, TurnsQuietly
<1>6. CASE Becomes(Finish(Drop(Here, id), c))
  BY <1>1, <1>2, <1>3, <1>4, <1>6, LeavesDropping
<1> QED BY <1>4, <1>5, <1>6 DEF ReservedReturns

(* Agent setup appends to the unpublished Session.                             *)
LEMMA StepSetupAppends ==
  ASSUME PoolInv, CapacityPositive, NEW c \in Callers, SetupAppends(c)
  PROVE  PoolInv'
<1> DEFINE id == call[c].id
           r == [call[c] EXCEPT !.touched = TRUE]
<1>1. TypeOK /\ ChainInv /\ CallerInv /\ OwnerInv /\ call[c] \in Calls /\ CallerOk(c) /\ id \in Ids
      /\ call \in [Callers -> Calls]
  BY DEF PoolInv, TypeOK, CallerInv, Calls
<1>2. call[c].pc = "held" /\ call' = [call EXCEPT ![c] = r] /\ call'[c] = r
      /\ UNCHANGED <<stored, states, entry, order, chain, live, retiring, foreign>>
  BY <1>1 DEF SetupAppends
<1>3. /\ r \in Calls /\ r.pc = call[c].pc /\ r.id = id /\ r.on = call[c].on /\ r.src = call[c].src
      /\ r.aborted = call[c].aborted
  BY <1>1 DEF Calls
<1>4. \A d \in Callers \ {c} : ~Owns(d, id)
  <2>1. Owns(c, id)
    BY <1>1, <1>2 DEF Owns, Owning, CallerOk
  <2> QED BY <1>1, <2>1, OthersDoNot
<1> HIDE DEF r
<1>5. CallerTo(c, r)
  BY <1>1, <1>2 DEF CallerTo, TypeOK
<1>6. ActorOk(c, {}, {}, {c})
  <2>1. CallerOk(c)'
    BY <1>1, <1>2, <1>3 DEF CallerOk
  <2>2. \A x \in Ids : Owns(c, x)' => x = id
    BY <1>2, <1>3 DEF Owns
  <2> QED BY <1>2, <1>3, <1>4, <2>1, <2>2 DEF ActorOk, Lively
<1>7. \A x \in Ids : \A i \in DOMAIN chain[x] : c \notin chain[x][i].who
  BY <1>1, <1>2, FreeNow
<1> QED BY <1>2, <1>3, <1>5, <1>6, <1>7, TurnsQuietly

(* A caller's signal.                                                          *)
LEMMA StepAbort ==
  ASSUME PoolInv, HomeIsStored, CapacityPositive, NEW c \in Callers, Abort(c)
  PROVE  PoolInv'
<1> DEFINE id == call[c].id
           g == IF call[c].got = "pending" /\ ~Started(c) THEN "error" ELSE call[c].got
           r == [call[c] EXCEPT !.aborted = TRUE, !.got = g]
<1>1. TypeOK /\ ChainInv /\ CallerInv /\ OwnerInv /\ call[c] \in Calls /\ CallerOk(c) /\ id \in Ids
      /\ call \in [Callers -> Calls]
  BY DEF PoolInv, TypeOK, CallerInv, Calls
<1>2. ~call[c].aborted /\ UNCHANGED <<stored, states, chain, live, retiring, foreign>>
  BY DEF Abort
<1>3. CASE call[c].pc \in {"waiting", "loading", "settle"} /\ Becomes(Finish(Here, c))
  BY <1>2, <1>3, LeavesPlain DEF Free
<1>4. CASE /\ call[c].pc \in {"commit", "check"}
           /\ Becomes(With(c, [call[c] EXCEPT !.aborted = TRUE,
                      !.got = IF @ = "pending" /\ ~Started(c) THEN "error" ELSE @]))
  <2>1. entry' = entry /\ order' = order /\ call' = [call EXCEPT ![c] = r] /\ call'[c] = r
    BY <1>1, <1>4 DEF Becomes, With, Here
  <2>2. g \in {"pending", "state", "stale", "error"}
    BY <1>1 DEF Calls
  <2>3. g = call[c].got \/ (call[c].got = "pending" /\ ~Started(c) /\ g = "error")
    OBVIOUS
  <2> HIDE DEF g
  <2>4. /\ r \in Calls /\ r.pc = call[c].pc /\ r.id = id /\ r.on = call[c].on /\ r.src = call[c].src
        /\ r.aborted = TRUE /\ r.got = g
    BY <1>1, <2>2 DEF Calls
  <2> HIDE DEF r
  <2>5. CallerTo(c, r)
    BY <1>1, <1>2, <2>1 DEF CallerTo, TypeOK
  <2>6. ActorOk(c, {}, {}, {c})
    <3>1. CallerOk(c)'
      BY <1>1, <1>4, <2>1, <2>4 DEF CallerOk
    <3>2. \A x \in Ids : Owns(c, x)' => Owns(c, x) /\ x = id
      BY <2>1, <2>4 DEF Owns
    <3>3. Owns(c, id) => \A d \in Callers : Owns(d, id) => d = c
      BY <1>1 DEF OwnerInv
    <3>4. ASSUME Owns(c, id), call'[c].pc = "commit", call'[c].got = "state" PROVE Secured(id)
      BY <2>1, <2>3, <2>4, <3>4 DEF Secured
    <3> QED BY <1>4, <2>1, <2>4, <3>1, <3>2, <3>3, <3>4 DEF ActorOk, Lively
  <2>7. ASSUME NEW x \in Ids, NEW i \in DOMAIN chain[x], c \in chain[x][i].who PROVE Speaks(c, x, i)
    <3> SUFFICES ASSUME NEW op \in Ops, op = chain[x][i]
                 PROVE  call'[c].id = x /\ Awaits(c, op)' /\ CommitOk(c, x, op)'
      BY DEF Speaks
    <3>1. id = x /\ Awaits(c, op) /\ CommitOk(c, x, op)
      BY <1>1, <2>7 DEF ChainInv, OpOk
    <3>2. op.kind = call[c].pc /\ call[c].got = "pending"
      BY <1>2, <1>4, <3>1 DEF Awaits, Ops
    <3>3. ~Started(c) => op.at = "queued"
      BY <2>7, <3>1 DEF Started
    <3>4. Awaits(c, op)'
      BY <1>4, <2>1, <2>3, <2>4, <3>2, <3>3 DEF Awaits
    <3>5. CommitOk(c, x, op)'
      BY <1>2, <2>1, <2>4, <3>1, <3>2 DEF CommitOk
    <3> QED BY <2>1, <2>4, <3>1, <3>4, <3>5
  <2> QED BY <1>2, <1>4, <2>4, <2>5, <2>6, <2>7, TurnsQuietly
<1> QED BY <1>3, <1>4 DEF Abort

(* inspect() looks at a finished preparation.                                  *)
LEMMA StepInspected ==
  ASSUME PoolInv, HomeIsStored, CapacityPositive, NEW c \in Callers, Inspected(c)
  PROVE  PoolInv'
<1> DEFINE id == call[c].id
           p == IF call[c].on /\ entry[id].phase = "ready" THEN Touch(Here, id) ELSE Here
           q == [p EXCEPT !.call[c].pc = "check"]
           op == [Op("check", {c}) EXCEPT !.src = call[c].src]
<1>1. /\ TypeOK /\ ChainInv /\ LoadInv /\ CallerInv /\ OwnerInv /\ LogInv /\ LiveInv /\ PoolBounded
      /\ call[c] \in Calls /\ CallerOk(c) /\ id \in Ids /\ call[c].src \in Log
      /\ call \in [Callers -> Calls]
  BY DEF PoolInv, TypeOK, CallerInv, Calls
<1>2. call[c].pc = "loaded" /\ UNCHANGED <<stored, states, live, retiring, foreign>>
  BY DEF Inspected
<1>3. Free(c)
  BY <1>2 DEF Free
<1>4. PICK G \in SUBSET Ready(Here) : Pooled(p, G, {})
  <2>1. CASE call[c].on /\ entry[id].phase = "ready"
    BY <1>1, <2>1, TouchPooled
  <2>2. CASE ~(call[c].on /\ entry[id].phase = "ready")
    BY <1>1, <2>2, HerePooled
  <2> QED BY <2>1, <2>2
<1>5. p \in Pools /\ Keyed(p)
  BY <1>4 DEF Pooled
<1>6. G \in SUBSET Ids /\ {} \in SUBSET Ids /\ {c} \in SUBSET Callers
  BY <1>4 DEF Ready
<1>7. \A x \in G : entry[x].phase = "ready"
  BY <1>1, HereIs DEF Ready
<1>8. \A d \in Callers : \A x \in G : ~Owns(d, x)
  BY <1>1, <1>6, <1>7, NotOwned
<1>9. CASE Becomes(Finish(p, c)) /\ UNCHANGED chain
  <2>1. Leaves(p, c, Finish(p, c))
    BY <1>1, <1>5, LeavesIs
  <2> HIDE DEF p
  <2> QED BY <1>2, <1>3, <1>4, <1>6, <1>8, <1>9, <2>1, CallerLeaves
<1>10. CASE Becomes(q) /\ chain' = Push(id, op)
  <2> HIDE DEF p
  <2> DEFINE r == [p.call[c] EXCEPT !.pc = "check"]
  <2>1. /\ p.entry \in [Ids -> Entries] /\ p.order \in Seq(Ids) /\ p.call \in [Callers -> Calls]
        /\ p = [entry |-> p.entry, order |-> p.order, call |-> p.call] /\ p.call[c] \in Calls
    BY <1>5 DEF Pools
  <2>2. /\ q.entry = p.entry /\ q.order = p.order /\ q.call = [p.call EXCEPT ![c] = r]
        /\ q = [entry |-> q.entry, order |-> q.order, call |-> q.call]
    BY <2>1
  <2>3. /\ r \in Calls /\ r.pc = "check" /\ r.id = p.call[c].id /\ r.on = p.call[c].on
        /\ r.aborted = p.call[c].aborted /\ r.got = p.call[c].got
    BY <2>1 DEF Calls, Pending
  <2> HIDE DEF q, r
  <2>4. q \in Pools /\ Keyed(q)
    <3>1. q \in Pools
      BY <2>1, <2>2, <2>3 DEF Pools
    <3> QED BY <1>5, <2>2, <3>1 DEF Keyed
  <2>5. Cardinality(Ready(q)) <= Capacity
    <3>1. Ready(q) = Ready(p)
      BY <2>2 DEF Ready
    <3> QED BY <1>4, <3>1 DEF Pooled
  <2>6. op \in Ops /\ op.kind = "check" /\ op.who = {c} /\ op.at = "queued"
    <3>1. /\ Op("check", {c}) \in Ops /\ Op("check", {c}).kind = "check"
          /\ Op("check", {c}).who = {c} /\ Op("check", {c}).at = "queued"
      BY OpIs
    <3> QED BY <1>1, <3>1, OpWith
  <2> HIDE DEF op
  <2>7. chain' \in [Ids -> Seq(Ops)]
    BY <1>1, <1>10, <2>6, PushIs
  <2>8. TypeOK' /\ PoolBounded'
    <3>1. /\ live' \in [Ids -> Callers \cup {NoOne}] /\ retiring' \in [Ids -> BOOLEAN]
          /\ stored' = stored /\ states' = states /\ foreign' = foreign
      BY <1>1, <1>2 DEF TypeOK
    <3> QED BY <1>1, <1>10, <2>4, <2>5, <2>7, <3>1, PoolTyped
  <2>9. call' = q.call /\ entry' = p.entry /\ call'[c] = r /\ \A d \in Callers \ {c} : call'[d] = p.call[d]
    BY <1>10, <2>1, <2>2 DEF Becomes
  <2>10. Effect(G, {}, {c})
    BY <1>4, <2>9 DEF Effect, Pooled
  <2>11. /\ p.call[c].id = id /\ p.call[c].aborted = call[c].aborted /\ p.call[c].got = call[c].got
         /\ p.call[c].on => call[c].on /\ id \notin G
    <3>1. CASE id \in G
      <4>1. p.call[c] = Freed(call[c])
        BY <1>4, <3>1 DEF Pooled
      <4> QED BY <1>1, <4>1 DEF Freed, Calls
    <3>2. CASE id \notin G
      <4>1. p.call[c] = call[c]
        BY <1>4, <3>2 DEF Pooled
      <4> QED BY <3>2, <4>1
    <3> QED BY <3>1, <3>2
  <2>12. ActorOk(c, G, {}, {c})
    <3>1. ~r.aborted /\ r.got = "pending" /\ r.id = id /\ r.on => entry'[id] = entry[id] /\ call[c].on
      <4>1. r.on => id \notin G
        BY <2>3, <2>11
      <4>2. id \notin G => entry'[id] = entry[id]
        BY <1>1, <1>4, <2>9, NoEntryIs DEF Pooled
      <4> QED BY <1>1, <1>2, <2>3, <2>11, <4>1, <4>2 DEF CallerOk
    <3>2. CallerOk(c)'
      BY <1>1, <1>2, <2>3, <2>9, <2>11, <3>1 DEF CallerOk
    <3> QED BY <1>2, <2>3, <2>9, <3>2 DEF ActorOk, Lively, Owns, Owning
  <2>13. /\ CallerInv' /\ OwnerInv' /\ LogInv' /\ LiveInv'
         /\ \A x \in Ids : \A i \in DOMAIN chain[x] :
              (\A d \in {c} : d \in chain[x][i].who => Speaks(d, x, i)) => Kept(x, i)
    <3>1. \A d \in Callers \ {c} : \A x \in G \cup {} : ~Owns(d, x)
      BY <1>8
    <3>2. \A d \in Callers \ {c} : call[d].on /\ call[d].id \in {} \ G => call[d].pc # "loading"
      OBVIOUS
    <3>3. \A d \in {c} : ActorOk(d, G, {}, {c})
      BY <2>12
    <3>4. stored' = stored /\ states' = states /\ live' = live
      BY <1>2
    <3> QED BY <1>1, <1>6, <2>8, <2>10, <3>1, <3>2, <3>3, <3>4, PoolKept
  <2>14. \A x \in Ids : \A i \in DOMAIN chain[x] : c \notin chain[x][i].who
    BY <1>1, <1>2, FreeNow
  <2>15. NobodyJoins
    <3>1. \A x \in Ids : entry'[x].phase = "loading" => entry[x].phase = "loading"
      BY <1>4, <2>9, NoEntryIs DEF Pooled
    <3>2. ASSUME NEW d \in Callers, call'[d].pc = "loading", call'[d].on
          PROVE  call[d].pc = "loading" /\ call[d].on /\ call'[d].id = call[d].id
      <4>1. d # c
        BY <2>3, <2>9, <3>2
      <4>2. Same3(d)
        BY <2>10, <4>1 DEF Effect, Same3
      <4> QED BY <1>1, <3>2, <4>2, Aside
    <3> QED BY <3>1, <3>2 DEF NobodyJoins
  <2>16. PICK o \in Ops : o = op
    BY <2>6
  <2>17. PICK k \in Ids : k = id
    BY <1>1
  <2>18. ~r.aborted /\ r.got = "pending" /\ r.id = id
    BY <1>1, <1>2, <2>3, <2>11 DEF CallerOk
  <2>19. OpOk(k, o)'
    BY <2>3, <2>6, <2>9, <2>16, <2>17, <2>18 DEF OpOk, StageOk, Awaits, CommitOk, WriteOk
  <2>20. ChainInv' /\ LoadInv'
    <3>1. chain' = Push(k, o) /\ o.kind # "load" /\ o.at = "queued"
          /\ (\A i \in DOMAIN chain[k] : \A d \in o.who : d \notin chain[k][i].who)
          /\ (\A x \in Ids : \A i \in DOMAIN chain[x] : Kept(x, i))
      BY <1>10, <2>6, <2>13, <2>14, <2>16, <2>17
    <3> QED BY <1>1, <2>8, <2>15, <2>19, <3>1, ChainPushed
  <2> QED BY <2>8, <2>13, <2>20 DEF PoolInv
<1> QED BY <1>9, <1>10 DEF Inspected

(* The last load of a loading entry is the chain's.                            *)
LEMMA LastLoadIs ==
  ASSUME TypeOK, LoadInv, NEW id \in Ids, entry[id].phase = "loading"
  PROVE  /\ IsLastLoad(id, LastLoad(id))
         /\ \A i : IsLastLoad(id, i) => i = LastLoad(id)
<1>1. \E i \in DOMAIN chain[id] : IsLastLoad(id, i)
  BY DEF LoadInv
<1>2. IsLastLoad(id, LastLoad(id))
  BY <1>1 DEF IsLastLoad, LastLoad
<1>3. ASSUME NEW i, IsLastLoad(id, i) PROVE i = LastLoad(id)
  <2>1. /\ i \in DOMAIN chain[id] /\ LastLoad(id) \in DOMAIN chain[id]
        /\ i <= LastLoad(id) /\ LastLoad(id) <= i
    BY <1>2, <1>3 DEF IsLastLoad
  <2>2. i \in Nat /\ LastLoad(id) \in Nat
    BY <2>1, ChainIs
  <2> QED BY <2>1, <2>2
<1> QED BY <1>2, <1>3

(* entryFor: a cold read starts.                                               *)
ReadsCold(c, id) ==
  /\ id = call[c].id /\ call[c].pc = "go" /\ entry[id] = NoEntry
  /\ entry' = [entry EXCEPT ![id] = [phase |-> "loading", src |-> NoSource]]
  /\ order' = Append(order, id)
  /\ chain' = Push(id, Op("load", {c}))
  /\ call' = [call EXCEPT ![c] = [call[c] EXCEPT !.on = TRUE, !.pc = "loading"]]
  /\ UNCHANGED <<stored, states, live, retiring, foreign>>

(* entryFor starts a cold read.                                                *)
LEMMA StepStarts ==
  ASSUME PoolInv, CapacityPositive, NEW c \in Callers, NEW id \in Ids, ReadsCold(c, id)
  PROVE  PoolInv'
<1> DEFINE r == [call[c] EXCEPT !.on = TRUE, !.pc = "loading"]
           e == [phase |-> "loading", src |-> NoSource]
           op == Op("load", {c})
<1>0. /\ id = call[c].id /\ call[c].pc = "go" /\ entry[id] = NoEntry
      /\ UNCHANGED <<stored, states, live, retiring, foreign>>
  BY DEF ReadsCold
<1>1. /\ TypeOK /\ ChainInv /\ LoadInv /\ CallerInv /\ OwnerInv /\ LogInv /\ LiveInv /\ PoolBounded
      /\ call[c] \in Calls /\ CallerOk(c) /\ call \in [Callers -> Calls] /\ entry \in [Ids -> Entries]
  BY DEF PoolInv, TypeOK, CallerInv
<1>2. /\ r \in Calls /\ r.pc = "loading" /\ r.id = id /\ r.on
      /\ r.aborted = call[c].aborted /\ r.got = call[c].got
  BY <1>0, <1>1 DEF Calls, Pending
<1>3. ~r.aborted /\ r.got = "pending"
  BY <1>0, <1>1, <1>2 DEF CallerOk
<1>4. e \in Entries /\ e.phase = "loading" /\ e # NoEntry
  BY DEF Entries, NoEntry, NoSource, Log
<1>5. op \in Ops /\ op.kind = "load" /\ op.who = {c} /\ op.at = "queued"
  BY OpIs
<1> HIDE DEF r, e, op
<1>6. /\ call' = [call EXCEPT ![c] = r] /\ call'[c] = r /\ \A d \in Callers \ {c} : call'[d] = call[d]
      /\ entry' = [entry EXCEPT ![id] = e] /\ entry'[id] = e /\ \A x \in Ids : x # id => entry'[x] = entry[x]
      /\ chain' = Push(id, op)
  BY <1>1 DEF r, e, op, ReadsCold
<1> DEFINE q == [entry |-> entry', order |-> order', call |-> call']
<1>7. q.entry = entry' /\ q.order = order' /\ q.call = call'
  OBVIOUS
<1>8. /\ order' \in Seq(Ids)
      /\ \A i, j \in DOMAIN order' : order'[i] = order'[j] => i = j
      /\ \A x \in Ids : (\E i \in DOMAIN order' : order'[i] = x) <=> x = id \/ \E i \in DOMAIN order : order[i] = x
  <2>1. order \in Seq(Ids) /\ (~\E i \in DOMAIN order : order[i] = id)
        /\ \A i, j \in DOMAIN order : order[i] = order[j] => i = j
    BY <1>0, <1>1 DEF TypeOK
  <2>2. order' = Append(order, id)
    BY DEF ReadsCold
  <2> QED BY <2>1, <2>2, KeyAppended
<1>9. q \in Pools
  BY <1>1, <1>2, <1>4, <1>6, <1>8 DEF Pools
<1> HIDE DEF q
<1>10. Keyed(q)
  <2>1. \A x \in Ids : entry'[x] # NoEntry <=> x = id \/ entry[x] # NoEntry
    BY <1>4, <1>6
  <2>2. \A x \in Ids : entry[x] # NoEntry <=> \E i \in DOMAIN order : order[i] = x
    BY <1>1 DEF TypeOK
  <2> QED BY <1>7, <1>8, <2>1, <2>2 DEF Keyed
<1>11. Cardinality(Ready(q)) <= Capacity
  <2>1. Here \in Pools /\ Keyed(Here) /\ Here.entry = entry
    BY <1>1, HereIs
  <2>2. Ready(q) \subseteq Ready(Here)
    BY <1>4, <1>6, <1>7, <2>1 DEF Ready
  <2> QED BY <1>1, <1>9, <1>10, <2>1, <2>2, FewerReady DEF PoolBounded
<1>12. chain' \in [Ids -> Seq(Ops)]
  BY <1>1, <1>5, <1>6, PushIs
<1>13. TypeOK' /\ PoolBounded'
  <2>1. /\ live' \in [Ids -> Callers \cup {NoOne}] /\ retiring' \in [Ids -> BOOLEAN]
        /\ stored' = stored /\ states' = states /\ foreign' = foreign
    BY <1>0, <1>1 DEF TypeOK
  <2>2. Becomes(q)
    BY <1>7 DEF Becomes
  <2> QED BY <1>1, <1>9, <1>10, <1>11, <1>12, <2>1, <2>2, PoolTyped
<1>14. Effect({}, {}, {c})
  <2>1. Turns(id, {c})
    BY <1>0, <1>4, <1>6, NoEntryIs DEF Turns
  <2> QED BY <1>6, <2>1 DEF Effect
<1>15. ActorOk(c, {}, {}, {c})
  <2>1. CallerOk(c)'
    BY <1>2, <1>3, <1>4, <1>6 DEF CallerOk
  <2> QED BY <1>0, <1>2, <1>6, <2>1 DEF ActorOk, Lively, Owns, Owning
<1>16. /\ CallerInv' /\ OwnerInv' /\ LogInv' /\ LiveInv'
       /\ \A x \in Ids : \A i \in DOMAIN chain[x] :
            (\A d \in {c} : d \in chain[x][i].who => Speaks(d, x, i)) => Kept(x, i)
  <2>1. {c} \in SUBSET Callers /\ {} \in SUBSET Ids /\ (\A d \in {c} : ActorOk(d, {}, {}, {c}))
    BY <1>15
  <2>2. stored' = stored /\ states' = states /\ live' = live
    BY <1>0
  <2> QED BY <1>1, <1>13, <1>14, <2>1, <2>2, PoolKept
<1>17. \A x \in Ids : \A i \in DOMAIN chain[x] : c \notin chain[x][i].who
  BY <1>0, <1>1, FreeNow
<1>18. ChainInv'
  <2>1. PICK o \in Ops : o = op
    BY <1>5
  <2>2. OpOk(id, o)'
    BY <1>2, <1>3, <1>5, <1>6, <2>1 DEF OpOk, StageOk, Awaits, CommitOk, WriteOk
  <2>3. \A x \in Ids : \A i \in DOMAIN chain[x] : Kept(x, i)
    BY <1>16, <1>17
  <2> QED BY <1>1, <1>5, <1>6, <1>13, <1>17, <2>1, <2>2, <2>3, ChainGrown
<1>19. LoadInv'
  <2>1. PICK n \in Nat : n = Len(chain[id]) /\ DOMAIN chain[id] = 1..n
    BY <1>1, ChainIs
  <2>2. /\ \A x \in Ids : x # id => chain'[x] = chain[x]
        /\ DOMAIN chain'[id] = 1..(n + 1) /\ chain'[id][n + 1] = op
    BY <1>1, <1>5, <1>6, <2>1, PushIs
  <2>3. IsLastLoad(id, n + 1)'
    BY <1>5, <2>1, <2>2 DEF IsLastLoad
  <2>4. \A x \in Ids : \A i : x # id => (IsLastLoad(x, i)' <=> IsLastLoad(x, i))
    BY <2>2 DEF IsLastLoad
  <2>5. \A i : IsLastLoad(id, i)' => i = n + 1
    BY <1>5, <2>1, <2>2 DEF IsLastLoad
  <2>6. ASSUME NEW x \in Ids, entry'[x].phase = "loading" PROVE \E i \in DOMAIN chain'[x] : IsLastLoad(x, i)'
    <3>1. CASE x = id
      BY <2>1, <2>2, <2>3, <3>1
    <3>2. CASE x # id
      <4>1. \E i \in DOMAIN chain[x] : IsLastLoad(x, i)
        BY <1>1, <1>6, <2>6, <3>2 DEF LoadInv
      <4> QED BY <2>2, <2>4, <3>2, <4>1
    <3> QED BY <3>1, <3>2
  <2>7. ASSUME NEW d \in Callers, call'[d].pc = "loading", call'[d].on,
               NEW i \in DOMAIN chain'[call'[d].id], IsLastLoad(call[d].id, i)'
        PROVE  d \in chain'[call'[d].id][i].who
    <3>1. CASE d = c
      BY <1>2, <1>5, <1>6, <2>2, <2>5, <2>7, <3>1
    <3>2. CASE d # c
      <4>1. call'[d] = call[d] /\ call[d].id \in Ids
        BY <1>1, <1>6, <3>2 DEF TypeOK, Calls
      <4>2. call[d].id # id
        BY <1>0, <1>1, <2>7, <4>1, NoEntryIs DEF CallerInv, CallerOk
      <4>3. IsLastLoad(call[d].id, i)
        BY <2>4, <2>7, <4>1, <4>2
      <4>4. i \in DOMAIN chain[call[d].id] /\ d \in chain[call[d].id][i].who
        BY <1>1, <2>7, <4>1, <4>3 DEF LoadInv, IsLastLoad
      <4> QED BY <2>2, <4>1, <4>2, <4>4
    <3> QED BY <3>1, <3>2
  <2> QED BY <2>6, <2>7 DEF LoadInv
<1> QED BY <1>13, <1>16, <1>18, <1>19 DEF PoolInv

(* entryFor: the read in flight answers this caller too.                       *)
JoinsRead(c, id) ==
  /\ id = call[c].id /\ call[c].pc = "go" /\ entry[id].phase = "loading"
  /\ chain' = [chain EXCEPT ![id][LastLoad(id)].who = @ \cup {c}]
  /\ call' = [call EXCEPT ![c] = [call[c] EXCEPT !.on = TRUE, !.pc = "loading"]]
  /\ UNCHANGED <<stored, states, entry, order, live, retiring, foreign>>

(* entryFor joins the read in flight.                                          *)
LEMMA StepJoins ==
  ASSUME PoolInv, CapacityPositive, NEW c \in Callers, NEW id \in Ids, JoinsRead(c, id)
  PROVE  PoolInv'
<1> DEFINE r == [call[c] EXCEPT !.on = TRUE, !.pc = "loading"]
           k == LastLoad(id)
           op == [chain[id][k] EXCEPT !.who = @ \cup {c}]
<1>0. /\ id = call[c].id /\ call[c].pc = "go" /\ entry[id].phase = "loading"
      /\ UNCHANGED <<stored, states, entry, order, live, retiring, foreign>>
  BY DEF JoinsRead
<1>1. /\ TypeOK /\ ChainInv /\ LoadInv /\ CallerInv
      /\ call[c] \in Calls /\ CallerOk(c) /\ call \in [Callers -> Calls] /\ entry \in [Ids -> Entries]
  BY DEF PoolInv, TypeOK, CallerInv
<1>2. /\ r \in Calls /\ r.pc = "loading" /\ r.id = id /\ r.on
      /\ r.aborted = call[c].aborted /\ r.got = call[c].got
  BY <1>0, <1>1 DEF Calls, Pending
<1>3. ~r.aborted /\ r.got = "pending"
  BY <1>0, <1>1, <1>2 DEF CallerOk
<1>4. IsLastLoad(id, k) /\ \A i : IsLastLoad(id, i) => i = k
  BY <1>0, <1>1, LastLoadIs
<1>5. k \in DOMAIN chain[id] /\ chain[id][k].kind = "load" /\ chain[id] \in Seq(Ops)
      /\ chain \in [Ids -> Seq(Ops)]
  BY <1>1, <1>4 DEF IsLastLoad, TypeOK
<1> HIDE DEF k
<1>6. /\ op \in Ops /\ op.kind = "load" /\ op.who = chain[id][k].who \cup {c} /\ op.at = chain[id][k].at
      /\ op.src = chain[id][k].src /\ op.seq = chain[id][k].seq
  <2>1. chain[id][k] \in Ops
    BY <1>5
  <2> QED BY <1>5, <2>1 DEF Ops
<1>7. chain' = [chain EXCEPT ![id] = [chain[id] EXCEPT ![k] = op]]
  BY <1>5 DEF k, op, JoinsRead
<1> HIDE DEF op, r
<1>8. /\ chain' \in [Ids -> Seq(Ops)]
      /\ \A x \in Ids : /\ DOMAIN chain'[x] = DOMAIN chain[x]
                        /\ \A i \in DOMAIN chain[x] :
                             chain'[x][i] = IF x = id /\ i = k THEN op ELSE chain[x][i]
  <2>1. [chain[id] EXCEPT ![k] = op] \in Seq(Ops)
    BY <1>5, <1>6
  <2>2. chain'[id] = [chain[id] EXCEPT ![k] = op] /\ \A x \in Ids : x # id => chain'[x] = chain[x]
    BY <1>5, <1>7
  <2> QED BY <1>5, <1>7, <2>1, <2>2
<1>9. /\ call' = [call EXCEPT ![c] = r] /\ call'[c] = r /\ \A d \in Callers \ {c} : call'[d] = call[d]
  BY <1>1 DEF r, JoinsRead
<1>10. CallerTo(c, r)
  BY <1>0, <1>1, <1>9 DEF CallerTo
<1>11. ActorOk(c, {}, {}, {c})
  <2>1. CallerOk(c)'
    BY <1>0, <1>2, <1>3, <1>9 DEF CallerOk
  <2> QED BY <1>0, <1>2, <1>9, <2>1 DEF ActorOk, Lively, Owns, Owning
<1>12. \A x \in Ids : \A i \in DOMAIN chain[x] : c \notin chain[x][i].who
  BY <1>0, <1>1, FreeNow
<1>13. /\ TypeOK' /\ PoolBounded' /\ CallerInv' /\ OwnerInv' /\ LogInv' /\ LiveInv'
       /\ \A x \in Ids : \A i \in DOMAIN chain[x] : Kept(x, i)
  BY <1>2, <1>8, <1>10, <1>11, <1>12, CallerTurns
<1>14. ChainInv'
  <2>1. ASSUME NEW x \in Ids, NEW i \in DOMAIN chain'[x] PROVE OpOk(x, chain[x][i])'
    <3>1. CASE x = id /\ i = k
      <4>1. PICK old \in Ops : old = chain[id][k]
        BY <1>5
      <4>2. OpOk(id, old)'
        BY <1>5, <1>13, <4>1 DEF Kept
      <4>3. PICK o \in Ops : o = op
        BY <1>6
      <4>4. call'[c].id = id /\ Awaits(c, o)' /\ CommitOk(c, id, o)'
        BY <1>2, <1>6, <1>9, <4>3 DEF Awaits, CommitOk
      <4>5. \A d \in old.who : call'[d].id = id /\ Awaits(d, o)' /\ CommitOk(d, id, o)'
        BY <1>5, <1>6, <4>1, <4>2, <4>3 DEF OpOk, Awaits, CommitOk
      <4>6. StageOk(o)'
        BY <1>5, <1>6, <4>1, <4>2, <4>3 DEF OpOk, StageOk
      <4>7. OpOk(id, o)'
        BY <1>6, <4>1, <4>3, <4>4, <4>5, <4>6 DEF OpOk, WriteOk
      <4>8. o = chain'[id][k]
        BY <1>5, <1>8, <4>3
      <4> QED BY <3>1, <4>7, <4>8, OpOkThere
    <3>2. CASE ~(x = id /\ i = k)
      BY <1>1, <1>8, <1>13, <2>1, <3>2, KeptThere
    <3> QED BY <3>1, <3>2
  <2>2. ASSUME NEW x \in Ids, NEW i \in DOMAIN chain'[x], i > 1 PROVE chain'[x][i].at = "queued"
    BY <1>1, <1>6, <1>8, <2>2 DEF ChainInv
  <2>3. ASSUME NEW x \in Ids, NEW i \in DOMAIN chain'[x], NEW j \in DOMAIN chain'[x],
               NEW d \in chain'[x][i].who, d \in chain'[x][j].who
        PROVE  i = j
    <3>1. /\ d \in chain[x][i].who \/ (d = c /\ x = id /\ i = k)
          /\ d \in chain[x][j].who \/ (d = c /\ x = id /\ j = k)
      BY <1>6, <1>8, <2>3
    <3>2. i \in DOMAIN chain[x] /\ j \in DOMAIN chain[x]
      BY <1>8
    <3> QED BY <1>1, <1>12, <3>1, <3>2 DEF ChainInv
  <2> QED BY <2>1, <2>2, <2>3 DEF ChainInv
<1>15. LoadInv'
  <2>1. \A x \in Ids : \A i : IsLastLoad(x, i)' <=> IsLastLoad(x, i)
    BY <1>5, <1>6, <1>8 DEF IsLastLoad
  <2>2. ASSUME NEW x \in Ids, entry'[x].phase = "loading" PROVE \E i \in DOMAIN chain'[x] : IsLastLoad(x, i)'
    BY <1>0, <1>1, <1>8, <2>1, <2>2 DEF LoadInv
  <2>3. ASSUME NEW d \in Callers, call'[d].pc = "loading", call'[d].on,
               NEW i \in DOMAIN chain'[call'[d].id], IsLastLoad(call[d].id, i)'
        PROVE  d \in chain'[call'[d].id][i].who
    <3>1. CASE d = c
      <4>1. i = k /\ i \in DOMAIN chain[id]
        BY <1>2, <1>4, <1>8, <1>9, <2>1, <2>3, <3>1
      <4> QED BY <1>2, <1>6, <1>8, <1>9, <3>1, <4>1
    <3>2. CASE d # c
      <4>1. call'[d] = call[d] /\ call[d].id \in Ids
        BY <1>1, <1>9, <3>2 DEF TypeOK, Calls
      <4>2. IsLastLoad(call[d].id, i) /\ i \in DOMAIN chain[call[d].id]
        BY <1>8, <2>1, <2>3, <4>1
      <4>3. d \in chain[call[d].id][i].who
        BY <1>1, <2>3, <4>1, <4>2 DEF LoadInv
      <4> QED BY <1>6, <1>8, <4>1, <4>2, <4>3
    <3> QED BY <3>1, <3>2
  <2> QED BY <2>2, <2>3 DEF LoadInv
<1> QED BY <1>13, <1>14, <1>15 DEF PoolInv

(* entryFor: start a read, join one or find one finished.                      *)
LEMMA StepEntryFor ==
  ASSUME PoolInv, CapacityPositive, NEW c \in Callers, EntryFor(c)
  PROVE  PoolInv'
<1> DEFINE id == call[c].id
           u == [call[c] EXCEPT !.on = TRUE]
<1>1. /\ TypeOK /\ ChainInv /\ CallerInv
      /\ call[c] \in Calls /\ CallerOk(c) /\ call \in [Callers -> Calls] /\ entry \in [Ids -> Entries]
      /\ id \in Ids
  BY DEF PoolInv, TypeOK, CallerInv, Calls
<1>2. call[c].pc = "go" /\ UNCHANGED <<stored, states, live, retiring, foreign>>
  BY DEF EntryFor
<1>3. [u EXCEPT !.pc = "loading"] = [call[c] EXCEPT !.on = TRUE, !.pc = "loading"]
  BY <1>1 DEF Calls
<1>4. PICK k \in Ids : k = id
  BY <1>1
<1>5. CASE /\ entry[id] = NoEntry
           /\ entry' = [entry EXCEPT ![id] = [phase |-> "loading", src |-> NoSource]]
           /\ order' = Append(order, id)
           /\ chain' = Push(id, Op("load", {c}))
           /\ call' = [call EXCEPT ![c] = [u EXCEPT !.pc = "loading"]]
  BY <1>2, <1>3, <1>4, <1>5, StepStarts DEF ReadsCold
<1>6. CASE /\ entry[id].phase = "loading"
           /\ chain' = [chain EXCEPT ![id][LastLoad(id)].who = @ \cup {c}]
           /\ call' = [call EXCEPT ![c] = [u EXCEPT !.pc = "loading"]]
           /\ UNCHANGED <<entry, order>>
  BY <1>2, <1>3, <1>4, <1>6, StepJoins DEF JoinsRead
<1>7. CASE /\ entry[id].phase \in {"ready", "committing", "reserved"}
           /\ call' = [call EXCEPT ![c] = [u EXCEPT !.pc = "loaded", !.src = Seen(call[c].kind, entry[id].src)]]
           /\ UNCHANGED <<entry, order, chain>>
  <2> DEFINE s == Seen(call[c].kind, entry[id].src)
             r == [u EXCEPT !.pc = "loaded", !.src = s]
  <2>1. s \in Log
    <3>1. entry[id] \in Entries /\ entry[id] # NoEntry
      BY <1>1, <1>7, NoEntryIs
    <3>2. entry[id].src \in Log
      BY <3>1 DEF Entries
    <3> QED BY <3>2 DEF Seen, NoSource, Log
  <2> HIDE DEF s
  <2>2. u \in Calls /\ u.on /\ u.id = id /\ u.aborted = call[c].aborted /\ u.got = call[c].got
    BY <1>1 DEF Calls
  <2> HIDE DEF u
  <2>3. /\ r \in Calls /\ r.pc = "loaded" /\ r.id = id /\ r.on
        /\ r.aborted = call[c].aborted /\ r.got = call[c].got
    BY <2>1, <2>2 DEF Calls, Pending
  <2>4. call' = [call EXCEPT ![c] = r] /\ call'[c] = r
    BY <1>1, <1>7 DEF s
  <2> HIDE DEF r
  <2>5. CallerTo(c, r)
    BY <1>1, <1>2, <1>7, <2>4 DEF CallerTo
  <2>6. ActorOk(c, {}, {}, {c})
    <3>1. CallerOk(c)'
      BY <1>1, <1>2, <1>7, <2>3, <2>4 DEF CallerOk
    <3> QED BY <1>2, <2>3, <2>4, <3>1 DEF ActorOk, Lively, Owns, Owning
  <2>7. \A x \in Ids : \A i \in DOMAIN chain[x] : c \notin chain[x][i].who
    BY <1>1, <1>2, FreeNow
  <2> QED BY <1>7, <2>3, <2>5, <2>6, <2>7, TurnsQuietly
<1> QED BY <1>5, <1>6, <1>7 DEF EntryFor

-----------------------------------------------------------------------------
(* Steps on one log.                                                           *)

(* As ActorOk, for a step that changes the log, the cursor or the owner of k.  *)
KeeperOk(c, k, G) ==
  /\ CallerOk(c)'
  /\ \A x \in Ids : Owns(c, x)' =>
       /\ Owns(c, x) /\ x \notin G
       /\ call'[c].pc = "commit" /\ call'[c].got = "state" => x = k \/ Secured(x)

(* A step that may write one log, secure it or drop its entry.                 *)
LEMMA LogKept ==
  ASSUME TypeOK, TypeOK', CallerInv, OwnerInv, ChainInv, LogInv, NEW k \in Ids,
         NEW G \in SUBSET Ids, NEW A \in SUBSET Callers, Effect(G, {}, A),
         \A x \in Ids : x # k => /\ stored'[x] = stored[x] /\ states'[x] = states[x]
                                 /\ entry'[x] = entry[x],
         stored'[k] = stored[k] \/ stored'[k].rev > stored[k].rev,
         \A c \in Callers \ A : \A x \in G : Owns(c, x) =>
           x = k /\ call[c].pc = "commit" /\ stored'[k].rev > stored[k].rev,
         \A c \in A : KeeperOk(c, k, G),
         LogOk(k)'
  PROVE  /\ CallerInv' /\ OwnerInv' /\ LogInv'
         /\ \A x \in Ids : \A i \in DOMAIN chain[x] :
              /\ \A c \in A : c \in chain[x][i].who => Speaks(c, x, i)
              /\ \/ x # k \/ i > 1
                 \/ stored'[k] = stored[k] /\ states'[k] = states[k] /\ (Secured(k)' => Secured(k))
              => Kept(x, i)
<1>1. ASSUME NEW c \in Callers \ A
      PROVE  /\ CallerOk(c)' /\ Same3(c)
             /\ \A x \in Ids : Owns(c, x)' => Owns(c, x) /\ x \notin G
  <2>1. call[c].id \in Ids
    BY DEF TypeOK, Calls
  <2>2. call[c].on /\ call[c].id \in G => call[c].pc \notin {"reserved", "held"}
    BY <2>1 DEF Owns, Owning
  <2>3. /\ call[c].on /\ call[c].id \in G \cup {} => call[c].pc \notin {"reserved", "held"}
        /\ call[c].on /\ call[c].id \in {} \ G => call[c].pc \notin {"commit", "loading"}
        /\ {} \in SUBSET Ids
    BY <2>2
  <2>4. /\ CallerOk(c)' /\ Same3(c)
        /\ \A x \in Ids : Owns(c, x)' => Owns(c, x) /\ x \notin G \cup {}
    BY <2>3, Outsiders
  <2> QED BY <2>4
<1>2. CallerInv'
  BY <1>1 DEF CallerInv, KeeperOk
<1>3. OwnerInv'
  <2>1. \A c \in Callers : \A x \in Ids : Owns(c, x)' => Owns(c, x)
    BY <1>1 DEF KeeperOk
  <2> QED BY <2>1 DEF OwnerInv
<1>4. ASSUME NEW x \in Ids, x # k, Secured(x)' PROVE Secured(x)
  <2>1. CASE entry'[x].phase = "reserved"
    BY <1>4, <2>1 DEF Secured
  <2>2. CASE entry'[x].phase # "reserved"
    <3>1. PICK c \in Callers : Owns(c, x)' /\ call'[c].pc = "commit" /\ call'[c].got = "state"
      BY <1>4, <2>2 DEF Secured
    <3>2. CASE c \in A
      BY <1>4, <3>1, <3>2 DEF KeeperOk
    <3>3. CASE c \notin A
      <4>1. Owns(c, x) /\ Same3(c)
        BY <1>1, <3>1, <3>3
      <4>2. call[c].pc = "commit" /\ call[c].got = "state"
        BY <3>1, <4>1, Aside
      <4> QED BY <4>1, <4>2 DEF Secured
    <3> QED BY <3>2, <3>3
  <2> QED BY <2>1, <2>2
<1>5. LogInv'
  <2>1. ASSUME NEW x \in Ids, x # k PROVE LogOk(x)'
    <3>1. LogOk(x)
      BY DEF LogInv
    <3>2. stored'[x] = stored[x] /\ states'[x] = states[x] /\ entry'[x] = entry[x]
      BY <2>1
    <3>3. Secured(x)' => Secured(x)
      BY <1>4, <2>1
    <3> QED BY <3>1, <3>2, <3>3 DEF LogOk, Fresh
  <2> QED BY <2>1 DEF LogInv
<1>6. ASSUME NEW x \in Ids, NEW i \in DOMAIN chain[x],
             \A c \in A : c \in chain[x][i].who => Speaks(c, x, i),
             \/ x # k \/ i > 1
             \/ stored'[k] = stored[k] /\ states'[k] = states[k] /\ (Secured(k)' => Secured(k))
      PROVE  Kept(x, i)
  <2> SUFFICES ASSUME NEW op \in Ops, op = chain[x][i] PROVE OpOk(x, op)'
    BY DEF Kept
  <2>1. OpOk(x, op) /\ op.who \in SUBSET Callers /\ op.src.rev \in Nat
        /\ (i > 1 => op.at = "queued")
    BY DEF ChainInv, Ops, Log
  <2>2. ASSUME NEW c \in op.who
        PROVE  \/ call'[c].id = x /\ Awaits(c, op)' /\ CommitOk(c, x, op)'
               \/ /\ Same3(c)
                  /\ op.kind = "commit" /\ call[c].pc = "commit" /\ call[c].got = "pending" /\ call[c].on =>
                       call'[c].on \/ (op.at = "queued" /\ op.src.rev < stored'[x].rev)
    <3>1. CASE c \in A
      BY <1>6, <3>1 DEF Speaks
    <3>2. CASE c \notin A
      <4>1. Same3(c) /\ c \in Callers /\ call[c].id = x
        BY <1>1, <2>1, <3>2 DEF OpOk
      <4>2. ASSUME op.kind = "commit", call[c].pc = "commit", call[c].got = "pending", call[c].on,
                   ~call'[c].on
            PROVE  op.at = "queued" /\ op.src.rev < stored'[x].rev
        <5>1. Owns(c, x)
          BY <4>1, <4>2 DEF Owns, Owning
        <5>2. x \in G
          BY <3>2, <4>1, <4>2 DEF Effect
        <5>3. x = k /\ stored'[k].rev > stored[k].rev
          BY <3>2, <4>1, <5>1, <5>2
        <5>4. op.at = "queued"
          <6>1. stored'[k] # stored[k]
            <7>1. stored[k].rev \in Nat
              BY DEF TypeOK, Log
            <7> QED BY <5>3, <7>1
          <6> QED BY <1>6, <2>1, <5>3, <6>1
        <5>5. op.src = call[c].src
          BY <2>1, <4>2 DEF OpOk, CommitOk
        <5>6. entry[x].phase = "committing" /\ entry[x].src = call[c].src
          BY <4>1, <4>2 DEF CallerInv, CallerOk
        <5>7. op.src.rev <= stored[x].rev
          BY <5>5, <5>6 DEF LogInv, LogOk, Fresh
        <5>8. stored[x].rev \in Nat /\ stored'[x].rev \in Nat
          BY DEF TypeOK, Log
        <5> QED BY <2>1, <5>3, <5>4, <5>7, <5>8
      <4> QED BY <4>1, <4>2
    <3> QED BY <3>1, <3>2
  <2>3. op.at # "queued" => states'[x] = states[x] /\ (Secured(x)' => Secured(x))
    BY <1>4, <1>6, <2>1
  <2>4. stored'[x] = stored[x] \/ stored'[x].rev > stored[x].rev
    OBVIOUS
  <2> QED BY <2>1, <2>2, <2>3, <2>4, OpKept
<1> QED BY <1>2, <1>3, <1>5, <1>6

(* The operation at the head.                                                  *)
LEMMA HeadIs ==
  ASSUME PoolInv, NEW id \in Ids, chain[id] # <<>>
  PROVE  /\ 1 \in DOMAIN chain[id] /\ Running(id) \in Ops /\ Running(id) = chain[id][1]
         /\ Running(id).src \in Log /\ Running(id).who \subseteq Callers
         /\ OpOk(id, Running(id))
<1>1. TypeOK /\ ChainInv
  BY DEF PoolInv
<1>2. 1 \in DOMAIN chain[id] /\ Running(id) \in Ops /\ Running(id) = chain[id][1]
  BY <1>1, ChainIs
<1>3. OpOk(id, Running(id))
  BY <1>1, <1>2 DEF ChainInv
<1> QED BY <1>2, <1>3 DEF Ops

(* Whom it speaks for.                                                         *)
LEMMA DoerIs ==
  ASSUME PoolInv, NEW id \in Ids, chain[id] # <<>>, Running(id).kind # "load"
  PROVE  /\ Doer(id) \in Callers /\ Running(id).who = {Doer(id)} /\ call[Doer(id)].id = id
         /\ Awaits(Doer(id), Running(id)) /\ CommitOk(Doer(id), id, Running(id))
         /\ \A x \in Ids : \A i \in DOMAIN chain[x] : x # id \/ i # 1 => Doer(id) \notin chain[x][i].who
<1>1. TypeOK /\ ChainInv
  BY DEF PoolInv
<1>2. 1 \in DOMAIN chain[id] /\ Running(id) = chain[id][1] /\ OpOk(id, Running(id))
  BY HeadIs
<1>3. PICK c \in Callers : Running(id).who = {c}
  BY <1>2 DEF OpOk
<1>4. Doer(id) = c
  BY <1>3 DEF Doer
<1>5. call[c].id = id /\ Awaits(c, Running(id)) /\ CommitOk(c, id, Running(id))
  BY <1>2, <1>3 DEF OpOk
<1>6. ASSUME NEW x \in Ids, NEW i \in DOMAIN chain[x], x # id \/ i # 1, c \in chain[x][i].who
      PROVE  FALSE
  <2>1. call[c].id = x
    BY <1>1, <1>6 DEF ChainInv, OpOk
  <2> QED BY <1>1, <1>2, <1>3, <1>5, <1>6, <2>1 DEF ChainInv
<1> QED BY <1>3, <1>4, <1>5, <1>6

(* Who is live, or on the way out, keeps the state of its log.                 *)
LivelyKept(id) == \A c \in Callers :
  call[c].pc \in Lively /\ call[c].id = id => states'[id].tracked /\ states'[id].owner = c

(* Who is live stays live and keeps its state.                                 *)
LEMMA LiveKept ==
  ASSUME TypeOK, LiveInv, NEW id \in Ids, live' = live,
         \A x \in Ids : x # id => states'[x] = states[x],
         states'[id] = states[id] \/ LivelyKept(id),
         \A c \in Callers :
           /\ call[c].pc = "live" => call'[c].pc = "live" /\ call'[c].id = call[c].id
           /\ call'[c].pc \in Lively => call[c].pc = call'[c].pc /\ call'[c].id = call[c].id
  PROVE  LiveInv'
<1>1. \A x \in Ids : live[x] # NoOne => live[x] \in Callers
  BY DEF TypeOK
<1>2. \A c \in Callers : call[c].id \in Ids
  BY DEF TypeOK, Calls
<1>3. ASSUME NEW c \in Callers, call'[c].pc \in Lively
      PROVE  states'[call'[c].id].tracked /\ states'[call'[c].id].owner = c
  BY <1>2, <1>3 DEF LiveInv, Lively, LivelyKept
<1> QED BY <1>1, <1>3 DEF LiveInv, Lively

(* The operation at the head goes on to its next stage.                        *)
LEMMA HeadMoves ==
  ASSUME PoolInv, NEW id \in Ids, chain[id] # <<>>, NEW op \in Ops, Moved(id, op),
         op.kind = Running(id).kind, op.who = Running(id).who,
         UNCHANGED <<stored, entry, order, call, live, retiring, foreign>>,
         states' \in [Ids -> SessionStates],
         \A x \in Ids : x # id => states'[x] = states[x],
         states'[id] = states[id] \/ LivelyKept(id),
         LogOk(id)', OpOk(id, op)'
  PROVE  PoolInv'
<1>1. /\ TypeOK /\ CallerInv /\ OwnerInv /\ ChainInv /\ LoadInv /\ LogInv /\ LiveInv /\ PoolBounded
  BY DEF PoolInv
<1>2. chain' \in [Ids -> Seq(Ops)]
  BY <1>1, MovedIs
<1>3. TypeOK'
  BY <1>1, <1>2 DEF TypeOK
<1>4. PoolBounded'
  BY <1>1 DEF PoolBounded, Ready, Here
<1>5. Effect({}, {}, {})
  BY DEF Effect
<1>6. /\ CallerInv' /\ OwnerInv' /\ LogInv'
      /\ \A x \in Ids : \A i \in DOMAIN chain[x] : x # id \/ i > 1 => Kept(x, i)
  <2>1. {} \in SUBSET Ids /\ {} \in SUBSET Callers
    OBVIOUS
  <2>2. stored' = stored /\ entry' = entry
    OBVIOUS
  <2> QED BY <1>1, <1>3, <1>5, <2>1, <2>2, LogKept
<1>7. LiveInv'
  BY <1>1, LiveKept
<1>8. NobodyJoins
  BY DEF NobodyJoins
<1>9. \A x \in Ids : \A i \in DOMAIN chain[x] : x # id \/ i # 1 => Kept(x, i)
  <2>1. \A i \in DOMAIN chain[id] : i # 1 => i > 1
    BY <1>1, ChainIs
  <2> QED BY <1>6, <2>1
<1>10. ChainInv' /\ LoadInv'
  BY <1>1, <1>3, <1>8, <1>9, ChainMoved
<1> QED BY <1>3, <1>4, <1>6, <1>7, <1>10 DEF PoolInv

(* A stage that changes nothing else.                                          *)
LEMMA HeadStays ==
  ASSUME PoolInv, NEW id \in Ids, chain[id] # <<>>, NEW op \in Ops, Moved(id, op),
         op.kind = Running(id).kind, op.who = Running(id).who, OpOk(id, op),
         UNCHANGED <<stored, states, entry, order, call, live, retiring, foreign>>
  PROVE  PoolInv'
<1>1. TypeOK /\ LogInv
  BY DEF PoolInv
<1>2. LogOk(id)'
  BY <1>1 DEF LogInv, LogOk, Fresh, Secured, Owns
<1>3. OpOk(id, op)'
  BY DEF OpOk, StageOk, Awaits, CommitOk, WriteOk, Fresh, Secured, Owns
<1>4. states' \in [Ids -> SessionStates] /\ states'[id] = states[id]
      /\ \A x \in Ids : x # id => states'[x] = states[x]
  BY <1>1 DEF TypeOK
<1> QED BY <1>2, <1>3, <1>4, HeadMoves

(* What the operation at the head answers its caller.                          *)
Answered(c, g) == call' = [call EXCEPT ![c] = [call[c] EXCEPT !.got = IF @ = "pending" THEN g ELSE @]]

(* The operation at the head ends, and answers its caller.                     *)
LEMMA HeadAnswers ==
  ASSUME PoolInv, NEW id \in Ids, chain[id] # <<>>, Running(id).kind # "load",
         NEW g \in {"state", "stale", "error"}, Answered(Doer(id), g), chain' = Pop(id),
         UNCHANGED <<entry, order, live, retiring, foreign>>,
         stored' \in [Ids -> Log], states' \in [Ids -> SessionStates],
         \A x \in Ids : x # id => stored'[x] = stored[x] /\ states'[x] = states[x],
         stored'[id] = stored[id] \/ stored'[id].rev > stored[id].rev,
         states'[id] = states[id] \/ LivelyKept(id),
         LogOk(id)'
  PROVE  PoolInv'
<1>1. /\ TypeOK /\ CallerInv /\ OwnerInv /\ ChainInv /\ LoadInv /\ LogInv /\ LiveInv /\ PoolBounded
      /\ call \in [Callers -> Calls]
  BY DEF PoolInv, TypeOK
<1>2. PICK c \in Callers : c = Doer(id)
  BY DoerIs
<1>3. /\ Running(id).who = {c} /\ call[c].id = id /\ Awaits(c, Running(id))
      /\ \A x \in Ids : \A i \in DOMAIN chain[x] : x # id \/ i # 1 => c \notin chain[x][i].who
      /\ Running(id) \in Ops
  BY <1>2, DoerIs, HeadIs
<1> DEFINE r == [call[c] EXCEPT !.got = IF @ = "pending" THEN g ELSE @]
<1>4. /\ r \in Calls /\ r.pc = call[c].pc /\ r.id = id /\ r.on = call[c].on /\ r.src = call[c].src
      /\ r.aborted = call[c].aborted /\ r.got \in {call[c].got, g}
  BY <1>1, <1>3 DEF Calls
<1>5. call' = [call EXCEPT ![c] = r] /\ call'[c] = r /\ \A d \in Callers \ {c} : call'[d] = call[d]
  BY <1>1, <1>2 DEF Answered
<1> HIDE DEF r
<1>6. chain' \in [Ids -> Seq(Ops)]
  BY <1>1, PopIs
<1>7. TypeOK'
  BY <1>1, <1>4, <1>5, <1>6 DEF TypeOK
<1>8. PoolBounded'
  BY <1>1 DEF PoolBounded, Ready, Here
<1>9. Effect({}, {}, {c})
  BY <1>5 DEF Effect
<1>10. KeeperOk(c, id, {})
  <2>1. CallerOk(c)
    BY <1>1 DEF CallerInv
  <2>2. call[c].pc \notin {"waiting", "go", "loading", "loaded", "settle", "woken"}
    BY <1>3, <2>1 DEF Awaits, Ops, CallerOk
  <2>3. CallerOk(c)'
    BY <1>3, <1>4, <1>5, <2>1, <2>2 DEF CallerOk
  <2>4. \A x \in Ids : Owns(c, x)' => Owns(c, x) /\ x = id
    BY <1>3, <1>4, <1>5 DEF Owns
  <2> QED BY <2>3, <2>4 DEF KeeperOk
<1>11. /\ CallerInv' /\ OwnerInv' /\ LogInv'
       /\ \A x \in Ids : \A i \in DOMAIN chain[x] :
            (c \in chain[x][i].who => Speaks(c, x, i)) /\ (x # id \/ i > 1) => Kept(x, i)
  <2>1. {} \in SUBSET Ids /\ {c} \in SUBSET Callers
    OBVIOUS
  <2>2. \A x \in Ids : x # id => stored'[x] = stored[x] /\ states'[x] = states[x] /\ entry'[x] = entry[x]
    OBVIOUS
  <2>3. PICK G \in SUBSET Ids, A \in SUBSET Callers : G = {} /\ A = {c}
    BY <2>1
  <2>4. /\ \A d \in Callers \ A : \A x \in G : Owns(d, x) =>
             x = id /\ call[d].pc = "commit" /\ stored'[id].rev > stored[id].rev
        /\ \A d \in A : KeeperOk(d, id, G)
        /\ Effect(G, {}, A)
    BY <1>9, <1>10, <2>3
  <2>5. stored'[id] = stored[id] \/ stored'[id].rev > stored[id].rev
    OBVIOUS
  <2>6. /\ CallerInv' /\ OwnerInv' /\ LogInv'
        /\ \A x \in Ids : \A i \in DOMAIN chain[x] :
             (\A d \in A : d \in chain[x][i].who => Speaks(d, x, i)) /\ (x # id \/ i > 1) => Kept(x, i)
    BY <1>1, <1>7, <2>2, <2>4, <2>5, LogKept
  <2> QED BY <2>3, <2>6
<1>12. \A x \in Ids : \A i \in DOMAIN chain[x] : x # id \/ i # 1 => Kept(x, i)
  <2>1. \A i \in DOMAIN chain[id] : i # 1 => i > 1
    BY <1>1, ChainIs
  <2> QED BY <1>3, <1>11, <2>1
<1>13. \A d \in Callers : call'[d].pc = call[d].pc /\ call'[d].id = call[d].id /\ call'[d].on = call[d].on
  BY <1>3, <1>4, <1>5
<1>14. LiveInv'
  BY <1>1, <1>13, LiveKept
<1>15. NobodyJoins
  BY <1>13 DEF NobodyJoins
<1>16. ~IsLastLoad(id, 1)
  BY HeadIs DEF IsLastLoad
<1>17. ChainInv' /\ LoadInv'
  BY <1>1, <1>7, <1>12, <1>15, <1>16, ChainPopped
<1> QED BY <1>7, <1>8, <1>11, <1>14, <1>17 DEF PoolInv

(* An answer leaves the pool alone.                                            *)
LEMMA OutcomeIs ==
  ASSUME TypeOK, NEW c \in Callers, NEW g, Becomes(Outcome(c, g))
  PROVE  Answered(c, g) /\ entry' = entry /\ order' = order
  BY DEF Becomes, Outcome, With, Here, Answered, TypeOK

(* An answer that neither secures anything nor moves the log back.             *)
LEMMA HeadFails ==
  ASSUME PoolInv, NEW id \in Ids, chain[id] # <<>>, Running(id).kind # "load",
         NEW g \in {"state", "stale", "error"}, Becomes(Outcome(Doer(id), g)), chain' = Pop(id),
         g = "state" => call[Doer(id)].pc # "commit",
         UNCHANGED <<states, live, retiring, foreign>>,
         stored' \in [Ids -> Log], \A x \in Ids : x # id => stored'[x] = stored[x],
         stored'[id] = stored[id] \/ (stored'[id].rev > stored[id].rev /\ ~states[id].tracked)
  PROVE  PoolInv'
<1>1. /\ TypeOK /\ LogInv /\ LogOk(id) /\ call \in [Callers -> Calls] /\ CallerInv
  BY DEF PoolInv, LogInv, TypeOK
<1>2. PICK c \in Callers : c = Doer(id)
  BY DoerIs
<1>3. Answered(c, g) /\ entry' = entry /\ order' = order
  BY <1>1, <1>2, OutcomeIs
<1>4. /\ \A d \in Callers \ {c} : call'[d] = call[d]
      /\ call'[c].pc = call[c].pc /\ call'[c].id = call[c].id /\ call'[c].on = call[c].on
      /\ call'[c].got \in {call[c].got, g}
  <2>1. call[c] \in Calls
    BY <1>1
  <2> QED BY <1>1, <1>3, <2>1 DEF Answered, Calls
<1>5. Secured(id)' => Secured(id)
  BY <1>2, <1>3, <1>4 DEF Secured, Owns
<1>6. LogOk(id)'
  <2>1. CASE stored'[id] = stored[id]
    BY <1>1, <1>3, <1>5, <2>1 DEF LogOk, Fresh
  <2>2. CASE stored'[id].rev > stored[id].rev /\ ~states[id].tracked
    <3>1. entry[id].phase \in {"ready", "committing", "reserved"} =>
            entry[id].src.rev \in Nat /\ stored[id].rev \in Nat /\ stored'[id].rev \in Nat
      <4>1. entry[id] \in Entries /\ stored[id] \in Log /\ stored'[id] \in Log
        BY <1>1 DEF TypeOK
      <4> QED BY <4>1 DEF Entries, NoEntry, Log
    <3> QED BY <1>1, <1>3, <1>5, <2>2, <3>1 DEF LogOk, Fresh
  <2> QED BY <2>1, <2>2
<1>7. states' \in [Ids -> SessionStates] /\ states'[id] = states[id]
      /\ \A x \in Ids : x # id => stored'[x] = stored[x] /\ states'[x] = states[x]
  BY <1>1 DEF TypeOK
<1>8. UNCHANGED <<entry, order, live, retiring, foreign>>
  BY <1>3
<1> QED BY <1>2, <1>3, <1>6, <1>7, <1>8, HeadAnswers

(* The operation at the head has moved to a stage, or there with a new source. *)
LEMMA MovesAt ==
  ASSUME PoolInv, NEW id \in Ids, chain[id] # <<>>,
         NEW stage \in {"queued", "read", "revision", "repair", "write"}, chain' = At(id, stage)
  PROVE  \E op \in Ops : /\ Moved(id, op) /\ op.kind = Running(id).kind /\ op.who = Running(id).who
                         /\ op.seq = Running(id).seq /\ op.at = stage /\ op.src = Running(id).src
<1>1. TypeOK
  BY DEF PoolInv
<1>2. PICK o \in Ops : o = Running(id)
  BY HeadIs
<1>3. [o EXCEPT !.at = stage] \in Ops /\ Moved(id, [o EXCEPT !.at = stage])
  <2>1. PICK src \in Log : TRUE
    BY HeadIs
  <2> QED BY <1>1, <1>2, <2>1, AtIs
<1>4. PICK op \in Ops : op = [o EXCEPT !.at = stage]
  BY <1>3
<1>5. op.kind = o.kind /\ op.who = o.who /\ op.seq = o.seq /\ op.at = stage /\ op.src = o.src
  BY <1>4 DEF Ops
<1>6. Moved(id, op)
  BY <1>3, <1>4
<1> QED BY <1>2, <1>5, <1>6

MovedTo(id, stage, src) == chain' = [chain EXCEPT ![id][1].at = stage, ![id][1].src = src]

(* There, with a new source.                                                   *)
LEMMA MovesTo ==
  ASSUME PoolInv, NEW id \in Ids, chain[id] # <<>>,
         NEW stage \in {"queued", "read", "revision", "repair", "write"}, NEW src \in Log,
         MovedTo(id, stage, src)
  PROVE  \E op \in Ops : /\ Moved(id, op) /\ op.kind = Running(id).kind /\ op.who = Running(id).who
                         /\ op.seq = Running(id).seq /\ op.at = stage /\ op.src = src
<1>1. TypeOK
  BY DEF PoolInv
<1>2. PICK o \in Ops : o = Running(id)
  BY HeadIs
<1>3. [o EXCEPT !.at = stage, !.src = src] \in Ops /\ Moved(id, [o EXCEPT !.at = stage, !.src = src])
  BY <1>1, <1>2, AtIs DEF MovedTo
<1>4. PICK op \in Ops : op = [o EXCEPT !.at = stage, !.src = src]
  BY <1>3
<1>5. op.kind = o.kind /\ op.who = o.who /\ op.seq = o.seq /\ op.at = stage /\ op.src = src
  BY <1>4 DEF Ops
<1>6. Moved(id, op)
  BY <1>3, <1>4
<1> QED BY <1>2, <1>5, <1>6

(* The read of a whole log begins.                                             *)
LEMMA StepStartLoad ==
  ASSUME PoolInv, NEW id \in Ids, StartLoad(id)
  PROVE  PoolInv'
<1>1. /\ chain[id] # <<>> /\ Running(id).kind = "load" /\ chain' = At(id, "read")
      /\ Running(id).src \in Log /\ OpOk(id, Running(id))
  BY HeadIs DEF StartLoad, Is
<1>2. PICK op \in Ops : /\ Moved(id, op) /\ op.kind = Running(id).kind /\ op.who = Running(id).who
                        /\ op.at = "read"
  BY <1>1, MovesAt
<1>3. OpOk(id, op)
  BY <1>1, <1>2 DEF OpOk, StageOk, Awaits, CommitOk, WriteOk
<1>4. UNCHANGED <<stored, states, entry, order, call, live, retiring, foreign>>
  BY DEF StartLoad
<1> QED BY <1>1, <1>2, <1>3, <1>4, HeadStays

(* An operation that rejects before it changed the log.                        *)
LEMMA HeadRejects ==
  ASSUME PoolInv, NEW id \in Ids, chain[id] # <<>>, Running(id).kind # "load", Rejects(id),
         UNCHANGED <<stored, states, live, retiring, foreign>>
  PROVE  PoolInv'
<1>1. TypeOK
  BY DEF PoolInv
<1>2. stored' \in [Ids -> Log] /\ \A x \in Ids : stored'[x] = stored[x]
  BY <1>1 DEF TypeOK
<1>3. Becomes(Outcome(Doer(id), "error")) /\ chain' = Pop(id)
  BY DEF Rejects
<1> QED BY <1>2, <1>3, HeadFails

(* A commit begins: a signal, or a log with an owner, rejects it.              *)
LEMMA StepStartCommit ==
  ASSUME PoolInv, NEW id \in Ids, StartCommit(id)
  PROVE  PoolInv'
<1>1. /\ chain[id] # <<>> /\ Running(id).kind = "commit" /\ Running(id).at = "queued"
      /\ Running(id).src \in Log /\ OpOk(id, Running(id))
      /\ UNCHANGED <<stored, states, live, retiring, foreign>>
  BY HeadIs DEF StartCommit, Is
<1>2. CASE Rejects(id)
  BY <1>1, <1>2, HeadRejects
<1>3. CASE /\ ~Cut(id) /\ states[id].owner = NoOne /\ chain' = At(id, "revision")
           /\ UNCHANGED <<entry, order, call>>
  <2>1. PICK op \in Ops : /\ Moved(id, op) /\ op.kind = Running(id).kind /\ op.who = Running(id).who
                          /\ op.at = "revision" /\ op.src = Running(id).src
    BY <1>1, <1>3, MovesAt
  <2>2. OpOk(id, op)
    <3>1. /\ op.who = {Doer(id)} /\ Awaits(Doer(id), Running(id)) /\ ~call[Doer(id)].aborted
          /\ call[Doer(id)].id = id /\ CommitOk(Doer(id), id, Running(id))
      BY <1>1, <1>3, <2>1, DoerIs DEF Cut
    <3>2. PICK c \in Callers : c = Doer(id)
      BY <1>1, DoerIs
    <3> QED BY <1>1, <1>3, <2>1, <3>1, <3>2 DEF OpOk, StageOk, Awaits, CommitOk, WriteOk
  <2>3. UNCHANGED <<stored, states, entry, order, call, live, retiring, foreign>>
    BY <1>1, <1>3
  <2> QED BY <1>1, <2>1, <2>2, <2>3, HeadStays
<1> QED BY <1>2, <1>3 DEF StartCommit

(* So does a revision check.                                                   *)
LEMMA StepStartCheck ==
  ASSUME PoolInv, NEW id \in Ids, StartCheck(id)
  PROVE  PoolInv'
<1>1. /\ chain[id] # <<>> /\ Running(id).kind = "check" /\ Running(id).at = "queued"
      /\ Running(id).src \in Log /\ OpOk(id, Running(id))
      /\ UNCHANGED <<stored, states, live, retiring, foreign>>
  BY HeadIs DEF StartCheck, Is
<1>2. CASE Rejects(id)
  BY <1>1, <1>2, HeadRejects
<1>3. CASE ~Cut(id) /\ chain' = At(id, "revision") /\ UNCHANGED <<entry, order, call>>
  <2>1. PICK op \in Ops : /\ Moved(id, op) /\ op.kind = Running(id).kind /\ op.who = Running(id).who
                          /\ op.at = "revision"
    BY <1>1, <1>3, MovesAt
  <2>2. OpOk(id, op)
    <3>1. /\ op.who = {Doer(id)} /\ Awaits(Doer(id), Running(id)) /\ ~call[Doer(id)].aborted
          /\ call[Doer(id)].id = id
      BY <1>1, <1>3, <2>1, DoerIs DEF Cut
    <3>2. PICK c \in Callers : c = Doer(id)
      BY <1>1, DoerIs
    <3> QED BY <1>1, <1>3, <2>1, <3>1, <3>2 DEF OpOk, StageOk, Awaits, CommitOk, WriteOk
  <2>3. UNCHANGED <<stored, states, entry, order, call, live, retiring, foreign>>
    BY <1>1, <1>3
  <2> QED BY <1>1, <2>1, <2>2, <2>3, HeadStays
<1> QED BY <1>2, <1>3 DEF StartCheck

(* The answer to a revision check concerns its caller only.                    *)
LEMMA StepCheckRevision ==
  ASSUME PoolInv, NEW id \in Ids, CheckRevision(id)
  PROVE  PoolInv'
<1>1. /\ chain[id] # <<>> /\ Running(id).kind = "check" /\ Running(id).at = "revision"
      /\ UNCHANGED <<stored, states, live, retiring, foreign>>
  BY DEF CheckRevision, Is
<1>2. CASE Rejects(id)
  BY <1>1, <1>2, HeadRejects
<1>3. CASE ~Rejects(id)
  <2>1. /\ Becomes(Outcome(Doer(id), IF Same(id) THEN "state" ELSE "stale")) /\ chain' = Pop(id)
    BY <1>3 DEF CheckRevision
  <2>2. PICK g \in {"state", "stale", "error"} : g = IF Same(id) THEN "state" ELSE "stale"
    OBVIOUS
  <2>3. call[Doer(id)].pc # "commit"
    BY <1>1, DoerIs DEF Awaits
  <2>4. stored' \in [Ids -> Log] /\ \A x \in Ids : stored'[x] = stored[x]
    BY <1>1 DEF PoolInv, TypeOK
  <2> QED BY <1>1, <2>1, <2>2, <2>3, <2>4, HeadFails
<1> QED BY <1>2, <1>3

(* adopt() has read the log.                                                   *)
LEMMA StepAdoptRead ==
  ASSUME PoolInv, NEW id \in Ids, AdoptRead(id)
  PROVE  PoolInv'
<1>1. /\ chain[id] # <<>> /\ Running(id).kind = "append" /\ Running(id).at = "read"
      /\ OpOk(id, Running(id)) /\ UNCHANGED <<stored, states, live, retiring, foreign>>
  BY HeadIs DEF AdoptRead, Is
<1>2. CASE Rejects(id)
  BY <1>1, <1>2, HeadRejects
<1>3. CASE /\ chain' = [chain EXCEPT ![id][1].at = "revision", ![id][1].src = stored[id]]
           /\ UNCHANGED <<entry, order, call>>
  <2>1. PICK src \in Log : src = stored[id]
    BY DEF PoolInv, TypeOK
  <2>2. MovedTo(id, "revision", src)
    BY <1>3, <2>1 DEF MovedTo
  <2>3. PICK op \in Ops : /\ Moved(id, op) /\ op.kind = Running(id).kind /\ op.who = Running(id).who
                          /\ op.at = "revision" /\ op.src = src
    BY <1>1, <2>2, MovesTo
  <2>4. src.rev \in Nat
    BY <2>1 DEF Log
  <2>5. OpOk(id, op)
    BY <1>1, <2>1, <2>3, <2>4 DEF OpOk, StageOk, Awaits, CommitOk, WriteOk, Fresh
  <2>6. UNCHANGED <<stored, states, entry, order, call, live, retiring, foreign>>
    BY <1>1, <1>3
  <2> QED BY <1>1, <2>3, <2>5, <2>6, HeadStays
<1> QED BY <1>2, <1>3 DEF AdoptRead

(* The types follow from those of the pool, also when a log is written.        *)
LEMMA PoolTypes ==
  ASSUME TypeOK, NEW q \in Pools, Keyed(q), Becomes(q), Cardinality(Ready(q)) <= Capacity,
         stored' \in [Ids -> Log], states' \in [Ids -> SessionStates],
         live' \in [Ids -> Callers \cup {NoOne}], retiring' \in [Ids -> BOOLEAN],
         foreign' \in Nat, chain' \in [Ids -> Seq(Ops)]
  PROVE  TypeOK' /\ PoolBounded'
<1>1. q.entry = entry' /\ q.order = order' /\ q.call = call'
  BY DEF Becomes
<1>2. TypeOK'
  BY <1>1 DEF TypeOK, Pools, Keyed
<1>3. Ready(Here)' = Ready(q)
  BY <1>1 DEF Ready, Here
<1> QED BY <1>2, <1>3 DEF PoolBounded

(* What was done to the pool is what the step does.                            *)
LEMMA PooledEffect ==
  ASSUME NEW p, NEW G, NEW R, Pooled(p, G, R), Becomes(p)
  PROVE  Effect(G, R, {})
  BY DEF Pooled, Becomes, Effect

(* What adopt() leaves at the head of the chain, and in the pool.              *)
Adopting(id, G, op) ==
  /\ Moved(id, op) /\ op.kind = Running(id).kind /\ op.who = Running(id).who
  /\ op.at \in {"read", "revision"} /\ (op.at = "revision" => Fresh(op.src, id))
  /\ \E p : Pooled(p, G, {}) /\ Becomes(p)

(* adopt() takes a finished preparation's source, or reads the log.            *)
LEMMA AdoptIs ==
  ASSUME PoolInv, CapacityPositive, NEW id \in Ids, chain[id] # <<>>, Adopt(id)
  PROVE  \E op \in Ops : \E G \in SUBSET {id} :
           Adopting(id, G, op) /\ (G = {} \/ entry[id].phase = "ready")
<1>1. TypeOK /\ PoolBounded /\ CallerInv /\ LogOk(id)
  BY DEF PoolInv, LogInv
<1>2. CASE /\ entry[id].phase = "ready" /\ Becomes(Drop(Here, id))
           /\ chain' = [chain EXCEPT ![id][1].at = "revision", ![id][1].src = entry[id].src]
  <2>1. entry[id].src \in Log /\ Fresh(entry[id].src, id)
    <3>1. entry[id] \in Entries /\ entry[id] # NoEntry
      BY <1>1, <1>2, PhaseTells DEF TypeOK, NoEntry
    <3> QED BY <1>1, <1>2, <3>1 DEF Entries, LogOk
  <2>2. PICK src \in Log : src = entry[id].src
    BY <2>1
  <2>3. MovedTo(id, "revision", src)
    BY <1>2, <2>2 DEF MovedTo
  <2>4. PICK op \in Ops : /\ Moved(id, op) /\ op.kind = Running(id).kind /\ op.who = Running(id).who
                          /\ op.at = "revision" /\ op.src = src
    BY <2>3, MovesTo
  <2>5. Pooled(Drop(Here, id), {id}, {})
    BY <1>1, DropPooled
  <2>6. Adopting(id, {id}, op)
    BY <1>2, <2>1, <2>2, <2>4, <2>5 DEF Adopting
  <2> QED BY <1>2, <2>6
<1>3. CASE /\ entry[id].phase # "ready" /\ chain' = At(id, "read") /\ UNCHANGED <<entry, order, call>>
  <2>1. PICK op \in Ops : /\ Moved(id, op) /\ op.kind = Running(id).kind /\ op.who = Running(id).who
                          /\ op.at = "read"
    BY <1>3, MovesAt
  <2>2. Pooled(Here, {}, {}) /\ Becomes(Here)
    BY <1>1, <1>3, HerePooled, HereIs DEF Becomes
  <2>3. Adopting(id, {}, op)
    BY <2>1, <2>2 DEF Adopting
  <2> QED BY <2>3
<1> QED BY <1>2, <1>3 DEF Adopt

(* adopt() of an untracked log nobody has reserved.                            *)
LEMMA AdoptSteps ==
  ASSUME PoolInv, CapacityPositive, NEW id \in Ids, chain[id] # <<>>,
         Running(id).kind = "append", Adopt(id), ~Secured(id), ~states[id].tracked,
         UNCHANGED <<states, live, retiring, foreign>>,
         stored' \in [Ids -> Log], \A x \in Ids : x # id => stored'[x] = stored[x],
         stored'[id] = stored[id] \/ stored'[id].rev > stored[id].rev
  PROVE  PoolInv'
<1>1. /\ TypeOK /\ CallerInv /\ OwnerInv /\ ChainInv /\ LoadInv /\ LogInv /\ LiveInv /\ PoolBounded
      /\ LogOk(id) /\ states' = states /\ live' = live
  BY DEF PoolInv, LogInv
<1>2. PICK op \in Ops, G \in SUBSET {id} :
        Adopting(id, G, op) /\ (G = {} \/ entry[id].phase = "ready")
  BY AdoptIs
<1>3. PICK p : Pooled(p, G, {}) /\ Becomes(p)
  BY <1>2 DEF Adopting
<1>4. /\ Moved(id, op) /\ op.kind = "append" /\ op.who = Running(id).who
      /\ op.at \in {"read", "revision"} /\ (op.at = "revision" => Fresh(op.src, id))
  BY <1>2 DEF Adopting
<1>5. TypeOK' /\ PoolBounded'
  <2>1. chain' \in [Ids -> Seq(Ops)]
    BY <1>1, <1>4, MovedIs
  <2>2. p \in Pools /\ Keyed(p) /\ Cardinality(Ready(p)) <= Capacity
    BY <1>3 DEF Pooled
  <2>3. /\ states' \in [Ids -> SessionStates] /\ live' \in [Ids -> Callers \cup {NoOne}]
        /\ retiring' \in [Ids -> BOOLEAN] /\ foreign' \in Nat
    BY <1>1 DEF TypeOK
  <2> QED BY <1>1, <1>3, <2>1, <2>2, <2>3, PoolTypes
<1>6. Effect(G, {}, {}) /\ G \in SUBSET Ids /\ {} \in SUBSET Callers
  BY <1>3, PooledEffect
<1>7. \A c \in Callers : Same3(c) /\ call'[c] \in {call[c], Freed(call[c])}
  BY <1>6 DEF Effect, Same3
<1>8. /\ \A x \in Ids : entry'[x] = entry[x] \/ entry'[x] = NoEntry
      /\ \A x \in Ids : x # id => entry'[x] = entry[x]
  <2>1. \A x \in Ids : \/ x \in G /\ p.entry[x] = NoEntry
                       \/ p.entry[x] = entry[x] /\ x \notin G
    BY <1>3 DEF Pooled
  <2>2. entry' = p.entry
    BY <1>3 DEF Becomes
  <2> QED BY <1>2, <2>1, <2>2
<1>9. ~Secured(id)'
  <2>1. \A c \in Callers : /\ call'[c].id = call[c].id /\ call'[c].got = call[c].got
                           /\ call'[c].pc = "commit" => call[c].pc = "commit"
                           /\ call'[c].on => call[c].on
    BY <1>1, <1>7, Aside
  <2>2. entry'[id].phase = "reserved" => entry[id].phase = "reserved"
    BY <1>8, NoEntryIs
  <2> QED BY <2>1, <2>2 DEF Secured, Owns, Owning
<1>10. stored[id].rev \in Nat /\ stored'[id].rev \in Nat
  BY <1>1 DEF TypeOK, Log
<1>11. LogOk(id)'
  <2>1. entry'[id].phase \in {"ready", "committing", "reserved"} =>
          /\ entry'[id] = entry[id] /\ Fresh(entry[id].src, id) /\ entry[id].src.rev \in Nat
    <3>1. entry[id] \in Entries
      BY <1>1 DEF TypeOK
    <3> QED BY <1>1, <1>8, <3>1, NoEntryIs DEF LogOk, Entries, NoEntry, Log
  <2>2. entry'[id].phase \in {"ready", "committing", "reserved"} => Fresh(entry[id].src, id)'
    BY <1>8, <1>10, <2>1 DEF Fresh
  <2> QED BY <1>1, <1>9, <2>1, <2>2 DEF LogOk, Fresh
<1>12. /\ CallerInv' /\ OwnerInv' /\ LogInv'
       /\ \A x \in Ids : \A i \in DOMAIN chain[x] : x # id \/ i > 1 => Kept(x, i)
  <2>1. \A c \in Callers : \A x \in G : ~Owns(c, x)
    <3>1. G = {} \/ \A c \in Callers : ~Owns(c, id)
      BY <1>1, <1>2, NotOwned
    <3> QED BY <3>1, <1>2
  <2>. PICK A \in SUBSET Callers : A = {}
    OBVIOUS
  <2>2. \A c \in Callers \ A : \A x \in G : Owns(c, x) =>
          x = id /\ call[c].pc = "commit" /\ stored'[id].rev > stored[id].rev
    BY <2>1
  <2>3. \A x \in Ids : x # id => stored'[x] = stored[x] /\ states'[x] = states[x] /\ entry'[x] = entry[x]
    BY <1>1, <1>8
  <2>4. \A c \in A : KeeperOk(c, id, G)
    OBVIOUS
  <2>5. G \in SUBSET Ids /\ Effect(G, {}, A)
    BY <1>6
  <2>6. TypeOK /\ TypeOK' /\ CallerInv /\ OwnerInv /\ ChainInv /\ LogInv /\ LogOk(id)'
    BY <1>1, <1>5, <1>11
  <2>7. stored'[id] = stored[id] \/ stored'[id].rev > stored[id].rev
    OBVIOUS
  <2>8. /\ CallerInv' /\ OwnerInv' /\ LogInv'
        /\ \A x \in Ids : \A i \in DOMAIN chain[x] :
             (\A c \in A : c \in chain[x][i].who => Speaks(c, x, i)) /\ (x # id \/ i > 1) => Kept(x, i)
    BY <2>2, <2>3, <2>4, <2>5, <2>6, <2>7, LogKept
  <2> QED BY <2>8
<1>13. OpOk(id, op)'
  <2>1. OpOk(id, Running(id)) /\ op.who \subseteq Callers
    BY <1>4, HeadIs
  <2>2. \A c \in op.who : call'[c].id = id /\ Awaits(c, op)' /\ CommitOk(c, id, op)'
    <3>1. \A c \in op.who : call[c].id = id /\ call[c].pc = "append" /\ call[c].got = "pending"
      BY <1>4, <2>1 DEF OpOk, Awaits
    <3>2. \A c \in op.who : call'[c].id = id /\ call'[c].pc = "append" /\ call'[c].got = "pending"
      BY <1>1, <1>7, <2>1, <3>1, Aside
    <3> QED BY <1>4, <3>2 DEF Awaits, CommitOk
  <2>3. op.at = "revision" => Fresh(op.src, id)'
    <3>1. op.src.rev \in Nat
      BY DEF Ops, Log
    <3> QED BY <1>4, <1>10, <3>1 DEF Fresh
  <2>4. WriteOk(id, op)'
    BY <1>1, <1>4, <1>9, <2>3 DEF WriteOk, Fresh
  <2> QED BY <1>4, <2>1, <2>2, <2>4 DEF OpOk, StageOk
<1>14. LiveInv'
  <2>1. \A c \in Callers : /\ call'[c].id = call[c].id
                           /\ call'[c].pc = call[c].pc \/ (call[c].pc = "settle" /\ call'[c].pc = "woken")
    BY <1>1, <1>7, Aside
  <2>2. \A x \in Ids : states'[x] = states[x]
    BY <1>1
  <2> QED BY <1>1, <2>1, <2>2, LiveKept DEF Lively
<1>15. NobodyJoins
  <2>1. \A c \in Callers : call'[c].pc = "loading" /\ call'[c].on =>
          call[c].pc = "loading" /\ call[c].on /\ call'[c].id = call[c].id
    BY <1>1, <1>7, Aside
  <2> QED BY <1>8, <2>1, NoEntryIs DEF NobodyJoins
<1>16. \A x \in Ids : \A i \in DOMAIN chain[x] : x # id \/ i # 1 => Kept(x, i)
  <2>1. \A i \in DOMAIN chain[id] : i # 1 => i > 1
    BY <1>1, ChainIs
  <2> QED BY <1>12, <2>1
<1>17. ChainInv' /\ LoadInv'
  <2>1. op.kind = Running(id).kind
    BY <1>4
  <2> QED BY <1>1, <1>4, <1>5, <1>13, <1>15, <1>16, <2>1, ChainMoved
<1> QED BY <1>5, <1>12, <1>14, <1>17 DEF PoolInv

(* A batch begins: it is refused, it continues a tracked log, or the log has   *)
(* to be adopted first.                                                        *)
LEMMA StepStartAppend ==
  ASSUME PoolInv, CapacityPositive, NoOneIsNoCaller, NEW id \in Ids, StartAppend(id)
  PROVE  PoolInv'
<1>1. /\ chain[id] # <<>> /\ Running(id).kind \in {"append", "seed"} /\ Running(id).at = "queued"
      /\ OpOk(id, Running(id))
      /\ UNCHANGED <<stored, states, live, retiring, foreign>>
  BY HeadIs DEF StartAppend, Is
<1>2. TypeOK /\ CallerInv /\ LiveInv
  BY DEF PoolInv
<1>3. Writable(id) => ~Secured(id)
  BY <1>2, SecuredPhase DEF Writable, Exclusive
<1>4. CASE Rejects(id)
  BY <1>1, <1>4, HeadRejects
<1>5. CASE /\ Writable(id) /\ states[id].tracked /\ Continues(id, states[id])
           /\ chain' = At(id, "write") /\ UNCHANGED <<entry, order, call>>
  <2>1. PICK op \in Ops : /\ Moved(id, op) /\ op.kind = Running(id).kind /\ op.who = Running(id).who
                          /\ op.seq = Running(id).seq /\ op.at = "write"
    BY <1>1, <1>5, MovesAt
  <2>2. OpOk(id, op)
    BY <1>1, <1>3, <1>5, <2>1 DEF OpOk, StageOk, Awaits, CommitOk, WriteOk, Continues
  <2>3. UNCHANGED <<stored, states, entry, order, call, live, retiring, foreign>>
    BY <1>1, <1>5
  <2> QED BY <1>1, <2>1, <2>2, <2>3, HeadStays
<1>6. CASE Writable(id) /\ ~states[id].tracked /\ Adopt(id)
  <2>1. Running(id).kind = "append"
    <3>1. ASSUME Running(id).kind = "seed" PROVE FALSE
      <4>1. PICK c \in Callers : call[c].id = id /\ call[c].pc \in {"live", "retiring"}
        BY <1>1, <3>1, DoerIs DEF Awaits
      <4> QED BY <1>2, <1>6, <4>1 DEF LiveInv
    <3> QED BY <1>1, <3>1
  <2>2. stored' \in [Ids -> Log] /\ \A x \in Ids : stored'[x] = stored[x]
    BY <1>1, <1>2 DEF TypeOK
  <2> QED BY <1>1, <1>3, <1>6, <2>1, <2>2, AdoptSteps
<1> QED BY <1>4, <1>5, <1>6 DEF StartAppend

(* What a fresh, clean source says of the log.                                 *)
LEMMA CommittedIs ==
  ASSUME TypeOK, LiveInv, NoOneIsNoCaller, NEW id \in Ids, LogOk(id), Running(id).src \in Log,
         Fresh(Running(id).src, id), Same(id), ~Running(id).src.dirty,
         ~states[id].tracked \/ states[id].owner = NoOne,
         states' = Committed(id), stored' = stored, entry' = entry
  PROVE  /\ states' \in [Ids -> SessionStates]
         /\ \A x \in Ids : x # id => states'[x] = states[x]
         /\ states'[id].tracked /\ states'[id].cursor = Running(id).src.len /\ states'[id].owner = NoOne
         /\ states'[id].cursor = stored[id].len /\ ~stored[id].dirty
         /\ LivelyKept(id)
         /\ (Secured(id)' => entry[id].src = stored[id]) => LogOk(id)'
<1>1. Running(id).src = stored[id]
  BY DEF Same, Fresh
<1>2. states'[id] = Tracked(stored[id].len, NoOne) /\ states' \in [Ids -> SessionStates]
      /\ \A x \in Ids : x # id => states'[x] = states[x]
  <2>1. Tracked(stored[id].len, NoOne) \in SessionStates
    BY DEF TypeOK, Log, Tracked, SessionStates
  <2> QED BY <1>1, <2>1 DEF TypeOK, Committed
<1>3. /\ states'[id].tracked /\ states'[id].cursor = Running(id).src.len /\ states'[id].owner = NoOne
      /\ states'[id].cursor = stored[id].len /\ ~stored[id].dirty
  BY <1>1, <1>2 DEF Tracked
<1>4. LivelyKept(id)
  BY DEF LiveInv, Lively, LivelyKept
<1>5. ASSUME Secured(id)' => entry[id].src = stored[id] PROVE LogOk(id)'
  BY <1>3, <1>5 DEF LogOk, Fresh
<1> QED BY <1>2, <1>3, <1>4, <1>5

(* commitPrepared has read the revision.                                       *)
LEMMA StepCommitRevision ==
  ASSUME PoolInv, NoOneIsNoCaller, NEW id \in Ids, CommitRevision(id)
  PROVE  PoolInv'
<1>1. /\ chain[id] # <<>> /\ Running(id).kind = "commit" /\ Running(id).at = "revision"
      /\ OpOk(id, Running(id)) /\ Running(id).src \in Log /\ stored' = stored
      /\ UNCHANGED <<live, retiring, foreign>>
  BY HeadIs DEF CommitRevision, Is
<1>2. TypeOK /\ CallerInv /\ LiveInv /\ LogOk(id)
  BY DEF PoolInv, LogInv
<1>3. PICK c \in Callers : c = Doer(id)
  BY <1>1, DoerIs
<1>4. /\ Running(id).who = {c} /\ call[c].id = id /\ call[c].pc = "commit" /\ call[c].got = "pending"
      /\ Running(id).src = call[c].src
      /\ call[c].on \/ Running(id).src.rev < stored[id].rev
      /\ call[c].on => states[id].owner = NoOne
  BY <1>1, <1>3, DoerIs DEF Awaits, CommitOk
<1>5. Same(id) => /\ call[c].on /\ states[id].owner = NoOne
                  /\ Running(id).src = stored[id] /\ entry[id].src = stored[id]
  <2>1. ASSUME Same(id) PROVE call[c].on
    <3>1. Running(id).src.rev \in Nat /\ stored[id].rev \in Nat
      BY <1>1, <1>2 DEF TypeOK, Log
    <3> QED BY <1>4, <2>1, <3>1 DEF Same
  <2>2. call[c].on => entry[id].phase = "committing" /\ entry[id].src = call[c].src
    BY <1>2, <1>4 DEF CallerInv, CallerOk
  <2>3. call[c].on => Fresh(entry[id].src, id)
    BY <1>2, <2>2 DEF LogOk
  <2> QED BY <1>4, <2>1, <2>2, <2>3 DEF Same, Fresh
<1>6. CASE Rejects(id) /\ UNCHANGED states
  BY <1>1, <1>6, HeadRejects
<1>7. CASE Becomes(Outcome(Doer(id), "stale")) /\ chain' = Pop(id) /\ UNCHANGED states
  <2>1. stored' \in [Ids -> Log] /\ \A x \in Ids : stored'[x] = stored[x]
    BY <1>1, <1>2 DEF TypeOK
  <2> QED BY <1>1, <1>7, <2>1, HeadFails
<1>8. CASE /\ Same(id) /\ Running(id).src.dirty
           /\ chain' = At(id, "repair") /\ UNCHANGED <<states, entry, order, call>>
  <2>1. PICK op \in Ops : /\ Moved(id, op) /\ op.kind = Running(id).kind /\ op.who = Running(id).who
                          /\ op.at = "repair" /\ op.src = Running(id).src
    BY <1>1, <1>8, MovesAt
  <2>2. ~states[id].tracked
    BY <1>2, <1>5, <1>8 DEF LogOk
  <2>3. OpOk(id, op)
    BY <1>1, <1>4, <1>5, <1>8, <2>1, <2>2 DEF OpOk, StageOk, Awaits, CommitOk, WriteOk
  <2>4. UNCHANGED <<stored, states, entry, order, call, live, retiring, foreign>>
    BY <1>1, <1>8
  <2> QED BY <1>1, <2>1, <2>3, <2>4, HeadStays
<1>9. CASE /\ Same(id) /\ ~Running(id).src.dirty /\ states' = Committed(id)
           /\ Becomes(Outcome(Doer(id), "state")) /\ chain' = Pop(id)
  <2>1. Answered(Doer(id), "state") /\ entry' = entry /\ order' = order
    BY <1>2, <1>3, <1>9, OutcomeIs
  <2>2. Fresh(Running(id).src, id)
    BY <1>5, <1>9, <1>2 DEF Fresh, TypeOK, Log
  <2>3. /\ states' \in [Ids -> SessionStates] /\ \A x \in Ids : x # id => states'[x] = states[x]
        /\ LivelyKept(id) /\ LogOk(id)'
    BY <1>1, <1>2, <1>5, <1>9, <2>1, <2>2, CommittedIs
  <2>4. stored' \in [Ids -> Log] /\ \A x \in Ids : stored'[x] = stored[x]
    BY <1>1, <1>2 DEF TypeOK
  <2>5. UNCHANGED <<entry, order, live, retiring, foreign>>
    BY <1>1, <2>1
  <2> QED BY <1>1, <1>9, <2>1, <2>3, <2>4, <2>5, HeadAnswers
<1> QED BY <1>6, <1>7, <1>8, <1>9 DEF CommitRevision

(* A rejection secures nothing.                                                *)
LEMMA AnswerSecures ==
  ASSUME TypeOK, NEW c \in Callers, NEW g, Answered(c, g), g = "state" => call[c].pc # "commit",
         entry' = entry, NEW id \in Ids, Secured(id)'
  PROVE  Secured(id)
<1>1. call[c] \in Calls /\ call \in [Callers -> Calls]
  BY DEF TypeOK
<1>2. /\ \A d \in Callers \ {c} : call'[d] = call[d]
      /\ call'[c].pc = call[c].pc /\ call'[c].id = call[c].id /\ call'[c].on = call[c].on
      /\ call'[c].got \in {call[c].got, g}
  BY <1>1 DEF Answered, Calls
<1> QED BY <1>2 DEF Secured, Owns

(* adopt() has read the revision.                                              *)
LEMMA StepAdoptRevision ==
  ASSUME PoolInv, CapacityPositive, NoOneIsNoCaller, NEW id \in Ids, AdoptRevision(id)
  PROVE  PoolInv'
<1>1. /\ chain[id] # <<>> /\ Running(id).kind = "append" /\ Running(id).at = "revision"
      /\ OpOk(id, Running(id)) /\ Running(id).src \in Log /\ stored' = stored
      /\ UNCHANGED <<live, retiring, foreign>>
  BY HeadIs DEF AdoptRevision, Is
<1>2. TypeOK /\ CallerInv /\ LiveInv /\ LogOk(id)
  BY DEF PoolInv, LogInv
<1>3. ~Secured(id) /\ ~states[id].tracked /\ Fresh(Running(id).src, id)
  BY <1>1 DEF OpOk, WriteOk
<1>4. stored' \in [Ids -> Log] /\ \A x \in Ids : stored'[x] = stored[x]
  BY <1>1, <1>2 DEF TypeOK
<1>5. CASE Rejects(id) /\ UNCHANGED states
  BY <1>1, <1>5, HeadRejects
<1>6. CASE Adopt(id) /\ UNCHANGED states
  BY <1>1, <1>3, <1>4, <1>6, AdoptSteps
<1>7. CASE /\ Same(id) /\ Running(id).src.dirty
           /\ chain' = At(id, "repair") /\ UNCHANGED <<states, entry, order, call>>
  <2>1. PICK op \in Ops : /\ Moved(id, op) /\ op.kind = Running(id).kind /\ op.who = Running(id).who
                          /\ op.at = "repair" /\ op.src = Running(id).src
    BY <1>1, <1>7, MovesAt
  <2>2. OpOk(id, op)
    BY <1>1, <1>3, <2>1 DEF OpOk, StageOk, Awaits, CommitOk, WriteOk
  <2>3. UNCHANGED <<stored, states, entry, order, call, live, retiring, foreign>>
    BY <1>1, <1>7
  <2> QED BY <1>1, <2>1, <2>2, <2>3, HeadStays
<1>8. CASE /\ Same(id) /\ ~Running(id).src.dirty /\ states' = Committed(id)
           /\ Continues(id, Committed(id)[id])
           /\ chain' = At(id, "write") /\ UNCHANGED <<entry, order, call>>
  <2>1. PICK op \in Ops : /\ Moved(id, op) /\ op.kind = Running(id).kind /\ op.who = Running(id).who
                          /\ op.seq = Running(id).seq /\ op.at = "write"
    BY <1>1, <1>8, MovesAt
  <2>2. ~Secured(id)'
    BY <1>3, <1>8 DEF Secured, Owns
  <2>3. /\ states' \in [Ids -> SessionStates] /\ \A x \in Ids : x # id => states'[x] = states[x]
        /\ LivelyKept(id) /\ LogOk(id)' /\ states'[id].tracked
    BY <1>1, <1>2, <1>3, <1>8, <2>2, CommittedIs
  <2>4. op.seq = states'[id].cursor
    BY <1>8, <2>1 DEF Continues
  <2>5. OpOk(id, op)'
    <3>1. \A c \in op.who : call'[c].id = id /\ Awaits(c, op)' /\ CommitOk(c, id, op)'
      BY <1>1, <1>8, <2>1 DEF OpOk, Awaits, CommitOk
    <3>2. WriteOk(id, op)'
      BY <2>1, <2>2, <2>3, <2>4 DEF WriteOk
    <3> QED BY <1>1, <2>1, <3>1, <3>2 DEF OpOk, StageOk
  <2>6. UNCHANGED <<stored, entry, order, call, live, retiring, foreign>>
    BY <1>1, <1>8
  <2> QED BY <1>1, <2>1, <2>3, <2>5, <2>6, HeadMoves
<1>9. CASE /\ Same(id) /\ ~Running(id).src.dirty /\ states' = Committed(id) /\ Rejects(id)
  <2>1. PICK c \in Callers : c = Doer(id)
    BY <1>1, DoerIs
  <2>2. Answered(c, "error") /\ entry' = entry /\ order' = order /\ chain' = Pop(id)
    BY <1>2, <1>9, <2>1, OutcomeIs DEF Rejects
  <2>3. ~Secured(id)'
    BY <1>2, <1>3, <2>2, AnswerSecures
  <2>4. /\ states' \in [Ids -> SessionStates] /\ \A x \in Ids : x # id => states'[x] = states[x]
        /\ LivelyKept(id) /\ LogOk(id)'
    BY <1>1, <1>2, <1>3, <1>9, <2>2, <2>3, CommittedIs
  <2>5. UNCHANGED <<entry, order, live, retiring, foreign>>
    BY <1>1, <2>2
  <2>6. Answered(Doer(id), "error")
    BY <2>1, <2>2
  <2> QED BY <1>1, <1>4, <2>2, <2>4, <2>5, <2>6, HeadAnswers
<1> QED BY <1>5, <1>6, <1>7, <1>8, <1>9 DEF AdoptRevision

(* The tail is cut and the closers are appended, or that failed half way.      *)
LEMMA StepRepair ==
  ASSUME PoolInv, CapacityPositive, NEW id \in Ids, Repair(id)
  PROVE  PoolInv'
<1>1. /\ chain[id] # <<>> /\ Running(id).kind \in {"commit", "append"} /\ Running(id).at = "repair"
      /\ OpOk(id, Running(id)) /\ UNCHANGED <<states, live, retiring, foreign>>
  BY HeadIs DEF Repair, Is
<1>2. TypeOK /\ stored[id].rev \in Nat /\ stored[id].len \in Nat /\ stored[id] \in Log
  BY DEF PoolInv, TypeOK, Log
<1>3. ~states[id].tracked
  <2>1. CASE Running(id).kind = "append"
    BY <1>1, <2>1 DEF OpOk, WriteOk
  <2>2. CASE Running(id).kind = "commit"
    BY <1>1, <2>2, DoerIs DEF Awaits, CommitOk
  <2> QED BY <1>1, <2>1, <2>2
<1>4. Running(id).kind = "append" => ~Secured(id)
  BY <1>1 DEF OpOk, WriteOk
<1>5. /\ stored' \in [Ids -> Log] /\ \A x \in Ids : x # id => stored'[x] = stored[x]
      /\ stored'[id] = stored[id] \/ stored'[id].rev > stored[id].rev
  <2>1. CASE stored' = [stored EXCEPT ![id] = [rev |-> @.rev + 1, len |-> @.len + 1, dirty |-> FALSE]]
    <3>1. [rev |-> stored[id].rev + 1, len |-> stored[id].len + 1, dirty |-> FALSE] \in Log
      BY <1>2 DEF Log
    <3> QED BY <1>2, <2>1, <3>1 DEF TypeOK
  <2>2. CASE stored' \in {stored, [stored EXCEPT ![id].rev = @ + 1]}
    <3>1. [stored[id] EXCEPT !.rev = @ + 1] \in Log /\ [stored[id] EXCEPT !.rev = @ + 1].rev = stored[id].rev + 1
      BY <1>2 DEF Log
    <3>2. PICK l \in Log : l = [stored[id] EXCEPT !.rev = @ + 1]
      BY <3>1
    <3>3. stored' = stored \/ stored' = [stored EXCEPT ![id] = l]
      BY <2>2, <3>2
    <3>4. l.rev = stored[id].rev + 1
      BY <3>1, <3>2
    <3>5. CASE stored' = stored
      BY <1>2, <3>5 DEF TypeOK
    <3>6. CASE stored' = [stored EXCEPT ![id] = l]
      <4>1. stored \in [Ids -> Log]
        BY <1>2 DEF TypeOK
      <4>2. stored' \in [Ids -> Log] /\ stored'[id] = l /\ \A x \in Ids : x # id => stored'[x] = stored[x]
        BY <3>6, <4>1
      <4> QED BY <1>2, <3>4, <4>2
    <3> QED BY <3>3, <3>5, <3>6
  <2> QED BY <2>1, <2>2 DEF Repair
<1>6. CASE Becomes(Outcome(Doer(id), "stale")) /\ chain' = Pop(id)
  BY <1>1, <1>3, <1>5, <1>6, HeadFails
<1>7. CASE Running(id).kind = "append" /\ Adopt(id)
  BY <1>1, <1>3, <1>4, <1>5, <1>7, AdoptSteps
<1>8. CASE Rejects(id)
  BY <1>1, <1>3, <1>5, <1>8, HeadFails DEF Rejects
<1> QED BY <1>6, <1>7, <1>8 DEF Repair

(* The batch is durable, or was refused.                                       *)
LEMMA StepWriteDone ==
  ASSUME PoolInv, CapacityPositive, NEW id \in Ids, WriteDone(id)
  PROVE  PoolInv'
<1>1. /\ chain[id] # <<>> /\ Running(id).kind \in {"append", "seed"} /\ Running(id).at = "write"
      /\ OpOk(id, Running(id)) /\ UNCHANGED <<live, retiring, foreign>>
  BY HeadIs DEF WriteDone, Is
<1>2. CASE Rejects(id) /\ UNCHANGED <<stored, states>>
  BY <1>1, <1>2, HeadRejects
<1>3. CASE /\ stored' = [stored EXCEPT ![id] = [rev |-> @.rev + 1, len |-> @.len + 1, dirty |-> @.dirty]]
           /\ states' = [states EXCEPT ![id].cursor = @ + 1]
           /\ Becomes([Drop(Here, id) EXCEPT !.call[Doer(id)].got = "state"])
           /\ chain' = Pop(id)
  <2>1. /\ TypeOK /\ CallerInv /\ OwnerInv /\ ChainInv /\ LoadInv /\ LogInv /\ LiveInv /\ PoolBounded
        /\ LogOk(id) /\ live' = live
    BY <1>1 DEF PoolInv, LogInv
  <2>2. PICK c \in Callers : c = Doer(id)
    BY <1>1, DoerIs
  <2>3. /\ Running(id).who = {c} /\ call[c].id = id /\ call[c].pc \in {"append", "live", "retiring"}
        /\ \A x \in Ids : \A i \in DOMAIN chain[x] : x # id \/ i # 1 => c \notin chain[x][i].who
    BY <1>1, <2>2, DoerIs DEF Awaits
  <2>4. ~Secured(id) /\ states[id].tracked
    BY <1>1 DEF OpOk, WriteOk
  <2>5. PICK p : p = Drop(Here, id)
    OBVIOUS
  <2>6. Pooled(p, {id}, {})
    BY <2>1, <2>5, DropPooled
  <2>7. /\ p \in Pools /\ Keyed(p) /\ Cardinality(Ready(p)) <= Capacity /\ p.entry[id] = NoEntry
        /\ \A x \in Ids : x # id => p.entry[x] = entry[x]
        /\ \A d \in Callers : p.call[d] = IF call[d].id = id THEN Freed(call[d]) ELSE call[d]
    BY <2>6 DEF Pooled
  <2>8. PICK r : r = [p.call[c] EXCEPT !.got = "state"]
    OBVIOUS
  <2>9. /\ r \in Calls /\ r.pc = call[c].pc /\ r.id = id /\ ~r.on /\ r.got = "state"
        /\ r.aborted = call[c].aborted
    <3>1. call[c] \in Calls /\ p.call[c] = Freed(call[c])
      BY <2>1, <2>3, <2>7 DEF TypeOK
    <3>2. p.call[c] \in Calls
      BY <3>1, FreedIs
    <3>3. p.call[c].pc = call[c].pc /\ p.call[c].id = id /\ ~p.call[c].on /\ p.call[c].aborted = call[c].aborted
      BY <2>3, <3>1, FreedIs
    <3> QED BY <2>8, <3>2, <3>3 DEF Calls
  <2>10. PICK q : q = [entry |-> p.entry, order |-> p.order, call |-> [p.call EXCEPT ![c] = r]]
    OBVIOUS
  <2>11. q \in Pools /\ Keyed(q) /\ Ready(q) = Ready(p)
    BY <2>7, <2>9, <2>10 DEF Pools, Keyed, Ready
  <2>12. Becomes(q)
    BY <1>3, <2>2, <2>5, <2>7, <2>8, <2>10 DEF Becomes, Pools
  <2>13. /\ call'[c] = r /\ entry' = p.entry
         /\ \A d \in Callers \ {c} : call'[d] = p.call[d]
    BY <2>7, <2>10, <2>12 DEF Becomes, Pools
  <2>14. /\ stored' \in [Ids -> Log] /\ states' \in [Ids -> SessionStates]
         /\ stored'[id].rev > stored[id].rev /\ stored'[id].len = stored[id].len + 1
         /\ stored'[id].dirty = stored[id].dirty
         /\ states'[id].tracked /\ states'[id].owner = states[id].owner
         /\ states'[id].cursor = states[id].cursor + 1
         /\ \A x \in Ids : x # id => stored'[x] = stored[x] /\ states'[x] = states[x]
    <3>1. /\ stored[id] \in Log /\ states[id] \in SessionStates
          /\ stored[id].rev \in Nat /\ stored[id].len \in Nat
      BY <2>1 DEF TypeOK, Log
    <3>2. PICK l : l = [rev |-> stored[id].rev + 1, len |-> stored[id].len + 1, dirty |-> stored[id].dirty]
      OBVIOUS
    <3>3. l \in Log /\ l.rev > stored[id].rev /\ l.len = stored[id].len + 1 /\ l.dirty = stored[id].dirty
      BY <3>1, <3>2 DEF Log
    <3>4. PICK s : s = [states[id] EXCEPT !.cursor = @ + 1]
      OBVIOUS
    <3>5. /\ s \in SessionStates /\ s.tracked /\ s.owner = states[id].owner
          /\ s.cursor = states[id].cursor + 1
      BY <2>4, <3>1, <3>4 DEF SessionStates
    <3>6. stored' = [stored EXCEPT ![id] = l]
      BY <1>3, <3>2
    <3>7. states' = [states EXCEPT ![id] = s]
      BY <1>3, <3>4
    <3> QED BY <2>1, <3>3, <3>5, <3>6, <3>7 DEF TypeOK
  <2>15. TypeOK' /\ PoolBounded'
    <3>1. chain' \in [Ids -> Seq(Ops)]
      BY <1>3, <2>1, <1>1, PopIs
    <3>2. live' \in [Ids -> Callers \cup {NoOne}] /\ retiring' \in [Ids -> BOOLEAN] /\ foreign' \in Nat
      BY <1>1, <2>1 DEF TypeOK
    <3>3. Cardinality(Ready(q)) <= Capacity
      BY <2>7, <2>11
    <3> QED BY <2>1, <2>11, <2>12, <2>14, <3>1, <3>2, <3>3, PoolTypes
  <2>16. Effect({id}, {}, {c})
    BY <2>7, <2>13 DEF Effect
  <2>17. \A d \in Callers \ {c} : Same3(d)
    BY <2>16 DEF Effect, Same3
  <2>18. \A d \in Callers : /\ call'[d].id = call[d].id
                            /\ call'[d].pc = call[d].pc \/ (call[d].pc = "settle" /\ call'[d].pc = "woken")
                            /\ call'[d].on => call[d].on /\ call[d].id # id
    <3>1. ASSUME NEW d \in Callers \ {c}, call[d].id = id PROVE ~call'[d].on
      <4>1. call'[d] = Freed(call[d]) /\ call[d] \in Calls
        BY <2>1, <2>7, <2>13, <3>1 DEF TypeOK
      <4> QED BY <4>1, FreedIs
    <3> QED BY <2>1, <2>3, <2>9, <2>13, <2>17, <3>1, Aside
  <2>19. ~Secured(id)'
    BY <2>7, <2>13, <2>18, NoEntryIs DEF Secured, Owns
  <2>20. LogOk(id)'
    BY <2>1, <2>4, <2>7, <2>13, <2>14, <2>19, NoEntryIs DEF LogOk
  <2>21. KeeperOk(c, id, {id})
    <3>1. ~call[c].aborted
      BY <2>1, <2>3 DEF CallerInv, CallerOk
    <3>2. CallerOk(c)'
      BY <2>3, <2>9, <2>13, <3>1 DEF CallerOk
    <3> QED BY <2>9, <2>13, <3>2 DEF KeeperOk, Owns
  <2>22. /\ CallerInv' /\ OwnerInv' /\ LogInv'
         /\ \A x \in Ids : \A i \in DOMAIN chain[x] :
              (\A d \in {c} : d \in chain[x][i].who => Speaks(d, x, i)) /\ (x # id \/ i > 1) => Kept(x, i)
    <3>1. \A d \in Callers \ {c} : \A x \in {id} : Owns(d, x) =>
            x = id /\ call[d].pc = "commit" /\ stored'[id].rev > stored[id].rev
      <4>1. ASSUME NEW d \in Callers, Owns(d, id), call[d].pc # "commit" PROVE FALSE
        <5>1. entry[id].phase = "reserved"
          BY <2>1, <4>1 DEF Owns, Owning, CallerInv, CallerOk
        <5> QED BY <2>4, <5>1 DEF Secured
      <4> QED BY <2>14, <4>1
    <3>2. {id} \in SUBSET Ids /\ {c} \in SUBSET Callers /\ (\A d \in {c} : KeeperOk(d, id, {id}))
      BY <2>21
    <3>3. \A x \in Ids : x # id => stored'[x] = stored[x] /\ states'[x] = states[x] /\ entry'[x] = entry[x]
      BY <2>7, <2>13, <2>14
    <3>4. stored'[id] = stored[id] \/ stored'[id].rev > stored[id].rev
      BY <2>14
    <3>5. PICK G \in SUBSET Ids, A \in SUBSET Callers : G = {id} /\ A = {c}
      BY <3>2
    <3>6. /\ \A d \in Callers \ A : \A x \in G : Owns(d, x) =>
               x = id /\ call[d].pc = "commit" /\ stored'[id].rev > stored[id].rev
          /\ \A d \in A : KeeperOk(d, id, G)
          /\ Effect(G, {}, A)
      BY <2>16, <3>1, <3>2, <3>5
    <3>7. /\ CallerInv' /\ OwnerInv' /\ LogInv'
          /\ \A x \in Ids : \A i \in DOMAIN chain[x] :
              (\A d \in A : d \in chain[x][i].who => Speaks(d, x, i)) /\ (x # id \/ i > 1) => Kept(x, i)
      BY <2>1, <2>15, <2>20, <3>3, <3>4, <3>6, LogKept
    <3> QED BY <3>5, <3>7
  <2>23. \A x \in Ids : \A i \in DOMAIN chain[x] : x # id \/ i # 1 => Kept(x, i)
    <3>1. \A i \in DOMAIN chain[id] : i # 1 => i > 1
      BY <1>1, <2>1, ChainIs
    <3> QED BY <2>3, <2>22, <3>1
  <2>24. LiveInv'
    <3>1. LivelyKept(id)
      BY <2>1, <2>14 DEF LiveInv, Lively, LivelyKept
    <3> QED BY <2>1, <2>14, <2>18, <3>1, LiveKept DEF Lively
  <2>25. NobodyJoins
    BY <2>7, <2>13, <2>18, NoEntryIs DEF NobodyJoins
  <2>26. ~IsLastLoad(id, 1)
    BY <1>1, HeadIs DEF IsLastLoad
  <2>27. ChainInv' /\ LoadInv'
    BY <1>1, <1>3, <2>1, <2>15, <2>23, <2>25, <2>26, ChainPopped
  <2> QED BY <2>15, <2>22, <2>24, <2>27 DEF PoolInv
<1> QED BY <1>2, <1>3 DEF WriteDone

(* A retirement ends: who waited for it goes on, or fails with it.             *)
Waiting(id) == {d \in Callers : call[d].pc = "waiting" /\ call[d].id = id}

Retires(id, ok, c) == call' = [Retired(id, ok) EXCEPT ![c] = Over(c)]

(* Those who waited rely on nothing the retirement took.                       *)
LEMMA RetiredIs ==
  ASSUME TypeOK, CallerInv, HomeIsStored, NEW id \in Ids, NEW ok \in BOOLEAN, NEW c \in Callers,
         call[c].pc \in {"retiring", "forgetting"}, call[c].id = id, entry' = entry,
         Retires(id, ok, c)
  PROVE  /\ call' \in [Callers -> Calls]
         /\ \A d \in Callers : d \notin {c} \cup Waiting(id) => call'[d] = call[d]
         /\ \A d \in {c} \cup Waiting(id) :
              CallerOk(d)' /\ call'[d].pc \in {"go", "over"} /\ call'[d].id = id
         /\ ~call'[c].on
<1>1. call \in [Callers -> Calls]
  BY DEF TypeOK
<1>2. /\ \A d \in Callers : call'[d] = IF d = c THEN Over(c)
                                        ELSE IF d \notin Waiting(id) THEN call[d]
                                        ELSE IF ok THEN [call[d] EXCEPT !.pc = "go"] ELSE Over(d)
      /\ call' = [d \in Callers |-> call'[d]]
  <2>1. PICK f : f = Retired(id, ok)
    OBVIOUS
  <2>2. /\ f = [d \in Callers |-> f[d]]
        /\ \A d \in Callers : f[d] = IF d \notin Waiting(id) THEN call[d]
                                     ELSE IF ok THEN [call[d] EXCEPT !.pc = "go"] ELSE Over(d)
    BY <2>1 DEF Retired, Waiting
  <2>3. call' = [f EXCEPT ![c] = Over(c)]
    BY <2>1 DEF Retires
  <2> QED BY <2>2, <2>3
<1>3. \A d \in Callers : /\ Over(d) \in Calls /\ Over(d).pc = "over" /\ Over(d).id = call[d].id
                         /\ ~Over(d).on /\ Over(d).aborted = call[d].aborted
  BY OverIs
<1>4. \A d \in Waiting(id) : LET r == [call[d] EXCEPT !.pc = "go"]
                             IN /\ r \in Calls /\ r.pc = "go" /\ r.id = id /\ r.on = call[d].on
                                /\ r.got = call[d].got /\ r.aborted = call[d].aborted
  BY <1>1 DEF Waiting, Calls, Pending
<1>6. ASSUME NEW d \in Callers PROVE call'[d] \in Calls
  <2>1. call'[d] \in {call[d], Over(d)} \/ (d \in Waiting(id) /\ call'[d] = [call[d] EXCEPT !.pc = "go"])
    BY <1>2
  <2>2. d \in Waiting(id) => [call[d] EXCEPT !.pc = "go"] \in Calls
    BY <1>4
  <2> QED BY <1>1, <1>3, <2>1, <2>2
<1>7. ASSUME NEW d \in {c} \cup Waiting(id)
      PROVE  CallerOk(d)' /\ call'[d].pc \in {"go", "over"} /\ call'[d].id = id
  <2>1. d \in Callers /\ CallerOk(d) /\ call[d].id = id
    BY <1>7 DEF Waiting, CallerInv
  <2>2. CASE call'[d] = Over(d)
    BY <1>3, <2>1, <2>2 DEF CallerOk
  <2>3. CASE call'[d] # Over(d)
    <3>1. d \in Waiting(id) /\ call'[d] = [call[d] EXCEPT !.pc = "go"]
      BY <1>2, <1>7, <2>1, <2>3
    <3>2. /\ call'[d].pc = "go" /\ call'[d].id = id /\ call'[d].on = call[d].on
          /\ call'[d].got = call[d].got /\ call'[d].aborted = call[d].aborted
      BY <1>4, <3>1
    <3>3. call[d].pc = "waiting"
      BY <3>1 DEF Waiting
    <3> QED BY <2>1, <3>2, <3>3 DEF CallerOk
  <2> QED BY <2>2, <2>3
<1>8. call' \in [Callers -> Calls]
  BY <1>2, <1>6
<1>9. ~call'[c].on
  BY <1>2, <1>3
<1>10. \A d \in Callers : d \notin {c} \cup Waiting(id) => call'[d] = call[d]
  BY <1>2
<1> QED BY <1>7, <1>8, <1>9, <1>10

(* The state of a retired lifecycle is forgotten.                              *)
LEMMA StepForget ==
  ASSUME PoolInv, CapacityPositive, HomeIsStored, NoOneIsNoCaller, NEW id \in Ids, Forget(id)
  PROVE  PoolInv'
<1>1. /\ chain[id] # <<>> /\ Running(id).kind = "forget" /\ Running(id) = chain[id][1]
      /\ chain' = Pop(id) /\ UNCHANGED <<stored, entry, order, live, foreign>>
      /\ retiring' = [retiring EXCEPT ![id] = FALSE]
  BY HeadIs DEF Forget, Is
<1>2. /\ TypeOK /\ CallerInv /\ OwnerInv /\ ChainInv /\ LoadInv /\ LogInv /\ LiveInv /\ PoolBounded
      /\ LogOk(id)
  BY DEF PoolInv, LogInv
<1>3. PICK c \in Callers : c = Doer(id)
  BY <1>1, DoerIs
<1>4. /\ call[c].pc = "forgetting" /\ call[c].id = id
      /\ \A x \in Ids : \A i \in DOMAIN chain[x] : x # id \/ i # 1 => c \notin chain[x][i].who
  BY <1>1, <1>3, DoerIs DEF Awaits
<1>5. states[id].tracked /\ states[id].owner = c /\ c # NoOne
  BY <1>2, <1>4 DEF LiveInv, NoOneIsNoCaller
<1>6. /\ states' \in [Ids -> SessionStates] /\ \A x \in Ids : x # id => states'[x] = states[x]
      /\ ~states'[id].tracked /\ states'[id].owner = NoOne
  <2>1. states' = [states EXCEPT ![id] = Untracked]
    BY <1>3, <1>5 DEF Forget
  <2> QED BY <1>2, <2>1 DEF TypeOK, SessionStates, Untracked
<1>7. PICK A \in SUBSET Callers : A = {c} \cup Waiting(id)
  BY DEF Waiting
<1>8. /\ call' \in [Callers -> Calls]
      /\ \A d \in Callers \ A : call'[d] = call[d]
      /\ \A d \in A : CallerOk(d)' /\ call'[d].pc \in {"go", "over"} /\ call'[d].id = id
  <2>1. PICK ok \in BOOLEAN : ok = TRUE
    OBVIOUS
  <2>2. entry' = entry /\ Retires(id, ok, c)
    BY <1>1, <1>3, <2>1 DEF Forget, Retires
  <2>3. /\ call' \in [Callers -> Calls]
        /\ \A d \in Callers : d \notin {c} \cup Waiting(id) => call'[d] = call[d]
        /\ \A d \in {c} \cup Waiting(id) :
             CallerOk(d)' /\ call'[d].pc \in {"go", "over"} /\ call'[d].id = id
    BY <1>2, <1>4, <2>2, RetiredIs
  <2> QED BY <1>7, <2>3
<1>9. \A d \in A : call[d].pc \in {"forgetting", "waiting"} /\ call[d].id = id
  BY <1>4, <1>7 DEF Waiting
<1>10. TypeOK' /\ PoolBounded'
  <2>1. chain' \in [Ids -> Seq(Ops)]
    BY <1>1, <1>2, PopIs
  <2> QED BY <1>1, <1>2, <1>6, <1>8, <2>1 DEF TypeOK, PoolBounded, Ready, Here
<1>11. Effect({}, {}, A)
  BY <1>1, <1>8 DEF Effect
<1>12. \A d \in A : KeeperOk(d, id, {})
  BY <1>8 DEF KeeperOk, Owns, Owning
<1>13. ~Secured(id)'
  <2>1. ~Secured(id)
    BY <1>2, <1>5 DEF LogOk
  <2> QED BY <1>1, <1>8, <2>1 DEF Secured, Owns
<1>14. LogOk(id)'
  BY <1>1, <1>2, <1>6, <1>13 DEF LogOk, Fresh
<1>15. /\ CallerInv' /\ OwnerInv' /\ LogInv'
       /\ \A x \in Ids : \A i \in DOMAIN chain[x] :
            (\A d \in A : d \in chain[x][i].who => Speaks(d, x, i)) /\ (x # id \/ i > 1) => Kept(x, i)
  <2>1. \A x \in Ids : x # id => stored'[x] = stored[x] /\ states'[x] = states[x] /\ entry'[x] = entry[x]
    BY <1>1, <1>6
  <2>2. stored'[id] = stored[id] \/ stored'[id].rev > stored[id].rev
    BY <1>1
  <2>3. PICK G \in SUBSET Ids : G = {}
    OBVIOUS
  <2>4. /\ \A d \in Callers \ A : \A x \in G : Owns(d, x) =>
               x = id /\ call[d].pc = "commit" /\ stored'[id].rev > stored[id].rev
        /\ \A d \in A : KeeperOk(d, id, G)
        /\ Effect(G, {}, A)
    BY <1>11, <1>12, <2>3
  <2> QED BY <1>2, <1>10, <1>14, <2>1, <2>2, <2>4, LogKept
<1>16. \A x \in Ids : \A i \in DOMAIN chain[x] : x # id \/ i # 1 => Kept(x, i)
  <2>1. \A i \in DOMAIN chain[id] : i # 1 => i > 1
    BY <1>1, <1>2, ChainIs
  <2>2. ASSUME NEW x \in Ids, NEW i \in DOMAIN chain[x], x # id \/ i # 1, NEW d \in A
        PROVE  d \notin chain[x][i].who
    <3>1. CASE d = c
      BY <1>4, <2>2, <3>1
    <3>2. CASE d # c
      <4>1. call[d].pc = "waiting" /\ d \in Callers
        BY <1>7, <3>2 DEF Waiting
      <4> QED BY <1>2, <4>1, FreeNow
    <3> QED BY <3>1, <3>2
  <2> QED BY <1>15, <2>1, <2>2
<1>17. LiveInv'
  <2>1. \A x \in Ids : live'[x] # NoOne => call'[live'[x]].pc = "live" /\ call'[live'[x]].id = x
    <3>1. \A x \in Ids : live[x] # NoOne => live[x] \in Callers \ A
      <4>1. \A x \in Ids : live[x] # NoOne => live[x] \in Callers /\ call[live[x]].pc = "live"
        BY <1>2 DEF LiveInv, TypeOK
      <4> QED BY <1>9, <4>1
    <3> QED BY <1>1, <1>2, <1>8, <3>1 DEF LiveInv
  <2>2. ASSUME NEW d \in Callers, call'[d].pc \in {"live", "retiring", "forgetting"}
        PROVE  states'[call'[d].id].tracked /\ states'[call'[d].id].owner = d
    <3>1. d \notin A /\ call'[d] = call[d] /\ call[d].id \in Ids
      BY <1>2, <1>8, <2>2 DEF TypeOK, Calls
    <3>2. states[call[d].id].tracked /\ states[call[d].id].owner = d
      BY <1>2, <2>2, <3>1 DEF LiveInv
    <3>3. call[d].id # id
      BY <1>5, <1>7, <3>1, <3>2
    <3> QED BY <1>6, <3>1, <3>2, <3>3
  <2> QED BY <2>1, <2>2 DEF LiveInv
<1>18. NobodyJoins
  BY <1>1, <1>8 DEF NobodyJoins
<1>19. ~IsLastLoad(id, 1)
  BY <1>1 DEF IsLastLoad
<1>20. ChainInv' /\ LoadInv'
  BY <1>1, <1>2, <1>10, <1>16, <1>18, <1>19, ChainPopped
<1> QED BY <1>10, <1>15, <1>17, <1>20 DEF PoolInv

(* Those who wait for a read that ends.                                        *)
Joined(id) == {c \in Running(id).who : call[c].pc = "loading"}

(* What they are answered.                                                     *)
LEMMA AnswersIs ==
  ASSUME TypeOK, CallerInv, HomeIsStored, NEW id \in Ids, Running(id).who \subseteq Callers,
         NEW q, NEW G, NEW R, Pooled(q, G, R), NEW ok \in BOOLEAN
  PROVE  /\ Answers(q, id, ok) \in Pools /\ Answers(q, id, ok).entry = q.entry
         /\ Answers(q, id, ok).order = q.order
         /\ \A c \in Callers : c \notin Joined(id) => Answers(q, id, ok).call[c] = q.call[c]
         /\ \A c \in Joined(id) :
              /\ Answers(q, id, ok).call[c].pc \in {"loaded", "over"}
              /\ Answers(q, id, ok).call[c].id = call[c].id
              /\ Answers(q, id, ok).call[c].got = "pending" /\ ~Answers(q, id, ok).call[c].aborted
              /\ Answers(q, id, ok).call[c].on => /\ Answers(q, id, ok).call[c].pc = "loaded"
                                                  /\ call[c].on /\ call[c].id \notin G
<1>1. q \in Pools /\ call \in [Callers -> Calls] /\ stored[id] \in Log
  BY DEF Pooled, TypeOK
<1>2. PICK s : s = Answers(q, id, ok)
  OBVIOUS
<1>3. /\ s.entry = q.entry /\ s.order = q.order
      /\ s = [entry |-> q.entry, order |-> q.order, call |-> s.call]
      /\ s.call = [c \in Callers |-> s.call[c]]
      /\ \A c \in Callers : s.call[c] =
           IF c \notin Running(id).who \/ q.call[c].pc # "loading" THEN q.call[c]
           ELSE IF ok THEN [q.call[c] EXCEPT !.pc = "loaded", !.src = Seen(q.call[c].kind, stored[id])]
           ELSE Over(c)
  BY <1>1, <1>2 DEF Answers, Pools
<1>4. \A c \in Callers : /\ q.call[c] \in Calls /\ (q.call[c].pc = "loading" <=> call[c].pc = "loading")
                         /\ q.call[c].id = call[c].id /\ q.call[c].got = call[c].got
                         /\ q.call[c].aborted = call[c].aborted
                         /\ q.call[c].on => call[c].on /\ call[c].id \notin G
  <2>1. SUFFICES ASSUME NEW c \in Callers
                 PROVE  /\ q.call[c] \in Calls /\ (q.call[c].pc = "loading" <=> call[c].pc = "loading")
                        /\ q.call[c].id = call[c].id /\ q.call[c].got = call[c].got
                        /\ q.call[c].aborted = call[c].aborted
                        /\ q.call[c].on => call[c].on /\ call[c].id \notin G
    OBVIOUS
  <2>2. call[c] \in Calls /\ q.call[c] \in Calls
    BY <1>1 DEF Pools
  <2>3. CASE q.call[c] = call[c] /\ call[c].id \notin G
    BY <2>2, <2>3
  <2>4. CASE q.call[c] = Freed(call[c]) /\ call[c].id \in G
    <3>1. ~q.call[c].on
      BY <2>2, <2>4, FreedIs
    <3> QED BY <2>2, <2>4, <3>1, CallFields
  <2>5. CASE q.call[c] = Woken(call[c]) /\ call[c].id \notin G
    BY <2>2, <2>5, WokenIs
  <2> QED BY <2>3, <2>4, <2>5 DEF Pooled
<1>5. \A c \in Callers : Over(c) \in Calls /\ Over(c).pc = "over" /\ Over(c).id = call[c].id
                         /\ ~Over(c).on /\ Over(c).aborted = call[c].aborted /\ Over(c).got = "pending"
  BY OverIs DEF Out
<1>6. \A c \in Joined(id) : c \in Callers /\ call[c].got = "pending" /\ ~call[c].aborted
  BY DEF Joined, CallerInv, CallerOk
<1>8. ASSUME NEW c \in Callers PROVE Seen(q.call[c].kind, stored[id]) \in Log
  BY <1>1 DEF Seen, NoSource, Log
<1>9. ASSUME NEW c \in Callers PROVE s.call[c] \in Calls
  <2>1. PICK src \in Log : src = Seen(q.call[c].kind, stored[id])
    BY <1>8
  <2>2. \/ s.call[c] \in {q.call[c], Over(c)}
        \/ s.call[c] = LoadedFrom(q.call[c], src)
    BY <1>3, <2>1 DEF LoadedFrom
  <2> QED BY <1>4, <1>5, <2>2, LoadedIs
<1>10. s \in Pools
  <2>1. s.call \in [Callers -> Calls]
    BY <1>3, <1>9
  <2> QED BY <1>1, <1>3, <2>1 DEF Pools
<1>11. \A c \in Callers : c \notin Joined(id) => s.call[c] = q.call[c]
  BY <1>3, <1>4 DEF Joined
<1>12. ASSUME NEW c \in Joined(id)
       PROVE  /\ s.call[c].pc \in {"loaded", "over"} /\ s.call[c].id = call[c].id
              /\ s.call[c].got = "pending" /\ ~s.call[c].aborted
              /\ s.call[c].on => s.call[c].pc = "loaded" /\ call[c].on /\ call[c].id \notin G
  <2>1. c \in Callers /\ c \in Running(id).who /\ q.call[c].pc = "loading"
    BY <1>4, <1>6 DEF Joined
  <2>2. CASE s.call[c] = Over(c)
    BY <1>5, <1>6, <2>1, <2>2
  <2>3. CASE s.call[c] # Over(c)
    <3>1. PICK src \in Log : src = Seen(q.call[c].kind, stored[id])
      BY <1>8, <2>1
    <3>2. s.call[c] = LoadedFrom(q.call[c], src)
      BY <1>3, <2>1, <2>3, <3>1 DEF LoadedFrom
    <3>3. /\ s.call[c].pc = "loaded" /\ s.call[c].id = q.call[c].id /\ s.call[c].on = q.call[c].on
          /\ s.call[c].got = q.call[c].got /\ s.call[c].aborted = q.call[c].aborted
      BY <1>4, <2>1, <3>2, LoadedIs
    <3> QED BY <1>4, <1>6, <2>1, <3>3
  <2> QED BY <2>2, <2>3
<1> QED BY <1>2, <1>3, <1>10, <1>11, <1>12

(* What the end of a read does to the pool.                                    *)
LEMMA LoadEnds ==
  ASSUME PoolInv, CapacityPositive, HomeIsStored, NEW id \in Ids, LoadDone(id)
  PROVE  \E ok \in BOOLEAN : \E G \in SUBSET (Ready(Here) \cup {id}) : \E R \in SUBSET {id} : \E q :
           /\ Pooled(q, G, R) /\ Becomes(Answers(q, id, ok))
           /\ IF Current(id) THEN id \in G \cup R ELSE G = {} /\ R = {}
<1>1. TypeOK /\ PoolBounded /\ CallerInv
  BY DEF PoolInv
<1>2. CASE ~Current(id)
  <2>1. PICK ok \in BOOLEAN : Becomes(Answers(Here, id, ok))
    BY <1>2 DEF LoadDone
  <2>2. Pooled(Here, {}, {})
    BY <1>1, HerePooled
  <2> QED BY <1>2, <2>1, <2>2
<1>3. CASE Current(id) /\ Becomes(Answers(Drop(Here, id), id, FALSE))
  <2>1. Pooled(Drop(Here, id), {id}, {})
    BY <1>1, DropPooled
  <2> QED BY <1>3, <2>1
<1>4. CASE Current(id) /\ Becomes(Answers(MakeReady(
               [Here EXCEPT !.entry[id] = [phase |-> "loading", src |-> stored[id]]], id), id, TRUE))
  <2>1. PICK p : p = [Here EXCEPT !.entry[id] = [phase |-> "loading", src |-> stored[id]]]
    OBVIOUS
  <2>2. entry[id].phase = "loading"
    BY <1>4 DEF Current
  <2>3. stored[id] \in Log /\ stored[id].rev \in Nat
    BY <1>1 DEF TypeOK, Log
  <2>4. PICK e \in Entries : e = [phase |-> "loading", src |-> stored[id]]
    BY <2>3 DEF Entries
  <2>5. e.phase = "loading" /\ e.src = stored[id] /\ e # NoEntry /\ entry[id] # NoEntry
    BY <2>2, <2>4, NoEntryIs
  <2>6. /\ Here \in Pools /\ Keyed(Here) /\ Here.entry = entry /\ Here.order = order /\ Here.call = call
    BY <1>1, HereIs
  <2>7. /\ p = [entry |-> [entry EXCEPT ![id] = e], order |-> order, call |-> call]
    BY <2>1, <2>4 DEF Here
  <2>8. entry \in [Ids -> Entries]
    BY <1>1 DEF TypeOK
  <2>9. p \in Pools /\ p.call = call /\ p.entry[id] = e /\ p.order = order
        /\ \A x \in Ids : x # id => p.entry[x] = entry[x]
    BY <2>6, <2>7, <2>8 DEF Pools
  <2>10. Keyed(p) /\ Ready(p) = Ready(Here)
    BY <2>2, <2>5, <2>6, <2>9 DEF Keyed, Ready
  <2>11. Cardinality(Ready(p)) <= Capacity
    BY <1>1, <2>10 DEF PoolBounded
  <2>12. Fresh(p.entry[id].src, id) /\ p.entry[id].phase = "loading"
    BY <2>3, <2>5, <2>9 DEF Fresh
  <2>13. \E G \in SUBSET (Ready(Here) \cup {id}) : Pooled(MakeReady(p, id), G, {id})
    BY <1>1, <2>9, <2>10, <2>11, <2>12, ReadyPooled
  <2>14. Becomes(Answers(MakeReady(p, id), id, TRUE))
    BY <1>4, <2>1
  <2> QED BY <1>4, <2>13, <2>14
<1> QED BY <1>2, <1>3, <1>4 DEF LoadDone

(* The read of a whole log ends: it is finished, or given up, and everyone who *)
(* joined it is answered.                                                      *)
LEMMA StepLoadDone ==
  ASSUME PoolInv, CapacityPositive, HomeIsStored, NEW id \in Ids, LoadDone(id)
  PROVE  PoolInv'
<1>1. /\ chain[id] # <<>> /\ Running(id).kind = "load" /\ Running(id) = chain[id][1]
      /\ 1 \in DOMAIN chain[id] /\ Running(id).who \subseteq Callers /\ OpOk(id, Running(id))
      /\ chain' = Pop(id) /\ UNCHANGED <<stored, states, live, retiring, foreign>>
  BY HeadIs DEF LoadDone, Is
<1>2. /\ TypeOK /\ CallerInv /\ OwnerInv /\ ChainInv /\ LoadInv /\ LogInv /\ LiveInv /\ PoolBounded
      /\ stored' = stored /\ states' = states /\ live' = live
  BY <1>1 DEF PoolInv
<1>0. PICK ok \in BOOLEAN, G \in SUBSET (Ready(Here) \cup {id}), R \in SUBSET {id} :
        \E q : /\ Pooled(q, G, R) /\ Becomes(Answers(q, id, ok))
               /\ IF Current(id) THEN id \in G \cup R ELSE G = {} /\ R = {}
  BY LoadEnds
<1>3. PICK q : /\ Pooled(q, G, R) /\ Becomes(Answers(q, id, ok))
               /\ IF Current(id) THEN id \in G \cup R ELSE G = {} /\ R = {}
  BY <1>0
<1>4. PICK s : s = Answers(q, id, ok)
  OBVIOUS
<1>5. PICK A \in SUBSET Callers : A = Joined(id)
  BY <1>1 DEF Joined
<1>6. /\ s \in Pools /\ s.entry = q.entry /\ s.order = q.order
      /\ \A c \in Callers : c \notin A => s.call[c] = q.call[c]
      /\ \A c \in A : /\ s.call[c].pc \in {"loaded", "over"} /\ s.call[c].id = call[c].id
                      /\ s.call[c].got = "pending" /\ ~s.call[c].aborted
                      /\ s.call[c].on => s.call[c].pc = "loaded" /\ call[c].on /\ call[c].id \notin G
  BY <1>1, <1>2, <1>3, <1>4, <1>5, AnswersIs
<1>7. entry' = s.entry /\ order' = s.order /\ call' = s.call
  BY <1>3, <1>4 DEF Becomes
<1>8. TypeOK' /\ PoolBounded'
  <2>1. chain' \in [Ids -> Seq(Ops)]
    BY <1>1, <1>2, PopIs
  <2>2. Keyed(s) /\ Ready(s) = Ready(q) /\ Cardinality(Ready(q)) <= Capacity
    BY <1>3, <1>6 DEF Pooled, Keyed, Ready
  <2>3. /\ live' \in [Ids -> Callers \cup {NoOne}] /\ retiring' \in [Ids -> BOOLEAN] /\ foreign' = foreign
    BY <1>1, <1>2 DEF TypeOK
  <2>4. Becomes(s)
    BY <1>3, <1>4
  <2> QED BY <1>2, <1>6, <2>1, <2>2, <2>3, <2>4, PoolTyped
<1>9. G \in SUBSET Ids /\ R \in SUBSET Ids
  BY <1>3 DEF Ready
<1>10. Effect(G, R, A)
  BY <1>3, <1>6, <1>7 DEF Pooled, Effect
<1>11. \A x \in G \cup R : entry[x].phase \in {"ready", "loading"}
  BY <1>3 DEF Current, Ready, Here
<1>12. \A c \in Callers : \A x \in G \cup R : ~Owns(c, x)
  BY <1>2, <1>9, <1>11, NotOwned
<1>13. \A c \in A : c \in Callers /\ c \in chain[id][1].who /\ call[c].pc = "loading" /\ call[c].id = id
  BY <1>1, <1>5 DEF Joined, OpOk
<1>14. ASSUME NEW c \in Callers, call[c].pc = "loading", call[c].on, call[c].id = id
       PROVE  c \in A <=> Current(id)
  <2>1. entry[id].phase = "loading"
    BY <1>2, <1>14 DEF CallerInv, CallerOk
  <2>2. IsLastLoad(id, LastLoad(id))
    BY <1>2, <2>1, LastLoadIs
  <2>3. LastLoad(id) \in DOMAIN chain[id] /\ c \in chain[id][LastLoad(id)].who
    BY <1>2, <1>14, <2>2 DEF LoadInv, IsLastLoad
  <2>4. ASSUME c \in A PROVE LastLoad(id) = 1
    BY <1>1, <1>2, <1>13, <2>3, <2>4 DEF ChainInv
  <2>5. ASSUME LastLoad(id) = 1 PROVE c \in A
    BY <1>1, <1>5, <1>14, <2>3, <2>5 DEF Joined
  <2> QED BY <2>1, <2>4, <2>5 DEF Current
<1>15. ASSUME NEW c \in A PROVE ActorOk(c, G, R, A)
  <2>1. c \in Callers /\ call[c].pc = "loading" /\ call[c].id = id
    BY <1>13
  <2>2. /\ call'[c].pc \in {"loaded", "over"} /\ call'[c].id = id /\ call'[c].got = "pending"
        /\ ~call'[c].aborted
        /\ call'[c].on => call'[c].pc = "loaded" /\ call[c].on /\ id \notin G
    BY <1>6, <1>7, <2>1
  <2>3. call'[c].on => entry'[id].phase = "ready"
    <3>1. ASSUME call'[c].on PROVE Current(id)
      BY <1>14, <2>1, <2>2, <3>1
    <3>2. ASSUME call'[c].on PROVE id \in R \ G
      BY <1>3, <2>2, <3>1, <3>2
    <3> QED BY <1>10, <3>2 DEF Effect
  <2>4. CallerOk(c)'
    BY <2>2, <2>3 DEF CallerOk
  <2> QED BY <2>1, <2>2, <2>4 DEF ActorOk, Lively, Owns, Owning
<1>16. /\ CallerInv' /\ OwnerInv' /\ LogInv' /\ LiveInv'
       /\ \A x \in Ids : \A i \in DOMAIN chain[x] :
            (\A c \in A : c \in chain[x][i].who => Speaks(c, x, i)) => Kept(x, i)
  <2>1. \A c \in Callers \ A : \A x \in G \cup R : ~Owns(c, x)
    BY <1>12
  <2>2. \A c \in Callers \ A : call[c].on /\ call[c].id \in R \ G => call[c].pc # "loading"
    <3>1. R # {} => Current(id)
      BY <1>3
    <3> QED BY <1>3, <1>14, <3>1
  <2> QED BY <1>2, <1>8, <1>9, <1>10, <1>15, <2>1, <2>2, PoolKept
<1>17. \A x \in Ids : \A i \in DOMAIN chain[x] : x # id \/ i # 1 => Kept(x, i)
  <2>1. ASSUME NEW x \in Ids, NEW i \in DOMAIN chain[x], x # id \/ i # 1, NEW c \in A,
               c \in chain[x][i].who
        PROVE  FALSE
    <3>1. call[c].id = x
      BY <1>2, <2>1 DEF ChainInv, OpOk
    <3> QED BY <1>1, <1>2, <1>13, <2>1, <3>1 DEF ChainInv
  <2> QED BY <1>16, <2>1
<1>18. NobodyJoins
  <2>1. \A x \in Ids : entry'[x].phase = "loading" => entry[x].phase = "loading"
    BY <1>3, <1>6, <1>7, NoEntryIs DEF Pooled
  <2>2. ASSUME NEW d \in Callers, call'[d].pc = "loading", call'[d].on
        PROVE  call[d].pc = "loading" /\ call[d].on /\ call'[d].id = call[d].id
    <3>1. d \notin A
      BY <1>6, <1>7, <2>2
    <3>2. Same3(d)
      BY <1>10, <3>1 DEF Effect, Same3
    <3> QED BY <1>2, <2>2, <3>2, Aside
  <2> QED BY <2>1, <2>2 DEF NobodyJoins
<1>19. IsLastLoad(id, 1) => entry'[id].phase # "loading"
  <2>1. ASSUME IsLastLoad(id, 1), entry[id].phase = "loading" PROVE entry'[id].phase # "loading"
    <3>1. Current(id)
      BY <1>2, <2>1, LastLoadIs DEF Current
    <3> QED BY <1>3, <1>10, <3>1, NoEntryIs DEF Effect
  <2> QED BY <1>18, <2>1 DEF NobodyJoins
<1>20. ChainInv' /\ LoadInv'
  BY <1>1, <1>2, <1>8, <1>17, <1>18, <1>19, ChainPopped
<1> QED BY <1>8, <1>16, <1>20 DEF PoolInv

(* Another process writes a log this one does not track.                       *)
LEMMA StepForeignWrite ==
  ASSUME PoolInv, HomeIsStored, ForeignWrite
  PROVE  PoolInv'
<1>1. PICK h \in Ids : h = Home
  BY DEF HomeIsStored
<1>2. /\ TypeOK /\ CallerInv /\ OwnerInv /\ ChainInv /\ LoadInv /\ LogInv /\ LiveInv /\ PoolBounded
      /\ LogOk(h)
  BY DEF PoolInv, LogInv
<1>3. /\ UNCHANGED <<states, entry, order, chain, call, live, retiring>>
      /\ ~states[h].tracked /\ foreign' = foreign + 1
  BY <1>1 DEF ForeignWrite
<1>4. stored[h] \in Log /\ stored[h].rev \in Nat /\ stored[h].len \in Nat
  BY <1>2 DEF TypeOK, Log
<1>5. PICK l \in Log : l.rev = stored[h].rev + 1 /\ stored' = [stored EXCEPT ![h] = l]
  <2>1. PICK d \in BOOLEAN :
          stored' = [stored EXCEPT ![h] = [rev |-> @.rev + 1, len |-> @.len + 1, dirty |-> d]]
    BY <1>1 DEF ForeignWrite
  <2>2. [rev |-> stored[h].rev + 1, len |-> stored[h].len + 1, dirty |-> d] \in Log
    BY <1>4 DEF Log
  <2> QED BY <2>1, <2>2
<1>6. /\ stored' \in [Ids -> Log] /\ stored'[h].rev > stored[h].rev
      /\ \A x \in Ids : x # h => stored'[x] = stored[x]
  BY <1>2, <1>4, <1>5 DEF TypeOK
<1>7. TypeOK' /\ PoolBounded'
  <2>1. TypeOK'
    BY <1>2, <1>3, <1>6 DEF TypeOK
  <2> QED BY <1>2, <1>3, <2>1 DEF PoolBounded, Ready, Here
<1>8. CallerInv' /\ OwnerInv'
  BY <1>2, <1>3 DEF CallerInv, CallerOk, OwnerInv, Owns
<1>9. \A x \in Ids : Secured(x)' <=> Secured(x)
  BY <1>3 DEF Secured, Owns
<1>10. LogInv'
  <2>1. ASSUME NEW x \in Ids, x # h PROVE LogOk(x)'
    BY <1>2, <1>3, <1>6, <1>9, <2>1 DEF LogInv, LogOk, Fresh
  <2>2. LogOk(h)'
    <3>1. entry[h].phase \in {"ready", "committing", "reserved"} => Fresh(entry[h].src, h)'
      <4>1. entry[h].phase \in {"ready", "committing", "reserved"} => entry[h].src.rev \in Nat
        <5>1. entry[h] \in Entries
          BY <1>2 DEF TypeOK
        <5> QED BY <5>1, NoEntryIs DEF Entries, Log
      <4>2. stored'[h].rev \in Nat
        BY <1>6 DEF Log
      <4>3. entry[h].phase \in {"ready", "committing", "reserved"} => entry[h].src.rev <= stored[h].rev
        BY <1>2 DEF LogOk, Fresh
      <4>4. ASSUME NEW n \in Nat, n <= stored[h].rev PROVE n <= stored'[h].rev /\ n # stored'[h].rev
        BY <1>4, <1>6, <4>2, <4>4
      <4> QED BY <1>3, <4>1, <4>3, <4>4 DEF Fresh
    <3>2. ~Secured(h)'
      BY <1>2, <1>3, <1>9 DEF LogOk
    <3> QED BY <1>2, <1>3, <3>1, <3>2 DEF LogOk, Fresh
  <2> QED BY <2>1, <2>2 DEF LogInv
<1>11. LiveInv' /\ NobodyJoins
  BY <1>2, <1>3 DEF LiveInv, NobodyJoins
<1>12. \A x \in Ids : \A i \in DOMAIN chain[x] : Kept(x, i)
  <2>1. SUFFICES ASSUME NEW x \in Ids, NEW i \in DOMAIN chain[x], NEW op \in Ops, op = chain[x][i]
                 PROVE  OpOk(x, op)'
    BY DEF Kept
  <2>2. OpOk(x, op)
    BY <1>2, <2>1 DEF ChainInv
  <2>3. stored'[x] = stored[x] \/ stored'[x].rev > stored[x].rev
    BY <1>6
  <2>4. \A c \in op.who : call'[c] = call[c] /\ Same3(c)
    BY <1>3 DEF Same3
  <2>5. states'[x] = states[x] /\ (Secured(x)' => Secured(x))
    BY <1>3, <1>9
  <2> QED BY <1>2, <1>7, <2>2, <2>3, <2>4, <2>5, OpKept
<1>13. chain' = chain
  BY <1>3
<1>14. ChainInv' /\ LoadInv'
  BY <1>2, <1>7, <1>11, <1>12, <1>13, ChainSame
<1> QED BY <1>7, <1>8, <1>10, <1>11, <1>14 DEF PoolInv

(* The caller's call goes on, and nothing else of the pool or the logs moves.  *)
LEMMA CallMoves ==
  ASSUME PoolInv, CapacityPositive, NEW A \in SUBSET Callers,
         call' \in [Callers -> Calls], \A d \in Callers \ A : call'[d] = call[d],
         \A d \in A : CallerOk(d)' /\ call'[d].pc \notin Owning,
         stored' = stored, states' = states, entry' = entry, order' = order, foreign' = foreign,
         chain' \in [Ids -> Seq(Ops)], live' \in [Ids -> Callers \cup {NoOne}],
         retiring' \in [Ids -> BOOLEAN], HomeIsStored
  PROVE  /\ TypeOK' /\ PoolBounded' /\ CallerInv' /\ OwnerInv' /\ LogInv'
         /\ \A x \in Ids : \A i \in DOMAIN chain[x] :
              (\A d \in A : d \in chain[x][i].who => Speaks(d, x, i)) => Kept(x, i)
<1>1. /\ TypeOK /\ CallerInv /\ OwnerInv /\ ChainInv /\ LoadInv /\ LogInv /\ LiveInv /\ PoolBounded
  BY DEF PoolInv
<1>2. TypeOK' /\ PoolBounded'
  BY <1>1 DEF TypeOK, PoolBounded, Ready, Here
<1>3. PICK G \in SUBSET Ids, h \in Ids : G = {}
  BY DEF HomeIsStored
<1>4. Effect(G, {}, A)
  BY <1>3 DEF Effect
<1>5. \A d \in A : KeeperOk(d, h, G)
  BY DEF KeeperOk, Owns
<1>6. \A x \in Ids : Secured(x)' => Secured(x)
  BY DEF Secured, Owns, Owning
<1>7. LogOk(h)'
  BY <1>1, <1>6 DEF LogInv, LogOk, Fresh
<1>8. \A d \in Callers \ A : \A x \in G : Owns(d, x) =>
               x = h /\ call[d].pc = "commit" /\ stored'[h].rev > stored[h].rev
  BY <1>3
<1>9. \A x \in Ids : /\ stored'[x] = stored[x] /\ states'[x] = states[x] /\ entry'[x] = entry[x]
                     /\ stored'[x] = stored[x] \/ stored'[x].rev > stored[x].rev
  OBVIOUS
<1>10. /\ CallerInv' /\ OwnerInv' /\ LogInv'
       /\ \A x \in Ids : \A i \in DOMAIN chain[x] :
            /\ \A d \in A : d \in chain[x][i].who => Speaks(d, x, i)
            /\ \/ x # h \/ i > 1
               \/ stored'[h] = stored[h] /\ states'[h] = states[h] /\ (Secured(h)' => Secured(h))
            => Kept(x, i)
  BY <1>1, <1>2, <1>4, <1>5, <1>7, <1>8, <1>9, LogKept
<1> QED BY <1>2, <1>6, <1>9, <1>10

(* A live Session is disposed, and its lifecycle begins to retire.             *)
LEMMA StepDispose ==
  ASSUME PoolInv, CapacityPositive, HomeIsStored, NoOneIsNoCaller, NEW c \in Callers, Dispose(c)
  PROVE  PoolInv'
<1>1. /\ TypeOK /\ CallerInv /\ OwnerInv /\ ChainInv /\ LoadInv /\ LogInv /\ LiveInv /\ PoolBounded
      /\ call \in [Callers -> Calls]
  BY DEF PoolInv, TypeOK
<1>2. PICK id \in Ids : id = call[c].id
  BY <1>1 DEF Calls
<1>3. /\ call[c].pc = "live" /\ live' = [live EXCEPT ![id] = NoOne]
      /\ retiring' = [retiring EXCEPT ![id] = TRUE]
      /\ call' = [call EXCEPT ![c].pc = "retiring"]
      /\ stored' = stored /\ states' = states /\ entry' = entry /\ order' = order
      /\ chain' = chain /\ foreign' = foreign
  BY <1>2 DEF Dispose
<1>4. PICK r : r = [call[c] EXCEPT !.pc = "retiring"]
  OBVIOUS
<1>5. /\ r \in Calls /\ r.pc = "retiring" /\ r.id = id /\ r.on = call[c].on /\ r.aborted = call[c].aborted
  BY <1>1, <1>2, <1>4 DEF Calls, Settled
<1>6. call' \in [Callers -> Calls] /\ call'[c] = r /\ \A d \in Callers \ {c} : call'[d] = call[d]
  BY <1>1, <1>3, <1>4, <1>5
<1>7. CallerOk(c)
  BY <1>1 DEF CallerInv
<1>8. CallerOk(c)' /\ call'[c].pc \notin Owning
  BY <1>2, <1>3, <1>5, <1>6, <1>7 DEF CallerOk, Owning
<1>9. PICK A \in SUBSET Callers : A = {c}
  OBVIOUS
<1>10. /\ TypeOK' /\ PoolBounded' /\ CallerInv' /\ OwnerInv' /\ LogInv'
       /\ \A x \in Ids : \A i \in DOMAIN chain[x] :
            (\A d \in A : d \in chain[x][i].who => Speaks(d, x, i)) => Kept(x, i)
  <2>1. /\ chain' \in [Ids -> Seq(Ops)] /\ live' \in [Ids -> Callers \cup {NoOne}]
        /\ retiring' \in [Ids -> BOOLEAN]
    BY <1>1, <1>3 DEF TypeOK
  <2>2. (\A d \in Callers \ A : call'[d] = call[d]) /\ (\A d \in A : CallerOk(d)' /\ call'[d].pc \notin Owning)
    BY <1>6, <1>8, <1>9
  <2> QED BY <1>3, <1>6, <2>1, <2>2, CallMoves
<1>11. ASSUME NEW x \in Ids, NEW i \in DOMAIN chain[x], c \in chain[x][i].who PROVE Speaks(c, x, i)
  <2>1. SUFFICES ASSUME NEW op \in Ops, op = chain[x][i]
                 PROVE  call'[c].id = x /\ Awaits(c, op)' /\ CommitOk(c, x, op)'
    BY DEF Speaks
  <2>2. call[c].id = x /\ Awaits(c, op)
    BY <1>1, <1>11, <2>1 DEF ChainInv, OpOk
  <2>3. op.kind = "seed"
    BY <1>3, <1>7, <2>2 DEF Awaits, Ops, CallerOk
  <2> QED BY <1>2, <1>5, <1>6, <2>2, <2>3 DEF Awaits, CommitOk
<1>12. \A x \in Ids : \A i \in DOMAIN chain[x] : Kept(x, i)
  BY <1>9, <1>10, <1>11
<1>13. NobodyJoins
  BY <1>3, <1>5, <1>6 DEF NobodyJoins
<1>14. ChainInv' /\ LoadInv'
  BY <1>1, <1>3, <1>10, <1>12, <1>13, ChainSame
<1>15. LiveInv'
  <2>1. ASSUME NEW x \in Ids, live'[x] # NoOne
        PROVE  call'[live'[x]].pc = "live" /\ call'[live'[x]].id = x
    <3>1. live \in [Ids -> Callers \cup {NoOne}]
      BY <1>1 DEF TypeOK
    <3>2. x # id /\ live'[x] = live[x]
      BY <1>3, <2>1, <3>1
    <3>3. live[x] \in Callers /\ call[live[x]].pc = "live" /\ call[live[x]].id = x
      BY <1>1, <2>1, <3>1, <3>2 DEF LiveInv
    <3>4. live[x] # c
      BY <1>2, <3>2, <3>3
    <3> QED BY <1>6, <3>2, <3>3, <3>4
  <2>2. ASSUME NEW d \in Callers, call'[d].pc \in {"live", "retiring", "forgetting"}
        PROVE  states'[call'[d].id].tracked /\ states'[call'[d].id].owner = d
    <3>1. call[d].pc \in {"live", "retiring", "forgetting"} /\ call'[d].id = call[d].id
      BY <1>2, <1>3, <1>5, <1>6, <2>2
    <3> QED BY <1>1, <1>3, <3>1 DEF LiveInv
  <2> QED BY <2>1, <2>2 DEF LiveInv
<1> QED BY <1>10, <1>14, <1>15 DEF PoolInv

(* The flush of a retiring Session ended: what is queued behind it forgets the *)
(* lifecycle, or the retirement failed.                                        *)
LEMMA StepRetireFlush ==
  ASSUME PoolInv, CapacityPositive, HomeIsStored, NoOneIsNoCaller, NEW c \in Callers, RetireFlush(c)
  PROVE  PoolInv'
<1>1. /\ TypeOK /\ CallerInv /\ OwnerInv /\ ChainInv /\ LoadInv /\ LogInv /\ LiveInv /\ PoolBounded
      /\ call \in [Callers -> Calls]
  BY DEF PoolInv, TypeOK
<1>2. PICK id \in Ids : id = call[c].id
  BY <1>1 DEF Calls
<1>3. /\ call[c].pc = "retiring" /\ ~SeedPending(c)
      /\ stored' = stored /\ states' = states /\ entry' = entry /\ order' = order
      /\ live' = live /\ foreign' = foreign
  BY DEF RetireFlush
<1>4. ASSUME NEW x \in Ids, NEW i \in DOMAIN chain[x], c \in chain[x][i].who PROVE FALSE
  <2>1. chain[x] \in Seq(Ops)
    BY <1>1 DEF TypeOK
  <2>2. PICK op \in Ops : op = chain[x][i]
    BY <2>1, <1>4
  <2>3. call[c].id = x /\ Awaits(c, op)
    BY <1>1, <1>4, <2>2 DEF ChainInv, OpOk
  <2>4. ~call[c].aborted
    BY <1>1, <1>3 DEF CallerInv, CallerOk
  <2>5. op.kind = "seed"
    BY <1>3, <2>3, <2>4 DEF Awaits, Ops
  <2> QED BY <1>3, <1>4, <2>2, <2>3, <2>5 DEF SeedPending
<1>5. CASE /\ chain' = Push(id, Op("forget", {c})) /\ retiring' = retiring
           /\ call' = [call EXCEPT ![c].pc = "forgetting"]
  <2>1. PICK r : r = [call[c] EXCEPT !.pc = "forgetting"]
    OBVIOUS
  <2>2. r \in Calls /\ r.pc = "forgetting" /\ r.id = id /\ r.on = call[c].on /\ r.aborted = call[c].aborted
    BY <1>1, <1>2, <2>1 DEF Calls, Settled
  <2>3. call' \in [Callers -> Calls] /\ call'[c] = r /\ \A d \in Callers \ {c} : call'[d] = call[d]
    BY <1>1, <1>5, <2>1, <2>2
  <2>4. CallerOk(c)' /\ call'[c].pc \notin Owning
    BY <1>1, <1>2, <1>3, <2>2, <2>3 DEF CallerInv, CallerOk, Owning
  <2>5. PICK A \in SUBSET Callers : A = {c}
    OBVIOUS
  <2>6. PICK op \in Ops : op = Op("forget", {c}) /\ op.kind = "forget" /\ op.who = {c} /\ op.at = "queued"
    BY OpIs
  <2>7. chain' = Push(id, op)
    BY <1>5, <2>6
  <2>8. /\ TypeOK' /\ PoolBounded' /\ CallerInv' /\ OwnerInv' /\ LogInv'
        /\ \A x \in Ids : \A i \in DOMAIN chain[x] :
             (\A d \in A : d \in chain[x][i].who => Speaks(d, x, i)) => Kept(x, i)
    <3>1. chain' \in [Ids -> Seq(Ops)]
      BY <1>1, <2>7, PushIs
    <3>2. live' \in [Ids -> Callers \cup {NoOne}] /\ retiring' \in [Ids -> BOOLEAN]
      BY <1>1, <1>3, <1>5 DEF TypeOK
    <3>3. (\A d \in Callers \ A : call'[d] = call[d]) /\ (\A d \in A : CallerOk(d)' /\ call'[d].pc \notin Owning)
      BY <2>3, <2>4, <2>5
    <3> QED BY <1>3, <2>3, <3>1, <3>2, <3>3, CallMoves
  <2>9. OpOk(id, op)'
    BY <2>2, <2>3, <2>6 DEF OpOk, StageOk, Awaits, CommitOk, WriteOk
  <2>10. \A x \in Ids : \A i \in DOMAIN chain[x] : Kept(x, i)
    BY <1>4, <2>5, <2>8
  <2>11. NobodyJoins
    BY <1>3, <2>2, <2>3 DEF NobodyJoins
  <2>12. ChainInv' /\ LoadInv'
    BY <1>1, <1>4, <2>6, <2>7, <2>8, <2>9, <2>10, <2>11, ChainPushed
  <2>13. LiveInv'
    <3>1. \A d \in Callers : /\ call'[d].id = call[d].id /\ (call[d].pc = "live" => call'[d].pc = "live")
                             /\ call'[d].pc \in {"live", "retiring", "forgetting"} =>
                                  call[d].pc \in {"live", "retiring", "forgetting"}
      BY <1>2, <1>3, <2>2, <2>3
    <3>2. \A x \in Ids : live[x] # NoOne => live[x] \in Callers
      BY <1>1 DEF TypeOK
    <3> QED BY <1>1, <1>3, <3>1, <3>2 DEF LiveInv
  <2> QED BY <2>8, <2>12, <2>13 DEF PoolInv
<1>6. CASE /\ retiring' = [retiring EXCEPT ![id] = FALSE] /\ chain' = chain
           /\ call' = [Retired(id, FALSE) EXCEPT ![c] = Over(c)]
  <2>1. PICK A \in SUBSET Callers : A = {c} \cup Waiting(id)
    BY DEF Waiting
  <2>2. /\ call' \in [Callers -> Calls] /\ \A d \in Callers \ A : call'[d] = call[d]
        /\ \A d \in A : CallerOk(d)' /\ call'[d].pc \in {"go", "over"} /\ call'[d].id = id
    <3>1. PICK ok \in BOOLEAN : ok = FALSE
      OBVIOUS
    <3>2. Retires(id, ok, c)
      BY <1>6, <3>1 DEF Retires
    <3>3. /\ call' \in [Callers -> Calls]
          /\ \A d \in Callers : d \notin {c} \cup Waiting(id) => call'[d] = call[d]
          /\ \A d \in {c} \cup Waiting(id) :
               CallerOk(d)' /\ call'[d].pc \in {"go", "over"} /\ call'[d].id = id
      BY <1>1, <1>2, <1>3, <3>2, RetiredIs
    <3> QED BY <2>1, <3>3
  <2>3. \A d \in A : call[d].pc \in {"retiring", "waiting"} /\ call[d].id = id
    BY <1>2, <1>3, <2>1 DEF Waiting
  <2>4. /\ TypeOK' /\ PoolBounded' /\ CallerInv' /\ OwnerInv' /\ LogInv'
        /\ \A x \in Ids : \A i \in DOMAIN chain[x] :
             (\A d \in A : d \in chain[x][i].who => Speaks(d, x, i)) => Kept(x, i)
    <3>1. /\ chain' \in [Ids -> Seq(Ops)] /\ live' \in [Ids -> Callers \cup {NoOne}]
          /\ retiring' \in [Ids -> BOOLEAN]
      BY <1>1, <1>3, <1>6 DEF TypeOK
    <3>2. \A d \in A : CallerOk(d)' /\ call'[d].pc \notin Owning
      BY <2>2 DEF Owning
    <3> QED BY <1>3, <2>2, <3>1, <3>2, CallMoves
  <2>5. ASSUME NEW x \in Ids, NEW i \in DOMAIN chain[x], NEW d \in A PROVE d \notin chain[x][i].who
    <3>1. CASE d = c
      BY <1>4, <3>1
    <3>2. CASE d # c
      <4>1. call[d].pc = "waiting" /\ d \in Callers
        BY <2>1, <3>2 DEF Waiting
      <4> QED BY <1>1, <4>1, FreeNow
    <3> QED BY <3>1, <3>2
  <2>6. \A x \in Ids : \A i \in DOMAIN chain[x] : Kept(x, i)
    BY <2>4, <2>5
  <2>7. NobodyJoins
    BY <1>3, <2>2 DEF NobodyJoins
  <2>8. ChainInv' /\ LoadInv'
    BY <1>1, <1>6, <2>4, <2>6, <2>7, ChainSame
  <2>9. LiveInv'
    <3>1. \A x \in Ids : live[x] # NoOne => live[x] \in Callers /\ call[live[x]].pc = "live"
      BY <1>1 DEF LiveInv, TypeOK
    <3>2. \A x \in Ids : live[x] # NoOne => live[x] \in Callers \ A
      BY <2>3, <3>1
    <3>3. \A d \in Callers : call'[d].pc \in {"live", "retiring", "forgetting"} => d \notin A /\ call'[d] = call[d]
      BY <2>2
    <3> QED BY <1>1, <1>3, <2>2, <3>2, <3>3 DEF LiveInv
  <2> QED BY <2>4, <2>8, <2>9 DEF PoolInv
<1> QED BY <1>2, <1>5, <1>6 DEF RetireFlush

(* The publication of a reserved Session.                                      *)
LEMMA StepPublish ==
  ASSUME PoolInv, CapacityPositive, HomeIsStored, NoOneIsNoCaller, NEW c \in Callers, Publish(c)
  PROVE  PoolInv'
<1>1. /\ TypeOK /\ CallerInv /\ OwnerInv /\ ChainInv /\ LoadInv /\ LogInv /\ LiveInv /\ PoolBounded
      /\ call \in [Callers -> Calls]
  BY DEF PoolInv, TypeOK
<1>2. PICK id \in Ids : id = call[c].id
  BY <1>1 DEF Calls
<1>3. /\ call[c].pc = "held" /\ stored' = stored /\ retiring' = retiring /\ foreign' = foreign
      /\ call[c].on /\ entry[id].phase = "reserved" /\ entry[id].src = call[c].src
      /\ ~call[c].aborted
  BY <1>1, <1>2 DEF Publish, CallerInv, CallerOk
<1>4. /\ LogOk(id) /\ Secured(id) /\ entry[id].src = stored[id] /\ states[id].tracked
      /\ states[id].owner = NoOne /\ states[id].cursor = stored[id].len /\ ~stored[id].dirty
  BY <1>1, <1>3 DEF LogInv, LogOk, Secured
<1>5. \A d \in Callers : call[d].pc \in {"live", "retiring", "forgetting"} => call[d].id # id
  BY <1>1, <1>4 DEF LiveInv, NoOneIsNoCaller
<1>6. Fits(c) /\ live[id] = NoOne
  <2>1. live[id] # NoOne => live[id] \in Callers
    BY <1>1 DEF TypeOK
  <2>2. live[id] = NoOne
    BY <1>1, <1>5, <2>1 DEF LiveInv
  <2> QED BY <1>2, <1>3, <1>4, <2>2 DEF Fits
<1>7. PICK p : p = Drop(Here, id)
  OBVIOUS
<1>8. PICK r : r = [Idle EXCEPT !.pc = "live", !.id = id]
  OBVIOUS
<1>9. r \in Calls /\ r.pc = "live" /\ r.id = id /\ ~r.on /\ ~r.aborted /\ r.got = "pending"
  BY <1>8, IdleIs DEF Calls, Settled
<1>10. /\ Becomes([p EXCEPT !.call[c] = r])
       /\ states' = [states EXCEPT ![id].owner = c]
       /\ live' = [live EXCEPT ![id] = c]
       /\ \E suffix \in {call[c].touched, TRUE} :
            chain' = IF suffix THEN Push(id, [Op("seed", {c}) EXCEPT !.seq = states[id].cursor])
                               ELSE chain
  BY <1>2, <1>3, <1>6, <1>7, <1>8 DEF Publish
<1>11. Pooled(p, {id}, {})
  BY <1>1, <1>7, DropPooled
<1>12. /\ p \in Pools /\ Keyed(p) /\ Cardinality(Ready(p)) <= Capacity /\ p.entry[id] = NoEntry
       /\ \A x \in Ids : x # id => p.entry[x] = entry[x]
       /\ \A d \in Callers : p.call[d] = IF call[d].id = id THEN Freed(call[d]) ELSE call[d]
  BY <1>11 DEF Pooled
<1>13. PICK q : q = [entry |-> p.entry, order |-> p.order, call |-> [p.call EXCEPT ![c] = r]]
  OBVIOUS
<1>14. q \in Pools /\ Keyed(q) /\ Ready(q) = Ready(p)
  BY <1>9, <1>12, <1>13 DEF Pools, Keyed, Ready
<1>15. Becomes(q)
  BY <1>10, <1>12, <1>13 DEF Becomes, Pools
<1>16. call'[c] = r /\ entry' = p.entry /\ \A d \in Callers \ {c} : call'[d] = p.call[d]
  BY <1>12, <1>13, <1>15 DEF Becomes, Pools
<1>17. /\ states' \in [Ids -> SessionStates]
       /\ states'[id].tracked /\ states'[id].owner = c /\ states'[id].cursor = states[id].cursor
       /\ \A x \in Ids : x # id => states'[x] = states[x]
  <2>1. states \in [Ids -> SessionStates] /\ states[id] \in SessionStates
    BY <1>1 DEF TypeOK
  <2>2. PICK s : s = [states[id] EXCEPT !.owner = c]
    OBVIOUS
  <2>3. s \in SessionStates /\ s.tracked /\ s.owner = c /\ s.cursor = states[id].cursor
    BY <1>4, <2>1, <2>2 DEF SessionStates
  <2>4. states' = [states EXCEPT ![id] = s]
    BY <1>10, <2>2
  <2> QED BY <2>1, <2>3, <2>4
<1>18. PICK op \in Ops : /\ op.kind = "seed" /\ op.who = {c} /\ op.at = "queued"
                         /\ chain' = Push(id, op) \/ chain' = chain
  <2>1. PICK o \in Ops : o = Op("seed", {c}) /\ o.kind = "seed" /\ o.who = {c} /\ o.at = "queued"
    BY OpIs
  <2>2. PICK n \in Int : n = states[id].cursor
    BY <1>1 DEF TypeOK, SessionStates
  <2>3. [o EXCEPT !.seq = n] \in Ops
    BY OpWith
  <2>4. PICK op \in Ops : op = [o EXCEPT !.seq = n]
    BY <2>3
  <2>5. op.kind = "seed" /\ op.who = {c} /\ op.at = "queued"
    BY <2>1, <2>4 DEF Ops
  <2>6. chain' = Push(id, op) \/ chain' = chain
    BY <1>10, <2>1, <2>2, <2>4
  <2> QED BY <2>5, <2>6
<1>19. chain' \in [Ids -> Seq(Ops)]
  <2>1. chain' = Push(id, op) => chain' \in [Ids -> Seq(Ops)]
    BY <1>1, PushIs
  <2>2. chain' = chain => chain' \in [Ids -> Seq(Ops)]
    BY <1>1 DEF TypeOK
  <2> QED BY <1>18, <2>1, <2>2
<1>20. TypeOK' /\ PoolBounded'
  <2>1. /\ live' \in [Ids -> Callers \cup {NoOne}] /\ retiring' \in [Ids -> BOOLEAN] /\ foreign' \in Nat
        /\ stored' \in [Ids -> Log]
    BY <1>1, <1>3, <1>10 DEF TypeOK
  <2>2. Cardinality(Ready(q)) <= Capacity
    BY <1>12, <1>14
  <2> QED BY <1>1, <1>14, <1>15, <1>17, <1>19, <2>1, <2>2, PoolTypes
<1>21. PICK G \in SUBSET Ids, A \in SUBSET Callers : G = {id} /\ A = {c}
  OBVIOUS
<1>22. Effect(G, {}, A)
  BY <1>12, <1>16, <1>21 DEF Effect
<1>23. \A d \in Callers \ {c} : Same3(d)
  BY <1>21, <1>22 DEF Effect, Same3
<1>24. \A d \in Callers \ {c} : /\ call'[d].id = call[d].id /\ call'[d].got = call[d].got
                                /\ call'[d].pc = call[d].pc \/ (call[d].pc = "settle" /\ call'[d].pc = "woken")
                                /\ call'[d].on => call[d].on /\ call[d].id # id
  <2>1. ASSUME NEW d \in Callers \ {c}, call[d].id = id PROVE ~call'[d].on
    <3>1. call'[d] = Freed(call[d]) /\ call[d] \in Calls
      BY <1>1, <1>12, <1>16, <2>1
    <3> QED BY <3>1, FreedIs
  <2> QED BY <1>1, <1>23, <2>1, Aside
<1>25. ~Secured(id)'
  BY <1>9, <1>12, <1>16, <1>24, NoEntryIs DEF Secured, Owns
<1>26. LogOk(id)'
  BY <1>3, <1>4, <1>12, <1>16, <1>17, <1>25, NoEntryIs DEF LogOk
<1>27. KeeperOk(c, id, G)
  BY <1>9, <1>16 DEF KeeperOk, CallerOk, Owns
<1>28. Owns(c, id)
  BY <1>2, <1>3 DEF Owns, Owning
<1>29. /\ CallerInv' /\ OwnerInv' /\ LogInv'
       /\ \A x \in Ids : \A i \in DOMAIN chain[x] :
            (\A d \in A : d \in chain[x][i].who => Speaks(d, x, i)) /\ (x # id \/ i > 1) => Kept(x, i)
  <2>1. \A d \in Callers \ A : \A x \in G : Owns(d, x) =>
          x = id /\ call[d].pc = "commit" /\ stored'[id].rev > stored[id].rev
    BY <1>1, <1>21, <1>28 DEF OwnerInv
  <2>2. \A d \in A : KeeperOk(d, id, G)
    BY <1>21, <1>27
  <2>3. \A x \in Ids : x # id => stored'[x] = stored[x] /\ states'[x] = states[x] /\ entry'[x] = entry[x]
    BY <1>3, <1>12, <1>16, <1>17
  <2>4. stored'[id] = stored[id] \/ stored'[id].rev > stored[id].rev
    BY <1>3
  <2> QED BY <1>1, <1>20, <1>22, <1>26, <2>1, <2>2, <2>3, <2>4, LogKept
<1>30. \A x \in Ids : \A i \in DOMAIN chain[x] : c \notin chain[x][i].who
  BY <1>1, <1>3, FreeNow
<1>31. ASSUME 1 \in DOMAIN chain[id] PROVE Kept(id, 1)
  <2>1. SUFFICES ASSUME NEW o \in Ops, o = chain[id][1] PROVE OpOk(id, o)'
    BY DEF Kept
  <2>2. OpOk(id, o) /\ c \notin o.who /\ o.who \subseteq Callers
    BY <1>1, <1>30, <1>31, <2>1 DEF ChainInv, Ops
  <2>3. \A d \in o.who : Same3(d) /\ call[d].id = id /\ Awaits(d, o)
    BY <1>23, <2>2 DEF OpOk
  <2>4. \A d \in o.who : call[d].pc = "commit" => ~call[d].on
    BY <1>1, <1>3, <2>2, <2>3 DEF CallerInv, CallerOk
  <2>5. o.at # "queued" => o.kind \notin {"append", "seed"}
    BY <1>4, <2>2 DEF OpOk, WriteOk
  <2>6. o.at # "queued" => (o.kind = "commit" => \A d \in o.who : ~call[d].on)
    BY <2>3, <2>4 DEF Awaits
  <2>7. stored'[id] = stored[id] \/ stored'[id].rev > stored[id].rev
    BY <1>3
  <2> QED BY <1>1, <1>20, <2>2, <2>3, <2>4, <2>5, <2>6, <2>7, OpKept
<1>32. \A x \in Ids : \A i \in DOMAIN chain[x] : Kept(x, i)
  <2>1. \A i \in DOMAIN chain[id] : i = 1 \/ i > 1
    BY <1>1, ChainIs
  <2> QED BY <1>21, <1>29, <1>30, <1>31, <2>1
<1>33. NobodyJoins
  <2>1. call'[c].pc # "loading"
    BY <1>9, <1>16
  <2>2. \A x \in Ids : entry'[x].phase = "loading" => entry[x].phase = "loading"
    BY <1>12, <1>16, NoEntryIs
  <2>3. \A d \in Callers : call'[d].pc = "loading" /\ call'[d].on =>
          call[d].pc = "loading" /\ call[d].on /\ call'[d].id = call[d].id
    BY <1>24, <2>1
  <2> QED BY <2>2, <2>3 DEF NobodyJoins
<1>34. ChainInv' /\ LoadInv'
  <2>1. CASE chain' = chain
    BY <1>1, <1>20, <1>32, <1>33, <2>1, ChainSame
  <2>2. CASE chain' = Push(id, op)
    <3>1. OpOk(id, op)'
      BY <1>9, <1>16, <1>18 DEF OpOk, StageOk, Awaits, CommitOk, WriteOk
    <3> QED BY <1>1, <1>18, <1>20, <1>30, <1>32, <1>33, <2>2, <3>1, ChainPushed
  <2> QED BY <1>18, <2>1, <2>2
<1>35. LiveInv'
  <2>1. live \in [Ids -> Callers \cup {NoOne}]
    BY <1>1 DEF TypeOK
  <2>2. ASSUME NEW x \in Ids, live'[x] # NoOne
        PROVE  call'[live'[x]].pc = "live" /\ call'[live'[x]].id = x
    <3>1. CASE x = id
      BY <1>9, <1>10, <1>16, <2>1, <3>1
    <3>2. CASE x # id
      <4>1. live'[x] = live[x] /\ live[x] \in Callers /\ call[live[x]].pc = "live" /\ call[live[x]].id = x
        BY <1>1, <1>10, <2>1, <2>2, <3>2 DEF LiveInv
      <4>2. live[x] # c
        BY <1>3, <4>1
      <4> QED BY <1>24, <4>1, <4>2
    <3> QED BY <3>1, <3>2
  <2>3. ASSUME NEW d \in Callers, call'[d].pc \in {"live", "retiring", "forgetting"}
        PROVE  states'[call'[d].id].tracked /\ states'[call'[d].id].owner = d
    <3>1. CASE d = c
      BY <1>9, <1>16, <1>17, <3>1
    <3>2. CASE d # c
      <4>1. call[d].pc \in {"live", "retiring", "forgetting"} /\ call'[d].id = call[d].id /\ call[d].id \in Ids
        BY <1>1, <1>24, <2>3, <3>2 DEF Calls
      <4> QED BY <1>1, <1>5, <1>17, <4>1 DEF LiveInv
    <3> QED BY <3>1, <3>2
  <2> QED BY <2>2, <2>3 DEF LiveInv
<1> QED BY <1>20, <1>29, <1>34, <1>35 DEF PoolInv

-----------------------------------------------------------------------------
(* The invariant holds from the start and through every step.                  *)

(* Nothing is stored, queued or called at first.                               *)
LEMMA PoolStarts ==
  ASSUME CapacityPositive, HomeIsStored, Init
  PROVE  PoolInv
<1>1. /\ entry = [id \in Ids |-> NoEntry] /\ order = <<>> /\ chain = [id \in Ids |-> <<>>]
      /\ call = [c \in Callers |-> Idle] /\ live = [id \in Ids |-> NoOne]
      /\ states = [id \in Ids |-> Untracked] /\ retiring = [id \in Ids |-> FALSE] /\ foreign = 0
  BY DEF Init
<1>2. stored \in [Ids -> Log]
  BY DEF Init, Log
<1>3. Untracked \in SessionStates /\ ~Untracked.tracked /\ Untracked.owner = NoOne
  BY DEF Untracked, SessionStates
<1>4. \A id \in Ids : chain[id] = <<>> /\ DOMAIN chain[id] = {}
  BY <1>1
<1>5. <<>> \in Seq(Ids) /\ <<>> \in Seq(Ops) /\ DOMAIN order = {}
  BY <1>1
<1>6. TypeOK
  <2>1. entry \in [Ids -> Entries] /\ \A id \in Ids : entry[id] = NoEntry
    BY <1>1, NoEntryIs
  <2>2. chain \in [Ids -> Seq(Ops)]
    BY <1>1, <1>5
  <2>3. states \in [Ids -> SessionStates] /\ call \in [Callers -> Calls]
    BY <1>1, <1>3, IdleIs
  <2> QED BY <1>1, <1>2, <1>5, <2>1, <2>2, <2>3 DEF TypeOK
<1>7. PoolBounded
  <2>1. Ready(Here) = {}
    BY <1>1, NoEntryIs DEF Ready, Here
  <2>2. Cardinality({}) = 0
    BY FS_EmptySet
  <2> QED BY <2>1, <2>2 DEF PoolBounded, CapacityPositive
<1>8. \A c \in Callers : /\ call[c].pc = "idle" /\ ~call[c].on /\ call[c].got = "pending" /\ ~call[c].aborted
  BY <1>1, IdleIs
<1>9. CallerInv /\ OwnerInv
  BY <1>8 DEF CallerInv, CallerOk, OwnerInv, Owns
<1>10. ChainInv /\ LoadInv
  BY <1>1, <1>4, <1>8, NoEntryIs DEF ChainInv, LoadInv
<1>11. LogInv /\ LiveInv
  BY <1>1, <1>3, <1>8, NoEntryIs DEF LogInv, LogOk, Secured, Owns, LiveInv
<1> QED BY <1>6, <1>7, <1>9, <1>10, <1>11 DEF PoolInv

(* Every operation of the chains.                                              *)
LEMMA ServeKeeps ==
  ASSUME PoolInv, CapacityPositive, HomeIsStored, NoOneIsNoCaller, NEW id \in Ids, Serve(id)
  PROVE  PoolInv'
  BY StepStartLoad, StepStartCommit, StepStartCheck, StepStartAppend, StepLoadDone, StepAdoptRead,
     StepCommitRevision, StepAdoptRevision, StepCheckRevision, StepRepair, StepWriteDone, StepForget
     DEF Serve

(* Every call that goes on.                                                    *)
LEMMA ContinueKeeps ==
  ASSUME PoolInv, CapacityPositive, HomeIsStored, NoOneIsNoCaller, NEW c \in Callers, Continue(c)
  PROVE  PoolInv'
  BY StepFindsLive, StepEntryFor, StepReserveGone, StepReserveWaits, StepReserveCommits,
     StepCommitReturns, StepReservedReturns, StepInspected, StepCheckReturns, StepAppendReturns,
     StepRetireFlush DEF Continue

(* Every new call.                                                             *)
LEMMA CallingKeeps ==
  ASSUME PoolInv, CapacityPositive, HomeIsStored, NoOneIsNoCaller, NEW c \in Callers, Calling(c)
  PROVE  PoolInv'
<1>1. CASE \E kind \in May(c), id \in Ids : (id = Home \/ kind = "inspect") /\ Call(c, kind, id)
  <2>1. PICK kind \in {"prepare", "load", "inspect"}, id \in Ids : Call(c, kind, id)
    BY <1>1 DEF May
  <2> QED BY <2>1, StepCall
<1>2. CASE \E seq \in {stored[Home].len - 1, stored[Home].len} : CallAppend(c, Home, seq)
  <2>1. PICK h \in Ids : h = Home
    BY DEF HomeIsStored
  <2>2. stored[h].len \in Nat
    BY DEF PoolInv, TypeOK, Log
  <2>3. PICK seq \in Int : CallAppend(c, h, seq)
    BY <1>2, <2>1, <2>2
  <2> QED BY <2>3, StepCallAppend
<1> QED BY <1>1, <1>2 DEF Calling

(* Every step.                                                                 *)
LEMMA PoolSteps ==
  ASSUME PoolInv, CapacityPositive, HomeIsStored, NoOneIsNoCaller, [Next]_vars
  PROVE  PoolInv'
<1>1. CASE \E id \in Ids : Serve(id)
  BY <1>1, ServeKeeps
<1>2. ASSUME NEW c \in Callers, Continue(c) \/ Holder(c) PROVE PoolInv'
  BY <1>2, ContinueKeeps, StepRelease, StepPublish DEF Holder
<1>3. CASE ForeignWrite
  BY <1>3, StepForeignWrite
<1>4. ASSUME NEW c \in Callers, Calling(c) \/ SetupAppends(c) \/ Dispose(c) \/ Abort(c) PROVE PoolInv'
  BY <1>4, CallingKeeps, StepSetupAppends, StepDispose, StepAbort
<1>5. CASE UNCHANGED vars
  <2>1. UNCHANGED <<stored, states, entry, order, chain, call, live, retiring, foreign>>
    BY <1>5 DEF vars
  <2>2. TypeOK' /\ PoolBounded'
    BY <2>1 DEF PoolInv, TypeOK, PoolBounded, Ready, Here
  <2>3. CallerInv' /\ OwnerInv'
    BY <2>1 DEF PoolInv, CallerInv, CallerOk, OwnerInv, Owns
  <2>4. ChainInv'
    <3>1. ASSUME NEW id \in Ids, NEW op, OpOk(id, op) PROVE OpOk(id, op)'
      BY <2>1, <3>1 DEF OpOk, StageOk, Awaits, CommitOk, WriteOk, Fresh, Secured, Owns
    <3> QED BY <2>1, <3>1 DEF PoolInv, ChainInv
  <2>5. LoadInv' /\ LiveInv'
    BY <2>1 DEF PoolInv, LoadInv, IsLastLoad, LiveInv
  <2>6. LogInv'
    BY <2>1 DEF PoolInv, LogInv, LogOk, Fresh, Secured, Owns
  <2> QED BY <2>2, <2>3, <2>4, <2>5, <2>6 DEF PoolInv
<1> QED BY <1>1, <1>2, <1>3, <1>4, <1>5 DEF Next, Proceed

(* In every reachable state the pool, the chains, the logs and the callers     *)
(* agree: PoolInv is an invariant of every run.                                *)
THEOREM PoolIsConsistent == Spec => []PoolInv
<1>1. Init => PoolInv
  BY CapacityPositive, HomeIsStored, PoolStarts
<1>2. PoolInv /\ [Next]_vars => PoolInv'
  BY CapacityPositive, HomeIsStored, NoOneIsNoCaller, PoolSteps
<1> QED BY <1>1, <1>2, PTL DEF Spec

-----------------------------------------------------------------------------
(* What the runs check, for every set of identities and callers and every      *)
(* capacity.                                                                   *)

(* The types hold, and the pool's Map iterates over its entries, each once.    *)
THEOREM Types == Spec => []TypeOK
<1>1. PoolInv => TypeOK
  BY DEF PoolInv
<1> QED BY <1>1, PoolIsConsistent, PTL

(* Never more finished preparations than the cache may hold, whichever calls   *)
(* finish, reuse or look at one.                                               *)
THEOREM NeverOverCapacity == Spec => []PoolBounded
<1>1. PoolInv => PoolBounded
  BY DEF PoolInv
<1> QED BY <1>1, PoolIsConsistent, PTL

(* What a caller holds reserved is the log as it stands, with an ownerless     *)
(* cursor at its end.                                                          *)
THEOREM ReservationIsCurrent == Spec => []ReservedIsCurrent
<1>1. PoolInv => ReservedIsCurrent
  <2>1. SUFFICES ASSUME PoolInv, NEW id \in Ids, entry[id].phase = "reserved"
                 PROVE  /\ entry[id].src = stored[id] /\ ~stored[id].dirty
                        /\ states[id] = Tracked(stored[id].len, NoOne)
    BY DEF ReservedIsCurrent
  <2>2. /\ entry[id].src = stored[id] /\ states[id].tracked /\ states[id].owner = NoOne
        /\ states[id].cursor = stored[id].len /\ ~stored[id].dirty
    BY <2>1 DEF PoolInv, LogInv, LogOk, Secured
  <2>3. states[id] \in SessionStates
    BY <2>1 DEF PoolInv, TypeOK
  <2> QED BY <2>2, <2>3 DEF SessionStates, Tracked
<1> QED BY <1>1, PoolIsConsistent, PTL

(* The Session prepare() handed out is never refused by its publication.       *)
THEOREM PublicationSucceeds == Spec => []NeverRefused
<1>1. PoolInv => NeverRefused
  BY DEF PoolInv, CallerInv, CallerOk, NeverRefused
<1> QED BY <1>1, PoolIsConsistent, PTL

(* At most one caller holds an identity unpublished, live or draining.         *)
THEOREM HolderIsAlone == Spec => []OneHolder
<1>1. PoolInv => OneHolder
  <2>1. SUFFICES ASSUME PoolInv, NEW c \in Callers, NEW d \in Callers,
                        call[c].pc \in {"held", "live", "retiring", "forgetting"},
                        call[d].pc \in {"held", "live", "retiring", "forgetting"},
                        call[c].id = call[d].id
                 PROVE  c = d
    BY DEF OneHolder
  <2>2. TypeOK /\ CallerInv /\ OwnerInv /\ LogInv /\ LiveInv
    BY <2>1 DEF PoolInv
  <2>3. PICK id \in Ids : id = call[c].id
    BY <2>2 DEF TypeOK, Calls
  <2>4. ASSUME NEW e \in Callers, call[e].id = id, call[e].pc = "held"
        PROVE  Owns(e, id) /\ states[id].owner = NoOne
    <3>1. call[e].on /\ entry[id].phase = "reserved"
      BY <2>2, <2>4 DEF CallerInv, CallerOk
    <3> QED BY <2>2, <2>4, <3>1 DEF Owns, Owning, Secured, LogInv, LogOk
  <2>5. ASSUME NEW e \in Callers, call[e].id = id, call[e].pc \in {"live", "retiring", "forgetting"}
        PROVE  states[id].owner = e /\ e # NoOne
    BY <2>2, <2>5, NoOneIsNoCaller DEF LiveInv, NoOneIsNoCaller
  <2> QED BY <2>1, <2>2, <2>3, <2>4, <2>5 DEF OwnerInv
<1> QED BY <1>1, PoolIsConsistent, PTL

(* A batch that reaches storage continues the log exactly, with no reservation *)
(* of it outstanding.                                                          *)
THEOREM WritesContinue == Spec => []AppendContinues
<1>1. PoolInv => AppendContinues
  <2>1. SUFFICES ASSUME PoolInv, NEW id \in Ids, chain[id] # <<>>, Running(id).at = "write"
                 PROVE  /\ Running(id).seq = stored[id].len /\ states[id].cursor = stored[id].len
                        /\ entry[id].phase # "reserved"
    BY DEF AppendContinues
  <2>2. OpOk(id, Running(id)) /\ LogOk(id)
    BY <2>1, HeadIs DEF PoolInv, LogInv
  <2> QED BY <2>1, <2>2 DEF OpOk, StageOk, WriteOk, LogOk, Secured
<1> QED BY <1>1, PoolIsConsistent, PTL

(* Whoever waits for a reservation waits for one that is still there.          *)
THEOREM WaitersAreOwed == Spec => []NoOrphanWaiter
<1>1. PoolInv => NoOrphanWaiter
  BY DEF PoolInv, CallerInv, CallerOk, NoOrphanWaiter, Exclusive
<1> QED BY <1>1, PoolIsConsistent, PTL

=============================================================================
