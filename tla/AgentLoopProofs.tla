-------------------------- MODULE AgentLoopProofs --------------------------
(***************************************************************************)
(* Theorems about AgentLoop for any number of messages, steps and nested   *)
(* calls.  The call stack is a sequence of frames; what matters of it is   *)
(* which frames are in it, and that the driver's is there at most once.    *)
(***************************************************************************)
EXTENDS AgentLoop, FiniteSetTheorems, SequenceTheorems, TLAPS

-----------------------------------------------------------------------------
(* Sequences and what is in them *)

(* Pushing a frame gives a longer stack with the old one below it. *)
LEMMA PushIsSeq ==
  ASSUME NEW S, NEW s \in Seq(S), NEW f \in S
  PROVE  /\ Push(f, s) \in Seq(S) /\ Push(f, s) # <<>>
         /\ Len(Push(f, s)) = Len(s) + 1 /\ Len(s) \in Nat
         /\ Push(f, s)[1] = f
         /\ \A i \in 1..Len(s) : Push(f, s)[i + 1] = s[i]
         /\ Head(Push(f, s)) = f
<1>1. <<f>> \in Seq(S) /\ Len(<<f>>) = 1 /\ <<f>>[1] = f
  OBVIOUS
<1>2. /\ Push(f, s) \in Seq(S) /\ Len(Push(f, s)) = 1 + Len(s) /\ Len(s) \in Nat
      /\ \A i \in 1..1 + Len(s) : Push(f, s)[i] = IF i <= 1 THEN <<f>>[i] ELSE s[i - 1]
  BY <1>1, ConcatProperties DEF Push
<1>3. Push(f, s) # <<>> /\ Push(f, s)[1] = f
  BY <1>1, <1>2
<1>4. Head(Push(f, s)) = Push(f, s)[1]
  BY <1>2, <1>3
<1> QED BY <1>1, <1>2, <1>3, <1>4

(* Pushing adds one element. *)
LEMMA ElementsOfPush ==
  ASSUME NEW S, NEW s \in Seq(S), NEW f \in S
  PROVE  ElementsOf(Push(f, s)) = {f} \cup ElementsOf(s)
<1> DEFINE t == Push(f, s)
<1>1. /\ t \in Seq(S) /\ Len(t) = Len(s) + 1 /\ Len(s) \in Nat
      /\ t[1] = f /\ \A i \in 1..Len(s) : t[i + 1] = s[i]
  BY PushIsSeq
<1> HIDE DEF t
<1>2. DOMAIN t = 1..Len(s) + 1 /\ DOMAIN s = 1..Len(s)
  BY <1>1
<1>3. ASSUME NEW i \in DOMAIN t PROVE t[i] \in {f} \cup ElementsOf(s)
  <2>1. CASE i = 1
    BY <1>1, <2>1
  <2>2. CASE i # 1
    <3>1. i - 1 \in 1..Len(s) /\ i - 1 + 1 = i
      BY <1>1, <1>2, <2>2
    <3>2. t[i] = s[i - 1]
      BY <1>1, <3>1
    <3> QED BY <1>2, <3>1, <3>2 DEF ElementsOf
  <2> QED BY <2>1, <2>2
<1>4. ASSUME NEW i \in DOMAIN s PROVE s[i] \in ElementsOf(t)
  <2>1. i + 1 \in DOMAIN t /\ t[i + 1] = s[i]
    BY <1>1, <1>2
  <2> QED BY <2>1 DEF ElementsOf
<1>5. f \in ElementsOf(t)
  <2>1. 1 \in DOMAIN t
    BY <1>1, <1>2
  <2> QED BY <1>1, <2>1 DEF ElementsOf
<1>6. ElementsOf(t) \subseteq {f} \cup ElementsOf(s)
  BY <1>3 DEF ElementsOf
<1>7. ElementsOf(s) \subseteq ElementsOf(t)
  BY <1>4 DEF ElementsOf
<1> QED BY <1>5, <1>6, <1>7 DEF t

(* Popping keeps the elements of the rest, and the head is the only loss. *)
LEMMA ElementsOfTail ==
  ASSUME NEW S, NEW s \in Seq(S), s # <<>>
  PROVE  /\ Tail(s) \in Seq(S) /\ Head(s) \in S
         /\ ElementsOf(s) = {Head(s)} \cup ElementsOf(Tail(s))
         /\ s = Push(Head(s), Tail(s))
<1> DEFINE t == Tail(s)
<1>1. /\ t \in Seq(S) /\ Head(s) \in S /\ Len(t) = Len(s) - 1
      /\ \A i \in 1..Len(t) : t[i] = s[i + 1]
  BY HeadTailProperties
<1>2. Head(s) = s[1] /\ Len(t) \in Nat /\ Len(s) \in Nat
  BY <1>1
<1> HIDE DEF t
<1>3. /\ Push(Head(s), t) \in Seq(S) /\ Len(Push(Head(s), t)) = Len(s)
      /\ Push(Head(s), t)[1] = s[1]
      /\ \A i \in 1..Len(t) : Push(Head(s), t)[i + 1] = t[i]
  <2>1. /\ Push(Head(s), t) \in Seq(S) /\ Len(Push(Head(s), t)) = Len(t) + 1
        /\ Push(Head(s), t)[1] = Head(s)
        /\ \A i \in 1..Len(t) : Push(Head(s), t)[i + 1] = t[i]
    <3> DEFINE h == Head(s)
    <3>1. h \in S /\ t \in Seq(S)
      BY <1>1
    <3> HIDE DEF h
    <3>2. /\ Push(h, t) \in Seq(S) /\ Len(Push(h, t)) = Len(t) + 1
          /\ Push(h, t)[1] = h
          /\ \A i \in 1..Len(t) : Push(h, t)[i + 1] = t[i]
      BY <3>1, PushIsSeq
    <3> QED BY <3>2 DEF h
  <2> QED BY <1>1, <1>2, <2>1
<1>4. ASSUME NEW i \in 1..Len(s) PROVE s[i] = Push(Head(s), t)[i]
  <2>1. CASE i = 1
    BY <1>3, <2>1
  <2>2. CASE i # 1
    <3>1. i - 1 \in 1..Len(t) /\ (i - 1) + 1 = i
      BY <1>1, <1>2, <2>2
    <3> QED BY <1>1, <1>3, <3>1
  <2> QED BY <2>1, <2>2
<1>5. s = Push(Head(s), t)
  BY <1>3, <1>4, SeqEqual
<1> QED BY <1>1, <1>5, ElementsOfPush DEF t

(* Appending adds one element. *)
LEMMA ElementsOfAppend ==
  ASSUME NEW S, NEW s \in Seq(S), NEW m \in S
  PROVE  Append(s, m) \in Seq(S) /\ ElementsOf(Append(s, m)) = ElementsOf(s) \cup {m}
<1> DEFINE t == Append(s, m)
<1>1. /\ t \in Seq(S) /\ Len(t) = Len(s) + 1 /\ Len(s) \in Nat
      /\ t[Len(s) + 1] = m /\ \A i \in 1..Len(s) : t[i] = s[i]
  BY AppendProperties
<1>2. DOMAIN t = 1..Len(s) + 1 /\ DOMAIN s = 1..Len(s)
  BY <1>1
<1> HIDE DEF t
<1>3. ASSUME NEW i \in DOMAIN t PROVE t[i] \in ElementsOf(s) \cup {m}
  BY <1>1, <1>2 DEF ElementsOf
<1>4. ASSUME NEW i \in DOMAIN s PROVE s[i] \in ElementsOf(t)
  <2>1. i \in DOMAIN t /\ t[i] = s[i]
    BY <1>1, <1>2
  <2> QED BY <2>1 DEF ElementsOf
<1>5. m \in ElementsOf(t)
  <2>1. Len(s) + 1 \in DOMAIN t
    BY <1>1, <1>2
  <2> QED BY <1>1, <2>1 DEF ElementsOf
<1>6. ElementsOf(t) \subseteq ElementsOf(s) \cup {m} /\ ElementsOf(s) \subseteq ElementsOf(t)
  BY <1>3, <1>4 DEF ElementsOf
<1> QED BY <1>1, <1>5, <1>6 DEF t

(* A splice that removes one element adds none. *)
LEMMA ElementsOfRemoveAt ==
  ASSUME NEW S, NEW s \in Seq(S), NEW i \in DOMAIN s
  PROVE  /\ Lists!RemoveAt(s, i) \in Seq(S)
         /\ ElementsOf(Lists!RemoveAt(s, i)) \subseteq ElementsOf(s)
         /\ ElementsOf(s) \ {s[i]} \subseteq ElementsOf(Lists!RemoveAt(s, i))
<1> DEFINE a == SubSeq(s, 1, i - 1)
           b == SubSeq(s, i + 1, Len(s))
<1>1. i \in 1..Len(s) /\ Len(s) \in Nat /\ DOMAIN s = 1..Len(s)
  OBVIOUS
<1>2. \A j \in 1..i - 1 : s[j] \in S
  BY <1>1
<1>3. /\ a \in Seq(S) /\ Len(a) = i - 1 /\ \A j \in 1..Len(a) : a[j] = s[j]
  BY <1>1, <1>2, SubSeqProperties
<1>4. \A j \in i + 1..Len(s) : s[j] \in S
  BY <1>1
<1>5. /\ b \in Seq(S) /\ Len(b) = Len(s) - i /\ \A j \in 1..Len(b) : b[j] = s[i + j]
  BY <1>1, <1>4, SubSeqProperties
<1> HIDE DEF a, b
<1>6. /\ a \o b \in Seq(S) /\ Len(a \o b) = Len(a) + Len(b)
      /\ \A j \in 1..Len(a) + Len(b) : (a \o b)[j] = IF j <= Len(a) THEN a[j] ELSE b[j - Len(a)]
  BY <1>3, <1>5, ConcatProperties
<1>7. ASSUME NEW j \in DOMAIN (a \o b) PROVE (a \o b)[j] \in ElementsOf(s)
  <2>1. j \in 1..Len(a) + Len(b)
    BY <1>6
  <2>2. CASE j <= Len(a)
    BY <1>1, <1>3, <1>5, <1>6, <2>1, <2>2 DEF ElementsOf
  <2>3. CASE ~(j <= Len(a))
    <3>1. j - Len(a) \in 1..Len(b) /\ i + (j - Len(a)) \in DOMAIN s
      BY <1>1, <1>3, <1>5, <2>1, <2>3
    <3>2. (a \o b)[j] = s[i + (j - Len(a))]
      BY <1>5, <1>6, <2>1, <2>3, <3>1
    <3> QED BY <3>1, <3>2 DEF ElementsOf
  <2> QED BY <2>2, <2>3
<1>8. ElementsOf(a \o b) \subseteq ElementsOf(s)
  BY <1>7 DEF ElementsOf
<1>9. ASSUME NEW j \in DOMAIN s, s[j] # s[i] PROVE s[j] \in ElementsOf(a \o b)
  <2>1. CASE j < i
    <3>1. j \in DOMAIN (a \o b) /\ (a \o b)[j] = s[j]
      BY <1>1, <1>3, <1>5, <1>6, <2>1
    <3> QED BY <3>1 DEF ElementsOf
  <2>2. CASE j > i
    <3>1. j - 1 \in 1..Len(a) + Len(b) /\ ~(j - 1 <= Len(a)) /\ (j - 1) - Len(a) = j - i /\ j - i \in 1..Len(b)
      BY <1>1, <1>3, <1>5, <2>2
    <3>2. (a \o b)[j - 1] = s[i + (j - i)] /\ i + (j - i) = j
      BY <1>1, <1>5, <1>6, <3>1
    <3>3. j - 1 \in DOMAIN (a \o b)
      BY <1>6, <3>1
    <3> QED BY <3>2, <3>3 DEF ElementsOf
  <2>3. j < i \/ j > i
    BY <1>1, <1>9
  <2> QED BY <2>1, <2>2, <2>3
<1>10. ElementsOf(s) \ {s[i]} \subseteq ElementsOf(a \o b)
  BY <1>9 DEF ElementsOf
<1> QED BY <1>6, <1>8, <1>10 DEF a, b, Lists!RemoveAt

(* The empty sequence has no elements. *)
LEMMA ElementsOfNothing == ElementsOf(<<>>) = {}
  BY DEF ElementsOf

-----------------------------------------------------------------------------
(* The invariant *)

(* No two frames of a stack are the driver's. *)
Alone(s) == \A i, j \in DOMAIN s : s[i] = Driver /\ s[j] = Driver => i = j

(* The driver exists exactly in the running phase, and its frame is on the  *)
(* stack exactly while it runs.                                             *)
StackInv ==
    /\ (phase = "running") = (pc # "none")
    /\ pc \in SyncPC <=> Driver \in ElementsOf(stack)
    /\ Alone(stack)

(* Messages are sent once, in order. *)
SentInv == Pending \cup waking \cup owed \subseteq 1..sent

(* A latch belongs to an activity, and a disposed one is owed nothing. *)
LatchInv ==
    /\ phase = "idle" => ~wakeRequested
    /\ abortReason = "disposed" => disposing
    /\ disposing => owed = {}

(* What will start a driver for a message that no driver is going to claim: *)
(* the latch, or a suspended call that finds the agent idle, or latches.    *)
Serves(f) ==
    \/ f.k = "wake" /\ (f.late \/ phase # "running")
    \/ f.k = "settle" /\ f.replay /\ phase # "running"
Served == wakeRequested \/ \E f \in ElementsOf(stack) : Serves(f)

OwedInv == owed \cap Pending # {} => Served

(* No driver claims what is pending when there is none, or when it has made *)
(* its last check; disposal leaves such input behind on purpose.            *)
BeyondClaims == phase # "running" \/ pc = "exiting"
ParkInv ==
    flow = "go" /\ BeyondClaims /\ ~(waking \cap Pending \subseteq parked) =>
        Served \/ (phase # "idle" /\ disposing)

WakeInv == TypeOK /\ StackInv /\ SentInv /\ LatchInv /\ OwedInv /\ ParkInv

(* A pushed frame does not double the driver's, unless it is the driver's. *)
LEMMA AlonePush ==
  ASSUME NEW S, NEW s \in Seq(S), NEW f \in S, Alone(s), f # Driver \/ Driver \notin ElementsOf(s)
  PROVE  Alone(Push(f, s))
<1> DEFINE t == Push(f, s)
<1>1. /\ t \in Seq(S) /\ Len(t) = Len(s) + 1 /\ Len(s) \in Nat
      /\ t[1] = f /\ \A i \in 1..Len(s) : t[i + 1] = s[i]
  BY PushIsSeq
<1> HIDE DEF t
<1>2. DOMAIN t = 1..Len(s) + 1 /\ DOMAIN s = 1..Len(s)
  BY <1>1
<1>3. ASSUME NEW i \in DOMAIN t, i # 1 PROVE i - 1 \in DOMAIN s /\ t[i] = s[i - 1]
  <2>1. i - 1 \in 1..Len(s) /\ i - 1 + 1 = i
    BY <1>2, <1>3, <1>1
  <2> QED BY <1>1, <1>2, <2>1
<1>4. ASSUME NEW i \in DOMAIN t, NEW j \in DOMAIN t, t[i] = Driver, t[j] = Driver PROVE i = j
  <2>1. CASE f # Driver
    <3>1. i # 1 /\ j # 1
      BY <1>1, <1>4, <2>1
    <3>2. i - 1 = j - 1
      BY <1>3, <1>4, <3>1 DEF Alone
    <3> QED BY <1>1, <1>2, <3>2
  <2>2. CASE Driver \notin ElementsOf(s)
    <3>1. i = 1 /\ j = 1
      BY <1>3, <1>4, <2>2 DEF ElementsOf
    <3> QED BY <3>1
  <2> QED BY <2>1, <2>2
<1> QED BY <1>4 DEF Alone, t

(* Popping leaves the driver on the stack once at most. *)
LEMMA AloneTail ==
  ASSUME NEW S, NEW s \in Seq(S), s # <<>>, Alone(s)
  PROVE  Alone(Tail(s)) /\ (Head(s) = Driver => Driver \notin ElementsOf(Tail(s)))
<1> DEFINE t == Tail(s)
<1>1. /\ t \in Seq(S) /\ Len(t) = Len(s) - 1 /\ Len(t) \in Nat /\ Len(s) \in Nat
      /\ Head(s) = s[1] /\ \A i \in 1..Len(t) : t[i] = s[i + 1]
  BY HeadTailProperties
<1> HIDE DEF t
<1>2. DOMAIN t = 1..Len(t) /\ DOMAIN s = 1..Len(s)
  BY <1>1
<1>3. ASSUME NEW i \in DOMAIN t PROVE i + 1 \in DOMAIN s /\ t[i] = s[i + 1] /\ i \in Nat
  BY <1>1, <1>2
<1>4. ASSUME NEW i \in DOMAIN t, NEW j \in DOMAIN t, t[i] = Driver, t[j] = Driver PROVE i = j
  <2>1. i + 1 = j + 1
    BY <1>3, <1>4 DEF Alone
  <2> QED BY <1>3, <2>1
<1>5. ASSUME Head(s) = Driver, NEW i \in DOMAIN t, t[i] = Driver PROVE FALSE
  <2>1. 1 \in DOMAIN s
    BY <1>1, <1>2, <1>3, <1>5
  <2>2. i + 1 = 1
    BY <1>1, <1>3, <1>5, <2>1 DEF Alone
  <2> QED BY <1>3, <2>2
<1> QED BY <1>4, <1>5 DEF Alone, ElementsOf, t

(* The innermost frame, taken off. *)
LEMMA Popped ==
  ASSUME TypeOK, StackInv, stack # <<>>
  PROVE  /\ Tail(stack) \in Seq(Frame) /\ Head(stack) \in Frame
         /\ ElementsOf(stack) = {Head(stack)} \cup ElementsOf(Tail(stack))
         /\ Alone(Tail(stack))
         /\ Head(stack) = Driver => Driver \notin ElementsOf(Tail(stack))
<1>1. stack \in Seq(Frame)
  BY DEF TypeOK
<1> QED BY <1>1, ElementsOfTail, AloneTail DEF StackInv

-----------------------------------------------------------------------------
(* What a step of the driver does, wherever it is: it goes on to another    *)
(* location, may take input but adds none, keeps the latch or moves to a    *)
(* fresh signal, and leaves its turn normally only when nothing is pending. *)
TurnTypes ==
    /\ turn \in Nat /\ step \in 0..MaxSteps
    /\ target \in {"next-turn", "next-step"}
    /\ turnEnds \in {"null", "completed", "max-tokens", "blocked", "aborted", "error"}
    /\ flow \in {"go", "return", "throw"}
    /\ reply \in {"none", "text", "calls", "max-tokens"}

DriverMoves ==
    /\ pc # "none" /\ pc' \in SyncPC \cup AwaitPC
    /\ pc \in SyncPC => Top("driver")
    /\ pc \in AwaitPC => stack = <<>>
    /\ Goto(pc')
    /\ UNCHANGED <<phase, sent, waking, parked, disposing>>
    /\ nextStep' \in Seq(Messages) /\ nextTurn' \in Seq(Messages)
    /\ Pending' \subseteq Pending /\ revoked' \subseteq revoked
    /\ \/ UNCHANGED <<abortReason, wakeRequested, owed>>
       \/ abortReason' = "none" /\ wakeRequested' = FALSE /\ owed' = {}
    /\ pc' = "exiting" => flow' # "go" \/ Pending' = {}
    /\ TurnTypes'

(* It moves its own frame only. *)
LEMMA DriverFrame ==
  ASSUME TypeOK, StackInv, DriverMoves
  PROVE  /\ stack' \in Seq(Frame) /\ Alone(stack')
         /\ pc' \in SyncPC <=> Driver \in ElementsOf(stack')
         /\ ElementsOf(stack') \ {Driver} = ElementsOf(stack) \ {Driver}
<1>0. stack \in Seq(Frame) /\ Driver \in Frame
  BY DEF TypeOK, Frame
<1> DEFINE below == IF pc \in SyncPC THEN Tail(stack) ELSE stack
<1>1. /\ below \in Seq(Frame) /\ Alone(below) /\ Driver \notin ElementsOf(below)
      /\ ElementsOf(stack) \ {Driver} = ElementsOf(below)
  <2>1. CASE pc \in SyncPC
    <3>1. stack # <<>> /\ Head(stack) \in Frame /\ Head(stack).k = "driver"
      BY <2>1, Popped DEF DriverMoves, Top
    <3>2. Head(stack) = Driver
      BY <3>1 DEF Frame, Driver
    <3> QED BY <2>1, <3>1, <3>2, Popped
  <2>2. CASE pc \notin SyncPC
    BY <1>0, <2>2 DEF StackInv
  <2> QED BY <2>1, <2>2
<1>2. stack' = IF pc' \in SyncPC THEN Push(Driver, below) ELSE below
  BY DEF DriverMoves, Goto
<1> HIDE DEF below
<1>3. CASE pc' \in SyncPC
  <2>1. stack' = Push(Driver, below)
    BY <1>2, <1>3
  <2>2. stack' \in Seq(Frame) /\ Alone(stack')
    BY <1>0, <1>1, <2>1, PushIsSeq, AlonePush
  <2>3. ElementsOf(stack') = {Driver} \cup ElementsOf(below)
    BY <1>0, <1>1, <2>1, ElementsOfPush
  <2> QED BY <1>1, <1>3, <2>2, <2>3
<1>4. CASE pc' \notin SyncPC
  BY <1>1, <1>2, <1>4
<1> QED BY <1>3, <1>4

(* A move of the driver that leaves the messages alone keeps the invariant. *)
LEMMA MovesKeep == WakeInv /\ DriverMoves => WakeInv'
<1> SUFFICES ASSUME WakeInv, DriverMoves PROVE WakeInv'
  OBVIOUS
<1> USE DEF WakeInv
<1>2. /\ stack' \in Seq(Frame) /\ Alone(stack')
      /\ pc' \in SyncPC <=> Driver \in ElementsOf(stack')
      /\ ElementsOf(stack') \ {Driver} = ElementsOf(stack) \ {Driver}
  BY DriverFrame
<1>3. TypeOK'
  BY <1>2 DEF TypeOK, DriverMoves, TurnTypes
<1>4. StackInv'
  <2>1. (phase' = "running") = (pc' # "none")
    BY DEF StackInv, DriverMoves, SyncPC, AppendPC, AwaitPC
  <2> QED BY <1>2, <2>1 DEF StackInv
<1>5. SentInv'
  BY DEF SentInv, DriverMoves
<1>6. LatchInv'
  BY DEF LatchInv, DriverMoves, StackInv
<1>7. Served /\ wakeRequested' = wakeRequested => Served'
  BY <1>2 DEF Served, Serves, DriverMoves, Driver
<1>8. OwedInv'
  BY <1>7 DEF OwedInv, DriverMoves
<1>9. ParkInv'
  BY DEF ParkInv, BeyondClaims, DriverMoves, StackInv
<1> QED BY <1>3, <1>4, <1>5, <1>6, <1>8, <1>9

(* Inbox.claim() only takes. *)
LEMMA Claimed ==
  ASSUME TypeOK, NEW tgt, Claim(tgt)
  PROVE  /\ nextStep' \in Seq(Messages) /\ nextTurn' \in Seq(Messages)
         /\ Pending' \subseteq Pending /\ revoked' = revoked \cap Pending
         /\ ElementsOf(nextStep') = {}
<1>1. nextStep' \in Seq(Messages) /\ ElementsOf(nextStep') = {}
  BY ElementsOfNothing DEF Claim
<1>2. nextTurn' \in Seq(Messages) /\ ElementsOf(nextTurn') \subseteq ElementsOf(nextTurn)
  <2>1. nextTurn \in Seq(Messages)
    BY DEF TypeOK
  <2>2. CASE nextTurn # <<>> /\ nextTurn' = Tail(nextTurn)
    BY <2>1, <2>2, ElementsOfTail
  <2>3. CASE nextTurn' = nextTurn
    BY <2>1, <2>3
  <2> QED BY <2>2, <2>3 DEF Claim
<1>3. revoked' = revoked \cap Pending
  BY DEF Claim
<1> QED BY <1>1, <1>2, <1>3 DEF Pending

(* Without pending input both lists are empty. *)
LEMMA NothingPending ==
  ASSUME ~HasPending
  PROVE  Pending = {}
<1>1. nextStep = <<>> /\ nextTurn = <<>>
  BY DEF HasPending
<1> QED BY <1>1, ElementsOfNothing DEF Pending

(* Every action of turn() and step() is such a step. *)
LEMMA DriverSteps ==
  ASSUME WakeInv, Drive, ~Converge, ~Settle
  PROVE  DriverMoves
<1> USE DEF WakeInv, At, SyncPC, AppendPC, AwaitPC
<1>0. TurnTypes /\ nextStep \in Seq(Messages) /\ nextTurn \in Seq(Messages)
  BY DEF TypeOK, TurnTypes
<1> DEFINE Stays == UNCHANGED <<phase, abortReason, wakeRequested, sent, waking, parked,
                                owed, disposing>>
           Keeps == UNCHANGED <<nextStep, nextTurn, revoked>>
(* Most of them leave the inbox alone, and reach "exiting" by a throw only. *)
<1>1. ASSUME NEW p \in SyncPC \cup AwaitPC, At(p), NEW q \in SyncPC \cup AwaitPC, Goto(q),
             Stays, TurnTypes',
             \/ Keeps
             \/ \E tgt \in {"next-turn", "next-step"} : Claim(tgt),
             q = "exiting" => flow' # "go"
      PROVE  DriverMoves
  <2>1. /\ nextStep' \in Seq(Messages) /\ nextTurn' \in Seq(Messages)
        /\ Pending' \subseteq Pending /\ revoked' \subseteq revoked
    BY <1>0, <1>1, Claimed DEF Pending
  <2>2. pc' = q /\ pc = p /\ Goto(pc')
    BY <1>1 DEF Goto
  <2>3. pc \in SyncPC => Top("driver")
    BY <1>1
  <2>4. pc \in AwaitPC => stack = <<>>
    BY <1>1
  <2>5. pc # "none"
    BY <2>2
  <2> QED BY <1>1, <2>1, <2>2, <2>3, <2>4, <2>5 DEF DriverMoves
<1> USE DEF TurnTypes
(* A proposal claims input, or throws when the signal has fired. *)
<1>p. ASSUME NEW tgt \in {"next-turn", "next-step"}, ProposeStep(tgt)
      PROVE  /\ Goto("erroring") \/ Goto("turnEnded") \/ Goto("assembling")
             /\ target' \in {"next-turn", "next-step"}
             /\ turnEnds' \in {turnEnds, "aborted", "error"} /\ flow' \in {flow, "throw"}
             /\ UNCHANGED <<sent, waking, parked>>
             /\ Keeps \/ Claim(tgt)
  <2>1. CASE ~SignalClear /\ Throw /\ UNCHANGED <<inboxVars, target>>
    BY <1>0, <2>1 DEF Throw, ThrownEnding, inboxVars
  <2>2. CASE Claim(tgt) /\ target' = tgt /\ Goto("assembling") /\ UNCHANGED <<turnEnds, flow>>
    BY <1>0, <2>2 DEF Claim
  <2> QED BY <1>p, <2>1, <2>2 DEF ProposeStep
<1>2. CASE TurnBegin
  <2>1. /\ At("waking") \/ At("betweenTurns")
        /\ Goto("exiting") \/ Goto("turnStarted")
        /\ Stays /\ TurnTypes'
        /\ Keeps \/ \E tgt \in {"next-turn", "next-step"} : Claim(tgt)
        /\ pc' = "exiting" => flow' # "go"
    BY <1>0, <1>2 DEF Goto, TurnBegin, phaseVars, inboxVars
  <2> QED BY <1>1, <2>1 DEF Goto
<1>3. CASE FirstStep
  <2>1. /\ At("turnStarted")
        /\ Goto("erroring") \/ Goto("turnEnded") \/ Goto("assembling")
        /\ Stays /\ TurnTypes'
        /\ Keeps \/ \E tgt \in {"next-turn", "next-step"} : Claim(tgt)
        /\ pc' = "exiting" => flow' # "go"
    BY <1>0, <1>3, <1>p DEF Goto, FirstStep, phaseVars
  <2> QED BY <1>1, <2>1 DEF Goto
<1>4. CASE AwaitRejects
  <2>1. /\ At("assembling") \/ At("preStep") \/ At("stopping")
        /\ Goto("erroring") \/ Goto("turnEnded")
        /\ Stays /\ TurnTypes'
        /\ Keeps \/ \E tgt \in {"next-turn", "next-step"} : Claim(tgt)
        /\ pc' = "exiting" => flow' # "go"
    BY <1>0, <1>4 DEF Goto, AwaitRejects, Throw, ThrownEnding, phaseVars, inboxVars
  <2> QED BY <1>1, <2>1 DEF Goto
<1>5. CASE Assembled
  <2>1. /\ At("assembling")
        /\ Goto("preStep")
        /\ Stays /\ TurnTypes'
        /\ Keeps \/ \E tgt \in {"next-turn", "next-step"} : Claim(tgt)
        /\ pc' = "exiting" => flow' # "go"
    BY <1>0, <1>5 DEF Goto, Assembled, phaseVars, turnVars, inboxVars
  <2> QED BY <1>1, <2>1 DEF Goto
<1>6. CASE PreStepDecided
  <2>1. /\ At("preStep")
        /\ Goto("decided")
        /\ Stays /\ TurnTypes'
        /\ Keeps \/ \E tgt \in {"next-turn", "next-step"} : Claim(tgt)
        /\ pc' = "exiting" => flow' # "go"
    BY <1>0, <1>6 DEF Goto, PreStepDecided, phaseVars, turnVars, inboxVars
  <2> QED BY <1>1, <2>1 DEF Goto
<1>7. CASE PreStepRejected
  <2>1. /\ At("decided")
        /\ Goto("turnEnded")
        /\ Stays /\ TurnTypes'
        /\ Keeps \/ \E tgt \in {"next-turn", "next-step"} : Claim(tgt)
        /\ pc' = "exiting" => flow' # "go"
    BY <1>0, <1>7 DEF Goto, PreStepRejected, EndTurn, phaseVars, inboxVars
  <2> QED BY <1>1, <2>1 DEF Goto
<1>8. CASE PreStepEmpty
  <2>1. /\ At("decided")
        /\ Goto("turnEnded")
        /\ Stays /\ TurnTypes'
        /\ Keeps \/ \E tgt \in {"next-turn", "next-step"} : Claim(tgt)
        /\ pc' = "exiting" => flow' # "go"
    BY <1>0, <1>8 DEF Goto, PreStepEmpty, EndTurn, phaseVars, inboxVars
  <2> QED BY <1>1, <2>1 DEF Goto
<1>9. CASE EntryAborted
  <2>1. /\ At("decided")
        /\ Goto("erroring") \/ Goto("turnEnded")
        /\ Stays /\ TurnTypes'
        /\ Keeps \/ \E tgt \in {"next-turn", "next-step"} : Claim(tgt)
        /\ pc' = "exiting" => flow' # "go"
    BY <1>0, <1>9 DEF Goto, EntryAborted, Throw, ThrownEnding, phaseVars, inboxVars
  <2> QED BY <1>1, <2>1 DEF Goto
<1>10. CASE \E e \in BOOLEAN : EnterStep(e)
  <2>1. /\ At("decided")
        /\ Goto("stepStarted")
        /\ Stays /\ TurnTypes'
        /\ Keeps \/ \E tgt \in {"next-turn", "next-step"} : Claim(tgt)
        /\ pc' = "exiting" => flow' # "go"
    BY <1>0, <1>10, BoundAssumption DEF Goto, EnterStep, phaseVars, inboxVars
  <2> QED BY <1>1, <2>1 DEF Goto
<1>11. CASE StepBegin
  <2>1. /\ At("stepStarted")
        /\ Goto("stepReturned") \/ Goto("requesting")
        /\ Stays /\ TurnTypes'
        /\ Keeps \/ \E tgt \in {"next-turn", "next-step"} : Claim(tgt)
        /\ pc' = "exiting" => flow' # "go"
    BY <1>0, <1>11 DEF Goto, StepBegin, StepThrows, InStep, phaseVars, inboxVars
  <2> QED BY <1>1, <2>1 DEF Goto
<1>12. CASE StepAwaitRejects
  <2>1. /\ At("requesting") \/ At("streaming") \/ At("requestError") \/ At("rewriting") \/ At("tools")
        /\ Goto("stepReturned")
        /\ Stays /\ TurnTypes'
        /\ Keeps \/ \E tgt \in {"next-turn", "next-step"} : Claim(tgt)
        /\ pc' = "exiting" => flow' # "go"
    BY <1>0, <1>12 DEF Goto, StepAwaitRejects, StepThrows, InStep, phaseVars, inboxVars
  <2> QED BY <1>1, <2>1 DEF Goto
<1>13. CASE RequestBuilt
  <2>1. /\ At("requesting")
        /\ Goto("headerLogged")
        /\ Stays /\ TurnTypes'
        /\ Keeps \/ \E tgt \in {"next-turn", "next-step"} : Claim(tgt)
        /\ pc' = "exiting" => flow' # "go"
    BY <1>0, <1>13 DEF Goto, RequestBuilt, InStep, phaseVars, inboxVars
  <2> QED BY <1>1, <2>1 DEF Goto
<1>14. CASE HeaderReturns
  <2>1. /\ At("headerLogged")
        /\ Goto("stepReturned") \/ Goto("built")
        /\ Stays /\ TurnTypes'
        /\ Keeps \/ \E tgt \in {"next-turn", "next-step"} : Claim(tgt)
        /\ pc' = "exiting" => flow' # "go"
    BY <1>0, <1>14 DEF Goto, HeaderReturns, StepThrows, InStep, phaseVars, inboxVars
  <2> QED BY <1>1, <2>1 DEF Goto
<1>15. CASE RequestSent
  <2>1. /\ At("built")
        /\ Goto("stepReturned") \/ Goto("streaming")
        /\ Stays /\ TurnTypes'
        /\ Keeps \/ \E tgt \in {"next-turn", "next-step"} : Claim(tgt)
        /\ pc' = "exiting" => flow' # "go"
    BY <1>0, <1>15 DEF Goto, RequestSent, StepThrows, InStep, phaseVars, inboxVars
  <2> QED BY <1>1, <2>1 DEF Goto
<1>16. CASE StreamFails
  <2>1. /\ At("streaming")
        /\ Goto("requestError")
        /\ Stays /\ TurnTypes'
        /\ Keeps \/ \E tgt \in {"next-turn", "next-step"} : Claim(tgt)
        /\ pc' = "exiting" => flow' # "go"
    BY <1>0, <1>16 DEF Goto, StreamFails, InStep, phaseVars, inboxVars
  <2> QED BY <1>1, <2>1 DEF Goto
<1>17. CASE RetryRequest
  <2>1. /\ At("requestError")
        /\ Goto("requesting")
        /\ Stays /\ TurnTypes'
        /\ Keeps \/ \E tgt \in {"next-turn", "next-step"} : Claim(tgt)
        /\ pc' = "exiting" => flow' # "go"
    BY <1>0, <1>17 DEF Goto, RetryRequest, InStep, phaseVars, inboxVars
  <2> QED BY <1>1, <2>1 DEF Goto
<1>18. CASE \E k \in {"text", "calls", "max-tokens"} : StreamFinishes(k)
  <2>1. /\ At("streaming")
        /\ Goto("messageLogged") \/ Goto("rewriting")
        /\ Stays /\ TurnTypes'
        /\ Keeps \/ \E tgt \in {"next-turn", "next-step"} : Claim(tgt)
        /\ pc' = "exiting" => flow' # "go"
    BY <1>0, <1>18 DEF Goto, StreamFinishes, InStep, phaseVars, inboxVars
  <2> QED BY <1>1, <2>1 DEF Goto
<1>19. CASE ToolCallsRewritten
  <2>1. /\ At("rewriting")
        /\ Goto("rewritten") \/ Goto("messageLogged")
        /\ Stays /\ TurnTypes'
        /\ Keeps \/ \E tgt \in {"next-turn", "next-step"} : Claim(tgt)
        /\ pc' = "exiting" => flow' # "go"
    BY <1>0, <1>19 DEF Goto, ToolCallsRewritten, InStep, phaseVars, inboxVars
  <2> QED BY <1>1, <2>1 DEF Goto
<1>20. CASE RewriteReturns
  <2>1. /\ At("rewritten")
        /\ Goto("messageLogged")
        /\ Stays /\ TurnTypes'
        /\ Keeps \/ \E tgt \in {"next-turn", "next-step"} : Claim(tgt)
        /\ pc' = "exiting" => flow' # "go"
    BY <1>0, <1>20 DEF Goto, RewriteReturns, InStep, phaseVars, inboxVars
  <2> QED BY <1>1, <2>1 DEF Goto
<1>21. CASE MessageLogged
  <2>1. /\ At("messageLogged")
        /\ Goto("tools") \/ Goto("stepReturned")
        /\ Stays /\ TurnTypes'
        /\ Keeps \/ \E tgt \in {"next-turn", "next-step"} : Claim(tgt)
        /\ pc' = "exiting" => flow' # "go"
    BY <1>0, <1>21 DEF Goto, MessageLogged, StepReturns, StepOutcome, InStep, phaseVars, inboxVars
  <2> QED BY <1>1, <2>1 DEF Goto
<1>22. CASE StepSettled
  <2>1. /\ At("stepReturned")
        /\ Goto("stepEnded")
        /\ Stays /\ TurnTypes'
        /\ Keeps \/ \E tgt \in {"next-turn", "next-step"} : Claim(tgt)
        /\ pc' = "exiting" => flow' # "go"
    BY <1>0, <1>22 DEF Goto, StepSettled, InStep, phaseVars, inboxVars
  <2> QED BY <1>1, <2>1 DEF Goto
<1>23. CASE \E c \in BOOLEAN : ToolsDone(c)
  <2>1. /\ At("tools")
        /\ Goto("stepReturned")
        /\ Stays /\ TurnTypes'
        /\ Keeps \/ \E tgt \in {"next-turn", "next-step"} : Claim(tgt)
        /\ pc' = "exiting" => flow' # "go"
    BY <1>0, <1>23 DEF Goto, ToolsDone, StepReturns, StepOutcome, InStep, phaseVars, inboxVars
  <2> QED BY <1>1, <2>1 DEF Goto
<1>24. CASE StepEnded
  <2>1. /\ At("stepEnded")
        /\ Goto("erroring") \/ Goto("turnEnded") \/ Goto("stopping") \/ Goto("assembling")
        /\ Stays /\ TurnTypes'
        /\ Keeps \/ \E tgt \in {"next-turn", "next-step"} : Claim(tgt)
        /\ pc' = "exiting" => flow' # "go"
    BY <1>0, <1>24, <1>p DEF Goto, StepEnded, Throw, ThrownEnding, phaseVars, inboxVars
  <2> QED BY <1>1, <2>1 DEF Goto
<1>25. CASE TurnStopping
  <2>1. /\ At("stopping")
        /\ Goto("turnEnded") \/ Goto("erroring") \/ Goto("assembling")
        /\ Stays /\ TurnTypes'
        /\ Keeps \/ \E tgt \in {"next-turn", "next-step"} : Claim(tgt)
        /\ pc' = "exiting" => flow' # "go"
    BY <1>0, <1>25, <1>p DEF Goto, TurnStopping, EndTurn, phaseVars, inboxVars
  <2> QED BY <1>1, <2>1 DEF Goto
<1>26. CASE ErrorReported
  <2>1. /\ At("erroring")
        /\ Goto("turnEnded")
        /\ Stays /\ TurnTypes'
        /\ Keeps \/ \E tgt \in {"next-turn", "next-step"} : Claim(tgt)
        /\ pc' = "exiting" => flow' # "go"
    BY <1>0, <1>26 DEF Goto, ErrorReported, phaseVars, turnVars, inboxVars
  <2> QED BY <1>1, <2>1 DEF Goto
<1>27. CASE TurnEnded
  <2>1. /\ At("turnEnded") /\ TurnTypes' /\ UNCHANGED <<phase, disposing, nextStep, nextTurn, revoked>>
        /\ UNCHANGED <<sent, waking, parked>>
        /\ \/ Goto("betweenTurns") /\ abortReason' = "none" /\ wakeRequested' = FALSE /\ owed' = {}
           \/ Goto("exiting") /\ UNCHANGED <<abortReason, wakeRequested, owed>>
    BY <1>0, <1>27, BoundAssumption DEF TurnEnded, inboxVars
  <2>2. pc' \in SyncPC \cup AwaitPC /\ Goto(pc') /\ pc = "turnEnded" /\ Top("driver")
    BY <2>1 DEF Goto
  <2>3. Pending' = Pending
    BY <2>1 DEF Pending
  <2>4. pc' = "exiting" => flow' # "go" \/ Pending' = {}
    BY <1>27, <2>3, NothingPending DEF TurnEnded, HandsOver, Goto
  <2> QED BY <1>0, <2>1, <2>2, <2>3, <2>4 DEF DriverMoves
<1> QED BY <1>2, <1>3, <1>4, <1>5, <1>6, <1>7, <1>8, <1>9, <1>10, <1>11, <1>12, <1>13, <1>14, <1>15,
          <1>16, <1>17, <1>18, <1>19, <1>20, <1>21, <1>22, <1>23, <1>24, <1>25, <1>26, <1>27 DEF Drive

-----------------------------------------------------------------------------
(* The phase machine and the calls *)

(* A driver that starts has everything before it, and owes nothing yet. *)
LEMMA StartKeeps ==
  ASSUME WakeInv, phase # "running", NEW rest \in Seq(Frame), Alone(rest),
         Driver \notin ElementsOf(rest), StartDriver(rest), UNCHANGED inboxVars
  PROVE  WakeInv'
<1> USE DEF WakeInv
<1>1. Driver \in Frame
  BY DEF Frame
<1>2. /\ stack' \in Seq(Frame) /\ Alone(stack')
      /\ Driver \in ElementsOf(stack')
  BY <1>1, PushIsSeq, ElementsOfPush, AlonePush DEF StartDriver
<1>3. TypeOK'
  <2>1. /\ phase' = "running" /\ abortReason' = "none" /\ wakeRequested' = FALSE
        /\ step' \in 0..MaxSteps /\ pc' \in SyncPC /\ owed' = {} /\ disposing' = FALSE
        /\ UNCHANGED <<turn, target, turnEnds, flow, reply>>
    BY BoundAssumption DEF StartDriver, SyncPC
  <2>2. UNCHANGED <<nextStep, nextTurn, sent, waking, parked, revoked>>
    BY DEF inboxVars
  <2> QED BY <1>2, <2>1, <2>2 DEF TypeOK
<1>4. StackInv'
  BY <1>2 DEF StackInv, StartDriver, SyncPC
<1>5. SentInv'
  BY DEF SentInv, StartDriver, inboxVars, Pending
<1>6. LatchInv' /\ OwedInv' /\ ParkInv'
  BY DEF LatchInv, OwedInv, ParkInv, BeyondClaims, StartDriver
<1> QED BY <1>3, <1>4, <1>5, <1>6

(* A suspended call that ends without starting a driver may set the latch,  *)
(* and has to if it was the one that would have served what is pending.     *)
LEMMA PopKeeps ==
  ASSUME WakeInv, stack # <<>>, Head(stack) # Driver, stack' = Tail(stack),
         wakeRequested' \in BOOLEAN, wakeRequested => wakeRequested',
         phase = "idle" => ~wakeRequested',
         UNCHANGED <<phase, abortReason, turnVars, pc, owed, disposing>>,
         UNCHANGED inboxVars,
         Serves(Head(stack)) => wakeRequested' \/ (phase # "idle" /\ disposing) \/ Pending = {}
  PROVE  WakeInv'
<1> USE DEF WakeInv
<1>1. /\ stack' \in Seq(Frame) /\ Alone(stack')
      /\ ElementsOf(stack) = {Head(stack)} \cup ElementsOf(stack')
  BY Popped
<1>2. TypeOK'
  BY <1>1 DEF TypeOK, inboxVars, turnVars
<1>3. StackInv'
  BY <1>1 DEF StackInv
<1>4. Pending' = Pending /\ waking' = waking /\ owed' = owed /\ parked' = parked /\ sent' = sent
  BY DEF Pending, inboxVars
<1>5. SentInv'
  BY <1>4 DEF SentInv
<1>6. LatchInv'
  BY DEF LatchInv
<1>7. Served => Served' \/ (phase # "idle" /\ disposing) \/ Pending = {}
  BY <1>1 DEF Served, Serves
<1>8. OwedInv'
  BY <1>4, <1>7 DEF OwedInv, LatchInv
<1>9. ParkInv'
  BY <1>4, <1>7 DEF ParkInv, BeyondClaims, turnVars
<1> QED BY <1>2, <1>3, <1>5, <1>6, <1>8, <1>9

(* wakeDriver() at the end of a send or of kick(): `late` as the send saw it. *)
LEMMA WakeKeeps ==
  ASSUME WakeInv, stack # <<>>, Head(stack) # Driver, NEW late \in BOOLEAN,
         WakeDriver(late, Tail(stack)), UNCHANGED inboxVars,
         Serves(Head(stack)) => phase # "running" \/ late
  PROVE  WakeInv'
<1> USE DEF WakeInv
<1>1. CASE StartsDriver /\ StartDriver(Tail(stack))
  <2>1. phase # "running" /\ pc = "none"
    BY <1>1 DEF StartsDriver, StackInv, TypeOK
  <2>2. Driver \notin ElementsOf(stack)
    BY <2>1 DEF StackInv, SyncPC, AppendPC
  <2>3. Tail(stack) \in Seq(Frame) /\ Alone(Tail(stack)) /\ Driver \notin ElementsOf(Tail(stack))
    BY <2>2, Popped
  <2> DEFINE rest == Tail(stack)
  <2>4. rest \in Seq(Frame) /\ Alone(rest) /\ Driver \notin ElementsOf(rest) /\ StartDriver(rest)
    BY <1>1, <2>3
  <2> HIDE DEF rest
  <2> QED BY <2>1, <2>4, StartKeeps
<1>2. CASE /\ ~StartsDriver
           /\ wakeRequested' = (wakeRequested \/ Latches(late))
           /\ stack' = Tail(stack)
           /\ UNCHANGED <<phase, abortReason, turnVars, pc, owed, disposing>>
  <2>1. phase \in {"maintenance", "running"} /\ wakeRequested \in BOOLEAN
    BY <1>2 DEF StartsDriver, TypeOK
  <2>2. Latches(late) \in BOOLEAN
    BY DEF Latches
  <2>3. wakeRequested' \in BOOLEAN /\ (wakeRequested => wakeRequested')
    BY <1>2, <2>1, <2>2
  <2>4. Serves(Head(stack)) => wakeRequested' \/ disposing
    BY <1>2, <2>1 DEF Latches, LatchInv
  <2> QED BY <1>2, <2>1, <2>3, <2>4, PopKeeps
<1> QED BY <1>1, <1>2 DEF WakeDriver

(* The second half of send(): it wakes the driver or latches. *)
LEMMA SendWakeKeeps == ASSUME WakeInv, SendWake PROVE WakeInv'
<1>1. stack # <<>> /\ Head(stack).k = "wake" /\ Head(stack) \in Frame
  BY Popped DEF WakeInv, SendWake, Top
<1>2. Head(stack) # Driver /\ Head(stack).late \in BOOLEAN
  BY <1>1 DEF Frame, Driver
<1>3. Serves(Head(stack)) => phase # "running" \/ Head(stack).late
  BY <1>1 DEF Serves
<1> DEFINE l == Head(stack).late
<1>4. l \in BOOLEAN /\ WakeDriver(l, Tail(stack)) /\ (Serves(Head(stack)) => phase # "running" \/ l)
  BY <1>2, <1>3 DEF SendWake
<1> HIDE DEF l
<1> QED BY <1>1, <1>2, <1>4, WakeKeeps DEF SendWake

(* The second half of kick()'s finally: it replays the latch. *)
LEMMA SettleKeeps == ASSUME WakeInv, Settle PROVE WakeInv'
<1>1. stack # <<>> /\ Head(stack).k = "settle" /\ Head(stack) \in Frame
  BY Popped DEF WakeInv, Settle, Top
<1>2. Head(stack) # Driver
  BY <1>1 DEF Driver
<1>3. Serves(Head(stack)) => phase # "running" /\ Head(stack).replay
  BY <1>1 DEF Serves
<1>4. CASE Replays /\ WakeDriver(FALSE, Tail(stack))
  BY <1>1, <1>2, <1>3, <1>4, WakeKeeps DEF Settle
<1>5. CASE ~Replays /\ stack' = Tail(stack) /\ UNCHANGED <<phaseVars, turnVars, pc, owed, disposing>>
  <2>1. Serves(Head(stack)) => Pending = {}
    BY <1>3, <1>5, NothingPending DEF Replays
  <2>2. wakeRequested' \in BOOLEAN /\ (wakeRequested => wakeRequested') /\ (phase = "idle" => ~wakeRequested')
    BY <1>5 DEF WakeInv, TypeOK, LatchInv, phaseVars
  <2>3. UNCHANGED <<phase, abortReason, turnVars, pc, owed, disposing>> /\ UNCHANGED inboxVars
    BY <1>5 DEF Settle, phaseVars
  <2> QED BY <1>1, <1>2, <1>5, <2>1, <2>2, <2>3, PopKeeps
<1> QED BY <1>4, <1>5 DEF Settle

(* Taking input out of the inbox: a cancel also voids every debt.  Frames   *)
(* that would serve something stay on the stack.                            *)
LEMMA TakesKeep ==
  ASSUME WakeInv, nextStep' \in Seq(Messages), nextTurn' \in Seq(Messages), Pending' \subseteq Pending,
         revoked' \subseteq revoked \cup Pending,
         stack' \in Seq(Frame), Alone(stack'),
         Driver \in ElementsOf(stack') <=> Driver \in ElementsOf(stack),
         UNCHANGED <<turnVars, pc, sent, waking>>,
         \/ /\ UNCHANGED <<phaseVars, owed, parked, disposing>>
            /\ \A f \in ElementsOf(stack) : Serves(f) => f \in ElementsOf(stack')
         \/ \E cause \in Causes : DropLatchAndAbort(cause)
  PROVE  WakeInv'
<1> USE DEF WakeInv
<1>1. StackInv'
  BY DEF StackInv, phaseVars, DropLatchAndAbort, Abort
<1>4. Pending \subseteq Messages /\ revoked' \subseteq Messages
  BY BoundAssumption DEF SentInv, TypeOK, Messages
<1>2. CASE /\ UNCHANGED <<phaseVars, owed, parked, disposing>>
           /\ \A f \in ElementsOf(stack) : Serves(f) => f \in ElementsOf(stack')
  <2>1. TypeOK'
    BY <1>2, <1>4 DEF TypeOK, phaseVars, turnVars
  <2>2. SentInv' /\ LatchInv'
    BY <1>2 DEF SentInv, LatchInv, phaseVars
  <2>3. Served => Served'
    BY <1>2 DEF Served, Serves, phaseVars
  <2>4. OwedInv'
    BY <1>2, <2>3 DEF OwedInv
  <2>5. ParkInv'
    BY <1>2, <2>3 DEF ParkInv, BeyondClaims, phaseVars, turnVars
  <2> QED BY <1>1, <2>1, <2>2, <2>4, <2>5
<1>3. ASSUME NEW cause \in Causes, DropLatchAndAbort(cause) PROVE WakeInv'
  <2>1. /\ wakeRequested' = FALSE /\ owed' = {} /\ parked' = parked \cup Pending
        /\ abortReason' \in {abortReason, cause} /\ disposing' \in BOOLEAN /\ phase' = phase
        /\ abortReason' = "disposed" => disposing'
    BY <1>3 DEF DropLatchAndAbort, Abort, TypeOK, LatchInv
  <2>3. TypeOK'
    BY <1>4, <2>1 DEF TypeOK, turnVars
  <2>4. SentInv' /\ LatchInv' /\ OwedInv'
    BY <2>1 DEF SentInv, LatchInv, OwedInv
  <2>5. ParkInv'
    BY <2>1 DEF ParkInv
  <2> QED BY <1>1, <2>3, <2>4, <2>5
<1> QED BY <1>2, <1>3

(* An emptied list holds no message. *)
LEMMA NoneLeft == <<>> \in Seq(Messages) /\ ElementsOf(<<>>) = {}
  BY ElementsOfNothing

(* A pending message is removed. *)
LEMMA RemoveKeeps == ASSUME WakeInv, NEW m \in Messages, Remove(m) PROVE WakeInv'
<1> USE DEF WakeInv
<1>1. nextStep \in Seq(Messages) /\ nextTurn \in Seq(Messages) /\ stack \in Seq(Frame)
  BY DEF TypeOK
<1>2. /\ nextStep' \in Seq(Messages) /\ nextTurn' \in Seq(Messages)
      /\ ElementsOf(nextStep') \subseteq ElementsOf(nextStep)
      /\ ElementsOf(nextTurn') \subseteq ElementsOf(nextTurn)
  <2>1. CASE \E i \in DOMAIN nextTurn : /\ nextTurn' = Lists!RemoveAt(nextTurn, i)
                                        /\ UNCHANGED nextStep
    BY <1>1, <2>1, ElementsOfRemoveAt
  <2>2. CASE \E i \in DOMAIN nextStep : /\ nextStep' = Lists!RemoveAt(nextStep, i)
                                        /\ UNCHANGED nextTurn
    BY <1>1, <2>2, ElementsOfRemoveAt
  <2> QED BY <2>1, <2>2 DEF Remove
<1>3. Pending' \subseteq Pending /\ revoked' \subseteq revoked
  BY <1>2 DEF Pending, Remove
<1>4. stack' = stack /\ UNCHANGED <<phaseVars, turnVars, pc, sent, waking, parked, owed, disposing>>
  BY DEF Remove
<1>5. stack' \in Seq(Frame) /\ Alone(stack')
  BY <1>1, <1>4 DEF StackInv
<1> QED BY <1>2, <1>3, <1>4, <1>5, TakesKeep

(* clear() of the turn queue, for a cancel that runs above `rest`. *)
LEMMA ClearKeeps ==
  ASSUME WakeInv, NEW cause \in Causes, NEW rest \in Seq(Frame), Alone(rest), ClearTurn(cause, rest),
         Driver \in ElementsOf(rest) <=> Driver \in ElementsOf(stack),
         \A f \in ElementsOf(stack) : Serves(f) => f \in ElementsOf(rest),
         UNCHANGED <<turnVars, pc, nextStep, sent, waking>>
  PROVE  WakeInv'
<1> USE DEF WakeInv
<1>1. nextStep \in Seq(Messages) /\ nextTurn \in Seq(Messages)
  BY DEF TypeOK
<1>2. /\ nextStep' \in Seq(Messages) /\ nextTurn' \in Seq(Messages)
      /\ Pending' \subseteq Pending /\ revoked' \subseteq revoked
  BY <1>1, NoneLeft DEF ClearTurn, Pending
<1>3. CASE /\ stack' = Push([k |-> "abort", cause |-> cause], rest)
           /\ UNCHANGED <<phaseVars, owed, parked, disposing>>
  <2> DEFINE f == [k |-> "abort", cause |-> cause]
  <2>1. f \in Frame /\ f # Driver
    BY DEF Frame, Driver
  <2>2. stack' = Push(f, rest)
    BY <1>3
  <2> HIDE DEF f
  <2>3. /\ stack' \in Seq(Frame) /\ Alone(stack')
        /\ ElementsOf(stack') = {f} \cup ElementsOf(rest)
    BY <2>1, <2>2, PushIsSeq, ElementsOfPush, AlonePush
  <2>4. /\ Driver \in ElementsOf(stack') <=> Driver \in ElementsOf(stack)
        /\ \A g \in ElementsOf(stack) : Serves(g) => g \in ElementsOf(stack')
    BY <2>1, <2>3
  <2> QED BY <1>2, <1>3, <2>3, <2>4, TakesKeep
<1>4. CASE stack' = rest /\ DropLatchAndAbort(cause)
  <2>1. stack' \in Seq(Frame) /\ Alone(stack') /\ (Driver \in ElementsOf(stack') <=> Driver \in ElementsOf(stack))
    BY <1>4
  <2> QED BY <1>2, <1>4, <2>1, TakesKeep
<1> QED BY <1>3, <1>4 DEF ClearTurn

(* cancel() is called. *)
LEMMA CancelKeeps == ASSUME WakeInv, NEW cause \in Causes, Cancel(cause) PROVE WakeInv'
<1> USE DEF WakeInv
<1>1. stack \in Seq(Frame) /\ Alone(stack) /\ nextTurn \in Seq(Messages)
  BY DEF TypeOK, StackInv
<1>2. CASE ClearTurn(cause, stack) /\ UNCHANGED nextStep
  <2>1. UNCHANGED <<turnVars, pc, nextStep, sent, waking>>
    BY <1>2 DEF Cancel
  <2> QED BY <1>1, <1>2, <2>1, ClearKeeps
<1>3. CASE /\ nextStep' = <<>>
           /\ revoked' = (revoked \cup Pending) \ ElementsOf(nextStep)
           /\ stack' = Push([k |-> "clearTurn", cause |-> cause], stack)
           /\ UNCHANGED <<phaseVars, nextTurn, owed, parked, disposing>>
  <2> DEFINE f == [k |-> "clearTurn", cause |-> cause]
  <2>1. f \in Frame /\ f # Driver
    BY DEF Frame, Driver
  <2>2. stack' = Push(f, stack)
    BY <1>3
  <2> HIDE DEF f
  <2>3. /\ stack' \in Seq(Frame) /\ Alone(stack')
        /\ ElementsOf(stack') = {f} \cup ElementsOf(stack)
    BY <1>1, <2>1, <2>2, PushIsSeq, ElementsOfPush, AlonePush
  <2>4. /\ nextStep' \in Seq(Messages) /\ nextTurn' \in Seq(Messages)
        /\ Pending' \subseteq Pending /\ revoked' \subseteq revoked \cup Pending
    BY <1>1, <1>3, NoneLeft DEF Pending
  <2>5. /\ Driver \in ElementsOf(stack') <=> Driver \in ElementsOf(stack)
        /\ \A g \in ElementsOf(stack) : Serves(g) => g \in ElementsOf(stack')
    BY <2>1, <2>3
  <2>6. UNCHANGED <<turnVars, pc, sent, waking>> /\ UNCHANGED <<phaseVars, owed, parked, disposing>>
    BY <1>3 DEF Cancel
  <2> QED BY <2>3, <2>4, <2>5, <2>6, TakesKeep
<1> QED BY <1>2, <1>3 DEF Cancel

(* The innermost frame is that of a cancel, which serves nothing. *)
LEMMA CancelPopped ==
  ASSUME WakeInv, Top("clearTurn") \/ Top("abort")
  PROVE  /\ Head(stack).cause \in Causes
         /\ Tail(stack) \in Seq(Frame) /\ Alone(Tail(stack))
         /\ Driver \in ElementsOf(Tail(stack)) <=> Driver \in ElementsOf(stack)
         /\ \A f \in ElementsOf(stack) : Serves(f) => f \in ElementsOf(Tail(stack))
<1>1. stack # <<>> /\ Head(stack).k \in {"clearTurn", "abort"} /\ Head(stack) \in Frame
  BY Popped DEF WakeInv, Top
<1>2. Head(stack).cause \in Causes /\ Head(stack) # Driver
  BY <1>1 DEF Frame, Driver
<1>3. ~Serves(Head(stack))
  BY <1>1 DEF Serves
<1> QED BY <1>1, <1>2, <1>3, Popped DEF WakeInv

(* cancel() goes on after a notification. *)
LEMMA ResumedCancelKeeps == ASSUME WakeInv, CancelClearTurn \/ CancelAbort PROVE WakeInv'
<1>1. /\ Head(stack).cause \in Causes
      /\ Tail(stack) \in Seq(Frame) /\ Alone(Tail(stack))
      /\ Driver \in ElementsOf(Tail(stack)) <=> Driver \in ElementsOf(stack)
      /\ \A f \in ElementsOf(stack) : Serves(f) => f \in ElementsOf(Tail(stack))
  BY CancelPopped DEF CancelClearTurn, CancelAbort
<1> DEFINE c == Head(stack).cause
           rest == Tail(stack)
<1>2. CASE CancelClearTurn
  <2>1. ClearTurn(c, rest) /\ UNCHANGED <<turnVars, pc, nextStep, sent, waking>>
    BY <1>2 DEF CancelClearTurn
  <2> HIDE DEF c, rest
  <2>2. /\ c \in Causes /\ rest \in Seq(Frame) /\ Alone(rest)
        /\ Driver \in ElementsOf(rest) <=> Driver \in ElementsOf(stack)
        /\ \A f \in ElementsOf(stack) : Serves(f) => f \in ElementsOf(rest)
    BY <1>1 DEF c, rest
  <2> QED BY <2>1, <2>2, ClearKeeps
<1>3. CASE CancelAbort
  <2>1. /\ DropLatchAndAbort(c) /\ stack' = rest
        /\ UNCHANGED <<turnVars, pc, sent, waking>> /\ UNCHANGED <<nextStep, nextTurn, revoked>>
    BY <1>3 DEF CancelAbort
  <2>2. c \in Causes /\ stack' \in Seq(Frame) /\ Alone(stack')
        /\ (Driver \in ElementsOf(stack') <=> Driver \in ElementsOf(stack))
    BY <1>1, <2>1
  <2> HIDE DEF c, rest
  <2>3. nextStep' \in Seq(Messages) /\ nextTurn' \in Seq(Messages) /\ Pending' \subseteq Pending
    BY <2>1 DEF WakeInv, TypeOK, Pending
  <2> QED BY <2>1, <2>2, <2>3, TakesKeep
<1> QED BY <1>2, <1>3

(* A send pushes the wake that will serve it where no driver would; the one *)
(* that reaches a driver beyond its last check is the one that parks.       *)
LEMMA SendKeeps ==
  ASSUME WakeInv, NEW m \in Messages, NEW tgt, NEW wakeup \in BOOLEAN, Send(m, tgt, wakeup)
  PROVE  WakeInv'
<1> USE DEF WakeInv
<1> DEFINE late == wakeup /\ LateWake
           f == [k |-> "wake", late |-> late]
<1>1. nextStep \in Seq(Messages) /\ nextTurn \in Seq(Messages) /\ stack \in Seq(Frame)
  BY DEF TypeOK
<1>2. late \in BOOLEAN /\ f \in Frame /\ f # Driver /\ (wakeup /\ late => Serves(f))
  BY DEF LateWake, Frame, Driver, Serves
<1>3. wakeup /\ phase # "running" => Serves(f)
  BY DEF Serves
<1>4. /\ m = sent + 1 /\ sent' = m
      /\ waking' = IF wakeup THEN waking \cup {m} ELSE waking
      /\ UNCHANGED <<phaseVars, turnVars, pc, revoked, disposing>>
      /\ Insert(m, IF late THEN "next-turn" ELSE tgt)
      /\ stack' = IF wakeup THEN Push(f, stack) ELSE stack
      /\ owed' = IF wakeup /\ ~disposing /\ (late \/ phase = "maintenance") THEN owed \cup {m} ELSE owed
      /\ parked' = IF wakeup /\ ~late /\ pc = "exiting" THEN parked \cup {m} ELSE parked
  BY DEF Send
<1> HIDE DEF late, f
<1>5. /\ nextStep' \in Seq(Messages) /\ nextTurn' \in Seq(Messages)
      /\ Pending' = Pending \cup {m}
  <2>1. \/ nextTurn' = Append(nextTurn, m) /\ UNCHANGED nextStep
        \/ nextStep' = Append(nextStep, m) /\ UNCHANGED nextTurn
    BY <1>4 DEF Insert
  <2>2. ASSUME NEW s \in Seq(Messages)
        PROVE  Append(s, m) \in Seq(Messages) /\ ElementsOf(Append(s, m)) = ElementsOf(s) \cup {m}
    BY ElementsOfAppend
  <2>3. CASE nextTurn' = Append(nextTurn, m) /\ UNCHANGED nextStep
    BY <1>1, <2>2, <2>3 DEF Pending
  <2>4. CASE nextStep' = Append(nextStep, m) /\ UNCHANGED nextTurn
    BY <1>1, <2>2, <2>4 DEF Pending
  <2> QED BY <2>1, <2>3, <2>4
<1>6. /\ stack' \in Seq(Frame) /\ Alone(stack')
      /\ ElementsOf(stack') = (IF wakeup THEN {f} ELSE {}) \cup ElementsOf(stack)
  <2>1. CASE wakeup
    <3>1. stack' = Push(f, stack) /\ Alone(stack)
      BY <1>4, <2>1 DEF StackInv
    <3>2. /\ Push(f, stack) \in Seq(Frame) /\ Alone(Push(f, stack))
          /\ ElementsOf(Push(f, stack)) = {f} \cup ElementsOf(stack)
      BY <1>1, <1>2, <3>1, PushIsSeq, ElementsOfPush, AlonePush
    <3> QED BY <2>1, <3>1, <3>2
  <2>2. CASE ~wakeup
    BY <1>1, <1>4, <2>2 DEF StackInv
  <2> QED BY <2>1, <2>2
<1>7. TypeOK'
  <2>1. sent' \in 0..NMessages
    BY <1>4, BoundAssumption DEF Messages
  <2>2. waking' \subseteq Messages /\ parked' \subseteq Messages /\ owed' \subseteq Messages
    BY <1>4 DEF TypeOK
  <2> QED BY <1>4, <1>5, <1>6, <2>1, <2>2 DEF TypeOK, phaseVars, turnVars
<1>8. StackInv'
  BY <1>2, <1>4, <1>6 DEF StackInv, phaseVars
<1>9. SentInv' /\ m \notin Pending \cup waking \cup owed
  <2>1. sent \in Nat /\ m \in 1..sent' /\ 1..sent \subseteq 1..sent' /\ m \notin 1..sent
    BY <1>4, BoundAssumption DEF TypeOK
  <2> QED BY <1>4, <1>5, <2>1 DEF SentInv
<1>10. LatchInv'
  BY <1>4 DEF LatchInv, phaseVars
<1>11. Served => Served'
  BY <1>4, <1>6 DEF Served, Serves, phaseVars
<1>12. wakeup /\ (late \/ phase # "running") => Served'
  BY <1>2, <1>3, <1>4, <1>6 DEF Served, Serves, phaseVars
<1>13. OwedInv'
  <2>1. CASE m \in owed'
    BY <1>4, <1>9, <1>12, <2>1 DEF OwedInv
  <2>2. CASE m \notin owed'
    BY <1>4, <1>5, <1>11, <2>2 DEF OwedInv
  <2> QED BY <2>1, <2>2
<1>14. ParkInv'
  <2> SUFFICES ASSUME flow' = "go", BeyondClaims', ~(waking' \cap Pending' \subseteq parked'), ~Served'
               PROVE  phase' # "idle" /\ disposing'
    BY DEF ParkInv
  <2>1. flow = "go" /\ BeyondClaims /\ phase' = phase /\ disposing' = disposing /\ pc' = pc
    BY <1>4 DEF BeyondClaims, phaseVars, turnVars
  <2>2. ~wakeup \/ m \in parked'
    BY <1>4, <1>12, <2>1 DEF BeyondClaims
  <2>3. ~(waking \cap Pending \subseteq parked)
    BY <1>4, <1>5, <1>9, <2>2
  <2> QED BY <1>11, <2>1, <2>3 DEF ParkInv
<1> QED BY <1>7, <1>8, <1>9, <1>10, <1>13, <1>14

(* A cancel that keeps the inbox, and the start of a maintenance task. *)
LEMMA RestKeeps ==
  ASSUME WakeInv, CancelKeepInbox("user") \/ RunMaintenance
  PROVE  WakeInv'
<1> USE DEF WakeInv
<1>1. /\ UNCHANGED <<turnVars, pc, inboxVars, stack, owed>>
      /\ abortReason' \in {"none", "user", abortReason}
      /\ wakeRequested' \in BOOLEAN /\ (wakeRequested => wakeRequested')
      /\ disposing' = disposing \/ (disposing' = FALSE /\ abortReason' = "none" /\ phase = "idle")
      /\ phase' = phase \/ (phase = "idle" /\ phase' = "maintenance")
      /\ phase' = "idle" => wakeRequested' = wakeRequested
  <2>1. CASE CancelKeepInbox("user")
    <3>1. disposing' = disposing
      BY <2>1 DEF CancelKeepInbox, Abort, TypeOK
    <3>2. abortReason' \in {"user", abortReason} /\ phase' = phase
      BY <2>1 DEF CancelKeepInbox, Abort
    <3>3. wakeRequested' = wakeRequested /\ UNCHANGED <<turnVars, pc, inboxVars, stack, owed>>
      BY <2>1 DEF CancelKeepInbox
    <3>4. wakeRequested' \in BOOLEAN /\ (wakeRequested => wakeRequested')
      BY <3>3 DEF TypeOK
    <3> QED BY <3>1, <3>2, <3>3, <3>4
  <2>2. CASE RunMaintenance
    BY <2>2 DEF RunMaintenance, LatchInv
  <2> QED BY <2>1, <2>2
<1>2. TypeOK'
  <2>1. /\ phase' \in {"idle", "maintenance", "running"} /\ wakeRequested' \in BOOLEAN
        /\ abortReason' \in {"none"} \cup Causes /\ disposing' \in BOOLEAN
    BY <1>1 DEF TypeOK, Causes
  <2>2. /\ UNCHANGED <<turn, step, pc, target, turnEnds, flow, reply, stack, owed>>
        /\ UNCHANGED <<nextStep, nextTurn, sent, waking, parked, revoked>>
    BY <1>1 DEF turnVars, inboxVars
  <2> QED BY <2>1, <2>2 DEF TypeOK
<1>3. Pending' = Pending /\ UNCHANGED <<waking, parked, owed, sent, flow, pc>>
  BY <1>1 DEF Pending, turnVars, inboxVars
<1>4. StackInv'
  BY <1>1 DEF StackInv
<1>5. SentInv' /\ LatchInv'
  BY <1>1, <1>3 DEF SentInv, LatchInv
<1>6. Served => Served'
  BY <1>1 DEF Served, Serves
<1>7. OwedInv' /\ ParkInv'
  BY <1>1, <1>3, <1>6 DEF OwedInv, ParkInv, BeyondClaims, LatchInv
<1> QED BY <1>2, <1>4, <1>5, <1>7

(* A maintenance task settles. *)
LEMMA EndMaintenanceKeeps == ASSUME WakeInv, EndMaintenance PROVE WakeInv'
<1> USE DEF WakeInv
<1>1. <<>> \in Seq(Frame) /\ Alone(<<>>) /\ Driver \notin ElementsOf(<<>>)
  BY DEF Alone, ElementsOf
<1>2. CASE StartDriver(<<>>) /\ UNCHANGED parked
  <2>1. UNCHANGED inboxVars /\ phase # "running"
    BY <1>2 DEF EndMaintenance, inboxVars
  <2> QED BY <1>1, <1>2, <2>1, StartKeeps
<1>3. CASE /\ ~(wakeRequested /\ HasPending)
           /\ phase' = "idle" /\ abortReason' = "none" /\ wakeRequested' = FALSE
           /\ parked' = parked \cup LeftByDisposal
           /\ UNCHANGED <<turnVars, pc, stack, owed, disposing>>
  <2>1. stack = <<>> /\ phase = "maintenance" /\ UNCHANGED <<nextStep, nextTurn, sent, waking, revoked>>
    BY DEF EndMaintenance
  <2>2. Pending' = Pending /\ Pending \subseteq Messages
    BY <2>1, BoundAssumption DEF Pending, SentInv, TypeOK, Messages
  <2>3. Served => Pending = {}
    BY <1>3, <2>1, NothingPending, ElementsOfNothing DEF Served
  <2>4. TypeOK'
    BY <1>3, <2>1, <2>2 DEF TypeOK, turnVars, LeftByDisposal
  <2>5. StackInv'
    BY <1>3, <2>1 DEF StackInv
  <2>6. SentInv' /\ LatchInv'
    BY <1>3, <2>1, <2>2 DEF SentInv, LatchInv
  <2>7. OwedInv'
    BY <1>3, <2>2, <2>3 DEF OwedInv
  <2>8. ParkInv'
    BY <1>3, <2>1, <2>2, <2>3 DEF ParkInv, BeyondClaims, LeftByDisposal, turnVars
  <2> QED BY <2>4, <2>5, <2>6, <2>7, <2>8
<1> QED BY <1>2, <1>3 DEF EndMaintenance

(* The latch becomes the frame that replays it. *)
LEMMA ConvergeKeeps == ASSUME WakeInv, Converge PROVE WakeInv'
<1> USE DEF WakeInv
<1> DEFINE f == [k |-> "settle", replay |-> wakeRequested]
<1>1. f \in Frame /\ f # Driver
  BY DEF TypeOK, Frame, Driver
<1>2. stack' = <<f>> /\ f.k = "settle" /\ f.replay = wakeRequested
  BY DEF Converge
<1> HIDE DEF f
<1>3. stack' \in Seq(Frame) /\ ElementsOf(stack') = {f} /\ Alone(stack')
  BY <1>1, <1>2 DEF ElementsOf, Alone
<1>4. /\ pc = "exiting" /\ stack = <<>> /\ phase = "running"
      /\ phase' = "idle" /\ abortReason' = "none" /\ wakeRequested' = FALSE /\ pc' = "none"
      /\ parked' = parked \cup LeftByDisposal
      /\ UNCHANGED <<turnVars, nextStep, nextTurn, sent, waking, revoked, owed, disposing>>
  BY DEF Converge, At, SyncPC, AppendPC, StackInv
<1>5. Pending' = Pending /\ Pending \subseteq Messages
  BY <1>4, BoundAssumption DEF Pending, SentInv, TypeOK, Messages
<1>6. Served => Served'
  BY <1>2, <1>3, <1>4, ElementsOfNothing DEF Served, Serves
<1>7. TypeOK'
  BY <1>3, <1>4, <1>5 DEF TypeOK, turnVars, LeftByDisposal
<1>8. StackInv'
  BY <1>1, <1>3, <1>4 DEF StackInv, SyncPC, AppendPC
<1>9. SentInv' /\ LatchInv' /\ OwedInv'
  BY <1>4, <1>5, <1>6 DEF SentInv, LatchInv, OwedInv
<1>10. ParkInv'
  BY <1>4, <1>5, <1>6 DEF ParkInv, BeyondClaims, LeftByDisposal, turnVars
<1> QED BY <1>3, <1>7, <1>8, <1>9, <1>10

-----------------------------------------------------------------------------
(* Theorems *)

(* The invariant holds at first. *)
LEMMA InitialWake == Init => WakeInv
<1> SUFFICES ASSUME Init PROVE WakeInv
  OBVIOUS
<1>1. /\ nextStep = <<>> /\ nextTurn \in {<<>>, <<1>>} /\ stack = <<>> /\ waking = {} /\ owed = {}
      /\ sent = Len(nextTurn) /\ pc = "none" /\ phase = "idle"
  BY DEF Init
<1>2. nextTurn \in Seq(Messages) /\ ElementsOf(nextTurn) \subseteq 1..sent /\ sent \in 0..NMessages
  <2>1. CASE nextTurn = <<>>
    BY <1>1, <2>1, NoneLeft, BoundAssumption
  <2>2. CASE nextTurn = <<1>>
    BY <1>1, <2>2, BoundAssumption DEF Messages, ElementsOf
  <2> QED BY <1>1, <2>1, <2>2
<1>3. TypeOK
  <2>1. stack \in Seq(Frame) /\ nextStep \in Seq(Messages) /\ 0 \in 0..MaxSteps
    BY <1>1, BoundAssumption
  <2> QED BY <1>1, <1>2, <2>1 DEF TypeOK, Init
<1>4. StackInv
  BY <1>1, ElementsOfNothing DEF StackInv, Alone, SyncPC, AppendPC
<1>5. SentInv
  BY <1>1, <1>2, ElementsOfNothing DEF SentInv, Pending
<1>6. LatchInv /\ OwedInv /\ ParkInv
  BY <1>1 DEF LatchInv, OwedInv, ParkInv, Init
<1> QED BY <1>3, <1>4, <1>5, <1>6 DEF WakeInv

(* Every step keeps it. *)
LEMMA WakeStep == WakeInv /\ [Next]_vars => WakeInv'
<1> SUFFICES ASSUME WakeInv, [Next]_vars PROVE WakeInv'
  OBVIOUS
<1>1. CASE Drive
  <2>1. CASE Converge
    BY <2>1, ConvergeKeeps
  <2>2. CASE Settle
    BY <2>2, SettleKeeps
  <2>3. CASE ~Converge /\ ~Settle
    BY <1>1, <2>3, DriverSteps, MovesKeep
  <2> QED BY <2>1, <2>2, <2>3
<1>2. CASE Resume
  BY <1>2, SendWakeKeeps, ResumedCancelKeeps DEF Resume
<1>3. CASE EndMaintenance
  BY <1>3, EndMaintenanceKeeps
<1>4. CASE Call
  <2>1. ASSUME NEW m \in Messages, Followup(m) \/ Steer(m) \/ Inject(m) PROVE WakeInv'
    BY <2>1, SendKeeps DEF Followup, Steer, Inject
  <2>2. ASSUME NEW m \in Messages, Remove(m) PROVE WakeInv'
    BY <2>2, RemoveKeeps
  <2>3. ASSUME NEW c \in Causes, Cancel(c) PROVE WakeInv'
    BY <2>3, CancelKeeps
  <2>4. CASE CancelKeepInbox("user") \/ RunMaintenance
    BY <2>4, RestKeeps
  <2> QED BY <1>4, <2>1, <2>2, <2>3, <2>4 DEF Call
<1>5. CASE UNCHANGED vars
  <2>1. /\ UNCHANGED <<phase, abortReason, wakeRequested, turn, step, pc, target, turnEnds, flow, reply>>
        /\ UNCHANGED <<nextStep, nextTurn, stack, sent, waking, parked, revoked, owed, disposing>>
    BY <1>5 DEF vars, phaseVars, turnVars, inboxVars
  <2>2. TypeOK' /\ StackInv' /\ LatchInv'
    BY <2>1 DEF WakeInv, TypeOK, StackInv, LatchInv
  <2>3. Pending' = Pending /\ (Served => Served')
    BY <2>1 DEF Pending, Served, Serves
  <2>4. SentInv' /\ OwedInv' /\ ParkInv'
    BY <2>1, <2>3 DEF WakeInv, SentInv, OwedInv, ParkInv, BeyondClaims
  <2> QED BY <2>2, <2>4 DEF WakeInv
<1> QED BY <1>1, <1>2, <1>3, <1>4, <1>5 DEF Next

(* The invariant that the wake properties of agent.ts rest on: at every     *)
(* point between two jobs and inside every nested call, a message that is   *)
(* owed a driver, or that no driver will look for again, has something that *)
(* will start one.                                                          *)
THEOREM WakesAreServed == Spec => []WakeInv
<1> QED BY InitialWake, WakeStep, PTL DEF Spec

(* Every variable of the model keeps its type, whatever is sent, cancelled  *)
(* or called from a listener.                                               *)
THEOREM Types == Spec => []TypeOK
<1>1. WakeInv => TypeOK
  BY DEF WakeInv
<1> QED BY <1>1, WakesAreServed, PTL

(* wakeDriver() never starts a second driver beside the one of kick().      *)
THEOREM OneDriverAtATime == Spec => []OneDriver
<1>1. WakeInv => OneDriver
  <2> SUFFICES ASSUME WakeInv PROVE OneDriver
    OBVIOUS
  <2> DEFINE D == {i \in DOMAIN stack : stack[i] = Driver}
  <2>1. CASE pc \in SyncPC
    <3>1. PICK i \in DOMAIN stack : stack[i] = Driver
      BY <2>1 DEF WakeInv, StackInv, ElementsOf
    <3>2. D = {i}
      BY <3>1 DEF WakeInv, StackInv, Alone
    <3>3. Cardinality(D) = 1
      BY <3>2, FS_Singleton
    <3> QED BY <2>1, <3>3 DEF OneDriver, WakeInv, StackInv
  <2>2. CASE pc \notin SyncPC
    <3>1. D = {}
      BY <2>2 DEF WakeInv, StackInv, ElementsOf
    <3>2. Cardinality(D) = 0
      BY <3>1, FS_EmptySet
    <3> QED BY <2>2, <3>2 DEF OneDriver, WakeInv, StackInv
  <2> QED BY <2>1, <2>2
<1> QED BY <1>1, WakesAreServed, PTL

(* At rest nothing is left to serve a wake: no latch, no suspended call.    *)
LEMMA NothingServesAtRest == ASSUME WakeInv, AtRest PROVE ~Served
  BY ElementsOfNothing DEF WakeInv, LatchInv, AtRest, Served

(* A wake that maintenance or a cancelled activity could not serve does not *)
(* get lost, for any number of messages and nested calls.                   *)
THEOREM LatchIsHonoured == Spec => []LatchHonoured
<1>1. WakeInv => LatchHonoured
  BY NothingServesAtRest DEF WakeInv, OwedInv, LatchHonoured
<1> QED BY <1>1, WakesAreServed, PTL

(* A turn that ends by itself leaves no waking message behind, except in    *)
(* the window that `parked` records or under disposal.                      *)
THEOREM NoWakeParksSilently == Spec => []NoSilentPark
<1>1. WakeInv => NoSilentPark
  BY NothingServesAtRest DEF WakeInv, ParkInv, BeyondClaims, NoSilentPark, AtRest
<1> QED BY <1>1, WakesAreServed, PTL

(* Nothing but turn() and step() moves the driver to another of their       *)
(* locations: a wake starts it, kick() ends it, every other call leaves it. *)
LEMMA OthersLeaveDriver ==
  ASSUME [Next]_vars, ~Drive \/ Converge \/ Settle
  PROVE  pc' \in {pc, "waking", "none"}
<1>1. ASSUME NEW late, NEW rest, WakeDriver(late, rest) PROVE pc' \in {pc, "waking"}
  BY <1>1 DEF WakeDriver, StartDriver
<1>2. CASE Converge \/ Settle
  BY <1>1, <1>2 DEF Converge, Settle
<1>3. CASE Resume
  BY <1>1, <1>3 DEF Resume, SendWake, CancelClearTurn, CancelAbort
<1>4. CASE EndMaintenance
  BY <1>4 DEF EndMaintenance, StartDriver
<1>5. CASE Call
  BY <1>5 DEF Call, Followup, Steer, Inject, Send, Remove, Cancel, CancelKeepInbox, RunMaintenance
<1>6. CASE UNCHANGED vars
  BY <1>6 DEF vars
<1> QED BY <1>2, <1>3, <1>4, <1>5, <1>6 DEF Next

(* How turn() reaches the end of a turn, and step() its model stream.       *)
LEMMA TurnEndings ==
  ASSUME Drive, ~Converge, ~Settle, pc # pc', pc' \in {"turnEnded", "streaming"}
  PROVE  /\ pc' = "turnEnded" /\ Aborted => turnEnds' = "aborted" \/ pc \in {"erroring", "decided"}
         /\ pc' = "streaming" => ~Aborted
<1> USE DEF At, Goto, SignalClear
<1>t. ASSUME Throw PROVE /\ pc' \in {"turnEnded", "erroring"} /\ flow' = "throw"
                         /\ pc' = "turnEnded" => turnEnds' = "aborted"
  BY <1>t DEF Throw, ThrownEnding
<1>p. ASSUME NEW tgt, ProposeStep(tgt)
      PROVE  pc' = "turnEnded" => turnEnds' = "aborted" /\ flow' = "throw"
  BY <1>p, <1>t DEF ProposeStep
<1>p2. ASSUME NEW tgt, ProposeStep(tgt) PROVE pc' # "streaming"
  BY <1>p2, <1>t DEF ProposeStep
<1>1. CASE TurnBegin \/ FirstStep \/ AwaitRejects \/ Assembled \/ PreStepDecided
  BY <1>1, <1>t, <1>p, <1>p2 DEF TurnBegin, FirstStep, AwaitRejects, Assembled, PreStepDecided
<1>2. CASE PreStepRejected \/ PreStepEmpty \/ EntryAborted \/ \E e \in BOOLEAN : EnterStep(e)
  BY <1>2, <1>t DEF PreStepRejected, PreStepEmpty, EntryAborted, EnterStep, EndTurn
<1>3. CASE StepBegin \/ StepAwaitRejects \/ RequestBuilt \/ HeaderReturns \/ RequestSent
  BY <1>3 DEF StepBegin, StepAwaitRejects, RequestBuilt, HeaderReturns, RequestSent, StepThrows
<1>4. CASE \/ StreamFails \/ RetryRequest
           \/ \E k \in {"text", "calls", "max-tokens"} : StreamFinishes(k)
  BY <1>4 DEF StreamFails, RetryRequest, StreamFinishes
<1>5. CASE ToolCallsRewritten \/ RewriteReturns \/ MessageLogged \/ StepSettled
           \/ \E c \in BOOLEAN : ToolsDone(c)
  BY <1>5 DEF ToolCallsRewritten, RewriteReturns, MessageLogged, StepReturns, StepSettled, ToolsDone
<1>6. CASE StepEnded
  BY <1>6, <1>t, <1>p, <1>p2 DEF StepEnded
<1>7. CASE TurnStopping
  BY <1>7, <1>t, <1>p, <1>p2 DEF TurnStopping, EndTurn
<1>8. CASE ErrorReported \/ TurnEnded
  BY <1>8 DEF ErrorReported, TurnEnded
<1> QED BY <1>1, <1>2, <1>3, <1>4, <1>5, <1>6, <1>7, <1>8 DEF Drive

(* A cancel that fires in any await of turn() or step() decides how the     *)
(* turn ends, and no model request leaves after it.                         *)
THEOREM CancelIsSeen == Spec => AbortIsSeen
<1>1. [Next]_vars =>
        [pc # "turnEnded" /\ pc' = "turnEnded" /\ Aborted
           => turnEnds' = "aborted" \/ pc \in {"erroring", "decided"}]_vars
  BY OthersLeaveDriver, TurnEndings
<1>2. [Next]_vars => [pc # "streaming" /\ pc' = "streaming" => ~Aborted]_vars
  BY OthersLeaveDriver, TurnEndings
<1> QED BY <1>1, <1>2, PTL DEF Spec, AbortIsSeen, AbortIsReported, NoRequestAfterAbort

-----------------------------------------------------------------------------
(* Cancelled input.  clear() publishes what it discards of one list before  *)
(* it discards the other, and cancel() fires the signal only afterwards, so *)
(* a driver may claim what is still to be discarded; the frame of the       *)
(* cancel is then still on the stack, and ends in an abort.                 *)

(* A cancel that has still to discard, or still to fire the signal. *)
Clearing(s) == \E f \in ElementsOf(s) : f.k = "clearTurn"
Firing(s) == \E f \in ElementsOf(s) : f.k = "abort"

RevokedInv ==
    /\ revoked \subseteq 1..sent
    /\ revoked \cap ElementsOf(nextStep) = {}
    /\ Clearing(stack) \/ revoked \cap Pending = {}
    /\ pc \in StepPC => revoked \subseteq Pending
    \* What a proposal has claimed of it never becomes a step.
    /\ pc \in {"assembling", "preStep", "decided"} =>
         revoked \subseteq Pending \/ Aborted \/ Clearing(stack) \/ Firing(stack)

(* At an await, and at rest, a cancel has returned. *)
LEMMA NothingRevoked ==
  ASSUME RevokedInv, stack = <<>>
  PROVE  revoked \cap Pending = {} /\ ~Clearing(stack) /\ ~Firing(stack)
  BY ElementsOfNothing DEF RevokedInv, Clearing, Firing

(* The driver takes input only to propose a step, enters a step only on a   *)
(* clear signal, and decides on a proposal without touching the inbox.      *)
LEMMA DriverProposes ==
  ASSUME Drive, ~Converge, ~Settle
  PROVE  /\ IF pc' = "assembling" THEN \E tgt : Claim(tgt)
                                  ELSE UNCHANGED <<nextStep, nextTurn, revoked>>
         /\ sent' = sent
         /\ pc' \in StepPC => \/ pc \in StepPC
                              \/ pc = "decided" /\ ~Aborted /\ stack = <<>>
         /\ pc' \in {"preStep", "decided"} =>
              pc \in {"assembling", "preStep"} /\ stack = <<>> /\ abortReason' = abortReason
<1> USE DEF At, Goto, SignalClear, StepPC, SyncPC, AppendPC
<1>t. ASSUME Throw PROVE pc' \in {"turnEnded", "erroring"}
  BY <1>t DEF Throw
<1>p. ASSUME NEW tgt, ProposeStep(tgt)
      PROVE  /\ pc' \in {"turnEnded", "erroring", "assembling"} /\ sent' = sent
             /\ pc' = "assembling" => Claim(tgt)
             /\ pc' # "assembling" => UNCHANGED <<nextStep, nextTurn, revoked>>
  <2>1. CASE Throw /\ UNCHANGED <<inboxVars, target>>
    BY <1>t, <2>1 DEF inboxVars
  <2>2. CASE Claim(tgt) /\ Goto("assembling")
    BY <2>2 DEF Claim
  <2> QED BY <1>p, <2>1, <2>2 DEF ProposeStep
<1>1. CASE TurnBegin \/ AwaitRejects
  BY <1>1, <1>t DEF TurnBegin, AwaitRejects, inboxVars
<1>2. CASE Assembled \/ PreStepDecided
  BY <1>2 DEF Assembled, PreStepDecided, phaseVars, inboxVars
<1>3. CASE PreStepRejected \/ PreStepEmpty \/ EntryAborted
  BY <1>3, <1>t DEF PreStepRejected, PreStepEmpty, EntryAborted, EndTurn, inboxVars
<1>4. CASE \E e \in BOOLEAN : EnterStep(e)
  BY <1>4 DEF EnterStep, inboxVars
<1>5. CASE StepBegin \/ StepAwaitRejects \/ RequestBuilt \/ HeaderReturns \/ RequestSent
  BY <1>5 DEF StepBegin, StepAwaitRejects, RequestBuilt, HeaderReturns, RequestSent, StepThrows,
              InStep, inboxVars
<1>6. CASE \/ StreamFails \/ RetryRequest
           \/ \E k \in {"text", "calls", "max-tokens"} : StreamFinishes(k)
  BY <1>6 DEF StreamFails, RetryRequest, StreamFinishes, InStep, inboxVars
<1>7. CASE ToolCallsRewritten \/ RewriteReturns \/ MessageLogged \/ StepSettled
           \/ \E c \in BOOLEAN : ToolsDone(c)
  BY <1>7 DEF ToolCallsRewritten, RewriteReturns, MessageLogged, StepReturns, StepSettled, ToolsDone,
              InStep, inboxVars
<1>8. CASE FirstStep
  BY <1>8, <1>p DEF FirstStep
<1>9. CASE StepEnded
  <2>1. CASE Throw /\ UNCHANGED <<inboxVars, target>>
    BY <1>9, <1>t, <2>1 DEF StepEnded, inboxVars
  <2>2. CASE Goto("stopping") /\ UNCHANGED <<inboxVars, target, turnEnds, flow>>
    BY <1>9, <2>2 DEF StepEnded, inboxVars
  <2>3. CASE ProposeStep("next-step")
    BY <1>p, <2>3
  <2> QED BY <1>9, <2>1, <2>2, <2>3 DEF StepEnded
<1>10. CASE TurnStopping
  <2>1. CASE EndTurn(turnEnds, "go") /\ UNCHANGED <<inboxVars, target>>
    BY <2>1 DEF EndTurn, inboxVars
  <2>2. CASE ProposeStep("next-step")
    BY <1>p, <2>2
  <2> QED BY <1>10, <2>1, <2>2 DEF TurnStopping
<1>11. CASE ErrorReported \/ TurnEnded
  BY <1>11 DEF ErrorReported, TurnEnded, inboxVars
<1> QED BY <1>1, <1>2, <1>3, <1>4, <1>5, <1>6, <1>7, <1>8, <1>9, <1>10, <1>11 DEF Drive

(* A move of the driver takes back what was revoked, but for what a frame   *)
(* below it has still to discard.                                           *)
LEMMA MovesRevoke ==
  ASSUME WakeInv, RevokedInv, Drive, ~Converge, ~Settle
  PROVE  RevokedInv'
<1> USE DEF RevokedInv
<1>1. /\ Clearing(stack') = Clearing(stack) /\ Firing(stack') = Firing(stack)
  <2>1. ElementsOf(stack') \ {Driver} = ElementsOf(stack) \ {Driver}
    BY DriverSteps, DriverFrame DEF WakeInv
  <2> QED BY <2>1 DEF Clearing, Firing, Driver
<1>2. CASE pc' = "assembling"
  <2>1. PICK tgt : Claim(tgt)
    BY <1>2, DriverProposes
  <2>2. /\ Pending' \subseteq Pending /\ revoked' = revoked \cap Pending
        /\ ElementsOf(nextStep') = {}
    BY <2>1, Claimed DEF WakeInv
  <2>3. sent' = sent /\ pc' \notin StepPC
    BY <1>2, DriverProposes DEF StepPC
  <2>4. Clearing(stack') \/ revoked' = {}
    BY <1>1, <2>2
  <2> QED BY <1>1, <2>2, <2>3, <2>4
<1>3. CASE pc' # "assembling"
  <2>1. UNCHANGED <<nextStep, nextTurn, revoked, sent>>
    BY <1>3, DriverProposes
  <2>2. Pending' = Pending
    BY <2>1 DEF Pending
  <2>3. pc' \in StepPC => revoked \subseteq Pending
    BY DriverProposes, NothingRevoked
  <2>4. pc' \in {"preStep", "decided"} =>
          revoked \subseteq Pending \/ Aborted' \/ Clearing(stack) \/ Firing(stack)
    BY DriverProposes DEF Aborted
  <2> QED BY <1>1, <1>3, <2>1, <2>2, <2>3, <2>4
<1> QED BY <1>2, <1>3

(* A step that leaves the inbox alone, and the driver where it is or new.   *)
LEMMA InboxKept ==
  ASSUME RevokedInv, UNCHANGED <<nextStep, nextTurn, revoked, sent>>,
         pc' \in {pc, "waking", "none"},
         pc' = pc /\ pc # "none" /\ Aborted => Aborted',
         Clearing(stack) => Clearing(stack'), Firing(stack) => Firing(stack')
  PROVE  RevokedInv'
  BY DEF RevokedInv, Pending, StepPC

(* A frame that is not of a cancel is popped, for a driver's or for none.   *)
LEMMA FramePopped ==
  ASSUME TypeOK, StackInv, stack # <<>>, Head(stack).k \notin {"clearTurn", "abort"},
         NEW late, WakeDriver(late, Tail(stack)) \/ stack' = Tail(stack)
  PROVE  (Clearing(stack) => Clearing(stack')) /\ (Firing(stack) => Firing(stack'))
<1> DEFINE rest == Tail(stack)
<1>1. rest \in Seq(Frame) /\ ElementsOf(stack) = {Head(stack)} \cup ElementsOf(rest) /\ Driver \in Frame
  BY Popped DEF Frame
<1> HIDE DEF rest
<1>2. stack' = rest \/ stack' = Push(Driver, rest)
  BY DEF WakeDriver, StartDriver, rest
<1>3. ElementsOf(rest) \subseteq ElementsOf(stack')
  BY <1>1, <1>2, ElementsOfPush
<1> QED BY <1>1, <1>3 DEF Clearing, Firing

(* A wake that is replayed, and the ends of kick() and runMaintenance().    *)
LEMMA WakesRevoke ==
  ASSUME WakeInv, RevokedInv, SendWake \/ Settle \/ Converge \/ EndMaintenance
  PROVE  RevokedInv'
<1> USE DEF WakeInv
<1>1. CASE SendWake \/ Settle
  <2>1. stack # <<>> /\ Head(stack).k \notin {"clearTurn", "abort"}
    BY <1>1 DEF SendWake, Settle, Top
  <2>2. UNCHANGED <<nextStep, nextTurn, revoked, sent>>
    BY <1>1 DEF SendWake, Settle, inboxVars
  <2>3. \/ \E late : WakeDriver(late, Tail(stack))
        \/ stack' = Tail(stack) /\ UNCHANGED <<phaseVars, pc>>
    BY <1>1 DEF SendWake, Settle
  <2>4. (Clearing(stack) => Clearing(stack')) /\ (Firing(stack) => Firing(stack'))
    BY <2>1, <2>3, FramePopped
  <2>5. pc' \in {pc, "waking"} /\ (pc' = pc /\ pc # "none" /\ Aborted => Aborted')
    <3>1. ASSUME NEW late, WakeDriver(late, Tail(stack))
          PROVE  pc' \in {pc, "waking"} /\ (pc' = pc /\ pc # "none" /\ Aborted => Aborted')
      BY <3>1 DEF WakeDriver, StartDriver, StartsDriver, StackInv, Aborted
    <3> QED BY <2>3, <3>1 DEF Aborted, phaseVars
  <2> QED BY <2>2, <2>4, <2>5, InboxKept
<1>2. CASE Converge \/ EndMaintenance
  <2>1. stack = <<>>
    BY <1>2 DEF Converge, EndMaintenance, At, SyncPC, AppendPC
  <2>2. UNCHANGED <<nextStep, nextTurn, revoked, sent>>
    BY <1>2 DEF Converge, EndMaintenance, inboxVars
  <2>3. pc' \in {pc, "waking", "none"} /\ (pc' = pc => pc = "none")
    BY <1>2 DEF Converge, EndMaintenance, StartDriver, StackInv, At, turnVars
  <2>4. ~Clearing(stack) /\ ~Firing(stack)
    BY <2>1, NothingRevoked
  <2> QED BY <2>2, <2>3, <2>4, InboxKept
<1> QED BY <1>1, <1>2

(* What is sent was not pending before. *)
LEMMA SendRevokes ==
  ASSUME WakeInv, RevokedInv, NEW m \in Messages, NEW tgt, NEW wakeup \in BOOLEAN, Send(m, tgt, wakeup)
  PROVE  RevokedInv'
<1> USE DEF WakeInv, RevokedInv
<1>1. nextStep \in Seq(Messages) /\ nextTurn \in Seq(Messages) /\ stack \in Seq(Frame)
  BY DEF TypeOK
<1>2. /\ m = sent + 1 /\ sent' = m /\ UNCHANGED <<phaseVars, pc, revoked>>
      /\ \/ nextTurn' = Append(nextTurn, m) /\ UNCHANGED nextStep
         \/ nextStep' = Append(nextStep, m) /\ UNCHANGED nextTurn
      /\ stack' = stack \/ \E late \in BOOLEAN : stack' = Push([k |-> "wake", late |-> late], stack)
  BY DEF Send, Insert, LateWake
<1>3. /\ ElementsOf(nextStep') \subseteq ElementsOf(nextStep) \cup {m}
      /\ Pending' = Pending \cup {m}
  <2>1. ASSUME NEW s \in Seq(Messages)
        PROVE  ElementsOf(Append(s, m)) = ElementsOf(s) \cup {m}
    BY ElementsOfAppend
  <2>2. CASE nextTurn' = Append(nextTurn, m) /\ UNCHANGED nextStep
    BY <1>1, <2>1, <2>2 DEF Pending
  <2>3. CASE nextStep' = Append(nextStep, m) /\ UNCHANGED nextTurn
    BY <1>1, <2>1, <2>3 DEF Pending
  <2> QED BY <1>2, <2>2, <2>3
<1>4. m \notin revoked /\ revoked \subseteq 1..sent'
  <2>1. sent \in Nat /\ m \notin 1..sent /\ 1..sent \subseteq 1..sent'
    BY <1>2, BoundAssumption DEF TypeOK
  <2> QED BY <2>1
<1>5. Clearing(stack') = Clearing(stack) /\ Firing(stack') = Firing(stack)
  <2>1. CASE stack' = stack
    BY <2>1
  <2>2. ASSUME NEW late \in BOOLEAN, stack' = Push([k |-> "wake", late |-> late], stack)
        PROVE  Clearing(stack') = Clearing(stack) /\ Firing(stack') = Firing(stack)
    <3> DEFINE f == [k |-> "wake", late |-> late]
    <3>1. f \in Frame /\ f.k = "wake" /\ stack' = Push(f, stack)
      BY <2>2 DEF Frame
    <3> HIDE DEF f
    <3>2. ElementsOf(stack') = {f} \cup ElementsOf(stack)
      BY <1>1, <3>1, ElementsOfPush
    <3> QED BY <3>1, <3>2 DEF Clearing, Firing
  <2> QED BY <1>2, <2>1, <2>2
<1>6. Aborted' = Aborted /\ pc' = pc /\ revoked' = revoked
  BY <1>2 DEF Aborted, phaseVars
<1> QED BY <1>3, <1>4, <1>5, <1>6

(* A message that its owner takes back. *)
LEMMA RemoveRevokes ==
  ASSUME WakeInv, RevokedInv, NEW m \in Messages, Remove(m)
  PROVE  RevokedInv'
<1> USE DEF WakeInv, RevokedInv
<1>1. nextStep \in Seq(Messages) /\ nextTurn \in Seq(Messages)
  BY DEF TypeOK
<1>2. /\ ElementsOf(nextStep') \subseteq ElementsOf(nextStep)
      /\ Pending' \subseteq Pending /\ Pending \ {m} \subseteq Pending'
  <2>1. ASSUME NEW i \in DOMAIN nextTurn, nextTurn[i] = m, nextTurn' = Lists!RemoveAt(nextTurn, i),
               UNCHANGED nextStep
        PROVE  /\ ElementsOf(nextStep') \subseteq ElementsOf(nextStep)
               /\ Pending' \subseteq Pending /\ Pending \ {m} \subseteq Pending'
    BY <1>1, <2>1, ElementsOfRemoveAt DEF Pending
  <2>2. ASSUME NEW i \in DOMAIN nextStep, nextStep[i] = m, nextStep' = Lists!RemoveAt(nextStep, i),
               UNCHANGED nextTurn
        PROVE  /\ ElementsOf(nextStep') \subseteq ElementsOf(nextStep)
               /\ Pending' \subseteq Pending /\ Pending \ {m} \subseteq Pending'
    BY <1>1, <2>2, ElementsOfRemoveAt DEF Pending
  <2> QED BY <2>1, <2>2 DEF Remove
<1>3. revoked' = revoked \ {m} /\ UNCHANGED <<phaseVars, pc, sent, stack>>
  BY DEF Remove
<1> QED BY <1>2, <1>3 DEF Aborted, phaseVars

(* clear() of the turn queue: what is left of it waits for the signal, or   *)
(* the signal has fired.                                                    *)
LEMMA ClearRevokes ==
  ASSUME WakeInv, RevokedInv, NEW cause \in Causes, NEW rest \in Seq(Frame), ClearTurn(cause, rest),
         UNCHANGED <<pc, nextStep, sent>>
  PROVE  RevokedInv'
<1> USE DEF WakeInv, RevokedInv
<1>1. CASE /\ nextTurn' = <<>>
           /\ revoked' = revoked \ ElementsOf(nextTurn)
           /\ stack' = Push([k |-> "abort", cause |-> cause], rest)
  <2> DEFINE f == [k |-> "abort", cause |-> cause]
  <2>1. f \in Frame /\ f.k = "abort" /\ stack' = Push(f, rest)
    BY <1>1 DEF Frame
  <2> HIDE DEF f
  <2>2. Firing(stack')
    BY <2>1, ElementsOfPush DEF Firing
  <2>3. Pending' = ElementsOf(nextStep)
    BY <1>1, ElementsOfNothing DEF Pending
  <2> QED BY <1>1, <2>2, <2>3 DEF Pending
<1>2. CASE nextTurn = <<>> /\ DropLatchAndAbort(cause) /\ UNCHANGED <<nextTurn, revoked>>
  <2>1. Pending = ElementsOf(nextStep) /\ Pending' = Pending
    BY <1>2, ElementsOfNothing DEF Pending
  <2>2. pc # "none" => Aborted'
    BY <1>2 DEF DropLatchAndAbort, Abort, Aborted, StackInv, Causes
  <2> QED BY <1>2, <2>1, <2>2
<1> QED BY <1>1, <1>2 DEF ClearTurn

(* cancel() is called, and goes on after its notifications. *)
LEMMA CancelRevokes ==
  ASSUME WakeInv, RevokedInv,
         (\E c \in Causes : Cancel(c)) \/ CancelClearTurn \/ CancelAbort
  PROVE  RevokedInv'
<1> USE DEF WakeInv, RevokedInv
<1>0. stack \in Seq(Frame)
  BY DEF TypeOK
<1>1. ASSUME NEW c \in Causes, Cancel(c) PROVE RevokedInv'
  <2>1. CASE ClearTurn(c, stack) /\ UNCHANGED nextStep
    BY <1>0, <1>1, <2>1, ClearRevokes DEF Cancel
  <2>2. CASE /\ nextStep' = <<>> /\ nextTurn' = nextTurn
             /\ revoked' = (revoked \cup Pending) \ ElementsOf(nextStep)
             /\ stack' = Push([k |-> "clearTurn", cause |-> c], stack)
    <3> DEFINE f == [k |-> "clearTurn", cause |-> c]
    <3>1. f \in Frame /\ f.k = "clearTurn" /\ stack' = Push(f, stack)
      BY <2>2 DEF Frame
    <3> HIDE DEF f
    <3>2. Clearing(stack')
      BY <1>0, <3>1, ElementsOfPush DEF Clearing
    <3>3. Pending' = ElementsOf(nextTurn) /\ ElementsOf(nextStep') = {}
      BY <2>2, ElementsOfNothing DEF Pending
    <3>4. Pending \subseteq 1..sent /\ pc' = pc /\ sent' = sent
      BY <1>1 DEF SentInv, Cancel
    <3> QED BY <2>2, <3>2, <3>3, <3>4 DEF Pending
  <2> QED BY <1>1, <2>1, <2>2 DEF Cancel
<1>2. CASE CancelClearTurn
  <2> DEFINE c == Head(stack).cause
             rest == Tail(stack)
  <2>1. c \in Causes /\ rest \in Seq(Frame)
    BY <1>2, CancelPopped DEF CancelClearTurn
  <2>2. ClearTurn(c, rest) /\ UNCHANGED <<pc, nextStep, sent>>
    BY <1>2 DEF CancelClearTurn
  <2> HIDE DEF c, rest
  <2> QED BY <2>1, <2>2, ClearRevokes
<1>3. CASE CancelAbort
  <2>1. /\ stack # <<>> /\ Head(stack).k = "abort" /\ Head(stack).cause \in Causes
        /\ ElementsOf(stack) = {Head(stack)} \cup ElementsOf(Tail(stack))
    BY <1>3, CancelPopped, Popped DEF CancelAbort, Top
  <2>2. Clearing(stack) => Clearing(stack')
    BY <1>3, <2>1 DEF CancelAbort, Clearing
  <2>3. UNCHANGED <<pc, nextStep, nextTurn, sent, revoked>>
    BY <1>3 DEF CancelAbort
  <2>4. pc # "none" => Aborted'
    BY <1>3, <2>1 DEF CancelAbort, DropLatchAndAbort, Abort, Aborted, StackInv, Causes
  <2> QED BY <2>2, <2>3, <2>4 DEF Pending
<1> QED BY <1>1, <1>2, <1>3

(* Every step keeps the invariant of cancelled input. *)
LEMMA RevokedStep == WakeInv /\ RevokedInv /\ [Next]_vars => RevokedInv'
<1> SUFFICES ASSUME WakeInv, RevokedInv, [Next]_vars PROVE RevokedInv'
  OBVIOUS
<1>1. CASE Drive
  BY <1>1, MovesRevoke, WakesRevoke
<1>2. CASE Resume
  BY <1>2, WakesRevoke, CancelRevokes DEF Resume
<1>3. CASE EndMaintenance
  BY <1>3, WakesRevoke
<1>4. CASE Call
  <2>1. ASSUME NEW m \in Messages, Followup(m) \/ Steer(m) \/ Inject(m) PROVE RevokedInv'
    BY <2>1, SendRevokes DEF Followup, Steer, Inject
  <2>2. ASSUME NEW m \in Messages, Remove(m) PROVE RevokedInv'
    BY <2>2, RemoveRevokes
  <2>3. CASE \E c \in Causes : Cancel(c)
    BY <2>3, CancelRevokes
  <2>4. CASE CancelKeepInbox("user") \/ RunMaintenance
    <3>1. UNCHANGED <<nextStep, nextTurn, revoked, sent, pc, stack>>
      BY <2>4 DEF CancelKeepInbox, RunMaintenance, inboxVars
    <3>2. pc # "none" /\ Aborted => Aborted'
      BY <2>4 DEF CancelKeepInbox, RunMaintenance, Abort, Aborted, WakeInv, StackInv
    <3> QED BY <3>1, <3>2, InboxKept
  <2> QED BY <1>4, <2>1, <2>2, <2>3, <2>4 DEF Call
<1>5. CASE UNCHANGED vars
  <2>1. UNCHANGED <<nextStep, nextTurn, revoked, sent, pc, stack, abortReason>>
    BY <1>5 DEF vars, phaseVars, inboxVars
  <2> QED BY <2>1, InboxKept DEF Aborted
<1> QED BY <1>1, <1>2, <1>3, <1>4, <1>5 DEF Next

(* cancel() takes back all it finds pending: none of it is pending once it  *)
(* has returned, and none of it becomes part of a step, whichever listeners *)
(* of its discards send input, start a driver or cancel again.              *)
THEOREM CancelledInputNeverRuns == Spec => []CancelTakesBack
<1>1. Init => RevokedInv
  BY ElementsOfNothing DEF Init, RevokedInv
<1>2. WakeInv /\ RevokedInv => CancelTakesBack
  BY NothingRevoked DEF CancelTakesBack, RevokedInv
<1> QED BY <1>1, <1>2, RevokedStep, WakesAreServed, PTL DEF Spec

=============================================================================
