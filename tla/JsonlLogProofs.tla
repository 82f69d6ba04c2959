--------------------------- MODULE JsonlLogProofs ---------------------------
(***************************************************************************)
(* Theorems about JsonlLog for any number of events, crashes and failing   *)
(* operations, on a file system where syncing a file commits its name.     *)
(***************************************************************************)
EXTENDS JsonlLog, SequenceTheorems, TLAPS

-----------------------------------------------------------------------------
(* The invariant *)

(* A frame of events that the session can have. *)
Stretch == {f \in Frame : f.from + f.n <= MaxEvents}

(* Where the k-th frame of s ends. *)
EndAt(s, k) == IF k = 0 THEN 0 ELSE s[k].from + s[k].n

(* Each frame continues the one before it, none overlaps an earlier one,    *)
(* and only the last may be torn.                                           *)
Chain(s) ==
    /\ \A i \in 1..Len(s) : s[i].from = EndAt(s, i - 1)
    /\ \A i, j \in 1..Len(s) : i < j => EndAt(s, i) <= s[j].from /\ s[i].whole

Intact(s) == s = <<>> \/ s[Len(s)].whole

(* What a power loss and the repair after it keep of the first k frames. *)
Kept(s, k) == IF k = 0 THEN 0 ELSE IF s[k].whole THEN EndAt(s, k) ELSE s[k].from

AppendStages == {"create", "link", "names", "write", "sync", "close", "rollback", "unsynced"}
RepairStages == {"truncate", "truncated", "write", "sync", "close", "rollback", "unsynced"}

(* The shape of an operation, and the bounds that keep its frame in range.  *)
OpInv ==
    /\ op \in [kind : {"none", "append", "repair"},
               at : {"none"} \cup AppendStages \cup RepairStages,
               n : 0..MaxEvents, before : Nat]
    /\ op.kind = "none" => op = NoOp
    /\ op.kind = "append" => op.at \in AppendStages /\ tracked /\ cursor + op.n <= events
    /\ op.kind = "repair" => op.at \in RepairStages /\ ~tracked
    /\ op.at \in {"sync", "rollback"} => synced <= op.before /\ op.before <= Len(file)
    /\ At("repair", "truncate") =>
          /\ IsTorn /\ Last(file).from = EndAt(file, Len(file) - 1)
          /\ Last(file).from + op.n <= MaxEvents
    /\ At("repair", "truncated") \/ At("repair", "write") => Stored + op.n <= MaxEvents

TypeInv ==
    /\ TypeOK /\ OpInv
    /\ file \in Seq(Stretch) /\ doubt \subseteq Stretch
    /\ cursor <= events

(* The file loads, a frame that may come back continues it, and what was    *)
(* acknowledged is in frames that nothing can take away.                    *)
FileInv ==
    /\ Chain(file)
    /\ named => linked
    /\ ~linked => file = <<>> /\ doubt = {}
    /\ doubt # {} => Intact(file) /\ \E f \in doubt : doubt = {f} /\ f.from = EndAt(file, Len(file))
    /\ acked <= Kept(file, synced)
    /\ ~named => acked = 0

(* Where each operation stands: a frame it has added is the last one, and   *)
(* what it goes back to is whole.                                           *)
StageInv ==
    /\ op.at \in {"write", "truncated", "unsynced", "sync", "close"} => linked /\ Intact(file)
    /\ op.at = "sync" => Len(file) = op.before + 1
    /\ op.at = "close" => synced = Len(file) /\ named
    /\ op.at = "rollback" =>
          /\ linked
          /\ Len(file) = op.before \/ Len(file) = op.before + 1
          /\ Len(file) = op.before => Intact(file)
    /\ op.kind = "repair" => linked

(* The coordinator and the file agree, and an append starts where the file  *)
(* ends.                                                                    *)
CursorInv ==
    /\ tracked /\ op.kind = "none" => materialized = linked /\ cursor = EndAt(file, Len(file)) /\ Intact(file)
    /\ op.kind = "append" =>
          /\ op.at \in {"create", "link"} => ~linked /\ ~materialized /\ cursor = 0
          /\ op.at = "names" =>
                linked /\ cursor = 0 /\ synced = 1 /\ doubt = {} /\ file = <<Whole(0, op.n)>>
          /\ op.at \in {"write", "unsynced"} => materialized /\ cursor = EndAt(file, Len(file))
          /\ op.at \in {"sync", "close"} =>
                /\ materialized /\ file # <<>>
                /\ Last(file).from = cursor /\ Last(file).n = op.n
          /\ op.at = "rollback" => materialized /\ cursor = EndAt(file, op.before)

LogInv == TypeInv /\ (~botched => FileInv /\ StageInv /\ CursorInv)

-----------------------------------------------------------------------------
(* Frames and sequences of frames *)

(* The types of the constants. *)
LEMMA Bounds == MaxEvents \in Nat /\ MaxCrashes \in Nat /\ MaxFaults \in Nat /\ FsyncCommitsNames \in BOOLEAN
  BY BoundAssumption, NamesAssumption

(* The fields of a frame of the session. *)
LEMMA FrameFields ==
  ASSUME NEW f \in Stretch
  PROVE  /\ f.from \in Nat /\ f.n \in Nat /\ f.whole \in BOOLEAN
         /\ f.from + f.n <= MaxEvents /\ f.from + f.n \in Nat
         /\ f.from \in 0..MaxEvents /\ f.n \in 0..MaxEvents
  BY Bounds DEF Stretch, Frame

(* A batch within the session is written as a whole frame of it. *)
LEMMA WholeFrame ==
  ASSUME NEW from \in Nat, NEW n \in Nat, from + n <= MaxEvents
  PROVE  /\ Whole(from, n) \in Stretch
         /\ Whole(from, n).from = from /\ Whole(from, n).n = n /\ Whole(from, n).whole
<1>1. from \in 0..MaxEvents /\ n \in 0..MaxEvents
  BY Bounds
<1> QED BY <1>1 DEF Whole, Stretch, Frame

(* A torn piece of a frame starts where the frame does. *)
LEMMA PieceFrame ==
  ASSUME NEW f \in Stretch, NEW g \in Pieces(f)
  PROVE  g \in Stretch /\ g.from = f.from /\ ~g.whole
<1>1. PICK k \in 0..f.n : g = [f EXCEPT !.n = k, !.whole = FALSE]
  BY DEF Pieces
<1>2. f.from \in Nat /\ f.n \in Nat /\ f.from + f.n <= MaxEvents /\ f.from \in 0..MaxEvents
  BY FrameFields
<1>3. f \in Frame
  BY DEF Stretch
<1>4. g = [from |-> f.from, n |-> k, whole |-> FALSE]
  BY <1>1, <1>3 DEF Frame
<1>5. k \in 0..MaxEvents /\ f.from + k <= MaxEvents
  BY <1>2, Bounds
<1> QED BY <1>2, <1>4, <1>5 DEF Stretch, Frame

(* No frame ends beyond the session, and no more is kept than there is. *)
LEMMA EndBounds ==
  ASSUME NEW s \in Seq(Stretch), NEW k \in 0..Len(s)
  PROVE  /\ EndAt(s, k) \in Nat /\ EndAt(s, k) <= MaxEvents
         /\ Kept(s, k) \in Nat /\ Kept(s, k) <= EndAt(s, k)
<1>1. CASE k = 0
  BY <1>1, Bounds DEF EndAt, Kept
<1>2. CASE k # 0
  <2>1. s[k] \in Stretch
    BY <1>2
  <2>2. /\ s[k].from \in Nat /\ s[k].n \in Nat /\ s[k].from + s[k].n <= MaxEvents
    BY <2>1, FrameFields
  <2> QED BY <1>2, <2>2 DEF EndAt, Kept
<1> QED BY <1>1, <1>2

(* One more frame. *)
LEMMA Extended ==
  ASSUME NEW s \in Seq(Stretch), NEW f \in Stretch
  PROVE  /\ Append(s, f) \in Seq(Stretch) /\ Len(Append(s, f)) = Len(s) + 1
         /\ Append(s, f) # <<>> /\ Last(Append(s, f)) = f
         /\ \A i \in 1..Len(s) : Append(s, f)[i] = s[i]
         /\ Append(s, f)[Len(s) + 1] = f
         /\ \A k \in 0..Len(s) : /\ EndAt(Append(s, f), k) = EndAt(s, k)
                                 /\ Kept(Append(s, f), k) = Kept(s, k)
         /\ EndAt(Append(s, f), Len(s) + 1) = f.from + f.n
         /\ Chain(s) /\ Intact(s) /\ f.from = EndAt(s, Len(s)) => Chain(Append(s, f))
<1> DEFINE t == Append(s, f)
<1>1. /\ t \in Seq(Stretch) /\ Len(t) = Len(s) + 1 /\ Len(s) \in Nat
      /\ t[Len(s) + 1] = f /\ \A i \in 1..Len(s) : t[i] = s[i]
  BY AppendProperties
<1> HIDE DEF t
<1>2. t # <<>> /\ Last(t) = f
  BY <1>1 DEF Last
<1>3. ASSUME NEW k \in 0..Len(s) PROVE EndAt(t, k) = EndAt(s, k) /\ Kept(t, k) = Kept(s, k)
  <2>1. k = 0 \/ t[k] = s[k]
    BY <1>1
  <2> QED BY <2>1 DEF EndAt, Kept
<1>4. EndAt(t, Len(s) + 1) = f.from + f.n
  BY <1>1 DEF EndAt
<1>5. ASSUME Chain(s), Intact(s), f.from = EndAt(s, Len(s)) PROVE Chain(t)
  <2>1. ASSUME NEW i \in 1..Len(t) PROVE t[i].from = EndAt(t, i - 1)
    <3>1. CASE i \in 1..Len(s)
      <4>1. i - 1 \in 0..Len(s)
        BY <1>1, <3>1
      <4> QED BY <1>1, <1>3, <1>5, <3>1, <4>1 DEF Chain
    <3>2. CASE i = Len(s) + 1
      <4>1. i - 1 = Len(s) /\ Len(s) \in 0..Len(s)
        BY <1>1, <3>2
      <4> QED BY <1>1, <1>3, <1>5, <3>2, <4>1
    <3> QED BY <1>1, <3>1, <3>2
  <2>2. ASSUME NEW i \in 1..Len(t), NEW j \in 1..Len(t), i < j
        PROVE  EndAt(t, i) <= t[j].from /\ t[i].whole
    <3>1. i \in 1..Len(s) /\ i \in 0..Len(s) /\ t[i] = s[i] /\ EndAt(t, i) = EndAt(s, i)
      <4>1. i \in 1..Len(s) /\ i \in 0..Len(s)
        BY <1>1, <2>2
      <4> QED BY <1>1, <1>3, <4>1
    <3>2. CASE j \in 1..Len(s)
      <4>1. t[j] = s[j]
        BY <1>1, <3>2
      <4> QED BY <1>5, <2>2, <3>1, <3>2, <4>1 DEF Chain
    <3>3. CASE j = Len(s) + 1
      <4>1. t[j].from = EndAt(s, Len(s))
        BY <1>1, <1>5, <3>3
      <4>2. CASE i = Len(s)
        <5>1. s # <<>> /\ s[Len(s)].whole
          BY <1>5, <3>1 DEF Intact
        <5>2. EndAt(s, i) \in Nat
          BY <3>1, EndBounds
        <5> QED BY <3>1, <4>1, <4>2, <5>1, <5>2
      <4>3. CASE i < Len(s)
        <5>1. Len(s) \in 1..Len(s) /\ Len(s) # 0 /\ Len(s) \in 0..Len(s)
          BY <1>1, <3>1
        <5>2. EndAt(s, i) <= s[Len(s)].from /\ s[i].whole
          BY <1>5, <3>1, <4>3, <5>1 DEF Chain
        <5>3. s[Len(s)].from \in Nat /\ s[Len(s)].n \in Nat
          BY <5>1, FrameFields
        <5>4. EndAt(s, Len(s)) = s[Len(s)].from + s[Len(s)].n
          BY <5>1 DEF EndAt
        <5>5. EndAt(s, i) \in Nat
          BY <3>1, EndBounds
        <5> QED BY <3>1, <4>1, <5>2, <5>3, <5>4, <5>5
      <4> QED BY <1>1, <3>1, <4>2, <4>3
    <3> QED BY <1>1, <3>2, <3>3
  <2> QED BY <2>1, <2>2 DEF Chain
<1> QED BY <1>1, <1>2, <1>3, <1>4, <1>5 DEF t

(* Fewer frames. *)
LEMMA Shortened ==
  ASSUME NEW s \in Seq(Stretch), NEW k \in 0..Len(s)
  PROVE  /\ SubSeq(s, 1, k) \in Seq(Stretch) /\ Len(SubSeq(s, 1, k)) = k
         /\ \A i \in 1..k : SubSeq(s, 1, k)[i] = s[i]
         /\ \A j \in 0..k : /\ EndAt(SubSeq(s, 1, k), j) = EndAt(s, j)
                            /\ Kept(SubSeq(s, 1, k), j) = Kept(s, j)
         /\ Chain(s) => Chain(SubSeq(s, 1, k))
         /\ Chain(s) /\ k < Len(s) => Intact(SubSeq(s, 1, k))
         /\ k = Len(s) => SubSeq(s, 1, k) = s
<1> DEFINE t == SubSeq(s, 1, k)
<1>1. k \in Nat /\ k <= Len(s) /\ Len(s) \in Nat
  OBVIOUS
<1>2. \A i \in 1..k : s[i] \in Stretch
  BY <1>1
<1>3. t \in Seq(Stretch) /\ Len(t) = k /\ \A i \in 1..k : t[i] = s[i]
  BY <1>1, <1>2, SubSeqProperties
<1> HIDE DEF t
<1>4. ASSUME NEW j \in 0..k PROVE EndAt(t, j) = EndAt(s, j) /\ Kept(t, j) = Kept(s, j)
  <2>1. j = 0 \/ t[j] = s[j]
    BY <1>1, <1>3
  <2> QED BY <2>1 DEF EndAt, Kept
<1>5. ASSUME Chain(s) PROVE Chain(t)
  <2>1. ASSUME NEW i \in 1..Len(t) PROVE t[i].from = EndAt(t, i - 1)
    <3>1. i \in 1..Len(s) /\ i - 1 \in 0..k /\ t[i] = s[i]
      BY <1>1, <1>3
    <3> QED BY <1>4, <1>5, <3>1 DEF Chain
  <2>2. ASSUME NEW i \in 1..Len(t), NEW j \in 1..Len(t), i < j
        PROVE  EndAt(t, i) <= t[j].from /\ t[i].whole
    <3>1. i \in 1..Len(s) /\ j \in 1..Len(s) /\ i \in 0..k /\ t[i] = s[i] /\ t[j] = s[j]
      BY <1>1, <1>3
    <3> QED BY <1>4, <1>5, <2>2, <3>1 DEF Chain
  <2> QED BY <2>1, <2>2 DEF Chain
<1>6. ASSUME Chain(s), k < Len(s) PROVE Intact(t)
  <2>1. CASE k = 0
    BY <1>3, <2>1 DEF Intact
  <2>2. CASE k # 0
    <3>1. k \in 1..Len(s) /\ Len(s) \in 1..Len(s) /\ t[k] = s[k]
      BY <1>1, <1>3, <2>2
    <3> QED BY <1>3, <1>6, <3>1 DEF Chain, Intact
  <2> QED BY <2>1, <2>2
<1>7. ASSUME k = Len(s) PROVE t = s
  BY <1>3, <1>7, SeqEqual
<1> QED BY <1>3, <1>4, <1>5, <1>6, <1>7 DEF t

(* More frames of a chain keep more. *)
LEMMA KeptGrows ==
  ASSUME NEW s \in Seq(Stretch), Chain(s), NEW j \in 0..Len(s), NEW k \in 0..j
  PROVE  Kept(s, k) <= Kept(s, j)
<1>1. k \in 0..Len(s) /\ j \in Nat /\ Len(s) \in Nat
  OBVIOUS
<1>2. Kept(s, k) \in Nat /\ Kept(s, j) \in Nat /\ Kept(s, k) <= EndAt(s, k) /\ EndAt(s, k) \in Nat
  BY <1>1, EndBounds
<1>3. CASE k = 0
  BY <1>2, <1>3 DEF Kept
<1>4. CASE k = j
  BY <1>2, <1>4
<1>5. CASE k # 0 /\ k < j
  <2>1. k \in 1..Len(s) /\ j \in 1..Len(s) /\ j # 0
    BY <1>1, <1>5
  <2>2. EndAt(s, k) <= s[j].from
    BY <1>5, <2>1 DEF Chain
  <2>3. s[j].from \in Nat /\ s[j].n \in Nat
    BY <2>1, FrameFields
  <2>4. s[j].from <= Kept(s, j)
    BY <2>1, <2>3 DEF Kept, EndAt
  <2> QED BY <1>2, <2>2, <2>3, <2>4
<1> QED BY <1>1, <1>3, <1>4, <1>5

(* Of an intact file everything is kept, to its end. *)
LEMMA IntactKept ==
  ASSUME NEW s \in Seq(Stretch), Intact(s)
  PROVE  Kept(s, Len(s)) = EndAt(s, Len(s))
<1>1. Len(s) = 0 \/ s # <<>>
  OBVIOUS
<1> QED BY <1>1 DEF Kept, EndAt, Intact

(* The empty file. *)
LEMMA EmptyChain == <<>> \in Seq(Stretch) /\ Chain(<<>>) /\ Intact(<<>>) /\ EndAt(<<>>, 0) = 0 /\ Kept(<<>>, 0) = 0 /\ Len(<<>>) = 0
  BY DEF Chain, Intact, EndAt, Kept

(* The model's own words for these. *)
LEMMA FileWords ==
  ASSUME file \in Seq(Stretch)
  PROVE  /\ Stored = EndAt(file, Len(file)) /\ Len(file) \in Nat
         /\ IsTorn <=> ~Intact(file)
         /\ file = <<>> <=> Len(file) = 0
         /\ Chain(file) => Readable
         /\ file # <<>> => Last(file) \in Stretch /\ Last(file) = file[Len(file)]
<1>1. Len(file) \in Nat /\ (file = <<>> <=> Len(file) = 0)
  OBVIOUS
<1>2. Stored = EndAt(file, Len(file))
  BY <1>1 DEF Stored, EndAt, Last
<1>3. IsTorn <=> ~Intact(file)
  BY <1>1 DEF IsTorn, Intact, Last
<1>4. ASSUME Chain(file) PROVE Readable
  <2> SUFFICES ASSUME NEW i \in 1..Len(file)
               PROVE  /\ file[i].from = IF i = 1 THEN 0 ELSE file[i - 1].from + file[i - 1].n
                      /\ i < Len(file) => file[i].whole
    BY DEF Readable
  <2>1. file[i].from = EndAt(file, i - 1) /\ (i = 1 <=> i - 1 = 0)
    BY <1>1, <1>4 DEF Chain
  <2>2. i < Len(file) => file[i].whole
    <3>1. Len(file) \in 1..Len(file)
      BY <1>1
    <3> QED BY <1>4, <3>1 DEF Chain
  <2> QED BY <2>1, <2>2 DEF EndAt
<1>5. file # <<>> => Last(file) \in Stretch /\ Last(file) = file[Len(file)]
  BY <1>1 DEF Last
<1> QED BY <1>1, <1>2, <1>3, <1>4, <1>5

(* A frame that may come back continues the file. *)
LEMMA DiskIsChain ==
  ASSUME file \in Seq(Stretch), doubt \subseteq Stretch
  PROVE  /\ OnDisk \in Seq(Stretch) /\ Len(file) <= Len(OnDisk)
         /\ \A k \in 0..Len(file) : Kept(OnDisk, k) = Kept(file, k)
         /\ FileInv => Chain(OnDisk)
<1> DEFINE d == CHOOSE f \in doubt : TRUE
<1>1. CASE doubt = {}
  <2>1. OnDisk = file
    BY <1>1, ConcatEmptySeq DEF OnDisk
  <2>2. Len(file) <= Len(file)
    BY FileWords
  <2> QED BY <2>1, <2>2 DEF FileInv
<1>2. CASE doubt # {}
  <2>1. d \in doubt /\ d \in Stretch
    BY <1>2
  <2>2. FileInv => Intact(file) /\ d.from = EndAt(file, Len(file)) /\ Chain(file)
    BY <1>2, <2>1 DEF FileInv
  <2>3. OnDisk = file \o <<d>>
    BY <1>2 DEF OnDisk
  <2> HIDE DEF d
  <2>4. OnDisk = Append(file, d)
    BY <2>1, <2>3, AppendIsConcat
  <2>5. /\ Append(file, d) \in Seq(Stretch) /\ Len(Append(file, d)) = Len(file) + 1
        /\ \A k \in 0..Len(file) : Kept(Append(file, d), k) = Kept(file, k)
        /\ Chain(file) /\ Intact(file) /\ d.from = EndAt(file, Len(file)) => Chain(Append(file, d))
    BY <2>1, Extended
  <2>6. Len(file) <= Len(file) + 1
    BY FileWords
  <2> QED BY <2>2, <2>4, <2>5, <2>6
<1> QED BY <1>1, <1>2

(* Whatever a power loss leaves is a chain that holds what was acknowledged. *)
LEMMA SurvivorsKeep ==
  ASSUME file \in Seq(Stretch), doubt \subseteq Stretch, synced \in 0..Len(file),
         acked \in Nat, NEW s \in Survivors
  PROVE  /\ s \in Seq(Stretch)
         /\ FileInv => Chain(s) /\ acked <= Kept(s, Len(s))
<1> DEFINE o == OnDisk
<1>1. /\ o \in Seq(Stretch) /\ Len(file) <= Len(o) /\ (FileInv => Chain(o))
      /\ \A k \in 0..Len(file) : Kept(o, k) = Kept(file, k)
  BY DiskIsChain
<1>2. \/ \E k \in synced..Len(o) : s = SubSeq(o, 1, k)
      \/ \E k \in synced..(Len(o) - 1) : \E f \in Pieces(o[k + 1]) : s = Append(SubSeq(o, 1, k), f)
  BY DEF Survivors
<1> HIDE DEF o
<1>3. synced \in Nat /\ Len(o) \in Nat /\ Len(file) \in Nat /\ synced <= Len(o)
  BY <1>1, FileWords
<1>4. ASSUME NEW k \in synced..Len(o)
      PROVE  /\ k \in 0..Len(o) /\ synced \in 0..k
             /\ SubSeq(o, 1, k) \in Seq(Stretch) /\ Len(SubSeq(o, 1, k)) = k
             /\ Kept(SubSeq(o, 1, k), k) = Kept(o, k)
             /\ FileInv => Chain(SubSeq(o, 1, k)) /\ acked <= Kept(o, k)
  <2>1. k \in 0..Len(o) /\ synced \in 0..k /\ k \in 0..k
    BY <1>3
  <2>2. FileInv => acked <= Kept(o, synced) /\ Kept(o, synced) <= Kept(o, k)
    BY <1>1, <2>1, KeptGrows DEF FileInv
  <2>3. synced \in 0..Len(o) /\ Kept(o, synced) \in Nat /\ Kept(o, k) \in Nat
    <3>1. synced \in 0..Len(o)
      BY <1>3
    <3> QED BY <1>1, <2>1, <3>1, EndBounds
  <2>4. FileInv => acked <= Kept(o, k)
    BY <2>2, <2>3
  <2> QED BY <1>1, <2>1, <2>4, Shortened
<1>5. CASE \E k \in synced..Len(o) : s = SubSeq(o, 1, k)
  BY <1>4, <1>5
<1>6. ASSUME NEW k \in synced..(Len(o) - 1), NEW f \in Pieces(o[k + 1]), s = Append(SubSeq(o, 1, k), f)
      PROVE  /\ s \in Seq(Stretch)
             /\ FileInv => Chain(s) /\ acked <= Kept(s, Len(s))
  <2>1. k \in synced..Len(o) /\ k + 1 \in 1..Len(o) /\ k < Len(o) /\ k \in Nat /\ k \in 0..k
    BY <1>3
  <2> DEFINE t == SubSeq(o, 1, k)
  <2>2. /\ t \in Seq(Stretch) /\ Len(t) = k /\ Kept(t, k) = Kept(o, k) /\ EndAt(t, k) = EndAt(o, k)
        /\ FileInv => Chain(t) /\ Intact(t) /\ acked <= Kept(o, k)
    BY <1>1, <1>4, <2>1, Shortened
  <2> HIDE DEF t
  <2>3. o[k + 1] \in Stretch
    BY <1>1, <2>1
  <2>4. f \in Stretch /\ f.from = o[k + 1].from /\ ~f.whole
    BY <2>3, PieceFrame
  <2>5. FileInv => f.from = EndAt(t, Len(t))
    <3>1. k + 1 - 1 = k
      BY <2>1
    <3> QED BY <1>1, <2>1, <2>2, <2>4, <3>1 DEF Chain
  <2>6. s = Append(t, f)
    BY <1>6 DEF t
  <2>7. s \in Seq(Stretch) /\ Len(s) = k + 1 /\ s[k + 1] = f /\ (FileInv => Chain(s))
    BY <2>2, <2>4, <2>5, <2>6, Extended
  <2>8. FileInv => acked <= Kept(s, Len(s))
    <3>1. Kept(s, Len(s)) = f.from
      BY <2>1, <2>4, <2>7 DEF Kept
    <3>2. FileInv => Kept(t, k) = EndAt(t, k)
      BY <2>2, IntactKept
    <3> QED BY <2>2, <2>5, <3>1, <3>2
  <2> QED BY <2>7, <2>8
<1> QED BY <1>2, <1>5, <1>6

-----------------------------------------------------------------------------
(* Operations *)

Ops == [kind : {"none", "append", "repair"},
        at : {"none"} \cup AppendStages \cup RepairStages,
        n : 0..MaxEvents, before : Nat]

(* What an operation keeps when it goes to its next stage. *)
LEMMA GotoFields ==
  ASSUME OpInv, NEW at \in AppendStages \cup RepairStages, Goto(at)
  PROVE  op' \in Ops /\ op'.kind = op.kind /\ op'.at = at /\ op'.n = op.n /\ op'.before = op.before
  BY DEF OpInv, Ops, Goto

(* The fields of the running operation. *)
LEMMA OpFields ==
  ASSUME OpInv
  PROVE  /\ op.kind \in {"none", "append", "repair"} /\ op.n \in 0..MaxEvents /\ op.n \in Nat
         /\ op.before \in Nat
         /\ op.kind = "none" <=> op = NoOp
         /\ op.kind = "none" <=> op.at = "none"
  BY Bounds DEF OpInv, NoOp, AppendStages, RepairStages

(* An operation that ended leaves none behind. *)
LEMMA OpEnds == op' = NoOp => OpInv'
<1> SUFFICES ASSUME op' = NoOp PROVE OpInv'
  OBVIOUS
<1>1. op' = [kind |-> "none", at |-> "none", n |-> 0, before |-> 0] /\ 0 \in 0..MaxEvents
  BY Bounds DEF NoOp
<1> QED BY <1>1 DEF OpInv, At

(* Frames of the session are frames. *)
LEMMA FramesAreTyped == Seq(Stretch) \subseteq Seq(Frame) /\ Stretch \subseteq Frame
  BY SeqMonotonic DEF Stretch

(* An operation that fails in a way that spares the log. *)
LEMMA FailureTypes ==
  ASSUME TypeOK, NEW what, Fails(what)
  PROVE  /\ faults' \in 0..MaxFaults /\ botched' \in BOOLEAN
         /\ ~botched' => ~botched /\ what \notin {"close", "rollback", "names"}
<1>1. faults' \in 0..MaxFaults
  BY Bounds DEF TypeOK, Fails
<1>2. botched' = (botched \/ what \in {"close", "rollback", "names"})
  BY DEF Fails
<1> QED BY <1>1, <1>2 DEF TypeOK

(* The end of an operation, and the stages of one, in the terms of TypeInv. *)
LEMMA TypesAgain ==
  ASSUME TypeInv, OpInv', linked' \in BOOLEAN, named' \in BOOLEAN,
         file' \in Seq(Stretch), synced' \in 0..Len(file'), doubt' \subseteq Stretch,
         tracked' \in BOOLEAN, materialized' \in BOOLEAN,
         cursor' \in Nat, events' \in 0..MaxEvents, cursor' <= events',
         acked' \in 0..MaxEvents, crashes' \in 0..MaxCrashes,
         faults' \in 0..MaxFaults, botched' \in BOOLEAN
  PROVE  TypeInv'
<1>1. cursor' \in 0..MaxEvents
  BY Bounds
<1>2. file' \in Seq(Frame) /\ doubt' \subseteq Frame
  BY FramesAreTyped
<1>3. op'.kind \in {"none", "append", "repair"}
  BY DEF OpInv
<1> QED BY <1>1, <1>2, <1>3 DEF TypeInv, TypeOK

(* FileInv is about the file and what was acknowledged, and nothing else. *)
LEMMA DiskSame == FileInv /\ UNCHANGED <<diskVars, acked>> => FileInv'
  BY DEF FileInv, diskVars

(* An append that is refused leaves a file that the cursor still describes. *)
LEMMA RefusedKeeps ==
  ASSUME TypeInv', FileInv', op' = NoOp,
         tracked' => materialized' = linked' /\ cursor' = EndAt(file', Len(file')) /\ Intact(file')
  PROVE  LogInv'
<1>1. StageInv' /\ CursorInv'
  BY DEF StageInv, CursorInv, NoOp
<1> QED BY <1>1 DEF LogInv

(* Of a session that was given up the invariant asks only the types. *)
LEMMA ForgottenKeeps == ASSUME TypeInv', botched' PROVE LogInv'
  BY DEF LogInv

(* create() of a new session. *)
LEMMA CreateKeeps == ASSUME LogInv, Create PROVE LogInv'
<1> USE DEF LogInv
<1>1. op' = NoOp /\ tracked' = TRUE /\ cursor' = 0 /\ materialized' = FALSE /\ events' = 0 /\ ~linked
  BY DEF Create
<1>2. UNCHANGED <<linked, named, file, synced, doubt, acked, crashes, faults, botched>>
  BY DEF Create, diskVars, faultVars
<1>3. TypeInv'
  <2>1. OpInv'
    BY <1>1, OpEnds
  <2>2. cursor' \in Nat /\ events' \in 0..MaxEvents /\ cursor' <= events'
    BY <1>1, Bounds
  <2> QED BY <1>1, <1>2, <2>1, <2>2, TypesAgain DEF TypeInv, TypeOK
<1>4. CASE ~botched
  <2>1. FileInv'
    BY <1>2, <1>4, DiskSame DEF diskVars
  <2>2. linked' = FALSE /\ file' = <<>>
    BY <1>1, <1>2, <1>4 DEF FileInv, TypeInv, TypeOK
  <2>3. Len(file') = 0 /\ Intact(file') /\ EndAt(file', Len(file')) = 0
    BY <2>2, EmptyChain
  <2> QED BY <1>1, <1>3, <2>1, <2>2, <2>3, RefusedKeeps
<1>5. CASE botched
  BY <1>2, <1>3, <1>5, ForgottenKeeps
<1> QED BY <1>4, <1>5

(* An event is logged in memory. *)
LEMMA LogKeeps == ASSUME LogInv, Log PROVE LogInv'
<1> USE DEF LogInv
<1>1. UNCHANGED <<linked, named, file, synced, doubt, tracked, cursor, materialized, op, acked, crashes, faults, botched>>
  BY DEF Log, diskVars, faultVars
<1>2. events' = events + 1 /\ events < MaxEvents
  BY DEF Log
<1>3. TypeInv'
  <2>1. events \in Nat /\ cursor \in Nat /\ op.n \in Nat /\ cursor <= events
    BY Bounds, OpFields DEF TypeInv, TypeOK
  <2>2. cursor + op.n <= events => cursor' + op'.n <= events'
    BY <1>1, <1>2, <2>1
  <2>3. OpInv'
    BY <1>1, <2>2 DEF TypeInv, OpInv, At, Stored, IsTorn
  <2>4. events' \in 0..MaxEvents /\ cursor' <= events' /\ cursor' \in Nat
    BY <1>1, <1>2, <2>1, Bounds
  <2> QED BY <1>1, <2>3, <2>4, TypesAgain DEF TypeInv, TypeOK
<1>4. FileInv /\ StageInv /\ CursorInv => FileInv' /\ StageInv' /\ CursorInv'
  BY <1>1 DEF FileInv, StageInv, CursorInv
<1> QED BY <1>1, <1>3, <1>4

(* The coordinator hands a batch to the backend. *)
LEMMA AppendBatchKeeps == ASSUME LogInv, AppendBatch PROVE LogInv'
<1> USE DEF LogInv
<1>1. PICK n \in 1..(events - cursor) :
        op' = [kind |-> "append", at |-> IF materialized THEN "write" ELSE "create",
               n |-> n, before |-> 0]
  BY DEF AppendBatch
<1>2. UNCHANGED <<linked, named, file, synced, doubt, tracked, cursor, materialized, events, acked, crashes, faults, botched>>
  BY DEF AppendBatch, diskVars, faultVars, memoryVars
<1>3. tracked /\ op = NoOp /\ op.kind = "none"
  BY DEF AppendBatch, NoOp
<1>4. n \in 0..MaxEvents /\ cursor + n <= events
  BY Bounds DEF TypeInv, TypeOK
<1>5. TypeInv'
  <2>1. OpInv'
    BY <1>1, <1>2, <1>3, <1>4 DEF OpInv, AppendStages, At
  <2> QED BY <1>2, <2>1, TypesAgain DEF TypeInv, TypeOK
<1>6. CASE ~botched
  <2>1. FileInv'
    BY <1>2, <1>6, DiskSame DEF diskVars
  <2>2. materialized = linked /\ cursor = EndAt(file, Len(file)) /\ Intact(file)
    BY <1>3, <1>6 DEF CursorInv
  <2>3. ~linked => cursor = 0
    BY <1>6, <2>2, EmptyChain DEF FileInv
  <2>4. StageInv'
    BY <1>1, <1>2, <2>2 DEF StageInv
  <2>5. CursorInv'
    BY <1>1, <1>2, <2>2, <2>3 DEF CursorInv
  <2> QED BY <1>5, <2>1, <2>4, <2>5
<1>7. CASE botched
  BY <1>2, <1>5, <1>7, ForgottenKeeps
<1> QED BY <1>6, <1>7

(* A stored file is loaded, and repaired if it is torn. *)
LEMMA LoadKeeps == ASSUME LogInv, Load PROVE LogInv'
<1> USE DEF LogInv
<1>1. PICK closers \in 0..1 :
        \/ /\ ~IsTorn /\ closers = 0
           /\ tracked' = TRUE /\ materialized' = TRUE
           /\ cursor' = Stored /\ events' = Stored
           /\ UNCHANGED op
        \/ /\ IsTorn \/ closers > 0
           /\ Stored + closers <= MaxEvents
           /\ op' = [kind |-> "repair", at |-> IF IsTorn THEN "truncate" ELSE "write",
                     n |-> (IF IsTorn THEN Last(file).n ELSE 0) + closers, before |-> 0]
           /\ UNCHANGED memoryVars
  BY DEF Load
<1>2. UNCHANGED <<linked, named, file, synced, doubt, acked, crashes, faults, botched>>
  BY DEF Load, diskVars, faultVars
<1>3. ~tracked /\ op = NoOp /\ linked /\ Readable
  BY DEF Load
<1>4. /\ file \in Seq(Stretch) /\ Len(file) \in Nat /\ Stored = EndAt(file, Len(file))
      /\ IsTorn <=> ~Intact(file)
      /\ file # <<>> => Last(file) \in Stretch /\ Last(file) = file[Len(file)]
  BY FileWords DEF TypeInv
<1>5. Stored \in Nat /\ Stored <= MaxEvents
  <2>1. Len(file) \in 0..Len(file)
    BY <1>4
  <2> QED BY <1>4, <2>1, EndBounds
<1>6. CASE /\ ~IsTorn /\ closers = 0
           /\ tracked' = TRUE /\ materialized' = TRUE
           /\ cursor' = Stored /\ events' = Stored
           /\ UNCHANGED op
  <2>1. op' = NoOp
    BY <1>3, <1>6
  <2>2. TypeInv'
    <3>1. OpInv' /\ events' \in 0..MaxEvents /\ cursor' \in Nat /\ cursor' <= events'
      BY <1>5, <1>6, <2>1, Bounds, OpEnds
    <3> QED BY <1>2, <1>6, <3>1, TypesAgain DEF TypeInv, TypeOK
  <2>3. CASE ~botched
    <3>1. FileInv'
      BY <1>2, <2>3, DiskSame DEF diskVars
    <3>2. materialized' = linked' /\ cursor' = EndAt(file', Len(file')) /\ Intact(file')
      BY <1>2, <1>3, <1>4, <1>6 DEF TypeInv, TypeOK
    <3> QED BY <2>1, <2>2, <3>1, <3>2, RefusedKeeps
  <2>4. CASE botched
    BY <1>2, <2>2, <2>4, ForgottenKeeps
  <2> QED BY <2>3, <2>4
<1>7. CASE /\ IsTorn \/ closers > 0
           /\ Stored + closers <= MaxEvents
           /\ op' = [kind |-> "repair", at |-> IF IsTorn THEN "truncate" ELSE "write",
                     n |-> (IF IsTorn THEN Last(file).n ELSE 0) + closers, before |-> 0]
           /\ UNCHANGED memoryVars
  <2>1. UNCHANGED <<tracked, cursor, materialized, events>>
    BY <1>7 DEF memoryVars
  <2>2. /\ IsTorn => /\ Last(file).from = EndAt(file, Len(file) - 1)
                     /\ Last(file).from \in Nat /\ Last(file).n \in Nat
                     /\ Stored = Last(file).from + Last(file).n
    <3> SUFFICES ASSUME IsTorn PROVE /\ Last(file).from = EndAt(file, Len(file) - 1)
                                     /\ Last(file).from \in Nat /\ Last(file).n \in Nat
                                     /\ Stored = Last(file).from + Last(file).n
      OBVIOUS
    <3>1. file # <<>> /\ Len(file) \in 1..Len(file) /\ Last(file) = file[Len(file)] /\ Last(file) \in Stretch
      BY <1>4 DEF IsTorn
    <3>2. Last(file).from = EndAt(file, Len(file) - 1)
      <4>1. file[Len(file)].from
              = IF Len(file) = 1 THEN 0 ELSE file[Len(file) - 1].from + file[Len(file) - 1].n
        BY <1>3, <3>1 DEF Readable
      <4>2. Len(file) = 1 <=> Len(file) - 1 = 0
        BY <1>4
      <4> QED BY <3>1, <4>1, <4>2 DEF EndAt
    <3> QED BY <3>1, <3>2, FrameFields DEF Stored
  <2>3. op'.n \in 0..MaxEvents /\ op'.n = (IF IsTorn THEN Last(file).n ELSE 0) + closers
    BY <1>5, <1>7, <2>2, Bounds
  <2>4. TypeInv'
    <3>1. /\ IsTorn' = IsTorn /\ Stored' = Stored /\ Last(file)' = Last(file)
          /\ EndAt(file, Len(file) - 1)' = EndAt(file, Len(file) - 1)
      BY <1>2 DEF IsTorn, Stored
    <3>2. IsTorn => Last(file).from + op'.n <= MaxEvents
      BY <1>5, <1>7, <2>2, <2>3, Bounds
    <3>3. ~IsTorn => Stored + op'.n <= MaxEvents
      BY <1>5, <1>7, <2>3
    <3>4. /\ op'.kind = "repair" /\ op'.at = IF IsTorn THEN "truncate" ELSE "write"
          /\ op'.before = 0
          /\ op' = [kind |-> op'.kind, at |-> op'.at, n |-> op'.n, before |-> op'.before]
      BY <1>7
    <3>5. op' \in [kind : {"none", "append", "repair"},
               at : {"none"} \cup AppendStages \cup RepairStages,
               n : 0..MaxEvents, before : Nat]
      BY <2>3, <3>4 DEF AppendStages, RepairStages
    <3>6. OpInv'
      <4>1. CASE IsTorn
        BY <1>2, <1>3, <2>1, <2>2, <3>1, <3>2, <3>4, <3>5, <4>1 DEF OpInv, At, RepairStages
      <4>2. CASE ~IsTorn
        BY <1>2, <1>3, <2>1, <3>1, <3>3, <3>4, <3>5, <4>2 DEF OpInv, At, RepairStages
      <4> QED BY <4>1, <4>2
    <3> QED BY <1>2, <2>1, <3>6, TypesAgain DEF TypeInv, TypeOK
  <2>5. CASE ~botched
    <3>1. FileInv'
      BY <1>2, <2>5, DiskSame DEF diskVars
    <3>2. StageInv'
      BY <1>2, <1>3, <1>4, <1>7 DEF StageInv
    <3>3. CursorInv'
      BY <1>7 DEF CursorInv
    <3> QED BY <2>4, <3>1, <3>2, <3>3
  <2>6. CASE botched
    BY <1>2, <2>4, <2>6, ForgottenKeeps
  <2> QED BY <2>5, <2>6
<1> QED BY <1>1, <1>6, <1>7

(* The types after a batch was refused. *)
LEMMA RefusedTypes ==
  ASSUME TypeInv, Rejects, crashes' = crashes, linked' \in BOOLEAN, named' \in BOOLEAN,
         file' \in Seq(Stretch), synced' \in 0..Len(file'), doubt' \subseteq Stretch,
         faults' \in 0..MaxFaults, botched' \in BOOLEAN
  PROVE  TypeInv' /\ op' = NoOp /\ UNCHANGED <<tracked, cursor, materialized, events, acked>>
<1>1. op' = NoOp /\ UNCHANGED <<tracked, cursor, materialized, events, acked>>
  BY DEF Rejects, memoryVars
<1>2. OpInv'
  BY <1>1, OpEnds
<1> QED BY <1>1, <1>2, TypesAgain DEF TypeInv, TypeOK

(* The types after a batch was acknowledged. *)
LEMMA ResolvedTypes ==
  ASSUME TypeInv, Resolves, crashes' = crashes, linked' \in BOOLEAN, named' \in BOOLEAN,
         file' \in Seq(Stretch), synced' \in 0..Len(file'), doubt' \subseteq Stretch,
         faults' \in 0..MaxFaults, botched' \in BOOLEAN
  PROVE  /\ TypeInv' /\ op' = NoOp /\ UNCHANGED <<tracked, events>>
         /\ op.kind = "append" => cursor' = cursor + op.n /\ acked' = cursor + op.n /\ materialized'
         /\ op.kind = "repair" => UNCHANGED <<cursor, acked, materialized>>
         /\ op.kind \in {"append", "repair"}
<1>1. op' = NoOp /\ UNCHANGED <<tracked, events>> /\ op.kind \in {"append", "repair"}
  BY DEF Resolves
<1>2. op.kind = "append" => cursor' = cursor + op.n /\ acked' = cursor + op.n /\ materialized' = TRUE
  BY DEF Resolves, HasFile
<1>3. op.kind = "repair" => UNCHANGED <<cursor, acked, materialized>>
  BY DEF Resolves
<1>4. OpInv'
  BY <1>1, OpEnds
<1>5. op.n \in Nat /\ cursor \in Nat /\ events \in Nat /\ cursor <= events /\ events \in 0..MaxEvents
  BY Bounds, OpFields DEF TypeInv, TypeOK
<1>6. materialized' \in BOOLEAN /\ cursor' \in Nat /\ cursor' <= events /\ acked' \in 0..MaxEvents
  <2>1. CASE op.kind = "append"
    <3>1. cursor + op.n <= events
      BY <2>1 DEF TypeInv, OpInv
    <3> QED BY <1>2, <1>5, <2>1, <3>1, Bounds
  <2>2. CASE op.kind = "repair"
    BY <1>3, <1>5, <2>2 DEF TypeInv, TypeOK
  <2> QED BY <1>1, <2>1, <2>2
<1>7. TypeInv'
  BY <1>1, <1>4, <1>5, <1>6, TypesAgain DEF TypeInv, TypeOK
<1> QED BY <1>1, <1>2, <1>3, <1>7

(* The first batch is written to a temporary file. *)
LEMMA WriteTempKeeps == ASSUME LogInv, WriteTemp PROVE LogInv'
<1> USE DEF LogInv
<1>1. op.kind = "append" /\ op.at = "create"
  BY DEF WriteTemp, At
<1>2. UNCHANGED <<linked, named, file, synced, doubt, crashes>>
  BY DEF WriteTemp, diskVars
<1>3. CASE ~linked /\ Goto("link") /\ UNCHANGED <<cursor, tracked, materialized, events, acked, faultVars>>
  <2>1. UNCHANGED <<cursor, tracked, materialized, events, acked, faults, botched>>
    BY <1>3 DEF faultVars
  <2>2. op' \in Ops /\ op'.kind = "append" /\ op'.at = "link" /\ op'.n = op.n
    BY <1>1, <1>3, GotoFields DEF TypeInv, AppendStages
  <2>3. OpInv'
    BY <1>1, <1>2, <2>1, <2>2 DEF TypeInv, OpInv, Ops, At, AppendStages
  <2>4. TypeInv'
    BY <1>2, <2>1, <2>3, TypesAgain DEF TypeInv, TypeOK
  <2>5. FileInv => FileInv'
    BY <1>2, <2>1, DiskSame DEF diskVars
  <2>6. CursorInv => StageInv' /\ CursorInv'
    BY <1>1, <1>2, <2>1, <2>2 DEF StageInv, CursorInv
  <2> QED BY <2>1, <2>4, <2>5, <2>6
<1>4. ASSUME Rejects, faults' \in 0..MaxFaults, botched' \in BOOLEAN, ~botched' => ~botched
      PROVE  LogInv'
  <2>1. TypeInv' /\ op' = NoOp /\ UNCHANGED <<tracked, cursor, materialized, events, acked>>
    BY <1>2, <1>4, RefusedTypes DEF TypeInv, TypeOK
  <2>2. CASE ~botched'
    <3>1. FileInv'
      BY <1>2, <1>4, <2>1, <2>2, DiskSame DEF diskVars
    <3>2. ~linked /\ ~materialized /\ cursor = 0 /\ file = <<>>
      BY <1>1, <1>4, <2>2 DEF CursorInv, FileInv
    <3>3. materialized' = linked' /\ cursor' = EndAt(file', Len(file')) /\ Intact(file')
      BY <1>2, <2>1, <3>2, EmptyChain DEF TypeInv, TypeOK
    <3> QED BY <2>1, <3>1, <3>3, RefusedKeeps
  <2>3. CASE botched'
    BY <2>1, <2>3, ForgottenKeeps
  <2> QED BY <2>2, <2>3
<1>5. CASE linked /\ Rejects /\ UNCHANGED faultVars
  BY <1>4, <1>5 DEF faultVars, TypeInv, TypeOK
<1>6. CASE (Fails("write") \/ Fails("sync")) /\ Rejects
  BY <1>4, <1>6, FailureTypes DEF TypeInv
<1> QED BY <1>3, <1>5, <1>6 DEF WriteTemp

(* The temporary file gets its name. *)
LEMMA LinkKeeps == ASSUME LogInv, Link PROVE LogInv'
<1> USE DEF LogInv
<1>1. op.kind = "append" /\ op.at = "link"
  BY DEF Link, At
<1>2. UNCHANGED <<doubt, tracked, cursor, materialized, events, acked, crashes, faults, botched>>
  BY DEF Link, memoryVars, faultVars
<1>3. linked' = TRUE /\ named' = FALSE /\ synced' = 1
  BY DEF Link
<1> DEFINE w == Whole(cursor, op.n)
<1>4. cursor \in Nat /\ op.n \in Nat /\ cursor + op.n <= MaxEvents
  <2>1. cursor \in Nat /\ op.n \in Nat /\ events \in 0..MaxEvents /\ cursor + op.n <= events
    BY <1>1, Bounds, OpFields DEF TypeInv, TypeOK, OpInv
  <2> QED BY <2>1, Bounds
<1>5. w \in Stretch /\ w.from = cursor /\ w.n = op.n /\ w.whole
  BY <1>4, WholeFrame
<1>6. file' = <<w>>
  BY DEF Link
<1>h. op' \in Ops /\ op'.kind = "append" /\ op'.at = "names" /\ op'.n = op.n
  BY <1>1, GotoFields DEF Link, TypeInv, AppendStages
<1>w. w = Whole(cursor', op'.n)
  BY <1>2, <1>h
<1> HIDE DEF w
<1>7. file' \in Seq(Stretch) /\ Len(file') = 1 /\ file'[1] = w
  BY <1>5, <1>6
<1>8. OpInv'
  BY <1>1, <1>2, <1>h DEF TypeInv, OpInv, Ops, At, AppendStages
<1>9. TypeInv'
  <2>1. synced' \in 0..Len(file') /\ cursor' \in Nat
    BY <1>2, <1>3, <1>4, <1>7
  <2> QED BY <1>2, <1>3, <1>7, <1>8, <2>1, TypesAgain DEF TypeInv, TypeOK
<1>10. CASE ~botched
  <2>1. cursor = 0 /\ ~linked /\ doubt = {} /\ acked = 0
    BY <1>1, <1>10 DEF CursorInv, FileInv
  <2>2. Chain(file')
    <3>1. EndAt(file', 0) = 0
      BY DEF EndAt
    <3> QED BY <1>5, <1>7, <2>1, <3>1 DEF Chain
  <2>3. Kept(file', 1) \in Nat
    BY <1>7, EndBounds
  <2>4. FileInv'
    BY <1>2, <1>3, <2>1, <2>2, <2>3 DEF FileInv
  <2>5. StageInv' /\ CursorInv'
    BY <1>2, <1>3, <1>h, <1>w, <1>6, <2>1 DEF StageInv, CursorInv
  <2> QED BY <1>9, <2>4, <2>5
<1>11. CASE botched
  BY <1>2, <1>9, <1>11, ForgottenKeeps
<1> QED BY <1>10, <1>11

(* The directory is synced. *)
LEMMA SyncNamesKeeps == ASSUME LogInv, SyncNames PROVE LogInv'
<1> USE DEF LogInv
<1>1. op.kind = "append" /\ op.at = "names"
  BY DEF SyncNames, At
<1>2. UNCHANGED <<linked, file, synced, doubt, crashes>>
  BY DEF SyncNames
<1>3. CASE named' = TRUE /\ Resolves /\ UNCHANGED faultVars
  <2>1. /\ TypeInv' /\ op' = NoOp /\ UNCHANGED <<tracked, events, faults, botched>>
        /\ cursor' = cursor + op.n /\ acked' = cursor + op.n /\ materialized'
    BY <1>1, <1>2, <1>3, ResolvedTypes DEF TypeInv, TypeOK, faultVars
  <2>2. CASE ~botched
    <3>1. linked /\ cursor = 0 /\ synced = 1 /\ doubt = {} /\ file = <<Whole(0, op.n)>>
      BY <1>1, <2>2 DEF CursorInv
    <3>2. op.n \in Nat
      BY OpFields DEF TypeInv
    <3>3. /\ Len(file) = 1 /\ file[1].from = 0 /\ file[1].n = op.n /\ file[1].whole
      BY <3>1 DEF Whole
    <3>4. EndAt(file, 1) = op.n /\ Kept(file, 1) = op.n /\ Intact(file)
      BY <3>2, <3>3 DEF EndAt, Kept, Intact
    <3>5. cursor' = op.n /\ acked' = op.n /\ acked' <= op.n
      BY <2>1, <3>1, <3>2
    <3>6. FileInv'
      BY <1>2, <1>3, <2>2, <3>1, <3>4, <3>5 DEF FileInv
    <3>7. materialized' = linked' /\ cursor' = EndAt(file', Len(file')) /\ Intact(file')
      BY <1>2, <2>1, <3>1, <3>3, <3>4, <3>5 DEF TypeInv, TypeOK
    <3> QED BY <2>1, <3>6, <3>7, RefusedKeeps
  <2>3. CASE botched
    BY <2>1, <2>3, ForgottenKeeps
  <2> QED BY <2>2, <2>3
<1>4. CASE Fails("names") /\ Rejects /\ UNCHANGED named
  <2>1. faults' \in 0..MaxFaults /\ botched' \in BOOLEAN /\ botched'
    BY <1>4, FailureTypes DEF TypeInv
  <2>2. TypeInv'
    BY <1>2, <1>4, <2>1, RefusedTypes DEF TypeInv, TypeOK
  <2> QED BY <2>1, <2>2, ForgottenKeeps
<1> QED BY <1>3, <1>4 DEF SyncNames

(* A frame added to the file, or a piece of it. *)
LEMMA WriteKeeps == ASSUME LogInv, Write PROVE LogInv'
<1> USE DEF LogInv
<1> DEFINE b == Batch
<1>1. op.at = "write" /\ op.kind \in {"append", "repair"}
  BY OpFields DEF Write, TypeInv
<1>2. UNCHANGED <<linked, named, synced, tracked, cursor, materialized, events, acked, crashes>>
  BY DEF Write, memoryVars
<1>3. /\ file \in Seq(Stretch) /\ Len(file) \in Nat /\ Stored = EndAt(file, Len(file))
      /\ Len(file) \in 0..Len(file) /\ synced \in 0..Len(file) /\ synced \in Nat /\ synced <= Len(file)
  BY FileWords DEF TypeInv, TypeOK
<1>4. /\ b \in Stretch /\ b.n = op.n /\ b.whole
      /\ b.from = IF op.kind = "append" THEN cursor ELSE Stored
  <2>1. op.n \in Nat
    BY OpFields DEF TypeInv
  <2>2. CASE op.kind = "append"
    <3>1. cursor \in Nat /\ cursor + op.n <= events /\ events \in 0..MaxEvents
      BY <2>2, Bounds DEF TypeInv, TypeOK, OpInv
    <3>2. cursor + op.n <= MaxEvents
      BY <2>1, <3>1, Bounds
    <3> QED BY <2>1, <2>2, <3>1, <3>2, WholeFrame DEF Batch
  <2>3. CASE op.kind = "repair"
    <3>1. Stored + op.n <= MaxEvents
      BY <1>1, <2>3 DEF TypeInv, OpInv, At
    <3>2. Stored \in Nat
      BY <1>3, EndBounds
    <3> QED BY <2>1, <2>3, <3>1, <3>2, WholeFrame DEF Batch
  <2> QED BY <1>1, <2>2, <2>3
(* The operation afterwards, and the bounds of what it may go back to. *)
<1>5. ASSUME NEW at \in {"sync", "rollback"}, op' = [op EXCEPT !.at = at, !.before = Len(file)],
             file' \in Seq(Stretch), Len(file) <= Len(file'), Len(file') \in Nat, doubt' \subseteq Stretch,
             faults' \in 0..MaxFaults, botched' \in BOOLEAN
      PROVE  /\ TypeInv'
             /\ op'.kind = op.kind /\ op'.at = at /\ op'.n = op.n /\ op'.before = Len(file)
  <2>1. op' \in Ops /\ op'.kind = op.kind /\ op'.at = at /\ op'.n = op.n /\ op'.before = Len(file)
    BY <1>3, <1>5 DEF TypeInv, OpInv, Ops, AppendStages
  <2>2. OpInv'
    BY <1>1, <1>2, <1>3, <1>5, <2>1 DEF TypeInv, OpInv, Ops, At, AppendStages, RepairStages
  <2>3. synced' \in 0..Len(file')
    BY <1>2, <1>3, <1>5
  <2> QED BY <1>2, <1>5, <2>1, <2>2, <2>3, TypesAgain DEF TypeInv, TypeOK
(* What the stage of the write says of the file. *)
<1>6. CASE ~botched
  <2>1. /\ Chain(file) /\ Intact(file) /\ linked
        /\ b.from = EndAt(file, Len(file))
        /\ op.kind = "append" => materialized /\ cursor = EndAt(file, Len(file))
    BY <1>1, <1>3, <1>4, <1>6 DEF FileInv, StageInv, CursorInv
  <2>2. ASSUME NEW f \in Stretch, f.from = b.from, file' = Append(file, f), doubt' = {}
        PROVE  /\ FileInv' /\ Len(file') = Len(file) + 1 /\ Last(file') = f /\ file' # <<>>
               /\ EndAt(file', Len(file)) = EndAt(file, Len(file))
    <3>1. /\ Append(file, f) # <<>> /\ Last(Append(file, f)) = f
          /\ Len(Append(file, f)) = Len(file) + 1 /\ Chain(Append(file, f))
          /\ EndAt(Append(file, f), Len(file)) = EndAt(file, Len(file))
          /\ Kept(Append(file, f), synced) = Kept(file, synced)
      BY <1>3, <2>1, <2>2, Extended
    <3> QED BY <1>2, <1>6, <2>1, <2>2, <3>1 DEF FileInv
  <2>3. CASE /\ file' = Append(file, Batch) /\ doubt' = {}
             /\ op' = [op EXCEPT !.at = "sync", !.before = Len(file)]
             /\ UNCHANGED faultVars
    <3>1. file' = Append(file, b)
      BY <2>3
    <3> HIDE DEF b
    <3>2. /\ FileInv' /\ Len(file') = Len(file) + 1 /\ Last(file') = b /\ file' # <<>>
      BY <1>4, <2>2, <2>3, <3>1
    <3>3. file' \in Seq(Stretch)
      BY <1>3, <1>4, <3>1, Extended
    <3>4. /\ TypeInv'
          /\ op'.kind = op.kind /\ op'.at = "sync" /\ op'.n = op.n /\ op'.before = Len(file)
      BY <1>3, <1>5, <2>3, <3>2, <3>3 DEF TypeInv, TypeOK, faultVars
    <3>5. Intact(file')
      BY <1>4, <3>2 DEF Intact, Last
    <3>6. StageInv'
      BY <1>1, <1>2, <2>1, <3>2, <3>4, <3>5 DEF StageInv
    <3>7. CursorInv'
      BY <1>1, <1>2, <1>4, <2>1, <3>2, <3>4 DEF CursorInv
    <3> QED BY <3>2, <3>4, <3>6, <3>7
  <2>4. CASE /\ Fails("write")
             /\ op' = [op EXCEPT !.at = "rollback", !.before = Len(file)]
             /\ UNCHANGED <<file, doubt>>
    <3>1. faults' \in 0..MaxFaults /\ botched' \in BOOLEAN
      BY <2>4, FailureTypes DEF TypeInv
    <3>2. /\ TypeInv'
          /\ op'.kind = op.kind /\ op'.at = "rollback" /\ op'.n = op.n /\ op'.before = Len(file)
      <4>1. file' \in Seq(Stretch) /\ Len(file) <= Len(file') /\ Len(file') \in Nat /\ doubt' \subseteq Stretch
        BY <1>3, <2>4 DEF TypeInv
      <4> QED BY <1>5, <2>4, <3>1, <4>1
    <3>3. FileInv'
      BY <1>2, <1>6, <2>4, DiskSame DEF diskVars
    <3>4. StageInv' /\ CursorInv'
      BY <1>1, <1>2, <2>1, <2>4, <3>2 DEF StageInv, CursorInv
    <3> QED BY <3>2, <3>3, <3>4
  <2>5. ASSUME NEW f \in Pieces(Batch), Fails("write"), file' = Append(file, f), doubt' = {},
               op' = [op EXCEPT !.at = "rollback", !.before = Len(file)]
        PROVE  LogInv'
    <3>1. f \in Stretch /\ f.from = b.from
      BY <1>4, <2>5, PieceFrame
    <3> HIDE DEF b
    <3>2. /\ FileInv' /\ Len(file') = Len(file) + 1
          /\ EndAt(file', Len(file)) = EndAt(file, Len(file))
      BY <2>2, <2>5, <3>1
    <3>3. file' \in Seq(Stretch)
      BY <1>3, <2>5, <3>1, Extended
    <3>4. faults' \in 0..MaxFaults /\ botched' \in BOOLEAN
      BY <2>5, FailureTypes DEF TypeInv
    <3>5. /\ TypeInv'
          /\ op'.kind = op.kind /\ op'.at = "rollback" /\ op'.n = op.n /\ op'.before = Len(file)
      BY <1>3, <1>5, <2>5, <3>2, <3>3, <3>4
    <3>6. Len(file') = op'.before + 1 /\ Len(file') # op'.before
      BY <1>3, <3>2, <3>5
    <3>7. StageInv'
      BY <1>2, <2>1, <3>5, <3>6 DEF StageInv
    <3>8. EndAt(file', op'.before) = EndAt(file, Len(file))
      BY <3>2, <3>5
    <3>9. CursorInv'
      BY <1>1, <1>2, <2>1, <3>5, <3>8 DEF CursorInv
    <3> QED BY <3>2, <3>5, <3>7, <3>9
  <2> QED BY <2>3, <2>4, <2>5 DEF Write
<1>7. CASE botched
  <2>1. faults' \in 0..MaxFaults /\ botched' \in BOOLEAN /\ botched'
    <3>1. CASE UNCHANGED faultVars
      BY <1>7, <3>1 DEF faultVars, TypeInv, TypeOK
    <3>2. CASE Fails("write")
      BY <1>7, <3>2, FailureTypes DEF TypeInv, Fails
    <3> QED BY <3>1, <3>2 DEF Write
  <2>2. \/ file' = file /\ doubt' = doubt
        \/ (\E f \in Stretch : file' = Append(file, f)) /\ doubt' = {}
    BY <1>4, PieceFrame DEF Write
  <2>3. /\ file' \in Seq(Stretch) /\ Len(file) <= Len(file') /\ Len(file') \in Nat
        /\ doubt' \subseteq Stretch
    <3>1. CASE file' = file /\ doubt' = doubt
      BY <1>3, <3>1 DEF TypeInv
    <3>2. ASSUME NEW f \in Stretch, file' = Append(file, f), doubt' = {}
          PROVE  /\ file' \in Seq(Stretch) /\ Len(file) <= Len(file') /\ Len(file') \in Nat
                 /\ doubt' \subseteq Stretch
      <4>1. Append(file, f) \in Seq(Stretch) /\ Len(Append(file, f)) = Len(file) + 1
        BY <1>3, <3>2, Extended
      <4> QED BY <1>3, <3>2, <4>1
    <3> QED BY <2>2, <3>1, <3>2
  <2>4. \E at \in {"sync", "rollback"} : op' = [op EXCEPT !.at = at, !.before = Len(file)]
    BY DEF Write
  <2>5. TypeInv'
    BY <1>5, <2>1, <2>3, <2>4
  <2> QED BY <2>1, <2>5, ForgottenKeeps
<1> QED BY <1>6, <1>7

(* A sync of the file: nothing it held can be lost any more. *)
LEMMA SyncsTypes ==
  ASSUME TypeInv, Syncs, file' = file
  PROVE  /\ file' \in Seq(Stretch) /\ synced' = Len(file) /\ synced' \in 0..Len(file')
         /\ doubt' = {} /\ doubt' \subseteq Stretch /\ named' \in BOOLEAN
<1>1. file \in Seq(Stretch) /\ Len(file) \in 0..Len(file)
  BY FileWords DEF TypeInv
<1>2. synced' = Len(file) /\ doubt' = {} /\ named' = (named \/ FsyncCommitsNames)
  BY DEF Syncs, AllSynced
<1>3. named' \in BOOLEAN
  BY <1>2
<1> QED BY <1>1, <1>2, <1>3

(* A sync makes what the file holds survive. *)
LEMMA SyncsKeep ==
  ASSUME TypeInv, FsyncCommitsNames, FileInv, linked, Syncs, UNCHANGED <<linked, file, acked>>
  PROVE  FileInv' /\ named'
<1>1. /\ file \in Seq(Stretch) /\ Len(file) \in 0..Len(file) /\ synced \in 0..Len(file)
      /\ acked \in Nat
  BY FileWords, Bounds DEF TypeInv, TypeOK
<1>2. synced' = Len(file) /\ doubt' = {} /\ named'
  BY DEF Syncs, AllSynced
<1>3. Kept(file, synced) <= Kept(file, Len(file))
  BY <1>1, KeptGrows DEF FileInv
<1>4. Kept(file, synced) \in Nat /\ Kept(file, Len(file)) \in Nat
  BY <1>1, EndBounds
<1>5. acked' <= Kept(file', synced')
  BY <1>1, <1>2, <1>3, <1>4 DEF FileInv
<1> QED BY <1>2, <1>5 DEF FileInv

(* The sync of an appended batch. *)
LEMMA SyncKeeps == ASSUME LogInv, FsyncCommitsNames, Sync PROVE LogInv'
<1> USE DEF LogInv
<1>1. op.at = "sync" /\ op.kind \in {"append", "repair"}
  BY OpFields DEF Sync, TypeInv
<1>2. UNCHANGED <<linked, file, tracked, cursor, materialized, events, acked, crashes>>
  BY DEF Sync, memoryVars
<1>3. /\ file \in Seq(Stretch) /\ Len(file) \in Nat /\ op.before \in Nat
      /\ file # <<>> => Last(file) = file[Len(file)]
  BY FileWords, OpFields DEF TypeInv
<1>4. ~botched => linked /\ Intact(file) /\ Len(file) = op.before + 1
  BY <1>1 DEF StageInv
<1>5. CASE Syncs /\ Goto("close") /\ UNCHANGED faultVars
  <2>1. /\ file' \in Seq(Stretch) /\ synced' = Len(file) /\ synced' \in 0..Len(file')
        /\ doubt' \subseteq Stretch /\ named' \in BOOLEAN
    BY <1>2, <1>5, SyncsTypes
  <2>2. op' \in Ops /\ op'.kind = op.kind /\ op'.at = "close" /\ op'.n = op.n /\ op'.before = op.before
    BY <1>5, GotoFields DEF TypeInv, AppendStages
  <2>3. OpInv'
    BY <1>1, <1>2, <2>2 DEF TypeInv, OpInv, Ops, At, AppendStages, RepairStages
  <2>4. TypeInv' /\ botched' = botched
    BY <1>2, <1>5, <2>1, <2>3, TypesAgain DEF TypeInv, TypeOK, faultVars
  <2>5. CASE ~botched
    <3>1. FileInv' /\ named'
      BY <1>2, <1>4, <1>5, <2>5, SyncsKeep
    <3>2. StageInv'
      BY <1>2, <1>4, <2>1, <2>2, <2>5, <3>1 DEF StageInv
    <3>3. CursorInv'
      BY <1>1, <1>2, <2>2, <2>5 DEF CursorInv
    <3> QED BY <2>4, <3>1, <3>2, <3>3
  <2>6. CASE botched
    BY <2>4, <2>6, ForgottenKeeps
  <2> QED BY <2>5, <2>6
<1>6. CASE Fails("sync") /\ Goto("rollback") /\ UNCHANGED <<synced, doubt, named>>
  <2>1. faults' \in 0..MaxFaults /\ botched' \in BOOLEAN /\ (~botched' => ~botched)
    BY <1>6, FailureTypes DEF TypeInv
  <2>2. op' \in Ops /\ op'.kind = op.kind /\ op'.at = "rollback" /\ op'.n = op.n /\ op'.before = op.before
    BY <1>6, GotoFields DEF TypeInv, AppendStages
  <2>3. OpInv'
    BY <1>1, <1>2, <1>6, <2>2 DEF TypeInv, OpInv, Ops, At, AppendStages, RepairStages
  <2>4. TypeInv'
    BY <1>2, <1>6, <2>1, <2>3, TypesAgain DEF TypeInv, TypeOK
  <2>5. CASE ~botched'
    <3>1. FileInv'
      BY <1>2, <1>6, <2>1, <2>5, DiskSame DEF diskVars
    <3>2. Len(file') = op'.before + 1 /\ Len(file') # op'.before
      BY <1>2, <1>3, <1>4, <2>1, <2>2, <2>5
    <3>3. StageInv'
      BY <1>2, <1>4, <2>1, <2>2, <2>5, <3>2 DEF StageInv
    <3>4. op.kind = "append" => materialized /\ cursor = EndAt(file, op.before)
      <4> SUFFICES ASSUME op.kind = "append" PROVE materialized /\ cursor = EndAt(file, op.before)
        OBVIOUS
      <4>1. materialized /\ file # <<>> /\ Last(file).from = cursor /\ Chain(file)
        BY <1>1, <2>1, <2>5 DEF CursorInv, FileInv
      <4>2. Len(file) \in 1..Len(file) /\ Len(file) - 1 = op.before
        BY <1>3, <1>4, <2>1, <2>5
      <4> QED BY <1>3, <4>1, <4>2 DEF Chain
    <3>5. CursorInv'
      BY <1>1, <1>2, <2>2, <3>4 DEF CursorInv
    <3> QED BY <2>4, <3>1, <3>3, <3>5
  <2>6. CASE botched'
    BY <2>4, <2>6, ForgottenKeeps
  <2> QED BY <2>5, <2>6
<1> QED BY <1>5, <1>6 DEF Sync

(* The close() after the sync. *)
LEMMA CloseKeeps == ASSUME LogInv, Close PROVE LogInv'
<1> USE DEF LogInv
<1>1. op.at = "close" /\ op.kind \in {"append", "repair"}
  BY OpFields DEF Close, TypeInv
<1>2. UNCHANGED <<linked, named, file, synced, doubt, crashes>>
  BY DEF Close, diskVars
<1>3. /\ file \in Seq(Stretch) /\ Len(file) \in Nat /\ Stored = EndAt(file, Len(file))
      /\ file # <<>> => Last(file) \in Stretch
  BY FileWords DEF TypeInv
<1>4. CASE Resolves /\ UNCHANGED faultVars
  <2>1. /\ TypeInv' /\ op' = NoOp /\ UNCHANGED <<tracked, events, faults, botched>>
        /\ op.kind = "append" => cursor' = cursor + op.n /\ acked' = cursor + op.n /\ materialized'
        /\ op.kind = "repair" => UNCHANGED <<cursor, acked, materialized>>
    BY <1>2, <1>4, ResolvedTypes DEF TypeInv, TypeOK, faultVars
  <2>2. CASE ~botched
    <3>1. linked /\ Intact(file) /\ synced = Len(file) /\ named
      BY <1>1, <2>2 DEF StageInv
    <3>2. CASE op.kind = "append"
      <4>1. file # <<>> /\ Last(file).from = cursor /\ Last(file).n = op.n
        BY <1>1, <2>2, <3>2 DEF CursorInv
      <4>2. EndAt(file, Len(file)) = cursor + op.n
        BY <1>3, <4>1 DEF Stored
      <4>3. cursor' = EndAt(file, Len(file)) /\ acked' = Kept(file, synced) /\ acked' \in Nat
        BY <1>3, <2>1, <3>1, <3>2, <4>2, IntactKept, Bounds DEF TypeInv, TypeOK
      <4>4. FileInv'
        BY <1>2, <2>2, <3>1, <4>3 DEF FileInv
      <4>5. materialized' = linked' /\ cursor' = EndAt(file', Len(file')) /\ Intact(file')
        BY <1>2, <2>1, <3>1, <3>2, <4>3 DEF TypeInv, TypeOK
      <4> QED BY <2>1, <4>4, <4>5, RefusedKeeps
    <3>3. CASE op.kind = "repair"
      <4>1. ~tracked'
        BY <2>1, <3>3 DEF TypeInv, OpInv
      <4>2. FileInv'
        BY <1>2, <2>1, <2>2, <3>3, DiskSame DEF diskVars
      <4> QED BY <2>1, <4>1, <4>2, RefusedKeeps
    <3> QED BY <1>1, <3>2, <3>3
  <2>3. CASE botched
    BY <2>1, <2>3, ForgottenKeeps
  <2> QED BY <2>2, <2>3
<1>5. CASE Fails("close") /\ Rejects
  <2>1. faults' \in 0..MaxFaults /\ botched' \in BOOLEAN /\ botched'
    BY <1>5, FailureTypes DEF TypeInv
  <2>2. TypeInv'
    BY <1>2, <1>5, <2>1, RefusedTypes DEF TypeInv, TypeOK
  <2> QED BY <2>1, <2>2, ForgottenKeeps
<1> QED BY <1>4, <1>5 DEF Close

(* Going back to what was there before the write. *)
LEMMA RollbackKeeps == ASSUME LogInv, Rollback PROVE LogInv'
<1> USE DEF LogInv
<1>1. op.at = "rollback" /\ op.kind \in {"append", "repair"}
  BY OpFields DEF Rollback, TypeInv
<1>2. UNCHANGED <<linked, named, synced, crashes>>
  BY DEF Rollback
<1>3. /\ file \in Seq(Stretch) /\ Len(file) \in Nat /\ op.before \in 0..Len(file) /\ op.before \in Nat
      /\ file # <<>> => Last(file) \in Stretch /\ Last(file) = file[Len(file)]
      /\ file = <<>> <=> Len(file) = 0
      /\ synced \in 0..op.before
  <2>1. /\ file \in Seq(Stretch) /\ Len(file) \in Nat /\ op.before \in Nat
        /\ file # <<>> => Last(file) \in Stretch /\ Last(file) = file[Len(file)]
        /\ file = <<>> <=> Len(file) = 0
    BY FileWords, OpFields DEF TypeInv
  <2>2. synced <= op.before /\ op.before <= Len(file) /\ synced \in 0..Len(file)
    BY <1>1 DEF TypeInv, OpInv, TypeOK
  <2> QED BY <2>1, <2>2
<1>4. CASE /\ file' = RolledBack
           /\ doubt' = IF Len(file) > op.before THEN {Last(file)} ELSE doubt
           /\ Goto("unsynced")
           /\ UNCHANGED <<memoryVars, acked, faultVars>>
  <2>1. UNCHANGED <<tracked, cursor, materialized, events, acked, faults, botched>>
    BY <1>4 DEF memoryVars, faultVars
  <2>2. /\ file' \in Seq(Stretch) /\ Len(file') = op.before
        /\ EndAt(file', op.before) = EndAt(file, op.before)
        /\ Kept(file', synced) = Kept(file, synced)
        /\ Chain(file) => Chain(file')
        /\ Chain(file) /\ op.before < Len(file) => Intact(file')
        /\ op.before = Len(file) => file' = file
    <3> DEFINE k == op.before
    <3>1. file' = SubSeq(file, 1, k) /\ k \in 0..Len(file) /\ k \in 0..k /\ synced \in 0..k
      BY <1>3, <1>4 DEF RolledBack
    <3> HIDE DEF k
    <3>2. /\ file' \in Seq(Stretch) /\ Len(file') = k
          /\ EndAt(file', k) = EndAt(file, k)
          /\ Kept(file', synced) = Kept(file, synced)
          /\ Chain(file) => Chain(file')
          /\ Chain(file) /\ k < Len(file) => Intact(file')
          /\ k = Len(file) => file' = file
      BY <1>3, <3>1, Shortened
    <3> QED BY <3>2 DEF k
  <2>3. op' \in Ops /\ op'.kind = op.kind /\ op'.at = "unsynced" /\ op'.n = op.n /\ op'.before = op.before
    BY <1>4, GotoFields DEF TypeInv, AppendStages
  <2>4. TypeInv'
    <3>1. OpInv'
      BY <1>1, <2>1, <2>3 DEF TypeInv, OpInv, Ops, At, AppendStages, RepairStages
    <3>2. doubt' \subseteq Stretch /\ synced' \in 0..Len(file')
      BY <1>2, <1>3, <1>4, <2>2 DEF TypeInv
    <3> QED BY <1>2, <2>1, <2>2, <3>1, <3>2, TypesAgain DEF TypeInv, TypeOK
  <2>5. CASE ~botched
    <3>1. Chain(file) /\ linked /\ (Len(file) = op.before => Intact(file))
      BY <1>1, <2>5 DEF FileInv, StageInv
    <3>2. Chain(file') /\ Intact(file')
      <4>1. CASE op.before = Len(file)
        BY <2>2, <3>1, <4>1
      <4>2. CASE op.before < Len(file)
        BY <2>2, <3>1, <4>2
      <4> QED BY <1>3, <4>1, <4>2
    <3>3. doubt' # {} => \E f \in doubt' : doubt' = {f} /\ f.from = EndAt(file', Len(file'))
      <4>1. CASE op.before = Len(file)
        <5>1. doubt' = doubt /\ file' = file
          BY <1>3, <1>4, <2>2, <4>1
        <5> QED BY <2>5, <5>1 DEF FileInv
      <4>2. CASE op.before < Len(file)
        <5>1. doubt' = {Last(file)} /\ file # <<>> /\ Len(file) \in 1..Len(file)
          BY <1>3, <1>4, <4>2
        <5>2. Len(file) = op.before \/ Len(file) = op.before + 1
          BY <1>1, <2>5 DEF StageInv
        <5>3. Len(file) - 1 = op.before
          BY <1>3, <4>2, <5>2
        <5>4. Last(file).from = EndAt(file, op.before)
          BY <1>3, <3>1, <5>1, <5>3 DEF Chain
        <5> QED BY <2>2, <5>1, <5>4
      <4> QED BY <1>3, <4>1, <4>2
    <3>4. FileInv'
      BY <1>2, <2>1, <2>2, <2>5, <3>1, <3>2, <3>3 DEF FileInv
    <3>5. StageInv'
      BY <1>2, <2>3, <3>1, <3>2 DEF StageInv
    <3>6. CursorInv'
      BY <1>1, <2>1, <2>2, <2>3, <2>5 DEF CursorInv
    <3> QED BY <2>4, <3>4, <3>5, <3>6
  <2>6. CASE botched
    BY <2>1, <2>4, <2>6, ForgottenKeeps
  <2> QED BY <2>5, <2>6
<1>5. CASE Fails("rollback") /\ Rejects /\ UNCHANGED <<file, doubt>>
  <2>1. faults' \in 0..MaxFaults /\ botched' \in BOOLEAN /\ botched'
    BY <1>5, FailureTypes DEF TypeInv
  <2>2. TypeInv'
    BY <1>2, <1>5, <2>1, RefusedTypes DEF TypeInv, TypeOK
  <2> QED BY <2>1, <2>2, ForgottenKeeps
<1> QED BY <1>4, <1>5 DEF Rollback

(* The sync of a rolled-back file. *)
LEMMA RollbackSyncKeeps == ASSUME LogInv, FsyncCommitsNames, RollbackSync PROVE LogInv'
<1> USE DEF LogInv
<1>1. op.at = "unsynced" /\ op.kind \in {"append", "repair"} /\ Rejects
  BY OpFields DEF RollbackSync, TypeInv
<1>2. UNCHANGED <<linked, file, crashes>>
  BY DEF RollbackSync
<1>3. CASE Syncs /\ UNCHANGED faultVars
  <2>1. /\ file' \in Seq(Stretch) /\ synced' \in 0..Len(file')
        /\ doubt' \subseteq Stretch /\ named' \in BOOLEAN
    BY <1>2, <1>3, SyncsTypes
  <2>2. TypeInv' /\ op' = NoOp /\ UNCHANGED <<tracked, cursor, materialized, events, acked, botched>>
    BY <1>1, <1>2, <1>3, <2>1, RefusedTypes DEF TypeInv, TypeOK, faultVars
  <2>3. CASE ~botched
    <3>1. linked /\ Intact(file)
      BY <1>1, <2>3 DEF StageInv
    <3>2. FileInv'
      BY <1>2, <1>3, <2>2, <2>3, <3>1, SyncsKeep
    <3>3. tracked => materialized /\ cursor = EndAt(file, Len(file))
      BY <1>1, <2>3 DEF CursorInv, TypeInv, OpInv
    <3>4. tracked' => materialized' = linked' /\ cursor' = EndAt(file', Len(file')) /\ Intact(file')
      BY <1>2, <2>2, <3>1, <3>3 DEF TypeInv, TypeOK
    <3> QED BY <2>2, <3>2, <3>4, RefusedKeeps
  <2>4. CASE botched
    BY <2>2, <2>4, ForgottenKeeps
  <2> QED BY <2>3, <2>4
<1>4. CASE Fails("rollback") /\ UNCHANGED <<synced, doubt, named>>
  <2>1. faults' \in 0..MaxFaults /\ botched' \in BOOLEAN /\ botched'
    BY <1>4, FailureTypes DEF TypeInv
  <2>2. TypeInv'
    BY <1>1, <1>2, <1>4, <2>1, RefusedTypes DEF TypeInv, TypeOK
  <2> QED BY <2>1, <2>2, ForgottenKeeps
<1> QED BY <1>3, <1>4 DEF RollbackSync

(* Cutting off the torn frame takes nothing that was acknowledged. *)
LEMMA TruncateKeeps == ASSUME LogInv, Truncate PROVE LogInv'
<1> USE DEF LogInv
<1>1. op.at = "truncate" /\ op.kind = "repair"
  BY DEF Truncate, At
<1>2. UNCHANGED <<linked, named, crashes>>
  BY DEF Truncate
<1>3. /\ file \in Seq(Stretch) /\ Len(file) \in Nat /\ file # <<>> /\ Len(file) \in 1..Len(file)
      /\ Last(file) \in Stretch /\ Last(file) = file[Len(file)] /\ ~Last(file).whole
      /\ Last(file).from = EndAt(file, Len(file) - 1) /\ Last(file).from + op.n <= MaxEvents
      /\ synced \in 0..Len(file) /\ Len(file) - 1 \in 0..Len(file)
  <2>1. /\ file \in Seq(Stretch) /\ Len(file) \in Nat
        /\ file = <<>> <=> Len(file) = 0
        /\ file # <<>> => Last(file) \in Stretch /\ Last(file) = file[Len(file)]
    BY FileWords DEF TypeInv
  <2>2. IsTorn /\ Last(file).from = EndAt(file, Len(file) - 1) /\ Last(file).from + op.n <= MaxEvents
    BY <1>1 DEF TypeInv, OpInv, At
  <2>3. file # <<>> /\ ~Last(file).whole
    BY <2>2 DEF IsTorn
  <2>4. Len(file) \in 1..Len(file) /\ Len(file) - 1 \in 0..Len(file)
    BY <2>1, <2>3
  <2> QED BY <2>1, <2>2, <2>3, <2>4 DEF TypeInv, TypeOK
<1>4. CASE /\ file' = Cut(file) /\ doubt' = {Last(file)}
           /\ synced' = IF synced > Len(file) - 1 THEN Len(file) - 1 ELSE synced
           /\ Goto("truncated")
           /\ UNCHANGED <<memoryVars, acked, faultVars>>
  <2>1. UNCHANGED <<tracked, cursor, materialized, events, acked, faults, botched>>
    BY <1>4 DEF memoryVars, faultVars
  <2> DEFINE k == Len(file) - 1
  <2>2. file' = SubSeq(file, 1, k) /\ k \in 0..Len(file) /\ k \in Nat /\ k < Len(file) /\ k \in 0..k
    BY <1>3, <1>4 DEF Cut
  <2>3. synced' \in 0..k /\ (synced' = synced \/ (synced = Len(file) /\ synced' = k))
    BY <1>3, <1>4, <2>2
  <2>4. Last(file).from = EndAt(file, k) /\ Last(file) = file[k + 1] /\ k + 1 = Len(file)
    BY <1>3, <2>2
  <2> HIDE DEF k
  <2>5. /\ file' \in Seq(Stretch) /\ Len(file') = k
        /\ EndAt(file', k) = EndAt(file, k)
        /\ Kept(file', synced') = Kept(file, synced')
        /\ Chain(file) => Chain(file') /\ Intact(file')
    BY <1>3, <2>2, <2>3, Shortened
  <2>6. op' \in Ops /\ op'.kind = "repair" /\ op'.at = "truncated" /\ op'.n = op.n
    BY <1>1, <1>4, GotoFields DEF TypeInv, RepairStages
  <2>7. Stored' = EndAt(file, k)
    BY <2>5, FileWords DEF Stored, EndAt, Last
  <2>8. TypeInv'
    <3>1. Stored' + op'.n <= MaxEvents
      BY <1>3, <2>4, <2>6, <2>7
    <3>2. OpInv'
      BY <1>1, <2>1, <2>6, <3>1 DEF TypeInv, OpInv, Ops, At, AppendStages, RepairStages
    <3>3. doubt' \subseteq Stretch /\ synced' \in 0..Len(file')
      BY <1>3, <1>4, <2>3, <2>5
    <3> QED BY <1>2, <2>1, <2>5, <3>2, <3>3, TypesAgain DEF TypeInv, TypeOK
  <2>9. CASE ~botched
    <3>1. linked /\ Chain(file') /\ Intact(file') /\ acked <= Kept(file, synced)
      BY <1>1, <2>5, <2>9 DEF StageInv, FileInv
    <3>2. Kept(file, synced') = Kept(file, synced)
      <4>1. CASE synced' = synced
        BY <4>1
      <4>2. CASE synced = Len(file) /\ synced' = k
        <5>1. Kept(file, synced) = Last(file).from
          BY <1>3, <4>2 DEF Kept
        <5>2. Kept(file', k) = EndAt(file', k)
          BY <2>5, <3>1, IntactKept
        <5> QED BY <2>4, <2>5, <4>2, <5>1, <5>2
      <4> QED BY <2>3, <4>1, <4>2
    <3>3. doubt' = {Last(file)} /\ Last(file).from = EndAt(file', Len(file'))
      BY <1>4, <2>4, <2>5
    <3>4. FileInv'
      BY <1>2, <2>1, <2>5, <2>9, <3>1, <3>2, <3>3 DEF FileInv
    <3>5. StageInv' /\ CursorInv'
      BY <1>2, <2>6, <3>1 DEF StageInv, CursorInv
    <3> QED BY <2>8, <3>4, <3>5
  <2>10. CASE botched
    BY <2>1, <2>8, <2>10, ForgottenKeeps
  <2> QED BY <2>9, <2>10
<1>5. CASE Fails("write") /\ Rejects /\ UNCHANGED <<file, doubt, synced>>
  <2>1. faults' \in 0..MaxFaults /\ botched' \in BOOLEAN /\ (~botched' => ~botched)
    BY <1>5, FailureTypes DEF TypeInv
  <2>2. TypeInv' /\ op' = NoOp /\ UNCHANGED <<tracked, acked>>
    BY <1>2, <1>5, <2>1, RefusedTypes DEF TypeInv, TypeOK
  <2>3. ~tracked'
    BY <1>1, <2>2 DEF TypeInv, OpInv
  <2>4. ~botched' => FileInv'
    BY <1>2, <1>5, <2>1, <2>2, DiskSame DEF diskVars
  <2> QED BY <2>2, <2>3, <2>4, RefusedKeeps, ForgottenKeeps
<1> QED BY <1>4, <1>5 DEF Truncate

(* The sync of a repaired file. *)
LEMMA TruncateSyncKeeps == ASSUME LogInv, FsyncCommitsNames, TruncateSync PROVE LogInv'
<1> USE DEF LogInv
<1>1. op.at = "truncated" /\ op.kind = "repair" /\ ~tracked
  BY DEF TruncateSync, At, TypeInv, OpInv
<1>2. UNCHANGED <<linked, file, crashes>>
  BY DEF TruncateSync
<1>3. CASE /\ Syncs /\ UNCHANGED faultVars
           /\ \/ op.n > 0 /\ Goto("write") /\ UNCHANGED <<memoryVars, acked>>
              \/ op.n = 0 /\ Resolves
  <2>1. /\ file' \in Seq(Stretch) /\ synced' \in 0..Len(file')
        /\ doubt' \subseteq Stretch /\ named' \in BOOLEAN
    BY <1>2, <1>3, SyncsTypes
  <2>2. UNCHANGED <<faults, botched>>
    BY <1>3 DEF faultVars
  <2>3. ~botched => linked /\ Intact(file)
    BY <1>1 DEF StageInv
  <2>4. CASE Goto("write") /\ UNCHANGED <<memoryVars, acked>>
    <3>1. UNCHANGED <<tracked, cursor, materialized, events, acked>>
      BY <2>4 DEF memoryVars
    <3>2. op' \in Ops /\ op'.kind = "repair" /\ op'.at = "write" /\ op'.n = op.n
      BY <1>1, <2>4, GotoFields DEF TypeInv, AppendStages
    <3>3. Stored' + op'.n <= MaxEvents
      BY <1>1, <1>2, <3>2 DEF TypeInv, OpInv, At, Stored
    <3>4. OpInv'
      BY <1>1, <3>1, <3>2, <3>3 DEF TypeInv, OpInv, Ops, At, AppendStages, RepairStages
    <3>5. TypeInv'
      BY <1>2, <2>1, <2>2, <3>1, <3>4, TypesAgain DEF TypeInv, TypeOK
    <3>6. CASE ~botched
      <4>1. FileInv'
        BY <1>2, <1>3, <2>3, <3>1, <3>6, SyncsKeep
      <4>2. StageInv' /\ CursorInv'
        BY <1>2, <2>3, <3>2, <3>6 DEF StageInv, CursorInv
      <4> QED BY <3>5, <4>1, <4>2
    <3>7. CASE botched
      BY <2>2, <3>5, <3>7, ForgottenKeeps
    <3> QED BY <3>6, <3>7
  <2>5. CASE Resolves
    <3>1. TypeInv' /\ op' = NoOp /\ UNCHANGED <<tracked, acked>>
      BY <1>1, <1>2, <2>1, <2>2, <2>5, ResolvedTypes DEF TypeInv, TypeOK
    <3>2. ~botched => FileInv'
      BY <1>2, <1>3, <2>3, <3>1, SyncsKeep
    <3> QED BY <1>1, <2>2, <3>1, <3>2, RefusedKeeps, ForgottenKeeps
  <2> QED BY <1>3, <2>4, <2>5
<1>4. CASE Fails("sync") /\ Rejects /\ UNCHANGED <<synced, doubt, named>>
  <2>1. faults' \in 0..MaxFaults /\ botched' \in BOOLEAN /\ (~botched' => ~botched)
    BY <1>4, FailureTypes DEF TypeInv
  <2>2. TypeInv' /\ op' = NoOp /\ UNCHANGED <<tracked, acked>>
    BY <1>2, <1>4, <2>1, RefusedTypes DEF TypeInv, TypeOK
  <2>3. ~botched' => FileInv'
    BY <1>2, <1>4, <2>1, <2>2, DiskSame DEF diskVars
  <2> QED BY <1>1, <2>2, <2>3, RefusedKeeps, ForgottenKeeps
<1> QED BY <1>3, <1>4 DEF TruncateSync

(* Memory is gone, and with a power loss what was not synced.               *)
LEMMA CrashKeeps == ASSUME LogInv, ProcessDies \/ PowerFails PROVE LogInv'
<1> USE DEF LogInv
<1>1. /\ op' = NoOp /\ tracked' = FALSE /\ cursor' = 0 /\ materialized' = FALSE /\ events' = 0
      /\ UNCHANGED <<acked, faults, botched>> /\ crashes < MaxCrashes /\ crashes' = crashes + 1
  BY DEF ProcessDies, PowerFails, Forgets, faultVars
<1>2. ASSUME linked' \in BOOLEAN, named' \in BOOLEAN, file' \in Seq(Stretch),
             synced' \in 0..Len(file'), doubt' \subseteq Stretch, ~botched => FileInv'
      PROVE  LogInv'
  <2>1. TypeInv'
    <3>1. OpInv' /\ cursor' \in Nat /\ events' \in 0..MaxEvents /\ cursor' <= events'
      BY <1>1, OpEnds, Bounds
    <3>2. crashes' \in 0..MaxCrashes
      BY <1>1, Bounds DEF TypeInv, TypeOK
    <3> QED BY <1>1, <1>2, <3>1, <3>2, TypesAgain DEF TypeInv, TypeOK
  <2> QED BY <1>1, <1>2, <2>1, RefusedKeeps, ForgottenKeeps
<1>3. CASE ProcessDies
  <2>1. UNCHANGED <<linked, named, file, synced, doubt>>
    BY <1>3 DEF ProcessDies, diskVars
  <2>2. ~botched => FileInv'
    BY <1>1, <2>1, DiskSame DEF diskVars
  <2> QED BY <1>2, <2>1, <2>2 DEF TypeInv, TypeOK
<1>4. CASE PowerFails
  <2>1. synced' = Len(file') /\ doubt' = {}
    BY <1>4 DEF PowerFails
  <2>2. CASE linked /\ file' \in Survivors /\ linked' = TRUE /\ named' = TRUE
    <3>1. file' \in Seq(Stretch) /\ (FileInv => Chain(file') /\ acked <= Kept(file', Len(file')))
      BY <2>2, SurvivorsKeep, Bounds DEF TypeInv, TypeOK
    <3>2. Len(file') \in 0..Len(file')
      BY <3>1
    <3>3. ~botched => FileInv'
      BY <1>1, <2>1, <2>2, <3>1 DEF FileInv
    <3> QED BY <1>2, <2>1, <2>2, <3>1, <3>2, <3>3
  <2>3. CASE ~named /\ file' = <<>> /\ linked' = FALSE /\ named' = FALSE
    <3>1. file' \in Seq(Stretch) /\ synced' = 0 /\ Chain(file') /\ Kept(file', 0) = 0 /\ synced' \in 0..Len(file')
      BY <2>1, <2>3, EmptyChain
    <3>2. ~botched => FileInv'
      BY <1>1, <2>1, <2>3, <3>1 DEF FileInv
    <3> QED BY <1>2, <2>1, <2>3, <3>1, <3>2
  <2> QED BY <1>4, <2>2, <2>3 DEF PowerFails
<1> QED BY <1>3, <1>4

-----------------------------------------------------------------------------
(* Theorems *)

(* The invariant holds at first. *)
LEMMA InitialLog == Init => LogInv
<1> SUFFICES ASSUME Init PROVE LogInv
  OBVIOUS
<1>1. /\ ~linked /\ ~named /\ file = <<>> /\ synced = 0 /\ doubt = {} /\ tracked = FALSE /\ cursor = 0
      /\ linked = FALSE /\ named = FALSE /\ botched = FALSE
      /\ materialized = FALSE /\ events = 0 /\ acked = 0 /\ op = NoOp /\ crashes = 0 /\ faults = 0
  BY DEF Init
<1>2. file \in Seq(Stretch) /\ Len(file) = 0 /\ file \in Seq(Frame)
  BY <1>1
<1>3. op.kind = "none" /\ op.at = "none" /\ op.n = 0 /\ op.before = 0
      /\ op = [kind |-> "none", at |-> "none", n |-> 0, before |-> 0] /\ 0 \in 0..MaxEvents
  BY <1>1, Bounds DEF NoOp
<1>4. TypeInv
  <2>1. OpInv
    BY <1>1, <1>3 DEF OpInv, At
  <2>2. TypeOK
    <3>1. /\ 0 \in 0..MaxEvents /\ 0 \in 0..MaxCrashes /\ 0 \in 0..MaxFaults
          /\ synced \in 0..Len(file) /\ doubt \subseteq Frame
      BY <1>1, <1>2, Bounds
    <3> QED BY <1>1, <1>2, <1>3, <3>1 DEF TypeOK
  <2> QED BY <1>1, <1>2, <2>1, <2>2 DEF TypeInv
<1>5. FileInv
  BY <1>1, EmptyChain DEF FileInv
<1>6. StageInv /\ CursorInv
  BY <1>1, <1>3 DEF StageInv, CursorInv
<1> QED BY <1>4, <1>5, <1>6 DEF LogInv

(* Every step keeps it. *)
LEMMA LogStep == FsyncCommitsNames /\ LogInv /\ [Next]_vars => LogInv'
<1> SUFFICES ASSUME FsyncCommitsNames, LogInv, [Next]_vars PROVE LogInv'
  OBVIOUS
<1>1. CASE Create
  BY <1>1, CreateKeeps
<1>2. CASE Log
  BY <1>2, LogKeeps
<1>3. CASE Load
  BY <1>3, LoadKeeps
<1>4. CASE AppendBatch
  BY <1>4, AppendBatchKeeps
<1>5. CASE WriteTemp
  BY <1>5, WriteTempKeeps
<1>6. CASE Link
  BY <1>6, LinkKeeps
<1>7. CASE SyncNames
  BY <1>7, SyncNamesKeeps
<1>8. CASE Write
  BY <1>8, WriteKeeps
<1>9. CASE Sync
  BY <1>9, SyncKeeps
<1>10. CASE Close
  BY <1>10, CloseKeeps
<1>11. CASE Rollback
  BY <1>11, RollbackKeeps
<1>12. CASE RollbackSync
  BY <1>12, RollbackSyncKeeps
<1>13. CASE Truncate
  BY <1>13, TruncateKeeps
<1>14. CASE TruncateSync
  BY <1>14, TruncateSyncKeeps
<1>15. CASE ProcessDies \/ PowerFails
  BY <1>15, CrashKeeps
<1>16. CASE UNCHANGED vars
  <2>1. UNCHANGED <<linked, named, file, synced, doubt, tracked, cursor, materialized, events, op, acked, crashes, faults, botched>>
    BY <1>16 DEF vars, diskVars, memoryVars, faultVars
  <2>2. TypeInv'
    BY <2>1 DEF LogInv, TypeInv, TypeOK, OpInv, At, Stored, IsTorn
  <2>3. FileInv /\ StageInv /\ CursorInv => FileInv' /\ StageInv' /\ CursorInv'
    BY <2>1 DEF FileInv, StageInv, CursorInv
  <2> QED BY <2>1, <2>2, <2>3 DEF LogInv
<1> QED BY <1>1, <1>2, <1>3, <1>4, <1>5, <1>6, <1>7, <1>8, <1>9, <1>10, <1>11, <1>12, <1>13, <1>14, <1>15, <1>16 DEF Next, Step

(* The inductive invariant of the log file: frames chain up, what may come  *)
(* back after a power loss continues them, what was acknowledged lies in    *)
(* frames that nothing takes away, and every stage of an append or a repair *)
(* knows the whole frames it can return to.                                 *)
THEOREM LogIsConsistent == ASSUME FsyncCommitsNames PROVE Spec => []LogInv
<1>1. [](FsyncCommitsNames)
  BY PTL
<1> QED BY InitialLog, LogStep, <1>1, PTL DEF Spec

(* File, writer and session keep their types, also after a failed close,    *)
(* rollback or directory sync, where nothing else is promised.              *)
THEOREM Types == ASSUME FsyncCommitsNames PROVE Spec => []TypeOK
<1>1. LogInv => TypeOK
  BY DEF LogInv, TypeInv
<1> QED BY <1>1, LogIsConsistent, PTL

(* An append that resolved is never lost: for any number of events, crashes *)
(* and failing writes and syncs, at whatever step they strike.              *)
THEOREM AcknowledgedSurvives == ASSUME FsyncCommitsNames PROVE Spec => []AckedSurvives
<1>1. LogInv => AckedSurvives
  <2> SUFFICES ASSUME LogInv, acked > 0, ~botched
               PROVE  linked /\ Readable /\ Stored >= acked
    BY DEF AckedSurvives
  <2>1. /\ file \in Seq(Stretch) /\ Len(file) \in 0..Len(file) /\ synced \in 0..Len(file)
        /\ Stored = EndAt(file, Len(file)) /\ (Chain(file) => Readable) /\ acked \in Nat
    BY FileWords, Bounds DEF LogInv, TypeInv, TypeOK
  <2>2. FileInv
    BY DEF LogInv
  <2>3. named /\ linked /\ Readable
    BY <2>1, <2>2 DEF FileInv
  <2>4. acked <= Kept(file, synced) /\ Kept(file, synced) <= Kept(file, Len(file))
    BY <2>1, <2>2, KeptGrows DEF FileInv
  <2>5. /\ Kept(file, synced) \in Nat /\ Kept(file, Len(file)) \in Nat
        /\ Kept(file, Len(file)) <= EndAt(file, Len(file)) /\ EndAt(file, Len(file)) \in Nat
    BY <2>1, EndBounds
  <2> QED BY <2>1, <2>3, <2>4, <2>5
<1> QED BY <1>1, LogIsConsistent, PTL

(* The file always loads, and between operations the coordinator's cursor   *)
(* and materialized flag are those of the file.                             *)
THEOREM CursorStaysStored == ASSUME FsyncCommitsNames PROVE Spec => []CursorIsStored
<1>1. LogInv => CursorIsStored
  <2> SUFFICES ASSUME LogInv, ~botched
               PROVE  /\ Readable
                      /\ tracked /\ op = NoOp => materialized = linked /\ cursor = Stored /\ ~IsTorn
    BY DEF CursorIsStored
  <2>1. FileInv /\ CursorInv
    BY DEF LogInv
  <2> QED BY <2>1, FileWords DEF LogInv, TypeInv, FileInv, CursorInv, NoOp
<1> QED BY <1>1, LogIsConsistent, PTL
=============================================================================
