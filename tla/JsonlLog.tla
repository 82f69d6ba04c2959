----------------------------- MODULE JsonlLog -----------------------------
(***************************************************************************)
(* The file of one session and the writer that appends to it:              *)
(* packages/session/session-persistence-jsonl/src/index.ts under           *)
(* createCore, appendCore and commitPrepared of the coordinator.           *)
(*                                                                         *)
(* A file is a sequence of frames, one per durable batch.  A frame is the  *)
(* events from, from + 1, ..., from + n - 1; a torn one ends inside its    *)
(* last bytes and still yields n complete records.  Each action is what    *)
(* runs between two awaits of file operations.  The process may die        *)
(* anywhere, which keeps the file as it is, and the machine may lose       *)
(* power, which keeps what was synced and any prefix of the rest.          *)
(***************************************************************************)
EXTENDS Naturals, Sequences

CONSTANTS
    Faults,             \* operations that may fail: "write", "sync", "close", "rollback", "names"
    FsyncCommitsNames,  \* of the file system: syncing a file makes its name durable
    MaxEvents, MaxCrashes, MaxFaults   \* bounds

ASSUME FaultsAssumption == Faults \subseteq {"write", "sync", "close", "rollback", "names"}
ASSUME NamesAssumption == FsyncCommitsNames \in BOOLEAN
ASSUME BoundAssumption == MaxEvents \in Nat /\ MaxCrashes \in Nat /\ MaxFaults \in Nat

VARIABLES
    linked,     \* the log has a name in its directory
    named,      \* which survives a power loss
    file,       \* its frames
    synced,     \* how many of them survive a power loss
    doubt,      \* a frame that was cut off and may come back
    tracked,    \* SessionState of the coordinator: exists,
    cursor,     \*   the next seq to be stored,
    materialized,
    events,     \* length of the live Session
    op,         \* the append or repair under way
    acked,      \* events whose append resolved
    crashes, faults,
    botched     \* a close, a rollback or the sync of a directory failed

diskVars   == <<linked, named, file, synced, doubt>>
memoryVars == <<tracked, cursor, materialized, events>>
faultVars  == <<faults, botched>>
vars == <<diskVars, memoryVars, op, acked, crashes, faultVars>>

NoOp == [kind |-> "none", at |-> "none", n |-> 0, before |-> 0]
Whole(from, n) == [from |-> from, n |-> n, whole |-> TRUE]

Init ==
    /\ linked = FALSE /\ named = FALSE /\ file = <<>> /\ synced = 0 /\ doubt = {}
    /\ tracked = FALSE /\ cursor = 0 /\ materialized = FALSE /\ events = 0
    /\ op = NoOp /\ acked = 0 /\ crashes = 0 /\ faults = 0 /\ botched = FALSE

-----------------------------------------------------------------------------
(* Reading: what the complete frames hold, and the torn one at the end *)

Last(s) == s[Len(s)]
Cut(s) == SubSeq(s, 1, Len(s) - 1)
IsTorn == file # <<>> /\ ~Last(file).whole
Stored == IF file = <<>> THEN 0 ELSE Last(file).from + Last(file).n

(* A file that loads: contiguous, and torn at most in its last frame. *)
Readable ==
    \A i \in 1..Len(file) :
        /\ file[i].from = IF i = 1 THEN 0 ELSE file[i - 1].from + file[i - 1].n
        /\ i < Len(file) => file[i].whole

(* What a failed write or a power loss may leave of a frame. *)
Pieces(f) == {[f EXCEPT !.n = k, !.whole = FALSE] : k \in 0..f.n}

-----------------------------------------------------------------------------
(* The session *)

(* createCore(): only for an id without a log; nothing is written. *)
Create ==
    /\ ~tracked /\ op = NoOp /\ ~linked
    /\ tracked' = TRUE /\ cursor' = 0 /\ materialized' = FALSE /\ events' = 0
    /\ UNCHANGED <<diskVars, op, acked, crashes, faultVars>>

Log ==
    /\ tracked /\ events < MaxEvents
    /\ events' = events + 1
    /\ UNCHANGED <<diskVars, tracked, cursor, materialized, op, acked, crashes, faultVars>>

(* prepareCore() and commitPrepared(), of a log that is not corrupt: a torn *)
(* tail or an open turn is repaired first and the log then read again.      *)
(* Whether the turn is open is left to chance: closers is one event or none. *)
Load ==
    /\ ~tracked /\ op = NoOp /\ linked /\ Readable
    /\ \E closers \in 0..1 :
        \/ /\ ~IsTorn /\ closers = 0
           /\ tracked' = TRUE /\ materialized' = TRUE
           /\ cursor' = Stored /\ events' = Stored
           /\ UNCHANGED op
        \/ /\ IsTorn \/ closers > 0
           /\ Stored + closers <= MaxEvents
           /\ op' = [kind |-> "repair", at |-> IF IsTorn THEN "truncate" ELSE "write",
                     n |-> (IF IsTorn THEN Last(file).n ELSE 0) + closers, before |-> 0]
           /\ UNCHANGED memoryVars
    /\ UNCHANGED <<diskVars, acked, crashes, faultVars>>

(* appendCore(): any number of the events that continue the log. *)
AppendBatch ==
    /\ tracked /\ op = NoOp
    /\ \E n \in 1..(events - cursor) :
          op' = [kind |-> "append", at |-> IF materialized THEN "write" ELSE "create",
                 n |-> n, before |-> 0]
    /\ UNCHANGED <<diskVars, memoryVars, acked, crashes, faultVars>>

-----------------------------------------------------------------------------
(* How an operation goes on and ends *)

At(k, at) == op.kind = k /\ op.at = at
Goto(at) == op' = [op EXCEPT !.at = at]

Fails(what) ==
    /\ what \in Faults /\ faults < MaxFaults /\ faults' = faults + 1
    /\ botched' = (botched \/ what \in {"close", "rollback", "names"})

(* The caller keeps the batch and tries again: the cursor stays. *)
Rejects ==
    /\ op' = NoOp
    /\ UNCHANGED <<memoryVars, acked>>

ForgetsFile == materialized                                    \* mutant
HasFile == TRUE

Resolves ==
    /\ op' = NoOp
    /\ \/ /\ op.kind = "append"
          /\ cursor' = cursor + op.n /\ acked' = cursor + op.n
          /\ materialized' = HasFile
       \/ /\ op.kind = "repair"
          /\ UNCHANGED <<cursor, acked, materialized>>
    /\ UNCHANGED <<tracked, events>>

-----------------------------------------------------------------------------
(* materialize(): header and first batch in a synced temporary file *)

WriteTemp ==
    /\ At("append", "create")
    /\ \/ ~linked /\ Goto("link") /\ UNCHANGED <<cursor, tracked, materialized, events, acked, faultVars>>
       \/ linked /\ Rejects /\ UNCHANGED faultVars
       \/ ~linked /\ (Fails("write") \/ Fails("sync")) /\ Rejects
    /\ UNCHANGED <<diskVars, crashes>>

Link ==
    /\ At("append", "link")
    /\ linked' = TRUE /\ named' = FALSE
    /\ file' = <<Whole(cursor, op.n)>> /\ synced' = 1
    /\ Goto("names")
    /\ UNCHANGED <<doubt, memoryVars, acked, crashes, faultVars>>

SyncNames ==
    /\ At("append", "names")
    /\ \/ named' = TRUE /\ Resolves /\ UNCHANGED faultVars
       \/ Fails("names") /\ Rejects /\ UNCHANGED named
    /\ UNCHANGED <<linked, file, synced, doubt, crashes>>

-----------------------------------------------------------------------------
(* appendLines(): stat, write, sync, close, or back to the old size *)

Batch == Whole(IF op.kind = "append" THEN cursor ELSE Stored, op.n)

Write ==
    /\ op.at = "write"
    /\ \/ /\ file' = Append(file, Batch) /\ doubt' = {}
          /\ op' = [op EXCEPT !.at = "sync", !.before = Len(file)]
          /\ UNCHANGED faultVars
       \/ /\ Fails("write")
          /\ op' = [op EXCEPT !.at = "rollback", !.before = Len(file)]
          /\ \/ UNCHANGED <<file, doubt>>
             \/ \E f \in Pieces(Batch) : file' = Append(file, f) /\ doubt' = {}
    /\ UNCHANGED <<linked, named, synced, memoryVars, acked, crashes>>

(* A successful sync of the file. *)
NothingSynced == synced                                        \* mutant
AllSynced == Len(file)

Syncs ==
    /\ synced' = AllSynced /\ doubt' = {}
    /\ named' = (named \/ FsyncCommitsNames)

Sync ==
    /\ op.at = "sync"
    /\ \/ Syncs /\ Goto("close") /\ UNCHANGED faultVars
       \/ Fails("sync") /\ Goto("rollback") /\ UNCHANGED <<synced, doubt, named>>
    /\ UNCHANGED <<linked, file, memoryVars, acked, crashes>>

Close ==
    /\ op.at = "close"
    /\ \/ Resolves /\ UNCHANGED faultVars
       \/ Fails("close") /\ Rejects
    /\ UNCHANGED <<diskVars, crashes>>

(* rollbackAppend(): truncate to the size before the write, then sync. *)
KeepsBytes == file                                             \* mutant
RolledBack == SubSeq(file, 1, op.before)

Rollback ==
    /\ op.at = "rollback"
    /\ \/ /\ file' = RolledBack
          /\ doubt' = IF Len(file) > op.before THEN {Last(file)} ELSE doubt
          /\ Goto("unsynced")
          /\ UNCHANGED <<memoryVars, acked, faultVars>>
       \/ /\ Fails("rollback") /\ Rejects
          /\ UNCHANGED <<file, doubt>>
    /\ UNCHANGED <<linked, named, synced, crashes>>

RollbackSync ==
    /\ op.at = "unsynced"
    /\ \/ Syncs /\ UNCHANGED faultVars
       \/ Fails("rollback") /\ UNCHANGED <<synced, doubt, named>>
    /\ Rejects
    /\ UNCHANGED <<linked, file, crashes>>

-----------------------------------------------------------------------------
(* commitRepair(): cut the torn frame, sync, write its records again *)

Truncate ==
    /\ At("repair", "truncate")
    /\ \/ /\ file' = Cut(file) /\ doubt' = {Last(file)}
          /\ synced' = IF synced > Len(file) - 1 THEN Len(file) - 1 ELSE synced
          /\ Goto("truncated")
          /\ UNCHANGED <<memoryVars, acked, faultVars>>
       \/ Fails("write") /\ Rejects /\ UNCHANGED <<file, doubt, synced>>
    /\ UNCHANGED <<linked, named, crashes>>

TruncateSync ==
    /\ At("repair", "truncated")
    /\ \/ /\ Syncs /\ UNCHANGED faultVars
          /\ \/ op.n > 0 /\ Goto("write") /\ UNCHANGED <<memoryVars, acked>>
             \/ op.n = 0 /\ Resolves
       \/ Fails("sync") /\ Rejects /\ UNCHANGED <<synced, doubt, named>>
    /\ UNCHANGED <<linked, file, crashes>>

-----------------------------------------------------------------------------
(* Crashes: memory is gone *)

Forgets ==
    /\ crashes < MaxCrashes /\ crashes' = crashes + 1
    /\ op' = NoOp
    /\ tracked' = FALSE /\ cursor' = 0 /\ materialized' = FALSE /\ events' = 0
    /\ UNCHANGED <<acked, faultVars>>

ProcessDies == Forgets /\ UNCHANGED diskVars

(* Of what was not synced, the disk has any prefix; a frame that was cut    *)
(* off may be there again.                                                  *)
OnDisk == file \o (IF doubt = {} THEN <<>> ELSE <<CHOOSE f \in doubt : TRUE>>)

Survivors ==
    {SubSeq(OnDisk, 1, k) : k \in synced..Len(OnDisk)} \cup
    UNION {{Append(SubSeq(OnDisk, 1, k), f) : f \in Pieces(OnDisk[k + 1])} :
             k \in synced..(Len(OnDisk) - 1)}

PowerFails ==
    /\ Forgets
    /\ \/ /\ linked /\ file' \in Survivors
          /\ linked' = TRUE /\ named' = TRUE
       \/ /\ ~named
          /\ file' = <<>> /\ linked' = FALSE /\ named' = FALSE
    /\ synced' = Len(file') /\ doubt' = {}

-----------------------------------------------------------------------------
Step ==
    \/ AppendBatch \/ WriteTemp \/ Link \/ SyncNames
    \/ Write \/ Sync \/ Close \/ Rollback \/ RollbackSync
    \/ Truncate \/ TruncateSync

Next == Create \/ Log \/ Load \/ Step \/ ProcessDies \/ PowerFails

Spec == Init /\ [][Next]_vars

(* File operations settle, and a batch that was refused is tried again.     *)
(* Nobody must log, load or create.                                         *)
FairSpec == Spec /\ WF_vars(Step)
-----------------------------------------------------------------------------
(* Properties *)

Frame == [from : 0..MaxEvents, n : 0..MaxEvents, whole : BOOLEAN]

(* Type invariant of the file, the writer and the session. *)
TypeOK ==
    /\ linked \in BOOLEAN /\ named \in BOOLEAN
    /\ file \in Seq(Frame) /\ synced \in 0..Len(file) /\ doubt \subseteq Frame
    /\ tracked \in BOOLEAN /\ materialized \in BOOLEAN
    /\ cursor \in 0..MaxEvents /\ events \in 0..MaxEvents /\ acked \in 0..MaxEvents
    /\ op.kind \in {"none", "append", "repair"}
    /\ crashes \in 0..MaxCrashes /\ faults \in 0..MaxFaults /\ botched \in BOOLEAN

(* README of the backend, "Durability": an append that resolved is never    *)
(* lost again, by a crash at any step, by a failed append that is rolled    *)
(* back, or by the repair of the tail that a crash tore.                    *)
AckedSurvives == acked > 0 /\ ~botched => linked /\ Readable /\ Stored >= acked

(* "Leaving partial bytes would create duplicate sequence numbers": what is *)
(* on disk loads, whatever was retried, rolled back or cut off; and between *)
(* operations the cursor and the materialized flag of the coordinator are   *)
(* those of the file, also after a rejected append.                         *)
CursorIsStored ==
    ~botched =>
        /\ Readable
        /\ tracked /\ op = NoOp => materialized = linked /\ cursor = Stored /\ ~IsTorn

(* An append that failed is made good: unless the process dies, every event *)
(* of the session is stored once the faults are over.                       *)
EverythingStored == []<>(tracked /\ ~botched => cursor = events)

=============================================================================
