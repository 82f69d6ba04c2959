------------------------------ MODULE Rewind ------------------------------
(***************************************************************************)
(* Rewinding a live session while its write controller works:              *)
(* truncateSession() of packages/tui/tui/src/ui/app.ts first truncates the *)
(* stored log (truncateStored() of the persistence coordinator), then the  *)
(* session in memory (Session.truncate()).  truncateStored() runs outside  *)
(* the coordinator's serialize() chain and does not touch the controller.  *)
(***************************************************************************)
EXTENDS WriteBehind

VARIABLES
    rewind,   \* "none", "deleting" (backend.deleteFrom), "stored", "done"
    cut       \* length of the log that is kept

rewindVars == <<rewind, cut>>

RewindInit == Init /\ rewind = "none" /\ cut = 0

(* The user picks a position of the current log; nothing is being flushed. *)
TruncateStored ==
    /\ rewind = "none" /\ init = "ok"
    /\ cut' \in 1..admitted
    /\ rewind' = "deleting"
    /\ UNCHANGED vars

(* deleteFrom() keeps the stored events below the cut; the cursor of the    *)
(* session's state then names the cut, whatever was stored.                 *)
StoredTruncated ==
    /\ rewind = "deleting"
    /\ store' = SubSeq(store, 1, IF cut < Len(store) THEN cut ELSE Len(store))
    /\ cursor' = cut
    /\ rewind' = "stored"
    /\ UNCHANGED <<admitted, seed, init, pending, timerVars, writeVars,
                   continuation, barrier, flagVars, callVars, cut>>

SessionTruncate ==
    /\ rewind = "stored"
    /\ admitted' = IF cut <= admitted THEN cut ELSE admitted
    /\ rewind' = "done"
    /\ UNCHANGED <<seed, init, pending, timerVars, writeVars, continuation,
                   barrier, flagVars, storeVars, callVars, cut>>

(* The session stays quiet while it is rewound and afterwards. *)
RewindNext ==
    \/ TruncateStored \/ StoredTruncated \/ SessionTruncate
    \/ /\ \/ InitSettles \/ Deadline \/ WriteSettles \/ Jobs
          \/ rewind = "none" /\ Enqueue
          \/ \E c \in Callers : FlushCall(c) \/ FlushReturns(c)
       /\ UNCHANGED rewindVars

RewindSpec == RewindInit /\ [][RewindNext]_<<vars, rewindVars>>

(* truncateStored(): after a rewind the durable log holds nothing past the  *)
(* cut, so a reload does not bring rewound events back (the contract test   *)
(* of the coordinator says so in its title).                                *)
RewoundStaysRewound == rewind = "done" => Len(store) <= admitted

=============================================================================
