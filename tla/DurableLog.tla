---------------------------- MODULE DurableLog ----------------------------
(***************************************************************************)
(* What persistence promises about one live session: the durable log is    *)
(* always a prefix of the session's log and only ever grows.  An event is  *)
(* identified by its seq, which is its position in the log.                *)
(***************************************************************************)
EXTENDS Naturals, Sequences

VARIABLES log, durable

(* A resumed session starts from the prefix that an earlier run stored. *)
Init ==
    /\ log = [i \in 1..Len(log) |-> i - 1]
    /\ Len(durable) <= Len(log) /\ durable = SubSeq(log, 1, Len(durable))

Admit ==
    /\ log' = Append(log, Len(log))
    /\ UNCHANGED durable

Persist ==
    /\ \E n \in Len(durable)+1 .. Len(log) : durable' = SubSeq(log, 1, n)
    /\ UNCHANGED log

Next == Admit \/ Persist

Spec == Init /\ [][Next]_<<log, durable>>

=============================================================================
