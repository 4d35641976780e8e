---------------------------- MODULE RequestIntake ----------------------------
(***************************************************************************)
(* What the worker promises to whoever posts requests: an at-least-once    *)
(* queue.  A request is settled at some point and stays settled, and the   *)
(* acknowledged offset of a partition only ever covers settled requests.   *)
(* It may move backwards (a late commit), never over an unsettled request. *)
(***************************************************************************)
EXTENDS Naturals

CONSTANTS Partitions, LogLen, Malformed

Messages == Partitions \X (0 .. LogLen - 1)

VARIABLES settled, acked

Init ==
  /\ settled = Malformed
  /\ acked = [p \in Partitions |-> 0]

Settle(m) ==
  /\ settled' = settled \union {m}
  /\ UNCHANGED acked

Acknowledge(p, n) ==
  /\ \A o \in 0 .. LogLen - 1 : o < n => <<p, o>> \in settled
  /\ acked' = [acked EXCEPT ![p] = n]
  /\ UNCHANGED settled

Next ==
  \/ \E m \in Messages : Settle(m)
  \/ \E p \in Partitions, n \in 0 .. LogLen : Acknowledge(p, n)

Spec == Init /\ [][Next]_<<settled, acked>>
=============================================================================
