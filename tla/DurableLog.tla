------------------------------ MODULE DurableLog ------------------------------
(***************************************************************************)
(* What an Event Log promises, with no file, write or sync in sight: facts *)
(* land at the end; a fact is acknowledged only with all those before it;  *)
(* and only facts that were never acknowledged can be forgotten, the       *)
(* newest first.                                                           *)
(***************************************************************************)
EXTENDS Naturals, Sequences

VARIABLES log, acknowledged   \* the facts; how many of them are promised
durable == <<log, acknowledged>>

Init == log = <<>> /\ acknowledged = 0

Land ==
  /\ Len(log') = Len(log) + 1 /\ SubSeq(log', 1, Len(log)) = log
  /\ UNCHANGED acknowledged

Acknowledge == acknowledged' = Len(log) /\ UNCHANGED log

Forget ==
  /\ \E n \in acknowledged..Len(log) : log' = SubSeq(log, 1, n)
  /\ UNCHANGED acknowledged

Next == Land \/ Acknowledge \/ Forget

Spec == Init /\ [][Next]_durable
=============================================================================
