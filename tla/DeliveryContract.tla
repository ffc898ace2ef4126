--------------------------- MODULE DeliveryContract ---------------------------
(***************************************************************************)
(* What a Room promises about each accepted message, with no engine, log,  *)
(* lease or generation in sight.  A message waits in its recipient's lane; *)
(* the oldest one is released, one at a time, and never twice; a release   *)
(* is confirmed, or doubted when nobody can tell what became of it; doubt  *)
(* may still be confirmed, and nothing confirmed or withdrawn changes.     *)
(***************************************************************************)
EXTENDS Naturals

CONSTANTS Ids, Lanes, Nobody   \* message numbers, participants, no recipient yet

VARIABLES status, lane
contract == <<status, lane>>

Statuses == {"absent", "waiting", "out", "doubt", "done", "withdrawn", "posted"}

Init ==
  /\ status = [i \in Ids |-> "absent"]
  /\ lane = [i \in Ids |-> Nobody]

Out == {i \in Ids : status[i] = "out"}

\* Any step may first notice that some releases can no longer be vouched for.
Doubting(D) == [i \in Ids |-> IF i \in D THEN "doubt" ELSE status[i]]

\* The next message is taken in: it waits for a participant, or is posted to
\* the owner, who is no lane.
Accept(D, i) ==
  /\ status[i] = "absent" /\ \A j \in Ids : j < i => status[j] # "absent"
  /\ \/ /\ status' = [Doubting(D) EXCEPT ![i] = "waiting"]
        /\ \E l \in Lanes : lane' = [lane EXCEPT ![i] = l]
     \/ status' = [Doubting(D) EXCEPT ![i] = "posted"] /\ UNCHANGED lane

Release(D, i) ==
  /\ status[i] = "waiting"
  /\ \A j \in Ids : lane[j] = lane[i] =>
       /\ status[j] = "waiting" => i <= j
       /\ Doubting(D)[j] # "out"
  /\ status' = [Doubting(D) EXCEPT ![i] = "out"]
  /\ UNCHANGED lane

Confirm(D, i) ==
  /\ Doubting(D)[i] \in {"out", "doubt"}
  /\ status' = [Doubting(D) EXCEPT ![i] = "done"]
  /\ UNCHANGED lane

\* Waiting messages are withdrawn: one by its owner, or all that a lane's
\* departing session will never read.
Withdraw(D, W) ==
  /\ \A i \in W : status[i] = "waiting"
  /\ status' = [i \in Ids |-> IF i \in W THEN "withdrawn" ELSE Doubting(D)[i]]
  /\ UNCHANGED lane

Next ==
  \E D \in SUBSET Out :
    \/ \E i \in Ids : Accept(D, i) \/ Release(D, i) \/ Confirm(D, i)
    \/ \E W \in SUBSET Ids : Withdraw(D, W)

Spec == Init /\ [][Next]_contract
=============================================================================
