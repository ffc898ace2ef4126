-------------------------- MODULE MCEnterpriseKernel --------------------------
(* Two processes, a Room with its member and a Room to be created, for TLC. *)
EXTENDS EnterpriseKernel, TLC

Op(kind, r, id) == [kind |-> kind, room |-> r, id |-> id]
\* The processes are alike.
Alike == Permutations(Stores)

TwoRooms == {1, 2}
FirstRoom == {1}
Keys == {Op("send", 1, 1), Op("send", 1, 2), Op("claim", 1, 1), Op("claim", 1, 2),
         Op("ack", 1, 1), Op("remove", 1, 0), Op("create", 2, 0)}
=============================================================================
