--------------------------- MODULE MCRoomRuntimes ---------------------------
(* RoomRuntimes on two Rooms, of which at most one is native-hosted.          *)
EXTENDS RoomRuntimes, TLC

AtMostOneNative == {N \in SUBSET Rooms : Cardinality(N) <= 1}
Symmetry == Permutations(Rooms)
=============================================================================
