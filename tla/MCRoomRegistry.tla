--------------------------- MODULE MCRoomRegistry ---------------------------
(* RoomRegistry on small sets of Rooms, sessions and remote associations.   *)
EXTENDS RoomRegistry, TLC

\* Rooms are interchangeable, and so are sessions.
Symmetry == Permutations(Rooms) \cup Permutations(Sessions)
=============================================================================
