------------------------------ MODULE MCRooms ------------------------------
(* Rooms with a few sessions and rooms, which are interchangeable.         *)
EXTENDS Rooms, TLC

Symmetry == Permutations(Players) \cup Permutations(RoomIds)
=============================================================================
