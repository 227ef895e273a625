----------------------------- MODULE MCRoomStore -----------------------------
(* RoomStore on a small instance: see MCRoomStore.cfg for the values. *)
EXTENDS RoomStore, TLC

Interchangeable == Permutations(Tokens) \cup Permutations(Clients)
=============================================================================
