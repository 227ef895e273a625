----------------------------- MODULE MCRoomRng -----------------------------
(* RoomRng on a small instance: see MCRoomRng.cfg for the values. *)
EXTENDS RoomRng
=============================================================================
