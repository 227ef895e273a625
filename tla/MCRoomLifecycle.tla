--------------------------- MODULE MCRoomLifecycle ---------------------------
(* RoomLifecycle on small instances: the .cfg files give the values. *)
EXTENDS RoomLifecycle
=============================================================================
