---------------------------- MODULE MCLiveUpdates ----------------------------
(* LiveUpdates on small instances: the .cfg files give the values. *)
EXTENDS LiveUpdates
=============================================================================
