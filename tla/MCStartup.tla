----------------------------- MODULE MCStartup -----------------------------
(* Startup on a small instance: a legacy database of a roll and a text. *)
EXTENDS Startup

MCLegacyRows == <<[kind |-> "roll", body |-> "2d6"], [kind |-> "text", body |-> "hello"]>>
=============================================================================
