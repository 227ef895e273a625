------------------------------ MODULE MCPgStore ------------------------------
(* PgStore on a small instance: the .cfg file gives the values.  Every kind of *)
(* request, with a roll or a comment, all at the same time; only the first    *)
(* message is edited.                                                          *)
EXTENDS PgStore

MCRequests ==
  {o \in Operation :
     /\ o.now = 1
     /\ o.kind = "edit" => o.seq = 1
     /\ o.kind # "lock" => (o.body.expr = NoExpr) # (o.body.comment = NoComment)}
=============================================================================
