------------------------------ MODULE Transcript ------------------------------
(****************************************************************************)
(* What a room promises the people in it, without tables, counters or       *)
(* transactions: a room is a list of entries that only grows at its end, an *)
(* edit rewrites what an entry says but neither moves it nor changes who    *)
(* sent it and when, a lock is never undone, and a room that is forgotten   *)
(* is forgotten whole and for good.  RoomStore implements it.               *)
(****************************************************************************)
EXTENDS Naturals, Sequences

CONSTANTS
  Users,   \* who may write
  Bodies,  \* what an entry may say
  Moments  \* when

VARIABLES
  log,     \* open room -> its entries, oldest first
  locked,  \* the open rooms that were locked
  opened   \* how many rooms were ever opened: they are 1..opened

transcriptVars == <<log, locked, opened>>

Entries == [author : Users, sent : Moments, body : Bodies]

Init ==
  /\ log = [r \in {} |-> <<>>]
  /\ locked = {}
  /\ opened = 0

Open ==
  /\ opened' = opened + 1
  /\ log' = [r \in DOMAIN log \cup {opened + 1} |->
               IF r = opened + 1 THEN <<>> ELSE log[r]]
  /\ UNCHANGED locked

Add(r, e) ==
  /\ log' = [log EXCEPT ![r] = Append(log[r], e)]
  /\ UNCHANGED <<locked, opened>>

Rewrite(r, i, body) ==
  /\ log' = [log EXCEPT ![r] = [log[r] EXCEPT ![i] = [log[r][i] EXCEPT !.body = body]]]
  /\ UNCHANGED <<locked, opened>>

Lock(r) ==
  /\ locked' = locked \cup {r}
  /\ UNCHANGED <<log, opened>>

Forget(gone) ==
  /\ log' = [r \in DOMAIN log \ gone |-> log[r]]
  /\ locked' = locked \ gone
  /\ UNCHANGED opened

Next ==
  \/ Open
  \/ \E r \in DOMAIN log, e \in Entries : Add(r, e)
  \/ \E r \in DOMAIN log, body \in Bodies : \E i \in DOMAIN log[r] : Rewrite(r, i, body)
  \/ \E r \in DOMAIN log : Lock(r)
  \/ \E gone \in SUBSET DOMAIN log : Forget(gone)

Spec == Init /\ [][Next]_transcriptVars
=============================================================================
