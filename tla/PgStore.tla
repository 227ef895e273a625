------------------------------- MODULE PgStore -------------------------------
(****************************************************************************)
(* The Postgres backend (server/src/store/postgres.rs), run by several      *)
(* server processes on one database.  A process has one connection behind   *)
(* an async mutex, so it runs one operation at a time; the operations of    *)
(* different processes interleave statement by statement.                   *)
(*                                                                          *)
(* rooms, members and messages are the committed tables.  Statements run at *)
(* the default isolation, READ COMMITTED: a read sees what is committed; an *)
(* UPDATE and a SELECT ... FOR UPDATE wait until no other transaction holds *)
(* the row, see its newest version and hold it until their transaction      *)
(* ends.  That part is Postgres, not this repository (external).            *)
(*                                                                          *)
(* From the update of the room's counters on, a transaction holds the row   *)
(* every other writer of that room needs first, so its remaining statements *)
(* and the commit are one step, Commit.                                     *)
(****************************************************************************)
EXTENDS RoomStore

CONSTANTS
  Procs,     \* server processes
  Requests,  \* bound: the operations that handlers ask for
  NoRow      \* the transaction has not locked its room's row

VARIABLE tx   \* per process: its transaction

pgVars == <<storeVars, tx>>

\* What a handler asks for; the room was looked up in an earlier operation.
RoomIds == 1..MaxRooms
Operation ==
  [kind : {"post"}, room : RoomIds, client : Clients, body : Bodies, now : Time]
    \cup [kind : {"edit"}, room : RoomIds, seq : 1..MaxEvents, client : Clients,
          body : Bodies, now : Time]
    \cup [kind : {"lock"}, room : RoomIds, now : Time]

ASSUME PgAssumption ==
  /\ NoRow \notin RoomRow
  /\ Requests \subseteq Operation

\* row is the room's row as its transaction sees it, once it has locked it; roll
\* is what eval_roll returned.
Idle == [pc |-> "idle"]
Running ==
  [pc : {"find", "eval", "mark", "bump", "commit"}, op : Operation,
   row : RoomRow \cup {NoRow}, roll : Rolls \cup {NoRoll}]

PgInit ==
  /\ Init
  /\ tx = [p \in Procs |-> Idle]

At(p, statement) == tx[p].pc = statement

HoldsRow(p, r) == ~At(p, "idle") /\ tx[p].row # NoRow /\ tx[p].op.room = r

CanLock(p, r) == \A q \in Procs \ {p} : ~HoldsRow(q, r)

\* The version of its room's row that a locking statement of p works on.
Newest(p) == IF tx[p].row = NoRow THEN rooms[tx[p].op.room] ELSE tx[p].row

Exists(p) == tx[p].op.room \in DOMAIN rooms

Goto(p, statement, row, roll) ==
  tx' = [tx EXCEPT ![p].pc = statement, ![p].row = row, ![p].roll = roll]

End(p) == tx' = [tx EXCEPT ![p] = Idle]

------------------------------------------------------------------------------
(* The transactions of post_message, edit_message and lock_room. *)

Begin(p, o) ==
  /\ At(p, "idle")
  /\ o.room \in 1..lastId
  /\ tx' = [tx EXCEPT ![p] =
       [pc |-> CASE o.kind = "post" -> "eval"
                 [] o.kind = "edit" -> "find"
                 [] o.kind = "lock" -> "mark",
        op |-> o, row |-> NoRow, roll |-> NoRoll]]
  /\ UNCHANGED storeVars

\* get_message_tx: an edit of an unknown message ends here.
FindMessage(p) ==
  /\ At(p, "find")
  /\ IF \E m \in MessagesOf(tx[p].op.room) : m.seq = tx[p].op.seq
     THEN Goto(p, "eval", NoRow, NoRoll)
     ELSE End(p)
  /\ UNCHANGED storeVars

EvalNoRoll(p) ==
  /\ At(p, "eval")
  /\ tx[p].op.body.expr = NoExpr
  /\ Goto(p, "bump", NoRow, NoRoll)
  /\ UNCHANGED storeVars

EvalWithoutLock(p) ==
  /\ At(p, "eval")
  /\ tx[p].op.body.expr # NoExpr
  /\ Exists(p)
  /\ \E roll \in EvalRoll(rooms[tx[p].op.room], tx[p].op.body.expr) :
       Goto(p, "bump", NoRow, roll)
  /\ UNCHANGED storeVars

\* eval_roll with rng_state_for_update.
EvalForUpdate(p) ==
  /\ At(p, "eval")
  /\ tx[p].op.body.expr # NoExpr
  /\ Exists(p)
  /\ CanLock(p, tx[p].op.room)
  /\ \E roll \in EvalRoll(rooms[tx[p].op.room], tx[p].op.body.expr) :
       Goto(p, "bump", rooms[tx[p].op.room], roll)
  /\ UNCHANGED storeVars

MarkLockedOnce(p) ==
  /\ At(p, "mark")
  /\ IF Exists(p) /\ rooms[tx[p].op.room].locked_at = NotLocked
     THEN /\ CanLock(p, tx[p].op.room)
          /\ Goto(p, "bump", [rooms[tx[p].op.room] EXCEPT !.locked_at = tx[p].op.now],
                  NoRoll)
     ELSE Goto(p, "commit", NoRow, NoRoll)
  /\ UNCHANGED storeVars

\* lock_room's UPDATE ... WHERE locked_at IS NULL: a locked or deleted room does
\* not match, and its row is not locked by this statement.
MarkLocked(p) ==
  /\ At(p, "mark")
  /\ IF Exists(p) /\ rooms[tx[p].op.room].locked_at = NotLocked
     THEN /\ CanLock(p, tx[p].op.room)
          /\ Goto(p, "bump", [rooms[tx[p].op.room] EXCEPT !.locked_at = tx[p].op.now],
                  NoRoll)
     ELSE Goto(p, "bump", NoRow, NoRoll)
  /\ UNCHANGED storeVars

\* bump_counters.
Bump(p) ==
  /\ At(p, "bump")
  /\ Exists(p)
  /\ CanLock(p, tx[p].op.room)
  /\ rooms[tx[p].op.room].event_counter < MaxEvents
  /\ Goto(p, "commit",
          BumpCounters(Newest(p), IF tx[p].op.kind = "post" THEN 1 ELSE 0), tx[p].roll)
  /\ UNCHANGED storeVars

\* Store the successor RNG state, insert or update the message, commit.
Commit(p) ==
  LET o == tx[p].op
      row == tx[p].row
      roll == tx[p].roll
      new == [room_id |-> o.room, seq |-> row.seq_counter, author |-> o.client,
              expr |-> o.body.expr, comment |-> o.body.comment, roll |-> roll,
              created_at |-> o.now, updated_at |-> o.now, updated_by |-> o.client,
              created_event_seq |-> row.event_counter, event_seq |-> row.event_counter]
  IN
  /\ At(p, "commit")
  /\ rooms' = [rooms EXCEPT ![o.room] = [row EXCEPT !.rng_state = NextRngState(row, roll)]]
  /\ messages' =
       CASE o.kind = "post" -> messages \cup {new}
         [] o.kind = "edit" -> {IF m.room_id = o.room /\ m.seq = o.seq
                                THEN Edited(m, o.client, o.body, roll, o.now, row.event_counter)
                                ELSE m : m \in messages}
         [] o.kind = "lock" -> messages
  /\ End(p)
  /\ UNCHANGED <<members, lastId>>

\* The transaction is dropped: a statement meets a deleted room, the roll does
\* not evaluate, the handler is dropped at an await, the process or its
\* connection dies.  Postgres rolls back and releases the row.
Rollback(p) ==
  /\ ~At(p, "idle")
  /\ End(p)
  /\ UNCHANGED storeVars

------------------------------------------------------------------------------
(* Single statements, each its own transaction.  set_name shares the room's row *)
(* with counter updates and may at most wait for a roll; the sweep waits for    *)
(* every transaction that holds a row it deletes. *)

PgCreateRoom(p, token, now) ==
  At(p, "idle") /\ CreateRoom(token, now) /\ UNCHANGED tx

PgSetName(p, r, client, name) ==
  At(p, "idle") /\ SetName(r, client, name) /\ UNCHANGED tx

PgSweep(p, cutoff) ==
  /\ At(p, "idle")
  /\ \A r \in DOMAIN rooms : rooms[r].created_at < cutoff => CanLock(p, r)
  /\ Sweep(cutoff)
  /\ UNCHANGED tx

------------------------------------------------------------------------------
Step(p) ==
  \/ FindMessage(p) \/ EvalNoRoll(p) \/ EvalForUpdate(p) \/ MarkLocked(p)
  \/ Bump(p) \/ Commit(p)

FailsEvaluating(p) ==
  /\ At(p, "eval") /\ tx[p].op.body.expr # NoExpr /\ ~Exists(p)
  /\ Rollback(p)

\* eval_roll or bump_counters meets a deleted room, or the bound on events.
Fails(p) ==
  /\ \/ At(p, "eval") /\ tx[p].op.body.expr # NoExpr /\ ~Exists(p)
     \/ At(p, "bump") /\ (Exists(p) => rooms[tx[p].op.room].event_counter = MaxEvents)
  /\ Rollback(p)

PgNext ==
  \E p \in Procs :
    \/ \E o \in Requests : Begin(p, o)
    \/ Step(p) \/ Rollback(p)
    \/ \E token \in Tokens, now \in Time : PgCreateRoom(p, token, now)
    \/ \E r \in DOMAIN rooms, c \in Clients, name \in Names : PgSetName(p, r, c, name)
    \/ \E cutoff \in Time : PgSweep(p, cutoff)

PgSpec == PgInit /\ [][PgNext]_pgVars

\* A process that can run the next statement runs it, and Postgres hands a row
\* to the transactions that wait for it in turn.
PgFairSpec == PgSpec /\ \A p \in Procs : SF_pgVars(Step(p) \/ Fails(p))

------------------------------------------------------------------------------
(* Properties. *)

\* Transactions stay well-formed, and a transaction that is about to commit has
\* locked the row it is going to write.
PgTypeOK ==
  /\ TypeOK
  /\ tx \in [Procs -> {Idle} \cup Running]
  /\ \A p \in Procs : At(p, "commit") => tx[p].row # NoRow

\* What a transaction has read is still so when it writes, whatever the other processes
\* have committed since: its roll starts where the room's random stream stands
\* (rng_state_for_update), the message it edits is there (get_message_tx takes no
\* lock), its room is not swept under a commit, and the event id it was given is the
\* next one (bump_counters).
NothingReadIsStale ==
  \A p \in Procs :
    At(p, "bump") \/ At(p, "commit") =>
      LET r == tx[p].op.room IN
      /\ tx[p].roll # NoRoll /\ Exists(p) => tx[p].roll.from = rooms[r].rng_state
      /\ tx[p].op.kind = "edit" /\ Exists(p) =>
           \E m \in MessagesOf(r) : m.seq = tx[p].op.seq
      /\ At(p, "commit") =>
           Exists(p) /\ tx[p].row.event_counter = rooms[r].event_counter + 1

\* "Roll transactions take FOR UPDATE on the room row, so concurrent rolls
\* serialize correctly even across multiple server processes" (postgres.rs:4):
\* whatever the processes interleave, the committed tables change only by whole
\* operations of RoomStore, each on the state that the others left behind.
TransactionsAreAtomic == Spec

\* No transaction waits for ever, neither for another process nor for the sweep.
TransactionsEnd == \A p \in Procs : ~At(p, "idle") ~> At(p, "idle")
=============================================================================
