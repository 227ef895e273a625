------------------------------ MODULE RoomStore ------------------------------
(****************************************************************************)
(* The persistence layer of the server: the Store trait                     *)
(* (server/src/store/mod.rs) as the SQLite backend implements it            *)
(* (server/src/store/sqlite.rs).  One connection sits behind a mutex and    *)
(* every operation runs to completion on it, so an operation is one atomic  *)
(* step.  The tables of the schema are the variables; a table is a set of   *)
(* rows, except `rooms', which is a function from the row's id to the rest  *)
(* of the row.                                                              *)
(*                                                                          *)
(* Data is abstracted to what the properties distinguish.                   *)
(*   - rng_state, an opaque 32-byte state in the code, is its position in   *)
(*     the room's stream of random numbers: how many draws were taken       *)
(*     since the room was created.                                          *)
(*   - roll_json and total, both computed from one evaluation, are the      *)
(*     single column `roll': the interval of the stream it consumed.        *)
(*   - members.updated_at, which nothing reads, is left out.                *)
(*                                                                          *)
(* An operation that returns an error changes nothing and is a stuttering   *)
(* step: an unknown room, a roll that does not evaluate, a taken token.     *)
(****************************************************************************)
EXTENDS Integers

CONSTANTS
  Tokens,      \* share tokens
  Clients,     \* client ids of the identity cookie
  Names,       \* display names
  Exprs,       \* roll expressions that parse
  Comments,    \* non-empty comments
  NoExpr,      \* expr IS NULL: the message has no roll
  NoComment,   \* the empty comment
  NoRoll,      \* roll_json IS NULL
  NotLocked,   \* locked_at IS NULL
  Time,        \* Unix seconds passed in by the callers
  MaxDraws,    \* bound: faces one roll draws
  MaxRooms,    \* bound: rooms ever created
  MaxEvents    \* bound: events of one room

ASSUME StoreAssumption ==
  /\ NoExpr \notin Exprs
  /\ NoComment \notin Comments
  /\ NoRoll \notin [from : Nat, to : Nat]
  /\ Time \subseteq Int
  /\ NotLocked \notin Time
  /\ MaxDraws \in Nat
  /\ MaxRooms \in Nat
  /\ MaxEvents \in Nat

VARIABLES
  rooms,       \* room id -> row of table rooms
  members,     \* rows of table members
  messages,    \* rows of table messages
  lastId       \* the last id AUTOINCREMENT handed out

storeVars == <<rooms, members, messages, lastId>>

RoomRow ==
  [token : Tokens, created_at : Time, locked_at : Time \cup {NotLocked},
   rng_state : Nat, seq_counter : Nat, event_counter : Nat]

MemberRow == [room_id : Nat, client_id : Clients, name : Names]

\* The part of the room's random stream that an evaluation consumed.
Rolls == [from : Nat, to : Nat]

MessageRow ==
  [room_id : Nat, seq : Nat, author : Clients,
   expr : Exprs \cup {NoExpr}, comment : Comments \cup {NoComment},
   roll : Rolls \cup {NoRoll},
   created_at : Time, updated_at : Time, updated_by : Clients,
   created_event_seq : Nat, event_seq : Nat]

\* What the web layer hands to a write: a roll, a comment or both.
Bodies ==
  {b \in [expr : Exprs \cup {NoExpr}, comment : Comments \cup {NoComment}] :
     b.expr # NoExpr \/ b.comment # NoComment}

MessagesOf(r) == {m \in messages : m.room_id = r}

Init ==
  /\ rooms = [r \in {} |-> {}]
  /\ members = {}
  /\ messages = {}
  /\ lastId = 0

------------------------------------------------------------------------------
(* Helpers the transactions share. *)

\* Faulty forms of the helpers and operations are named after the slip they
\* make; nothing else uses them.
BumpCountersKeepingSeq(row, seqIncr) ==
  [row EXCEPT !.event_counter = @ + 1]

BumpCountersOnPostOnly(row, seqIncr) ==
  [row EXCEPT !.seq_counter = @ + seqIncr, !.event_counter = @ + seqIncr]

\* seqIncr is 1 for a new message and 0 otherwise.
BumpCounters(row, seqIncr) ==
  [row EXCEPT !.seq_counter = @ + seqIncr, !.event_counter = @ + 1]

\* The outcomes eval_roll may have for a message's expression (if any) on the
\* room's RNG.  How many faces are drawn depends on the faces (rerolls,
\* explosions); an expression of constants draws none.
EvalRoll(row, expr) ==
  IF expr = NoExpr
  THEN {NoRoll}
  ELSE {[from |-> row.rng_state, to |-> row.rng_state + d] : d \in 0..MaxDraws}

NextRngStateForgotten(row, roll) == row.rng_state

NextRngState(row, roll) == IF roll = NoRoll THEN row.rng_state ELSE roll.to

------------------------------------------------------------------------------
(* The operations of the trait that write. *)

CreateRoomReusingId(token, now) ==
  LET id == CHOOSE n \in 1..MaxRooms :
              n \notin DOMAIN rooms /\ \A k \in 1..(n - 1) : k \in DOMAIN rooms
      row == [token |-> token, created_at |-> now, locked_at |-> NotLocked,
              rng_state |-> 0, seq_counter |-> 0, event_counter |-> 0]
  IN
  /\ lastId < MaxRooms
  /\ \A r \in DOMAIN rooms : rooms[r].token # token
  /\ rooms' = [r \in DOMAIN rooms \cup {id} |-> IF r = id THEN row ELSE rooms[r]]
  /\ lastId' = lastId + 1
  /\ UNCHANGED <<members, messages>>

CreateRoomForgettingId(token, now) ==
  LET id == lastId + 1
      row == [token |-> token, created_at |-> now, locked_at |-> NotLocked,
              rng_state |-> 0, seq_counter |-> 0, event_counter |-> 0]
  IN
  /\ lastId < MaxRooms
  /\ \A r \in DOMAIN rooms : rooms[r].token # token
  /\ rooms' = [r \in DOMAIN rooms \cup {id} |-> IF r = id THEN row ELSE rooms[r]]
  /\ UNCHANGED <<members, messages, lastId>>

\* INSERT INTO rooms.  The token column is UNIQUE.
CreateRoom(token, now) ==
  LET id == lastId + 1
      row == [token |-> token, created_at |-> now, locked_at |-> NotLocked,
              rng_state |-> 0, seq_counter |-> 0, event_counter |-> 0]
  IN
  /\ lastId < MaxRooms
  /\ \A r \in DOMAIN rooms : rooms[r].token # token
  /\ rooms' = [r \in DOMAIN rooms \cup {id} |-> IF r = id THEN row ELSE rooms[r]]
  /\ lastId' = id
  /\ UNCHANGED <<members, messages>>

LockRoomAgain(r, now) ==
  LET row == BumpCounters(rooms[r], 0) IN
  /\ r \in DOMAIN rooms
  /\ rooms[r].event_counter < MaxEvents
  /\ rooms' = [rooms EXCEPT ![r] = [row EXCEPT !.locked_at = now]]
  /\ UNCHANGED <<members, messages, lastId>>

\* Idempotent on locked_at, but every call takes a new event id.
LockRoom(r, now) ==
  LET row == BumpCounters(rooms[r], 0) IN
  /\ r \in DOMAIN rooms
  /\ rooms[r].event_counter < MaxEvents
  /\ rooms' = [rooms EXCEPT ![r] =
                 [row EXCEPT !.locked_at = IF @ = NotLocked THEN now ELSE @]]
  /\ UNCHANGED <<members, messages, lastId>>

\* INSERT ... ON CONFLICT DO UPDATE; the foreign key refuses an unknown room.
SetName(r, client, name) ==
  /\ r \in DOMAIN rooms
  /\ members' =
       {m \in members : m.room_id # r \/ m.client_id # client}
         \cup {[room_id |-> r, client_id |-> client, name |-> name]}
  /\ UNCHANGED <<rooms, messages, lastId>>

\* One transaction: evaluate the roll, bump the counters, store the successor
\* RNG state, insert the row.  The primary key (room_id, seq) is not a guard:
\* TranscriptGapless shows that the insert never meets a taken key.
PostMessage(r, author, body, roll, now) ==
  LET row == BumpCounters(rooms[r], 1) IN
  /\ r \in DOMAIN rooms
  /\ rooms[r].event_counter < MaxEvents
  /\ roll \in EvalRoll(rooms[r], body.expr)
  /\ rooms' = [rooms EXCEPT ![r] =
                 [row EXCEPT !.rng_state = NextRngState(rooms[r], roll)]]
  /\ messages' = messages \cup
       {[room_id |-> r, seq |-> row.seq_counter, author |-> author,
         expr |-> body.expr, comment |-> body.comment, roll |-> roll,
         created_at |-> now, updated_at |-> now, updated_by |-> author,
         created_event_seq |-> row.event_counter, event_seq |-> row.event_counter]}
  /\ UNCHANGED <<members, lastId>>

EditedByOther(m, editor, body, roll, now, event) ==
  [m EXCEPT !.author = editor, !.expr = body.expr, !.comment = body.comment,
            !.roll = roll, !.updated_at = now, !.updated_by = editor,
            !.event_seq = event]

\* The columns UPDATE messages sets.
Edited(m, editor, body, roll, now, event) ==
  [m EXCEPT !.expr = body.expr, !.comment = body.comment, !.roll = roll,
            !.updated_at = now, !.updated_by = editor, !.event_seq = event]

\* Replace roll and comment of an existing message, re-rolling any roll.
EditMessage(r, seq, editor, body, roll, now) ==
  LET row == BumpCounters(rooms[r], 0) IN
  /\ r \in DOMAIN rooms
  /\ \E m \in MessagesOf(r) : m.seq = seq
  /\ rooms[r].event_counter < MaxEvents
  /\ roll \in EvalRoll(rooms[r], body.expr)
  /\ rooms' = [rooms EXCEPT ![r] =
                 [row EXCEPT !.rng_state = NextRngState(rooms[r], roll)]]
  /\ messages' = {IF m.room_id = r /\ m.seq = seq
                  THEN Edited(m, editor, body, roll, now, row.event_counter)
                  ELSE m : m \in messages}
  /\ UNCHANGED <<members, lastId>>

SweepLeavingMessages(cutoff) ==
  LET kept == {r \in DOMAIN rooms : rooms[r].created_at >= cutoff} IN
  /\ rooms' = [r \in kept |-> rooms[r]]
  /\ members' = {m \in members : m.room_id \in kept}
  /\ UNCHANGED <<messages, lastId>>

SweepAtCutoff(cutoff) ==
  LET kept == {r \in DOMAIN rooms : rooms[r].created_at > cutoff} IN
  /\ rooms' = [r \in kept |-> rooms[r]]
  /\ members' = {m \in members : m.room_id \in kept}
  /\ messages' = {m \in messages : m.room_id \in kept}
  /\ UNCHANGED lastId

\* DELETE FROM rooms WHERE created_at < cutoff; members and messages follow by
\* ON DELETE CASCADE.
Sweep(cutoff) ==
  LET kept == {r \in DOMAIN rooms : rooms[r].created_at >= cutoff} IN
  /\ rooms' = [r \in kept |-> rooms[r]]
  /\ members' = {m \in members : m.room_id \in kept}
  /\ messages' = {m \in messages : m.room_id \in kept}
  /\ UNCHANGED lastId

Next ==
  \/ \E token \in Tokens, now \in Time : CreateRoom(token, now)
  \/ \E r \in DOMAIN rooms, now \in Time : LockRoom(r, now)
  \/ \E r \in DOMAIN rooms, c \in Clients, name \in Names : SetName(r, c, name)
  \/ \E r \in DOMAIN rooms, c \in Clients, body \in Bodies, now \in Time :
       \E roll \in EvalRoll(rooms[r], body.expr) : PostMessage(r, c, body, roll, now)
  \/ \E m \in messages, c \in Clients, body \in Bodies, now \in Time :
       \E roll \in EvalRoll(rooms[m.room_id], body.expr) :
         EditMessage(m.room_id, m.seq, c, body, roll, now)
  \/ \E cutoff \in Time : Sweep(cutoff)

Spec == Init /\ [][Next]_storeVars

------------------------------------------------------------------------------
(* Properties. *)

\* Every row has the column types of the schema, and no row carries an id that
\* AUTOINCREMENT has not handed out.
TypeOK ==
  /\ lastId \in Nat
  /\ DOMAIN rooms \subseteq 1..lastId
  /\ rooms \in [DOMAIN rooms -> RoomRow]
  /\ members \subseteq MemberRow
  /\ messages \subseteq MessageRow

\* A room that the sweep deletes takes its messages and members with it, and no
\* write that raced the sweep leaves rows of a room that is gone: ids are never
\* reused, so such rows could only ever be garbage.
NoOrphans ==
  /\ \A m \in messages : m.room_id \in DOMAIN rooms
  /\ \A m \in members : m.room_id \in DOMAIN rooms

\* The transcript of a room is numbered 1..seq_counter without holes, and
\* (room_id, seq) is a key: an edit replaces a row, a post adds the next one.
TranscriptGapless ==
  /\ \A r \in DOMAIN rooms :
       {m.seq : m \in MessagesOf(r)} = 1..rooms[r].seq_counter
  /\ \A m, n \in messages : m.room_id = n.room_id /\ m.seq = n.seq => m = n

\* An event id names one change of one room: no id is above the room's counter
\* and two messages never share one, so "changed after event e" is decided by
\* comparing ids (the SSE catch-up of web.rs relies on it).  Messages are
\* numbered in the order their events were: a later seq was created later.
EventIdsOrderTheRoom ==
  /\ \A m \in messages :
       /\ m.created_event_seq \in 1..m.event_seq
       /\ m.room_id \in DOMAIN rooms =>
            m.event_seq <= rooms[m.room_id].event_counter
  /\ \A m, n \in messages :
       m.room_id = n.room_id /\ m.seq < n.seq =>
         /\ m.created_event_seq < n.created_event_seq
         /\ m.event_seq # n.event_seq

\* Rolls draw fresh randomness (SPEC 5 and 7): what two stored rolls of a room
\* consumed of its stream does not overlap, and nothing consumed is ahead of
\* the persisted state, where the next roll would draw it again.
FreshRandomness ==
  /\ \A m \in messages :
       m.roll # NoRoll /\ m.room_id \in DOMAIN rooms =>
         m.roll.from <= m.roll.to /\ m.roll.to <= rooms[m.room_id].rng_state
  /\ \A m, n \in messages :
       m.room_id = n.room_id /\ m.seq # n.seq /\ m.roll # NoRoll /\ n.roll # NoRoll =>
         m.roll.to <= n.roll.from \/ n.roll.to <= m.roll.from

\* An id that was handed out and whose room is gone never names a room again: a
\* request that looked a room up before the sweep cannot write into another.
RoomIdsNeverReused ==
  [][\A r \in 1..lastId : r \notin DOMAIN rooms => r \notin DOMAIN rooms']_storeVars

\* Whatever a step inserts or changes in a room carries an event id above the
\* counter that any earlier reader of the room saw: a reader that remembers the
\* counter finds out about every later change.
ChangesAreNewer ==
  [][\A m \in messages' \ messages :
       m.room_id \in DOMAIN rooms /\ m.event_seq > rooms[m.room_id].event_counter]_storeVars

\* Editing rewrites a message in place: author, creation time and creation event
\* survive every edit (Message::edited compares against the latter), only the
\* sweep deletes, and a proactive lock keeps its first timestamp.
OriginsSurvive ==
  [][\A r \in DOMAIN rooms \cap DOMAIN rooms' :
       /\ rooms[r].locked_at # NotLocked => rooms'[r].locked_at = rooms[r].locked_at
       /\ \A m \in MessagesOf(r) : \E n \in messages' :
            /\ <<n.room_id, n.seq, n.author>> = <<r, m.seq, m.author>>
            /\ <<n.created_at, n.created_event_seq>> = <<m.created_at, m.created_event_seq>>
            /\ n.event_seq = m.event_seq => n = m]_storeVars

------------------------------------------------------------------------------
(* The promise of Transcript, which the tables implement. *)

RowAt(ms, r, i) == CHOOSE m \in ms : m.room_id = r /\ m.seq = i

\* What stays to be seen of a message: who sent it and when, and what it says now.
Entry(m) ==
  [author |-> m.author, sent |-> m.created_at,
   body |-> [expr |-> m.expr, comment |-> m.comment]]

\* A room's messages as its page lists them.
TranscriptOf(r) ==
  [i \in 1..rooms[r].seq_counter |-> Entry(RowAt(messages, r, i))]

RoomLog == [r \in DOMAIN rooms |-> TranscriptOf(r)]

LockedRooms == {r \in DOMAIN rooms : rooms[r].locked_at # NotLocked}

Promise == INSTANCE Transcript WITH
  Users <- Clients, Moments <- Time,
  log <- RoomLog, locked <- LockedRooms, opened <- lastId

\* Whatever the operations do to rows and counters, a room is a list that only
\* grows at its end, an edit rewrites an entry in its place under its author's
\* name, a lock is never undone and a deleted room never comes back
\* (get_messages orders by seq, SPEC 5 and 6).
KeepsThePromise == Promise!Spec
=============================================================================
