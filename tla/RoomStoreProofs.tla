--------------------------- MODULE RoomStoreProofs ---------------------------
(****************************************************************************)
(* What RoomStore guarantees for every choice of the constants.  The safety *)
(* invariants support each other (the counters bound the ids, the ids order *)
(* the rows), so they are proved together, as the inductive invariant IInv. *)
(*                                                                          *)
(* RoomStore implements Transcript: through the refinement mapping of       *)
(* RoomStore (a room's log is its rows by seq) every operation is a step of *)
(* Transcript or changes nothing that Transcript has.                       *)
(****************************************************************************)
EXTENDS RoomStore, SequenceTheorems, TLAPS

IInv ==
  /\ TypeOK
  /\ NoOrphans
  /\ TranscriptGapless
  /\ EventIdsOrderTheRoom
  /\ FreshRandomness

-----------------------------------------------------------------------------
(* What each operation does to the tables, free of EXCEPT and LET. *)

\* A step that writes to room r through BumpCounters keeps every other room and
\* moves r's counters up by one event.
Bumps(r, seqIncr, roll) ==
  /\ r \in DOMAIN rooms
  /\ DOMAIN rooms' = DOMAIN rooms
  /\ \A s \in DOMAIN rooms : s # r => rooms'[s] = rooms[s]
  /\ rooms' \in [DOMAIN rooms -> RoomRow]
  /\ rooms'[r] \in RoomRow
  /\ rooms'[r].event_counter = rooms[r].event_counter + 1
  /\ rooms'[r].seq_counter = rooms[r].seq_counter + seqIncr
  /\ rooms'[r].rng_state = NextRngState(rooms[r], roll)
  /\ rooms[r].rng_state <= rooms'[r].rng_state
  /\ rooms'[r].token = rooms[r].token
  /\ rooms'[r].created_at = rooms[r].created_at
  /\ rooms[r].locked_at # NotLocked => rooms'[r].locked_at = rooms[r].locked_at

\* An evaluation consumes the stream from the persisted state on.
LEMMA EvalRollType ==
  ASSUME NEW row \in RoomRow, NEW expr, NEW roll \in EvalRoll(row, expr)
  PROVE  /\ roll \in Rolls \cup {NoRoll}
         /\ NextRngState(row, roll) \in Nat
         /\ row.rng_state <= NextRngState(row, roll)
         /\ roll # NoRoll => /\ roll.from = row.rng_state
                             /\ roll.to = NextRngState(row, roll)
                             /\ roll.from <= roll.to
<1>1. row.rng_state \in Nat
  BY DEF RoomRow
<1>2. CASE expr = NoExpr
  BY <1>1, <1>2 DEF EvalRoll, NextRngState
<1>3. CASE expr # NoExpr
  <2>1. PICK d \in 0..MaxDraws :
          roll = [from |-> row.rng_state, to |-> row.rng_state + d]
    BY <1>3 DEF EvalRoll
  <2>2. roll \in Rolls /\ roll # NoRoll
    BY <1>1, <2>1, StoreAssumption DEF Rolls
  <2> QED
    BY <1>1, <2>1, <2>2, StoreAssumption DEF NextRngState
<1> QED
  BY <1>2, <1>3

LEMMA CreateRoomEffect ==
  ASSUME TypeOK, NEW token \in Tokens, NEW now \in Time, CreateRoom(token, now)
  PROVE  /\ lastId' = lastId + 1
         /\ lastId + 1 \notin DOMAIN rooms
         /\ DOMAIN rooms' = DOMAIN rooms \cup {lastId + 1}
         /\ \A s \in DOMAIN rooms : rooms'[s] = rooms[s]
         /\ rooms'[lastId + 1] \in RoomRow
         /\ rooms'[lastId + 1].seq_counter = 0
         /\ rooms' \in [DOMAIN rooms' -> RoomRow]
         /\ UNCHANGED <<members, messages>>
<1> DEFINE row == [token |-> token, created_at |-> now, locked_at |-> NotLocked,
                   rng_state |-> 0, seq_counter |-> 0, event_counter |-> 0]
<1>1. /\ lastId' = lastId + 1
      /\ rooms' = [r \in DOMAIN rooms \cup {lastId + 1} |->
                     IF r = lastId + 1 THEN row ELSE rooms[r]]
      /\ UNCHANGED <<members, messages>>
  BY DEF CreateRoom
<1>2. row \in RoomRow
  BY DEF RoomRow
<1>3. lastId + 1 \notin DOMAIN rooms
  BY DEF TypeOK
<1> QED
  BY <1>1, <1>2, <1>3 DEF TypeOK

\* bump_counters touches the two counters only.
LEMMA BumpCountersFields ==
  ASSUME NEW row \in RoomRow, NEW seqIncr \in {0, 1}
  PROVE  LET b == BumpCounters(row, seqIncr) IN
         /\ b \in RoomRow
         /\ b.event_counter = row.event_counter + 1
         /\ b.seq_counter = row.seq_counter + seqIncr
         /\ b.rng_state = row.rng_state
         /\ b.token = row.token
         /\ b.created_at = row.created_at
         /\ b.locked_at = row.locked_at
<1>1. /\ row.seq_counter \in Nat /\ row.event_counter \in Nat
      /\ row.seq_counter + seqIncr \in Nat /\ row.event_counter + 1 \in Nat
  BY DEF RoomRow
<1>2. BumpCounters(row, seqIncr) =
        [row EXCEPT !.seq_counter = row.seq_counter + seqIncr,
                    !.event_counter = row.event_counter + 1]
  BY Zenon DEF BumpCounters
<1> QED
  BY <1>1, <1>2 DEF RoomRow

LEMMA LockRoomEffect ==
  ASSUME TypeOK, NEW r \in DOMAIN rooms, NEW now \in Time, LockRoom(r, now)
  PROVE  /\ Bumps(r, 0, NoRoll)
         /\ UNCHANGED <<members, messages, lastId>>
<1> DEFINE old == rooms[r]
           bumped == BumpCounters(old, 0)
           new == [bumped EXCEPT !.locked_at = IF @ = NotLocked THEN now ELSE @]
<1>1. old \in RoomRow
  BY DEF TypeOK
<1>2. rooms' = [rooms EXCEPT ![r] = new]
  BY DEF LockRoom
<1>3. /\ new \in RoomRow
      /\ new.event_counter = old.event_counter + 1
      /\ new.seq_counter = old.seq_counter
      /\ new.rng_state = old.rng_state
      /\ new.token = old.token
      /\ new.created_at = old.created_at
      /\ old.locked_at # NotLocked => new.locked_at = old.locked_at
  <2>1. /\ bumped \in RoomRow
        /\ bumped.event_counter = old.event_counter + 1
        /\ bumped.seq_counter = old.seq_counter
        /\ bumped.rng_state = old.rng_state
        /\ bumped.token = old.token
        /\ bumped.created_at = old.created_at
        /\ bumped.locked_at = old.locked_at
    <3>1. old.seq_counter \in Nat
      BY <1>1 DEF RoomRow
    <3> QED
      BY <1>1, <3>1, BumpCountersFields
  <2> HIDE DEF old, bumped
  <2> QED
    BY <2>1 DEF RoomRow
<1>4. old.rng_state \in Nat /\ old.seq_counter \in Nat
  BY <1>1 DEF RoomRow
<1>5. UNCHANGED <<members, messages, lastId>>
  BY DEF LockRoom
<1>6. NextRngState(old, NoRoll) = old.rng_state
  BY DEF NextRngState
<1> HIDE DEF new
<1> QED
  BY <1>2, <1>3, <1>4, <1>5, <1>6 DEF Bumps, TypeOK

\* The row a post inserts.
Posted(r, author, body, roll, now) ==
  [room_id |-> r, seq |-> rooms[r].seq_counter + 1, author |-> author,
   expr |-> body.expr, comment |-> body.comment, roll |-> roll,
   created_at |-> now, updated_at |-> now, updated_by |-> author,
   created_event_seq |-> rooms[r].event_counter + 1,
   event_seq |-> rooms[r].event_counter + 1]

\* Bumping and storing the successor RNG state, as a post or an edit does.
LEMMA WriteBumps ==
  ASSUME TypeOK, NEW r \in DOMAIN rooms, NEW seqIncr \in {0, 1},
         NEW expr, NEW roll \in EvalRoll(rooms[r], expr),
         rooms' = [rooms EXCEPT ![r] =
           [BumpCounters(rooms[r], seqIncr) EXCEPT
              !.rng_state = NextRngState(rooms[r], roll)]]
  PROVE  Bumps(r, seqIncr, roll)
<1> DEFINE old == rooms[r]
           bumped == BumpCounters(old, seqIncr)
           new == [bumped EXCEPT !.rng_state = NextRngState(old, roll)]
<1>1. old \in RoomRow
  BY DEF TypeOK
<1>2. NextRngState(old, roll) \in Nat /\ old.rng_state <= NextRngState(old, roll)
  BY <1>1, EvalRollType
<1>3. /\ new \in RoomRow
      /\ new.event_counter = old.event_counter + 1
      /\ new.seq_counter = old.seq_counter + seqIncr
      /\ new.rng_state = NextRngState(old, roll)
      /\ new.token = old.token
      /\ new.created_at = old.created_at
      /\ new.locked_at = old.locked_at
  <2>1. /\ bumped \in RoomRow
        /\ bumped.event_counter = old.event_counter + 1
        /\ bumped.seq_counter = old.seq_counter + seqIncr
        /\ bumped.token = old.token
        /\ bumped.created_at = old.created_at
        /\ bumped.locked_at = old.locked_at
    BY <1>1, BumpCountersFields
  <2> HIDE DEF old, bumped
  <2> QED
    BY <2>1, <1>2 DEF RoomRow
<1>4. rooms' = [rooms EXCEPT ![r] = new]
  OBVIOUS
<1> HIDE DEF new
<1> QED
  BY <1>2, <1>3, <1>4 DEF Bumps, TypeOK

LEMMA PostMessageEffect ==
  ASSUME TypeOK, NEW r \in DOMAIN rooms, NEW author \in Clients,
         NEW body \in Bodies, NEW now \in Time,
         NEW roll \in EvalRoll(rooms[r], body.expr),
         PostMessage(r, author, body, roll, now)
  PROVE  /\ Bumps(r, 1, roll)
         /\ messages' = messages \cup {Posted(r, author, body, roll, now)}
         /\ Posted(r, author, body, roll, now) \in MessageRow
         /\ UNCHANGED <<members, lastId>>
<1>1. rooms[r] \in RoomRow
  BY DEF TypeOK
<1>2. Bumps(r, 1, roll)
  BY WriteBumps DEF PostMessage
<1>3. /\ BumpCounters(rooms[r], 1).seq_counter = rooms[r].seq_counter + 1
      /\ BumpCounters(rooms[r], 1).event_counter = rooms[r].event_counter + 1
  BY <1>1 DEF BumpCounters, RoomRow
<1>4. messages' = messages \cup {Posted(r, author, body, roll, now)}
  BY <1>3 DEF PostMessage, Posted
<1>5. roll \in Rolls \cup {NoRoll}
  BY <1>1, EvalRollType
<1>6. r \in Nat /\ rooms[r].seq_counter \in Nat /\ rooms[r].event_counter \in Nat
  BY <1>1 DEF TypeOK, RoomRow
<1>7. body.expr \in Exprs \cup {NoExpr} /\ body.comment \in Comments \cup {NoComment}
  BY DEF Bodies
<1>8. Posted(r, author, body, roll, now) \in MessageRow
  BY <1>5, <1>6, <1>7 DEF Posted, MessageRow
<1> QED
  BY <1>2, <1>4, <1>8 DEF PostMessage

\* An edit rewrites the one row with its key in place and leaves the rest.
LEMMA EditMessageEffect ==
  ASSUME TypeOK, NEW r \in DOMAIN rooms, NEW seq, NEW editor \in Clients,
         NEW body \in Bodies, NEW now \in Time,
         NEW roll \in EvalRoll(rooms[r], body.expr),
         EditMessage(r, seq, editor, body, roll, now)
  PROVE  LET event == rooms[r].event_counter + 1
             row(m) == IF m.room_id = r /\ m.seq = seq
                       THEN Edited(m, editor, body, roll, now, event) ELSE m
         IN
         /\ Bumps(r, 0, roll)
         /\ messages' = {row(m) : m \in messages}
         /\ \A m \in messages :
              /\ row(m) \in MessageRow
              /\ row(m).room_id = m.room_id
              /\ row(m).seq = m.seq
              /\ row(m).author = m.author
              /\ row(m).created_at = m.created_at
              /\ row(m).created_event_seq = m.created_event_seq
              /\ m.room_id = r /\ m.seq = seq =>
                   /\ row(m).event_seq = event
                   /\ row(m).roll = roll
                   /\ row(m).updated_at = now
              /\ ~(m.room_id = r /\ m.seq = seq) => row(m) = m
         /\ UNCHANGED <<members, lastId>>
<1> DEFINE event == rooms[r].event_counter + 1
           row(m) == IF m.room_id = r /\ m.seq = seq
                     THEN Edited(m, editor, body, roll, now, event) ELSE m
<1>1. rooms[r] \in RoomRow
  BY DEF TypeOK
<1>2. Bumps(r, 0, roll)
  BY WriteBumps DEF EditMessage
<1>3. BumpCounters(rooms[r], 0).event_counter = event
  BY <1>1 DEF BumpCounters, RoomRow
<1>4. messages' = {row(m) : m \in messages} /\ UNCHANGED <<members, lastId>>
  BY <1>3 DEF EditMessage
<1>5. roll \in Rolls \cup {NoRoll}
  BY <1>1, EvalRollType
<1>6. event \in Nat
  BY <1>1 DEF RoomRow
<1>7. body.expr \in Exprs \cup {NoExpr} /\ body.comment \in Comments \cup {NoComment}
  BY DEF Bodies
<1>8. ASSUME NEW m \in messages
      PROVE  LET e == Edited(m, editor, body, roll, now, event) IN
             /\ e \in MessageRow
             /\ e.room_id = m.room_id /\ e.seq = m.seq /\ e.author = m.author
             /\ e.created_at = m.created_at
             /\ e.created_event_seq = m.created_event_seq
             /\ e.event_seq = event /\ e.roll = roll /\ e.updated_at = now
  <2>1. m \in MessageRow
    BY DEF TypeOK
  <2> HIDE DEF event
  <2> QED
    BY <2>1, <1>5, <1>6, <1>7 DEF MessageRow, Edited
<1>9. \A m \in messages : m \in MessageRow
  BY DEF TypeOK
<1> QED
  BY <1>2, <1>4, <1>8, <1>9

LEMMA SweepEffect ==
  ASSUME TypeOK, NEW cutoff, Sweep(cutoff)
  PROVE  /\ DOMAIN rooms' \subseteq DOMAIN rooms
         /\ \A s \in DOMAIN rooms' : rooms'[s] = rooms[s]
         /\ rooms' \in [DOMAIN rooms' -> RoomRow]
         /\ messages' = {m \in messages : m.room_id \in DOMAIN rooms'}
         /\ members' = {m \in members : m.room_id \in DOMAIN rooms'}
         /\ UNCHANGED lastId
<1> DEFINE kept == {r \in DOMAIN rooms : rooms[r].created_at >= cutoff}
<1>1. rooms' = [r \in kept |-> rooms[r]]
  BY DEF Sweep
<1>2. DOMAIN rooms' = kept /\ kept \subseteq DOMAIN rooms
  BY <1>1
<1>3. \A s \in kept : rooms'[s] = rooms[s] /\ rooms[s] \in RoomRow
  BY <1>1 DEF TypeOK
<1> QED
  BY <1>1, <1>2, <1>3 DEF Sweep

-----------------------------------------------------------------------------
(* IInv is inductive: one lemma per operation, one step per conjunct. *)

LEMMA InitIInv == Init => IInv
<1> SUFFICES ASSUME Init PROVE IInv
  OBVIOUS
<1>1. TypeOK
  BY DEF Init, TypeOK
<1>2. NoOrphans /\ TranscriptGapless /\ EventIdsOrderTheRoom /\ FreshRandomness
  BY DEF Init, NoOrphans, TranscriptGapless, EventIdsOrderTheRoom, FreshRandomness,
         MessagesOf
<1> QED
  BY <1>1, <1>2 DEF IInv

\* A room of the table has counters, and its messages' columns are numbers.
LEMMA Columns ==
  ASSUME TypeOK
  PROVE  /\ \A r \in DOMAIN rooms :
              /\ r \in Nat
              /\ rooms[r] \in RoomRow
              /\ rooms[r].seq_counter \in Nat
              /\ rooms[r].event_counter \in Nat
              /\ rooms[r].rng_state \in Nat
         /\ \A m \in messages :
              /\ m \in MessageRow
              /\ m.room_id \in Nat /\ m.seq \in Nat
              /\ m.created_event_seq \in Nat /\ m.event_seq \in Nat
              /\ m.roll # NoRoll => m.roll.from \in Nat /\ m.roll.to \in Nat
<1>1. \A r \in DOMAIN rooms : rooms[r] \in RoomRow /\ r \in Nat
  BY DEF TypeOK
<1>2. \A m \in messages : m \in MessageRow
  BY DEF TypeOK
<1>3. \A m \in MessageRow : m.roll # NoRoll => m.roll \in Rolls
  BY DEF MessageRow
<1> QED
  BY <1>1, <1>2, <1>3 DEF RoomRow, MessageRow, Rolls

\* A room's seqs are exactly 1..seq_counter: the two readings of gaplessness.
LEMMA SeqRange ==
  ASSUME TypeOK, TranscriptGapless
  PROVE  /\ \A m \in messages : m.room_id \in DOMAIN rooms =>
              m.seq \in 1..rooms[m.room_id].seq_counter
         /\ \A r \in DOMAIN rooms : \A k \in 1..rooms[r].seq_counter :
              \E m \in messages : m.room_id = r /\ m.seq = k
<1>1. ASSUME NEW r \in DOMAIN rooms
      PROVE  {m.seq : m \in MessagesOf(r)} = 1..rooms[r].seq_counter
  BY DEF TranscriptGapless
<1> QED
  BY <1>1 DEF MessagesOf

LEMMA CreateRoomIInv ==
  ASSUME IInv, NEW token \in Tokens, NEW now \in Time, CreateRoom(token, now)
  PROVE  IInv'
<1> USE DEF IInv
<1>1. /\ lastId' = lastId + 1
      /\ lastId + 1 \notin DOMAIN rooms
      /\ DOMAIN rooms' = DOMAIN rooms \cup {lastId + 1}
      /\ \A s \in DOMAIN rooms : rooms'[s] = rooms[s]
      /\ rooms'[lastId + 1] \in RoomRow
      /\ rooms'[lastId + 1].seq_counter = 0
      /\ rooms' \in [DOMAIN rooms' -> RoomRow]
      /\ messages' = messages /\ members' = members
  BY CreateRoomEffect
<1>2. TypeOK'
  BY <1>1 DEF TypeOK
<1>3. NoOrphans'
  BY <1>1 DEF NoOrphans
<1>4. TranscriptGapless'
  <2>1. ASSUME NEW r \in DOMAIN rooms'
        PROVE  {m.seq : m \in MessagesOf(r)'} = 1..rooms'[r].seq_counter
    <3>1. CASE r \in DOMAIN rooms
      BY <1>1, <3>1 DEF TranscriptGapless, MessagesOf
    <3>2. CASE r = lastId + 1
      <4>1. MessagesOf(r)' = {}
        BY <1>1, <3>2 DEF NoOrphans, MessagesOf
      <4> QED
        BY <1>1, <3>2, <4>1
    <3> QED
      BY <1>1, <3>1, <3>2
  <2> QED
    BY <1>1, <2>1 DEF TranscriptGapless
<1>5. EventIdsOrderTheRoom'
  BY <1>1 DEF EventIdsOrderTheRoom, NoOrphans
<1>6. FreshRandomness'
  BY <1>1 DEF FreshRandomness, NoOrphans
<1> QED
  BY <1>2, <1>3, <1>4, <1>5, <1>6

LEMMA LockRoomIInv ==
  ASSUME IInv, NEW r \in DOMAIN rooms, NEW now \in Time, LockRoom(r, now)
  PROVE  IInv'
<1> USE DEF IInv
<1>1. /\ Bumps(r, 0, NoRoll)
      /\ members' = members /\ messages' = messages /\ lastId' = lastId
  BY LockRoomEffect
<1>2. rooms'[r].rng_state = rooms[r].rng_state /\ rooms'[r].seq_counter = rooms[r].seq_counter
  BY <1>1, Columns DEF Bumps, NextRngState
<1>3. TypeOK'
  BY <1>1 DEF TypeOK, Bumps
<1>4. NoOrphans'
  BY <1>1 DEF NoOrphans, Bumps
<1>5. TranscriptGapless'
  BY <1>1, <1>2 DEF TranscriptGapless, MessagesOf, Bumps
<1>6. EventIdsOrderTheRoom'
  BY <1>1, Columns DEF EventIdsOrderTheRoom, NoOrphans, Bumps
<1>7. FreshRandomness'
  BY <1>1, <1>2 DEF FreshRandomness, NoOrphans, Bumps
<1> QED
  BY <1>3, <1>4, <1>5, <1>6, <1>7

LEMMA SetNameIInv ==
  ASSUME IInv, NEW r \in DOMAIN rooms, NEW client \in Clients, NEW name \in Names,
         SetName(r, client, name)
  PROVE  IInv'
<1> USE DEF IInv
<1> DEFINE row == [room_id |-> r, client_id |-> client, name |-> name]
<1>1. /\ members' = {m \in members : m.room_id # r \/ m.client_id # client} \cup {row}
      /\ rooms' = rooms /\ messages' = messages /\ lastId' = lastId
  BY DEF SetName
<1>2. row \in MemberRow /\ row.room_id = r
  BY Columns DEF MemberRow
<1> HIDE DEF row
<1>3. TypeOK'
  BY <1>1, <1>2 DEF TypeOK
<1>4. NoOrphans'
  BY <1>1, <1>2 DEF NoOrphans
<1>5. TranscriptGapless' /\ EventIdsOrderTheRoom' /\ FreshRandomness'
  BY <1>1 DEF TranscriptGapless, MessagesOf, EventIdsOrderTheRoom, FreshRandomness
<1> QED
  BY <1>3, <1>4, <1>5

LEMMA PostMessageIInv ==
  ASSUME IInv, NEW r \in DOMAIN rooms, NEW author \in Clients,
         NEW body \in Bodies, NEW now \in Time,
         NEW roll \in EvalRoll(rooms[r], body.expr),
         PostMessage(r, author, body, roll, now)
  PROVE  IInv'
<1> USE DEF IInv
<1> DEFINE new == Posted(r, author, body, roll, now)
<1>1. /\ Bumps(r, 1, roll)
      /\ messages' = messages \cup {new} /\ new \in MessageRow
      /\ members' = members /\ lastId' = lastId
  BY PostMessageEffect
<1>2. /\ new.room_id = r
      /\ new.seq = rooms[r].seq_counter + 1
      /\ new.created_event_seq = rooms[r].event_counter + 1
      /\ new.event_seq = rooms[r].event_counter + 1
      /\ new.roll = roll
  BY DEF Posted
<1> HIDE DEF new
<1>3. /\ rooms'[r].rng_state \in Nat
      /\ rooms[r].rng_state <= rooms'[r].rng_state
      /\ roll # NoRoll => /\ roll.from = rooms[r].rng_state
                          /\ roll.to = rooms'[r].rng_state
                          /\ roll.from <= roll.to
  BY <1>1, Columns, EvalRollType DEF Bumps
<1>4. \A m \in messages : m.room_id = r => m.seq \in 1..rooms[r].seq_counter
  BY SeqRange
<1>5. TypeOK'
  BY <1>1 DEF TypeOK, Bumps
<1>6. NoOrphans'
  BY <1>1, <1>2 DEF NoOrphans, Bumps
<1>7. TranscriptGapless'
  <2>1. ASSUME NEW s \in DOMAIN rooms'
        PROVE  {m.seq : m \in MessagesOf(s)'} = 1..rooms'[s].seq_counter
    <3>1. CASE s # r
      <4>1. MessagesOf(s)' = MessagesOf(s)
        BY <1>1, <1>2, <3>1 DEF MessagesOf
      <4>2. rooms'[s] = rooms[s] /\ s \in DOMAIN rooms
        BY <1>1, <3>1 DEF Bumps
      <4> QED
        BY <4>1, <4>2 DEF TranscriptGapless
    <3>2. CASE s = r
      <4>1. MessagesOf(r)' = MessagesOf(r) \cup {new}
        BY <1>1, <1>2 DEF MessagesOf
      <4>2. {m.seq : m \in MessagesOf(r)'} =
              {m.seq : m \in MessagesOf(r)} \cup {rooms[r].seq_counter + 1}
        BY <4>1, <1>2
      <4>3. {m.seq : m \in MessagesOf(r)} = 1..rooms[r].seq_counter
        BY DEF TranscriptGapless
      <4>4. rooms'[r].seq_counter = rooms[r].seq_counter + 1
        BY <1>1 DEF Bumps
      <4>5. rooms[r].seq_counter \in Nat
        BY Columns
      <4>6. \A n \in Nat : (1..n) \cup {n + 1} = 1..(n + 1)
        OBVIOUS
      <4> QED
        BY <4>2, <4>3, <4>4, <4>5, <4>6, <3>2
    <3> QED
      BY <3>1, <3>2
  <2>2. \A m, n \in messages' : m.room_id = n.room_id /\ m.seq = n.seq => m = n
    BY <1>1, <1>2, <1>4, Columns DEF TranscriptGapless
  <2> QED
    BY <2>1, <2>2 DEF TranscriptGapless
<1>8. EventIdsOrderTheRoom'
  <2>1. \A m \in messages' :
          /\ m.created_event_seq \in 1..m.event_seq
          /\ m.room_id \in DOMAIN rooms' =>
               m.event_seq <= rooms'[m.room_id].event_counter
    BY <1>1, <1>2, Columns DEF EventIdsOrderTheRoom, NoOrphans, Bumps
  <2>2. \A m \in messages : m.room_id = r =>
          /\ m.created_event_seq < new.created_event_seq
          /\ m.event_seq < new.event_seq
          /\ m.seq < new.seq
    BY <1>2, <1>4, Columns DEF EventIdsOrderTheRoom
  <2>3. \A m, n \in messages' :
          m.room_id = n.room_id /\ m.seq < n.seq =>
            m.created_event_seq < n.created_event_seq /\ m.event_seq # n.event_seq
    BY <1>1, <1>2, <2>2, Columns DEF EventIdsOrderTheRoom
  <2> QED
    BY <2>1, <2>3 DEF EventIdsOrderTheRoom
<1>9. FreshRandomness'
  <2>1. \A m \in messages' :
          m.roll # NoRoll /\ m.room_id \in DOMAIN rooms' =>
            m.roll.from <= m.roll.to /\ m.roll.to <= rooms'[m.room_id].rng_state
    <3>1. \A m \in messages :
            m.roll # NoRoll =>
              /\ m.roll.from <= m.roll.to
              /\ m.roll.to <= rooms'[m.room_id].rng_state
      <4> SUFFICES ASSUME NEW m \in messages, m.roll # NoRoll
                   PROVE  /\ m.roll.from <= m.roll.to
                          /\ m.roll.to <= rooms'[m.room_id].rng_state
        OBVIOUS
      <4>1. /\ m.room_id \in DOMAIN rooms
            /\ m.roll.from <= m.roll.to
            /\ m.roll.to <= rooms[m.room_id].rng_state
            /\ m.roll.to \in Nat /\ rooms[m.room_id].rng_state \in Nat
        BY Columns DEF FreshRandomness, NoOrphans
      <4>2. rooms[m.room_id].rng_state <= rooms'[m.room_id].rng_state
            /\ rooms'[m.room_id].rng_state \in Nat
        BY <4>1, <1>1, <1>3 DEF Bumps, RoomRow
      <4> QED
        BY <4>1, <4>2
    <3>2. new.roll # NoRoll =>
            /\ new.roll.from <= new.roll.to
            /\ new.roll.to <= rooms'[r].rng_state
      BY <1>2, <1>3
    <3> QED
      BY <3>1, <3>2, <1>1, <1>2
  <2>2. \A m \in messages : m.room_id = r /\ m.roll # NoRoll /\ new.roll # NoRoll =>
          m.roll.to <= new.roll.from
    BY <1>2, <1>3 DEF FreshRandomness
  <2>3. \A m, n \in messages' :
          m.room_id = n.room_id /\ m.seq # n.seq /\ m.roll # NoRoll /\ n.roll # NoRoll =>
            m.roll.to <= n.roll.from \/ n.roll.to <= m.roll.from
    BY <1>1, <1>2, <2>2 DEF FreshRandomness
  <2> QED
    BY <2>1, <2>3 DEF FreshRandomness
<1> QED
  BY <1>5, <1>6, <1>7, <1>8, <1>9

LEMMA EditMessageIInv ==
  ASSUME IInv, NEW r \in DOMAIN rooms, NEW seq, NEW editor \in Clients,
         NEW body \in Bodies, NEW now \in Time,
         NEW roll \in EvalRoll(rooms[r], body.expr),
         EditMessage(r, seq, editor, body, roll, now)
  PROVE  IInv'
<1> USE DEF IInv
<1> DEFINE event == rooms[r].event_counter + 1
           row(m) == IF m.room_id = r /\ m.seq = seq
                     THEN Edited(m, editor, body, roll, now, event) ELSE m
<1>1. /\ Bumps(r, 0, roll)
      /\ messages' = {row(m) : m \in messages}
      /\ members' = members /\ lastId' = lastId
      /\ \A m \in messages :
           /\ row(m) \in MessageRow
           /\ row(m).room_id = m.room_id
           /\ row(m).seq = m.seq
           /\ row(m).created_event_seq = m.created_event_seq
           /\ m.room_id = r /\ m.seq = seq =>
                row(m).event_seq = event /\ row(m).roll = roll
           /\ ~(m.room_id = r /\ m.seq = seq) => row(m) = m
  BY EditMessageEffect
<1>2. /\ rooms'[r].rng_state \in Nat
      /\ rooms[r].rng_state <= rooms'[r].rng_state
      /\ roll # NoRoll => /\ roll.from = rooms[r].rng_state
                          /\ roll.to = rooms'[r].rng_state
                          /\ roll.from <= roll.to
      /\ rooms'[r].seq_counter = rooms[r].seq_counter
      /\ rooms'[r].event_counter = event
      /\ event \in Nat
  BY <1>1, Columns, EvalRollType DEF Bumps
<1>3. \A m \in messages : m.room_id = r => m.event_seq < event
  BY Columns DEF EventIdsOrderTheRoom
<1> HIDE DEF event, row
<1>4. TypeOK'
  BY <1>1 DEF TypeOK, Bumps
<1>5. NoOrphans'
  BY <1>1 DEF NoOrphans, Bumps
<1>6. TranscriptGapless'
  <2>1. ASSUME NEW s \in DOMAIN rooms'
        PROVE  {m.seq : m \in MessagesOf(s)'} = 1..rooms'[s].seq_counter
    <3>1. MessagesOf(s)' = {row(m) : m \in MessagesOf(s)}
      BY <1>1 DEF MessagesOf
    <3>2. {m.seq : m \in MessagesOf(s)'} = {m.seq : m \in MessagesOf(s)}
      BY <3>1, <1>1 DEF MessagesOf
    <3>3. s \in DOMAIN rooms /\ rooms'[s].seq_counter = rooms[s].seq_counter
      BY <1>1, <1>2 DEF Bumps
    <3> QED
      BY <3>2, <3>3 DEF TranscriptGapless
  <2>2. \A m, n \in messages' : m.room_id = n.room_id /\ m.seq = n.seq => m = n
    BY <1>1 DEF TranscriptGapless
  <2> QED
    BY <2>1, <2>2 DEF TranscriptGapless
<1>7. EventIdsOrderTheRoom'
  <2>1. \A m \in messages :
          /\ row(m).created_event_seq \in 1..row(m).event_seq
          /\ row(m).event_seq <= rooms'[m.room_id].event_counter
    <3> SUFFICES ASSUME NEW m \in messages
                 PROVE  /\ row(m).created_event_seq \in 1..row(m).event_seq
                        /\ row(m).event_seq <= rooms'[m.room_id].event_counter
      OBVIOUS
    <3>1. /\ m.created_event_seq \in 1..m.event_seq
          /\ m.room_id \in DOMAIN rooms
          /\ m.event_seq <= rooms[m.room_id].event_counter
          /\ m.event_seq \in Nat
      BY Columns DEF EventIdsOrderTheRoom, NoOrphans
    <3>2. CASE m.room_id = r /\ m.seq = seq
      BY <3>1, <3>2, <1>1, <1>2, <1>3
    <3>3. CASE ~(m.room_id = r /\ m.seq = seq) /\ m.room_id = r
      BY <3>1, <3>3, <1>1, <1>2, <1>3
    <3>4. CASE m.room_id # r
      BY <3>1, <3>4, <1>1 DEF Bumps
    <3> QED
      BY <3>2, <3>3, <3>4
  <2>2. \A m, n \in messages :
          m.room_id = n.room_id /\ m.seq < n.seq =>
            /\ row(m).created_event_seq < row(n).created_event_seq
            /\ row(m).event_seq # row(n).event_seq
    <3> SUFFICES ASSUME NEW m \in messages, NEW n \in messages,
                        m.room_id = n.room_id, m.seq < n.seq
                 PROVE  /\ row(m).created_event_seq < row(n).created_event_seq
                        /\ row(m).event_seq # row(n).event_seq
      OBVIOUS
    <3>1. m.created_event_seq < n.created_event_seq /\ m.event_seq # n.event_seq
      BY DEF EventIdsOrderTheRoom
    <3>2. m.seq # n.seq /\ m.event_seq \in Nat /\ n.event_seq \in Nat
      BY Columns
    <3> QED
      BY <3>1, <3>2, <1>1, <1>2, <1>3
  <2> QED
    BY <2>1, <2>2, <1>1 DEF EventIdsOrderTheRoom
<1>8. FreshRandomness'
  <2>1. \A m \in messages :
          row(m).roll # NoRoll =>
            /\ row(m).roll.from <= row(m).roll.to
            /\ row(m).roll.to <= rooms'[m.room_id].rng_state
    <3> SUFFICES ASSUME NEW m \in messages, row(m).roll # NoRoll
                 PROVE  /\ row(m).roll.from <= row(m).roll.to
                        /\ row(m).roll.to <= rooms'[m.room_id].rng_state
      OBVIOUS
    <3>1. CASE m.room_id = r /\ m.seq = seq
      BY <3>1, <1>1, <1>2, Columns
    <3>2. CASE ~(m.room_id = r /\ m.seq = seq)
      <4>1. m.room_id \in DOMAIN rooms /\ row(m) = m
        BY <3>2, <1>1 DEF NoOrphans
      <4>2. /\ m.roll.from <= m.roll.to
            /\ m.roll.to <= rooms[m.room_id].rng_state
            /\ m.roll.to \in Nat /\ rooms[m.room_id].rng_state \in Nat
        BY <4>1, Columns DEF FreshRandomness
      <4>3. rooms[m.room_id].rng_state <= rooms'[m.room_id].rng_state
        BY <4>1, <4>2, <1>1, <1>2 DEF Bumps
      <4>4. rooms'[m.room_id].rng_state \in Nat
        BY <4>1, <1>1 DEF Bumps, RoomRow
      <4> QED
        BY <4>1, <4>2, <4>3, <4>4
    <3> QED
      BY <3>1, <3>2
  <2>2. \A m, n \in messages :
          m.room_id = n.room_id /\ m.seq # n.seq /\ row(m).roll # NoRoll
            /\ row(n).roll # NoRoll =>
              \/ row(m).roll.to <= row(n).roll.from
              \/ row(n).roll.to <= row(m).roll.from
    <3> SUFFICES ASSUME NEW m \in messages, NEW n \in messages,
                        m.room_id = n.room_id, m.seq # n.seq,
                        row(m).roll # NoRoll, row(n).roll # NoRoll
                 PROVE  \/ row(m).roll.to <= row(n).roll.from
                        \/ row(n).roll.to <= row(m).roll.from
      OBVIOUS
    <3>1. CASE m.room_id = r /\ m.seq = seq
      BY <3>1, <1>1, <1>2 DEF FreshRandomness
    <3>2. CASE n.room_id = r /\ n.seq = seq
      BY <3>2, <1>1, <1>2 DEF FreshRandomness
    <3>3. CASE ~(m.room_id = r /\ m.seq = seq) /\ ~(n.room_id = r /\ n.seq = seq)
      BY <3>3, <1>1 DEF FreshRandomness
    <3> QED
      BY <3>1, <3>2, <3>3
  <2> QED
    BY <2>1, <2>2, <1>1 DEF FreshRandomness
<1> QED
  BY <1>4, <1>5, <1>6, <1>7, <1>8

LEMMA SweepIInv ==
  ASSUME IInv, NEW cutoff, Sweep(cutoff)
  PROVE  IInv'
<1> USE DEF IInv
<1>1. /\ DOMAIN rooms' \subseteq DOMAIN rooms
      /\ \A s \in DOMAIN rooms' : rooms'[s] = rooms[s]
      /\ rooms' \in [DOMAIN rooms' -> RoomRow]
      /\ messages' = {m \in messages : m.room_id \in DOMAIN rooms'}
      /\ members' = {m \in members : m.room_id \in DOMAIN rooms'}
      /\ lastId' = lastId
  BY SweepEffect
<1>2. TypeOK'
  BY <1>1 DEF TypeOK
<1>3. NoOrphans'
  BY <1>1 DEF NoOrphans
<1>4. TranscriptGapless'
  <2>1. ASSUME NEW s \in DOMAIN rooms' PROVE MessagesOf(s)' = MessagesOf(s)
    BY <1>1 DEF MessagesOf
  <2> QED
    BY <1>1, <2>1 DEF TranscriptGapless
<1>5. EventIdsOrderTheRoom'
  BY <1>1 DEF EventIdsOrderTheRoom
<1>6. FreshRandomness'
  BY <1>1 DEF FreshRandomness
<1> QED
  BY <1>2, <1>3, <1>4, <1>5, <1>6

LEMMA StutterIInv == ASSUME IInv, UNCHANGED storeVars PROVE IInv'
BY DEF IInv, storeVars, TypeOK, NoOrphans, TranscriptGapless, MessagesOf,
       EventIdsOrderTheRoom, FreshRandomness

LEMMA NextIInv == IInv /\ [Next]_storeVars => IInv'
<1> SUFFICES ASSUME IInv, [Next]_storeVars PROVE IInv'
  OBVIOUS
<1>1. CASE \E token \in Tokens, now \in Time : CreateRoom(token, now)
  BY <1>1, CreateRoomIInv
<1>2. CASE \E r \in DOMAIN rooms, now \in Time : LockRoom(r, now)
  BY <1>2, LockRoomIInv
<1>3. CASE \E r \in DOMAIN rooms, c \in Clients, name \in Names : SetName(r, c, name)
  BY <1>3, SetNameIInv
<1>4. CASE \E r \in DOMAIN rooms, c \in Clients, body \in Bodies, now \in Time :
             \E roll \in EvalRoll(rooms[r], body.expr) :
               PostMessage(r, c, body, roll, now)
  BY <1>4, PostMessageIInv
<1>5. CASE \E m \in messages, c \in Clients, body \in Bodies, now \in Time :
             \E roll \in EvalRoll(rooms[m.room_id], body.expr) :
               EditMessage(m.room_id, m.seq, c, body, roll, now)
  <2>1. \A m \in messages : m.room_id \in DOMAIN rooms
    BY DEF IInv, NoOrphans
  <2> QED
    BY <1>5, <2>1, EditMessageIInv
<1>6. CASE \E cutoff \in Time : Sweep(cutoff)
  BY <1>6, SweepIInv
<1>7. CASE UNCHANGED storeVars
  BY <1>7, StutterIInv
<1> QED
  BY <1>1, <1>2, <1>3, <1>4, <1>5, <1>6, <1>7 DEF Next

\* The inductive invariant holds in every reachable state.
THEOREM Invariance == Spec => []IInv
BY InitIInv, NextIInv, PTL DEF Spec

-----------------------------------------------------------------------------
(* What a single step leaves as it was. *)

Kept(m, n) ==
  /\ <<n.room_id, n.seq, n.author>> = <<m.room_id, m.seq, m.author>>
  /\ <<n.created_at, n.created_event_seq>> = <<m.created_at, m.created_event_seq>>
  /\ n.event_seq = m.event_seq => n = m

LocksKept ==
  \A r \in DOMAIN rooms \cap DOMAIN rooms' :
    rooms[r].locked_at # NotLocked => rooms'[r].locked_at = rooms[r].locked_at

RowsKept ==
  \A m \in messages : m.room_id \in DOMAIN rooms' => \E n \in messages' : Kept(m, n)

LEMMA StepKeeps ==
  ASSUME IInv, Next
  PROVE  LocksKept /\ RowsKept
<1> USE DEF LocksKept, RowsKept
<1>0. /\ \A m : Kept(m, m)
      /\ messages \subseteq messages' => RowsKept
  BY DEF Kept
<1>1. ASSUME NEW token \in Tokens, NEW now \in Time, CreateRoom(token, now)
      PROVE  LocksKept /\ RowsKept
  BY <1>0, <1>1, CreateRoomEffect DEF IInv
<1>2. ASSUME NEW r \in DOMAIN rooms, NEW now \in Time, LockRoom(r, now)
      PROVE  LocksKept /\ RowsKept
  BY <1>0, <1>2, LockRoomEffect DEF IInv, Bumps
<1>3. ASSUME NEW r \in DOMAIN rooms, NEW c \in Clients, NEW name \in Names,
             SetName(r, c, name)
      PROVE  LocksKept /\ RowsKept
  BY <1>0, <1>3 DEF SetName
<1>4. ASSUME NEW r \in DOMAIN rooms, NEW c \in Clients, NEW body \in Bodies,
             NEW now \in Time, NEW roll \in EvalRoll(rooms[r], body.expr),
             PostMessage(r, c, body, roll, now)
      PROVE  LocksKept /\ RowsKept
  BY <1>0, <1>4, PostMessageEffect DEF IInv, Bumps
<1>5. ASSUME NEW r \in DOMAIN rooms, NEW seq, NEW c \in Clients,
             NEW body \in Bodies, NEW now \in Time,
             NEW roll \in EvalRoll(rooms[r], body.expr),
             EditMessage(r, seq, c, body, roll, now)
      PROVE  LocksKept /\ RowsKept
  <2> DEFINE event == rooms[r].event_counter + 1
             row(m) == IF m.room_id = r /\ m.seq = seq
                       THEN Edited(m, c, body, roll, now, event) ELSE m
  <2>1. /\ Bumps(r, 0, roll)
        /\ messages' = {row(m) : m \in messages}
        /\ \A m \in messages :
             /\ row(m).room_id = m.room_id
             /\ row(m).seq = m.seq
             /\ row(m).author = m.author
             /\ row(m).created_at = m.created_at
             /\ row(m).created_event_seq = m.created_event_seq
             /\ m.room_id = r /\ m.seq = seq => row(m).event_seq = event
             /\ ~(m.room_id = r /\ m.seq = seq) => row(m) = m
    BY <1>5, EditMessageEffect DEF IInv
  <2>2. \A m \in messages : m.room_id = r => m.event_seq # event
    BY Columns DEF IInv, EventIdsOrderTheRoom
  <2> HIDE DEF row, event
  <2>3. \A m \in messages : Kept(m, row(m))
    BY <2>1, <2>2 DEF Kept
  <2>4. RowsKept
    BY <2>1, <2>3
  <2> QED
    BY <2>1, <2>4 DEF Bumps
<1>6. ASSUME NEW cutoff \in Time, Sweep(cutoff) PROVE LocksKept /\ RowsKept
  BY <1>0, <1>6, SweepEffect DEF IInv
<1>7. \A m \in messages : m.room_id \in DOMAIN rooms
  BY DEF IInv, NoOrphans
<1> HIDE DEF LocksKept, RowsKept
<1> QED
  BY <1>1, <1>2, <1>3, <1>4, <1>5, <1>6, <1>7 DEF Next

Retired == \A r \in 1..lastId : r \notin DOMAIN rooms => r \notin DOMAIN rooms'

LEMMA StepRetires ==
  ASSUME IInv, Next
  PROVE  Retired
<1> USE DEF Retired
<1>1. ASSUME NEW token \in Tokens, NEW now \in Time, CreateRoom(token, now)
      PROVE  Retired
  BY <1>1, CreateRoomEffect DEF IInv, TypeOK
<1>2. ASSUME NEW r \in DOMAIN rooms, NEW now \in Time, LockRoom(r, now)
      PROVE  Retired
  BY <1>2, LockRoomEffect DEF IInv, Bumps
<1>3. ASSUME NEW r \in DOMAIN rooms, NEW c \in Clients, NEW name \in Names,
             SetName(r, c, name)
      PROVE  Retired
  BY <1>3 DEF SetName
<1>4. ASSUME NEW r \in DOMAIN rooms, NEW c \in Clients, NEW body \in Bodies,
             NEW now \in Time, NEW roll \in EvalRoll(rooms[r], body.expr),
             PostMessage(r, c, body, roll, now)
      PROVE  Retired
  BY <1>4, PostMessageEffect DEF IInv, Bumps
<1>5. ASSUME NEW r \in DOMAIN rooms, NEW seq, NEW c \in Clients,
             NEW body \in Bodies, NEW now \in Time,
             NEW roll \in EvalRoll(rooms[r], body.expr),
             EditMessage(r, seq, c, body, roll, now)
      PROVE  Retired
  BY <1>5, EditMessageEffect DEF IInv, Bumps
<1>6. ASSUME NEW cutoff \in Time, Sweep(cutoff) PROVE Retired
  BY <1>6, SweepEffect DEF IInv
<1>7. \A m \in messages : m.room_id \in DOMAIN rooms
  BY DEF IInv, NoOrphans
<1> HIDE DEF Retired
<1> QED
  BY <1>1, <1>2, <1>3, <1>4, <1>5, <1>6, <1>7 DEF Next

-----------------------------------------------------------------------------
(* The results. *)

\* Every row keeps the column types of the schema, under ids handed out.
THEOREM TypeCorrect == Spec => []TypeOK
<1>1. IInv => TypeOK
  BY DEF IInv
<1> QED
  BY <1>1, Invariance, PTL

\* No sequence of operations leaves a message or a member of a deleted room.
THEOREM CascadeIsComplete == Spec => []NoOrphans
<1>1. IInv => NoOrphans
  BY DEF IInv
<1> QED
  BY <1>1, Invariance, PTL

\* Whatever the operations and their order, a room's messages are numbered
\* 1..seq_counter, each number once.
THEOREM TranscriptIsGapless == Spec => []TranscriptGapless
<1>1. IInv => TranscriptGapless
  BY DEF IInv
<1> QED
  BY <1>1, Invariance, PTL

\* Event ids are unique within a room, never above its counter, and agree with
\* the order of the messages.
THEOREM EventIdsAreOrdered == Spec => []EventIdsOrderTheRoom
<1>1. IInv => EventIdsOrderTheRoom
  BY DEF IInv
<1> QED
  BY <1>1, Invariance, PTL

\* No two rolls stored in a room were made from the same random numbers,
\* whatever the number of draws a roll takes.
THEOREM RandomnessIsFresh == Spec => []FreshRandomness
<1>1. IInv => FreshRandomness
  BY DEF IInv
<1> QED
  BY <1>1, Invariance, PTL

\* What a step writes is newer than everything written before it: a client
\* that knows the event counter is told about every later change.
THEOREM NewChangesAreNewer == Spec => ChangesAreNewer
<1> DEFINE Newer ==
      \A m \in messages' \ messages :
        m.room_id \in DOMAIN rooms /\ m.event_seq > rooms[m.room_id].event_counter
<1>1. ASSUME IInv, Next PROVE Newer
  <2>1. ASSUME NEW token \in Tokens, NEW now \in Time, CreateRoom(token, now)
        PROVE  Newer
    BY <2>1 DEF CreateRoom
  <2>2. ASSUME NEW r \in DOMAIN rooms, NEW now \in Time, LockRoom(r, now)
        PROVE  Newer
    BY <2>2 DEF LockRoom
  <2>3. ASSUME NEW r \in DOMAIN rooms, NEW c \in Clients, NEW name \in Names,
               SetName(r, c, name)
        PROVE  Newer
    BY <2>3 DEF SetName
  <2>4. ASSUME NEW r \in DOMAIN rooms, NEW c \in Clients, NEW body \in Bodies,
               NEW now \in Time, NEW roll \in EvalRoll(rooms[r], body.expr),
               PostMessage(r, c, body, roll, now)
        PROVE  Newer
    <3>1. messages' = messages \cup {Posted(r, c, body, roll, now)}
      BY <1>1, <2>4, PostMessageEffect DEF IInv
    <3>2. /\ Posted(r, c, body, roll, now).room_id = r
          /\ Posted(r, c, body, roll, now).event_seq = rooms[r].event_counter + 1
      BY DEF Posted
    <3> QED
      BY <1>1, <3>1, <3>2, Columns DEF IInv
  <2>5. ASSUME NEW r \in DOMAIN rooms, NEW seq, NEW c \in Clients,
               NEW body \in Bodies, NEW now \in Time,
               NEW roll \in EvalRoll(rooms[r], body.expr),
               EditMessage(r, seq, c, body, roll, now)
        PROVE  Newer
    <3> DEFINE event == rooms[r].event_counter + 1
               row(m) == IF m.room_id = r /\ m.seq = seq
                         THEN Edited(m, c, body, roll, now, event) ELSE m
    <3>0. TypeOK
      BY <1>1 DEF IInv
    <3>1. /\ messages' = {row(m) : m \in messages}
          /\ \A m \in messages :
               /\ row(m).room_id = m.room_id
               /\ m.room_id = r /\ m.seq = seq => row(m).event_seq = event
               /\ ~(m.room_id = r /\ m.seq = seq) => row(m) = m
      BY <2>5, <3>0, EditMessageEffect, SMTT(30)
    <3>2. event > rooms[r].event_counter
      BY <1>1, Columns DEF IInv
    <3> HIDE DEF row, event
    <3> QED
      BY <3>1, <3>2
  <2>6. ASSUME NEW cutoff \in Time, Sweep(cutoff) PROVE Newer
    BY <2>6 DEF Sweep
  <2>7. \A m \in messages : m.room_id \in DOMAIN rooms
    BY <1>1 DEF IInv, NoOrphans
  <2> HIDE DEF Newer
  <2> QED
    BY <1>1, <2>1, <2>2, <2>3, <2>4, <2>5, <2>6, <2>7 DEF Next
<1>2. ASSUME UNCHANGED storeVars PROVE Newer
  BY <1>2 DEF storeVars
<1>3. IInv /\ [Next]_storeVars => [Newer]_storeVars
  BY <1>1
<1> QED
  BY <1>3, Invariance, PTL DEF Spec, ChangesAreNewer

\* Whatever is done to a room, its messages keep author, creation time and
\* creation event, a rewritten message has a new event id, and the first
\* timestamp of a lock stays.
THEOREM OriginsAreKept == Spec => OriginsSurvive
<1> DEFINE Survive ==
             \A r \in DOMAIN rooms \cap DOMAIN rooms' :
               /\ rooms[r].locked_at # NotLocked => rooms'[r].locked_at = rooms[r].locked_at
               /\ \A m \in MessagesOf(r) : \E n \in messages' :
                    /\ <<n.room_id, n.seq, n.author>> = <<r, m.seq, m.author>>
                    /\ <<n.created_at, n.created_event_seq>>
                         = <<m.created_at, m.created_event_seq>>
                    /\ n.event_seq = m.event_seq => n = m
<1>1. LocksKept /\ RowsKept => Survive
  BY DEF MessagesOf, LocksKept, RowsKept, Kept
<1>2. IInv /\ [Next]_storeVars => [Survive]_storeVars
  BY <1>1, StepKeeps
<1> QED
  BY <1>2, Invariance, PTL DEF Spec, OriginsSurvive

\* The id of a deleted room is never given to another room.
THEOREM IdsAreNeverReused == Spec => RoomIdsNeverReused
<1>1. IInv /\ [Next]_storeVars => [Retired]_storeVars
  BY StepRetires
<1> QED
  BY <1>1, Invariance, PTL DEF Spec, RoomIdsNeverReused, Retired

-----------------------------------------------------------------------------
(* The refinement of Transcript. *)

\* (room_id, seq) names one row, before and after a step.
LEMMA RowAtFinds ==
  ASSUME NEW ms, NEW m \in ms,
         \A a, b \in ms : a.room_id = b.room_id /\ a.seq = b.seq => a = b
  PROVE  RowAt(ms, m.room_id, m.seq) = m
BY DEF RowAt

\* A transcript stays as it is when every row of it keeps what it shows.
LEMMA SameTranscript ==
  ASSUME IInv, IInv', NEW r \in DOMAIN rooms, r \in DOMAIN rooms',
         rooms'[r].seq_counter = rooms[r].seq_counter,
         \A m \in messages : m.room_id = r =>
           \E n \in messages' : n.room_id = r /\ n.seq = m.seq /\ Entry(n) = Entry(m)
  PROVE  TranscriptOf(r)' = TranscriptOf(r)
<1> SUFFICES ASSUME NEW i \in 1..rooms[r].seq_counter
             PROVE  Entry(RowAt(messages', r, i)) = Entry(RowAt(messages, r, i))
  BY DEF TranscriptOf
<1>1. PICK m \in messages : m.room_id = r /\ m.seq = i
  BY SeqRange DEF IInv
<1>2. PICK n \in messages' : n.room_id = r /\ n.seq = i /\ Entry(n) = Entry(m)
  BY <1>1
<1>3. RowAt(messages, r, i) = m
  BY <1>1, RowAtFinds DEF IInv, TranscriptGapless
<1>4. RowAt(messages', r, i) = n
  BY <1>2, RowAtFinds DEF IInv, TranscriptGapless
<1> QED
  BY <1>2, <1>3, <1>4

LEMMA TranscriptIsSeq ==
  ASSUME NEW r, rooms[r].seq_counter \in Nat
  PROVE  LET S == {Entry(m) : m \in {RowAt(messages, r, i) : i \in Nat}} IN
         /\ TranscriptOf(r) \in Seq(S)
         /\ Len(TranscriptOf(r)) = rooms[r].seq_counter
<1> DEFINE S == {Entry(m) : m \in {RowAt(messages, r, i) : i \in Nat}}
<1>1. TranscriptOf(r) \in [1..rooms[r].seq_counter -> S]
  BY DEF TranscriptOf
<1> HIDE DEF S
<1>2. TranscriptOf(r) \in Seq(S)
  BY <1>1
<1> QED
  BY <1>1, <1>2 DEF S

-----------------------------------------------------------------------------
(* One lemma per operation: the step of Transcript that it is. *)

LEMMA InitPromise == Init => Promise!Init
<1> SUFFICES ASSUME Init PROVE Promise!Init
  OBVIOUS
<1>1. rooms = [r \in {} |-> {}] /\ lastId = 0
  BY DEF Init
<1>2. DOMAIN rooms = {}
  BY <1>1
<1>3. RoomLog = [r \in {} |-> <<>>]
  BY <1>2 DEF RoomLog
<1>4. LockedRooms = {}
  BY <1>2 DEF LockedRooms
<1> QED
  BY <1>1, <1>3, <1>4 DEF Promise!Init

LEMMA CreateRoomOpens ==
  ASSUME IInv, IInv', NEW token \in Tokens, NEW now \in Time, CreateRoom(token, now)
  PROVE  Promise!Open
<1> SUFFICES ASSUME NEW id, id = lastId + 1 PROVE Promise!Open
  OBVIOUS
<1>1. /\ lastId' = id
      /\ id \notin DOMAIN rooms
      /\ DOMAIN rooms' = DOMAIN rooms \cup {id}
      /\ \A s \in DOMAIN rooms : rooms'[s] = rooms[s]
      /\ rooms'[id].seq_counter = 0
      /\ messages' = messages
  BY CreateRoomEffect DEF IInv
<1>2. rooms'[id].locked_at = NotLocked
  BY DEF CreateRoom
<1>3. \A s \in DOMAIN rooms : TranscriptOf(s)' = TranscriptOf(s)
  BY <1>1 DEF TranscriptOf
<1>4. TranscriptOf(id)' = <<>>
  <2>1. TranscriptOf(id)' \in [1..0 -> {}]
    BY <1>1 DEF TranscriptOf
  <2> QED
    BY <2>1, EmptySeq
<1>5. RoomLog' = [r \in DOMAIN RoomLog \cup {id} |->
                    IF r = id THEN <<>> ELSE RoomLog[r]]
  BY <1>1, <1>3, <1>4 DEF RoomLog
<1>6. LockedRooms' = LockedRooms
  BY <1>1, <1>2 DEF LockedRooms
<1> QED
  BY <1>1, <1>5, <1>6 DEF Promise!Open

LEMMA LockRoomLocks ==
  ASSUME IInv, IInv', NEW r \in DOMAIN rooms, NEW now \in Time, LockRoom(r, now)
  PROVE  Promise!Lock(r)
<1>1. /\ Bumps(r, 0, NoRoll)
      /\ messages' = messages /\ lastId' = lastId
  BY LockRoomEffect DEF IInv
<1>2. \A s \in DOMAIN rooms : rooms'[s].seq_counter = rooms[s].seq_counter
  BY <1>1, Columns DEF Bumps, IInv
<1>3. \A s \in DOMAIN rooms : TranscriptOf(s)' = TranscriptOf(s)
  BY <1>1, <1>2 DEF TranscriptOf
<1>4. RoomLog' = RoomLog
  BY <1>1, <1>3 DEF RoomLog, Bumps
<1>5. rooms'[r].locked_at # NotLocked
  <2> DEFINE old == BumpCounters(rooms[r], 0)
  <2>1. rooms' = [rooms EXCEPT ![r] =
                    [old EXCEPT !.locked_at = IF @ = NotLocked THEN now ELSE @]]
    BY DEF LockRoom
  <2>2. old \in RoomRow
    BY Columns, BumpCountersFields DEF IInv
  <2> HIDE DEF old
  <2> QED
    BY <2>1, <2>2, StoreAssumption DEF RoomRow
<1>6. LockedRooms' = LockedRooms \cup {r}
  BY <1>1, <1>5 DEF LockedRooms, Bumps
<1> QED
  BY <1>1, <1>4, <1>6 DEF Promise!Lock

\* Only the transcript of the room written to changes, and no lock.
LEMMA OthersKeep ==
  ASSUME NEW r \in DOMAIN rooms, DOMAIN rooms' = DOMAIN rooms,
         \A s \in DOMAIN rooms : s # r => TranscriptOf(s)' = TranscriptOf(s)
  PROVE  RoomLog' = [RoomLog EXCEPT ![r] = TranscriptOf(r)']
BY DEF RoomLog

\* Storing counters and RNG state leaves locked_at alone.
LEMMA WriteKeepsLock ==
  ASSUME TypeOK, NEW r \in DOMAIN rooms, NEW seqIncr \in {0, 1}, NEW roll,
         rooms' = [rooms EXCEPT ![r] =
           [BumpCounters(rooms[r], seqIncr) EXCEPT
              !.rng_state = NextRngState(rooms[r], roll)]]
  PROVE  rooms'[r].locked_at = rooms[r].locked_at
<1> DEFINE old == rooms[r]
           bumped == BumpCounters(old, seqIncr)
<1>1. bumped \in RoomRow /\ bumped.locked_at = old.locked_at
  BY Columns, BumpCountersFields
<1>2. rooms' = [rooms EXCEPT ![r] =
                  [bumped EXCEPT !.rng_state = NextRngState(old, roll)]]
  OBVIOUS
<1> HIDE DEF bumped
<1> QED
  BY <1>1, <1>2 DEF RoomRow

LEMMA LocksStay ==
  ASSUME NEW r \in DOMAIN rooms, NEW n, NEW roll, Bumps(r, n, roll),
         rooms'[r].locked_at = rooms[r].locked_at
  PROVE  LockedRooms' = LockedRooms
BY DEF LockedRooms, Bumps

LEMMA PostMessageAdds ==
  ASSUME IInv, IInv', NEW r \in DOMAIN rooms, NEW author \in Clients,
         NEW body \in Bodies, NEW now \in Time,
         NEW roll \in EvalRoll(rooms[r], body.expr),
         PostMessage(r, author, body, roll, now)
  PROVE  \E e \in Promise!Entries : Promise!Add(r, e)
<1> DEFINE new == Posted(r, author, body, roll, now)
           n == rooms[r].seq_counter
<1>1. /\ Bumps(r, 1, roll)
      /\ messages' = messages \cup {new} /\ new \in MessageRow
      /\ lastId' = lastId
  BY PostMessageEffect DEF IInv
<1>2. /\ new.room_id = r /\ new.seq = n + 1
      /\ new.author = author /\ new.created_at = now
      /\ new.expr = body.expr /\ new.comment = body.comment
  BY DEF Posted
<1>3. rooms'[r].seq_counter = n + 1 /\ n \in Nat
  BY <1>1, Columns DEF Bumps, IInv
<1> HIDE DEF new, n
<1>4. Entry(new) \in Promise!Entries
  <2>1. body = [expr |-> body.expr, comment |-> body.comment]
    BY DEF Bodies
  <2> QED
    BY <1>2, <2>1 DEF Entry, Promise!Entries
<1>5. ASSUME NEW s \in DOMAIN rooms, s # r PROVE TranscriptOf(s)' = TranscriptOf(s)
  <2>1. s \in DOMAIN rooms' /\ rooms'[s].seq_counter = rooms[s].seq_counter
    BY <1>1, <1>5 DEF Bumps
  <2> QED
    BY <1>1, <2>1, SameTranscript
<1>6. TranscriptOf(r)' = Append(TranscriptOf(r), Entry(new))
  <2>1. ASSUME NEW m \in messages, m.room_id = r
        PROVE  RowAt(messages', r, m.seq) = RowAt(messages, r, m.seq)
    BY <1>1, <2>1, RowAtFinds DEF IInv, TranscriptGapless
  <2>2. \A i \in 1..n : RowAt(messages', r, i) = RowAt(messages, r, i)
    BY <2>1, SeqRange DEF IInv, n
  <2>3. RowAt(messages', r, n + 1) = new
    BY <1>1, <1>2, RowAtFinds DEF IInv, TranscriptGapless
  <2>4. TranscriptOf(r)' = [i \in 1..(n + 1) |-> Entry(RowAt(messages', r, i))]
    BY <1>3 DEF TranscriptOf
  <2>5. TranscriptOf(r) = [i \in 1..n |-> Entry(RowAt(messages, r, i))]
    BY DEF TranscriptOf, n
  <2>6. PICK S : TranscriptOf(r) \in Seq(S) /\ Len(TranscriptOf(r)) = n
    BY <1>3, TranscriptIsSeq DEF n
  <2>7. Append(TranscriptOf(r), Entry(new)) =
          [i \in 1..(n + 1) |-> IF i = n + 1 THEN Entry(new) ELSE TranscriptOf(r)[i]]
    <3> DEFINE T == S \cup {Entry(new)}
               longer == Append(TranscriptOf(r), Entry(new))
    <3>1. TranscriptOf(r) \in Seq(T) /\ Entry(new) \in T
      BY <2>6, SeqMonotonic, Zenon
    <3>2. /\ longer \in Seq(T)
          /\ Len(longer) = n + 1
          /\ \A i \in 1..n : longer[i] = TranscriptOf(r)[i]
          /\ longer[n + 1] = Entry(new)
      BY <2>6, <3>1, AppendProperties
    <3>3. longer \in [1..(n + 1) -> T]
      BY <3>2, LenProperties
    <3> HIDE DEF T, longer
    <3>4. longer = [i \in 1..(n + 1) |-> longer[i]]
      BY <3>3
    <3>5. ASSUME NEW i \in 1..(n + 1)
          PROVE  longer[i] = IF i = n + 1 THEN Entry(new) ELSE TranscriptOf(r)[i]
      BY <1>3, <3>2
    <3> QED
      BY <3>4, <3>5 DEF longer
  <2>8. ASSUME NEW i \in 1..(n + 1)
        PROVE  Entry(RowAt(messages', r, i)) =
                 IF i = n + 1 THEN Entry(new) ELSE TranscriptOf(r)[i]
    BY <1>3, <2>2, <2>3, <2>5
  <2> QED
    BY <2>4, <2>7, <2>8
<1>7. RoomLog' = [RoomLog EXCEPT ![r] = TranscriptOf(r)']
  BY <1>1, <1>5, OthersKeep DEF Bumps
<1>8. LockedRooms' = LockedRooms
  <2>1. rooms'[r].locked_at = rooms[r].locked_at
    BY WriteKeepsLock DEF PostMessage, IInv
  <2> QED
    BY <1>1, <2>1, LocksStay
<1>9. RoomLog[r] = TranscriptOf(r)
  BY DEF RoomLog
<1> QED
  BY <1>1, <1>4, <1>6, <1>7, <1>8, <1>9 DEF Promise!Add

LEMMA EditMessageRewrites ==
  ASSUME IInv, IInv', NEW r \in DOMAIN rooms, NEW seq, NEW editor \in Clients,
         NEW body \in Bodies, NEW now \in Time,
         NEW roll \in EvalRoll(rooms[r], body.expr),
         EditMessage(r, seq, editor, body, roll, now)
  PROVE  seq \in DOMAIN RoomLog[r] /\ Promise!Rewrite(r, seq, body)
<1> DEFINE event == rooms[r].event_counter + 1
           row(m) == IF m.room_id = r /\ m.seq = seq
                     THEN Edited(m, editor, body, roll, now, event) ELSE m
           n == rooms[r].seq_counter
<1>1. /\ Bumps(r, 0, roll)
      /\ messages' = {row(m) : m \in messages}
      /\ lastId' = lastId
      /\ \A m \in messages :
           /\ row(m).room_id = m.room_id
           /\ row(m).seq = m.seq
           /\ row(m).author = m.author
           /\ row(m).created_at = m.created_at
           /\ ~(m.room_id = r /\ m.seq = seq) => row(m) = m
  BY EditMessageEffect DEF IInv
<1>2. PICK old \in messages : old.room_id = r /\ old.seq = seq
  BY DEF EditMessage, MessagesOf
<1>3. row(old).expr = body.expr /\ row(old).comment = body.comment
  <2>1. old \in MessageRow
    BY Columns DEF IInv
  <2> HIDE DEF event
  <2> QED
    BY <1>2, <2>1 DEF Edited, MessageRow
<1>4. DOMAIN rooms' = DOMAIN rooms /\ rooms'[r].seq_counter = n /\ n \in Nat
  BY <1>1, Columns DEF Bumps, IInv
<1>5. seq \in 1..n
  BY <1>2, SeqRange DEF IInv
<1> HIDE DEF row, event, n
<1>6. ASSUME NEW s \in DOMAIN rooms, s # r PROVE TranscriptOf(s)' = TranscriptOf(s)
  <2>1. s \in DOMAIN rooms' /\ rooms'[s].seq_counter = rooms[s].seq_counter
    BY <1>1, <1>6 DEF Bumps
  <2>2. \A m \in messages : m.room_id = s => row(m) = m /\ row(m) \in messages'
    BY <1>1, <1>6
  <2> QED
    BY <2>1, <2>2, SameTranscript
<1>7. TranscriptOf(r) = [i \in 1..n |-> Entry(RowAt(messages, r, i))]
  BY DEF TranscriptOf, n
<1>8. TranscriptOf(r)' = [i \in 1..n |-> Entry(RowAt(messages', r, i))]
  BY <1>4 DEF TranscriptOf
<1>9. ASSUME NEW i \in 1..n
      PROVE  Entry(RowAt(messages', r, i)) =
               IF i = seq THEN [Entry(RowAt(messages, r, i)) EXCEPT !.body = body]
                          ELSE Entry(RowAt(messages, r, i))
  <2>1. PICK m \in messages : m.room_id = r /\ m.seq = i
    BY SeqRange DEF IInv, n
  <2>2. RowAt(messages, r, i) = m
    BY <2>1, RowAtFinds DEF IInv, TranscriptGapless
  <2>3. RowAt(messages', r, i) = row(m)
    <3>1. row(m) \in messages' /\ row(m).room_id = r /\ row(m).seq = i
      BY <1>1, <2>1
    <3>2. \A a, b \in messages' : a.room_id = b.room_id /\ a.seq = b.seq => a = b
      BY DEF IInv, TranscriptGapless
    <3> QED
      BY <3>1, <3>2, RowAtFinds
  <2>4. CASE i # seq
    BY <1>1, <2>1, <2>2, <2>3, <2>4
  <2>5. CASE i = seq
    <3>1. m = old
      BY <1>2, <2>1, <2>5 DEF IInv, TranscriptGapless
    <3>2. body = [expr |-> body.expr, comment |-> body.comment]
      BY DEF Bodies
    <3>3. Entry(row(m)) =
            [author |-> m.author, sent |-> m.created_at, body |-> body]
      BY <1>1, <1>3, <3>1, <3>2 DEF Entry
    <3>4. [Entry(m) EXCEPT !.body = body] =
            [author |-> m.author, sent |-> m.created_at, body |-> body]
      BY DEF Entry
    <3> QED
      BY <2>2, <2>3, <2>5, <3>3, <3>4
  <2> QED
    BY <2>4, <2>5
<1>10. TranscriptOf(r)' =
         [TranscriptOf(r) EXCEPT ![seq] = [TranscriptOf(r)[seq] EXCEPT !.body = body]]
  BY <1>5, <1>7, <1>8, <1>9
<1>11. RoomLog' = [RoomLog EXCEPT ![r] = TranscriptOf(r)']
  BY <1>4, <1>6, OthersKeep
<1>12. LockedRooms' = LockedRooms
  <2>1. rooms'[r].locked_at = rooms[r].locked_at
    BY WriteKeepsLock DEF EditMessage, IInv
  <2> QED
    BY <1>1, <2>1, LocksStay
<1>13. RoomLog[r] = TranscriptOf(r)
  BY DEF RoomLog
<1> QED
  BY <1>1, <1>5, <1>7, <1>10, <1>11, <1>12, <1>13 DEF Promise!Rewrite

LEMMA SweepForgets ==
  ASSUME IInv, IInv', NEW cutoff \in Time, Sweep(cutoff)
  PROVE  \E gone \in SUBSET DOMAIN RoomLog : Promise!Forget(gone)
<1> DEFINE gone == DOMAIN rooms \ DOMAIN rooms'
<1>1. /\ DOMAIN rooms' \subseteq DOMAIN rooms
      /\ \A s \in DOMAIN rooms' : rooms'[s] = rooms[s]
      /\ messages' = {m \in messages : m.room_id \in DOMAIN rooms'}
      /\ lastId' = lastId
  BY SweepEffect DEF IInv
<1>2. ASSUME NEW s \in DOMAIN rooms' PROVE TranscriptOf(s)' = TranscriptOf(s)
  <2>1. s \in DOMAIN rooms /\ rooms'[s].seq_counter = rooms[s].seq_counter
    BY <1>1
  <2>2. \A m \in messages : m.room_id = s => m \in messages'
    BY <1>1
  <2> QED
    BY <2>1, <2>2, SameTranscript
<1>3. gone \in SUBSET DOMAIN RoomLog
  BY DEF RoomLog
<1>4. DOMAIN RoomLog \ gone = DOMAIN rooms'
  BY <1>1 DEF RoomLog
<1>5. RoomLog' = [r \in DOMAIN RoomLog \ gone |-> RoomLog[r]]
  BY <1>1, <1>2, <1>4 DEF RoomLog
<1>6. LockedRooms' = LockedRooms \ gone
  BY <1>1 DEF LockedRooms
<1> HIDE DEF gone
<1> QED
  BY <1>1, <1>3, <1>5, <1>6 DEF Promise!Forget

\* A step that leaves rooms, messages and ids alone leaves the promise alone.
LEMMA NothingShown ==
  ASSUME UNCHANGED <<rooms, messages, lastId>>
  PROVE  UNCHANGED Promise!transcriptVars
<1>1. \A s \in DOMAIN rooms : TranscriptOf(s)' = TranscriptOf(s)
  BY DEF TranscriptOf
<1>2. RoomLog' = RoomLog
  BY <1>1 DEF RoomLog
<1>3. LockedRooms' = LockedRooms
  BY DEF LockedRooms
<1> QED
  BY <1>2, <1>3 DEF Promise!transcriptVars

-----------------------------------------------------------------------------
\* The tables, counters and transactions of the store implement the promise: a
\* room is a list that grows at its end, edits rewrite in place under the author's
\* name, locks stay, and rooms are forgotten whole and for good.
THEOREM ThePromiseIsKept == Spec => KeepsThePromise
<1>1. ASSUME IInv, IInv', [Next]_storeVars
      PROVE  [Promise!Next]_(Promise!transcriptVars)
  <2>1. ASSUME NEW token \in Tokens, NEW now \in Time, CreateRoom(token, now)
        PROVE  Promise!Next
    BY <1>1, <2>1, CreateRoomOpens DEF Promise!Next
  <2>2. ASSUME NEW r \in DOMAIN rooms, NEW now \in Time, LockRoom(r, now)
        PROVE  Promise!Next
    BY <1>1, <2>2, LockRoomLocks DEF Promise!Next, RoomLog
  <2>3. ASSUME NEW r \in DOMAIN rooms, NEW c \in Clients, NEW name \in Names,
               SetName(r, c, name)
        PROVE  UNCHANGED Promise!transcriptVars
    BY <2>3, NothingShown DEF SetName
  <2>4. ASSUME NEW r \in DOMAIN rooms, NEW c \in Clients, NEW body \in Bodies,
               NEW now \in Time, NEW roll \in EvalRoll(rooms[r], body.expr),
               PostMessage(r, c, body, roll, now)
        PROVE  Promise!Next
    <3>1. PICK e \in Promise!Entries : Promise!Add(r, e)
      BY <1>1, <2>4, PostMessageAdds
    <3>2. r \in DOMAIN RoomLog
      BY DEF RoomLog
    <3> QED
      BY <3>1, <3>2 DEF Promise!Next
  <2>5. ASSUME NEW r \in DOMAIN rooms, NEW seq, NEW c \in Clients,
               NEW body \in Bodies, NEW now \in Time,
               NEW roll \in EvalRoll(rooms[r], body.expr),
               EditMessage(r, seq, c, body, roll, now)
        PROVE  Promise!Next
    <3>1. seq \in DOMAIN RoomLog[r] /\ Promise!Rewrite(r, seq, body)
      BY <1>1, <2>5, EditMessageRewrites
    <3>2. r \in DOMAIN RoomLog
      BY DEF RoomLog
    <3> QED
      BY <3>1, <3>2 DEF Promise!Next
  <2>6. ASSUME NEW cutoff \in Time, Sweep(cutoff) PROVE Promise!Next
    BY <1>1, <2>6, SweepForgets DEF Promise!Next
  <2>7. ASSUME UNCHANGED storeVars PROVE UNCHANGED Promise!transcriptVars
    BY <2>7, NothingShown DEF storeVars
  <2>8. \A m \in messages : m.room_id \in DOMAIN rooms
    BY <1>1 DEF IInv, NoOrphans
  <2> QED
    BY <1>1, <2>1, <2>2, <2>3, <2>4, <2>5, <2>6, <2>7, <2>8 DEF Next
<1> QED
  BY InitPromise, <1>1, Invariance, PTL DEF Spec, KeepsThePromise, Promise!Spec
=============================================================================
