---------------------------- MODULE PgStoreProofs ----------------------------
(****************************************************************************)
(* For any number of processes, rooms and events: the transactions of the   *)
(* Postgres backend exclude one another on a room's row and implement the   *)
(* atomic operations of RoomStore.  The inductive invariant says, for a     *)
(* transaction at any of its statements, what it has established and what   *)
(* nobody else can have undone since.                                       *)
(****************************************************************************)
EXTENDS PgStore, RoomStoreProofs

\* The committed row after the UPDATE that marks a room as locked.
Marked(row, o) ==
  IF o.kind = "lock" /\ row.locked_at = NotLocked
  THEN [row EXCEPT !.locked_at = o.now]
  ELSE row

SeqIncr(o) == IF o.kind = "post" THEN 1 ELSE 0

\* What a transaction that holds its room's row has made of it.
Expected(p) ==
  LET marked == Marked(rooms[tx[p].op.room], tx[p].op) IN
  IF At(p, "bump") THEN marked ELSE BumpCounters(marked, SeqIncr(tx[p].op))

\* The statements in their order: what was locked and evaluated by then.
Progress(p) ==
  LET o == tx[p].op
      row == tx[p].row
  IN
  /\ At(p, "find") => o.kind = "edit"
  /\ At(p, "mark") => o.kind = "lock"
  /\ At(p, "eval") => o.kind # "lock"
  /\ At(p, "find") \/ At(p, "mark") \/ At(p, "eval") => row = NoRow
  /\ o.kind = "lock" => tx[p].roll = NoRoll
  /\ o.kind # "lock" /\ (At(p, "bump") \/ At(p, "commit")) =>
       /\ o.body.expr # NoExpr => row # NoRow
       /\ tx[p].roll \in EvalRoll(rooms[o.room], o.body.expr)
  /\ At(p, "commit") => row # NoRow /\ rooms[o.room].event_counter < MaxEvents

\* What it found in a room it does not hold stays true until the room is deleted.
Found(p) ==
  LET o == tx[p].op IN
  /\ o.kind = "edit" /\ ~At(p, "find") /\ o.room \in DOMAIN rooms =>
       \E m \in messages : m.room_id = o.room /\ m.seq = o.seq
  /\ o.kind = "lock" /\ At(p, "bump") /\ tx[p].row = NoRow /\ o.room \in DOMAIN rooms =>
       rooms[o.room].locked_at # NotLocked

\* What it found in the row it holds stays true: nobody else changes that row.
Held(p) ==
  tx[p].row # NoRow =>
    /\ tx[p].op.room \in DOMAIN rooms
    /\ CanLock(p, tx[p].op.room)
    /\ tx[p].row = Expected(p)

TxInv(p) ==
  ~At(p, "idle") =>
    /\ tx[p].op.room \in 1..lastId
    /\ Progress(p)
    /\ Found(p)
    /\ Held(p)

TxType == tx \in [Procs -> {Idle} \cup Running]

PgInv ==
  /\ IInv
  /\ TxType
  /\ \A p \in Procs : TxInv(p)

-----------------------------------------------------------------------------
(* The transaction records. *)

LEMMA OperationFields ==
  ASSUME NEW o \in Operation
  PROVE  /\ o.kind \in {"post", "edit", "lock"}
         /\ o.room \in 1..MaxRooms
         /\ o.now \in Time
         /\ o.kind # "lock" => o.client \in Clients /\ o.body \in Bodies
BY DEF Operation, RoomIds

LEMMA Statements ==
  ASSUME TxType, NEW p \in Procs
  PROVE  /\ At(p, "idle") <=> tx[p] = Idle
         /\ ~At(p, "idle") <=> tx[p] \in Running
         /\ ~At(p, "idle") =>
              /\ tx[p].pc \in {"find", "eval", "mark", "bump", "commit"}
              /\ tx[p].op \in Operation
              /\ tx[p].row \in RoomRow \cup {NoRow}
              /\ tx[p].roll \in Rolls \cup {NoRoll}
<1>1. tx[p] \in {Idle} \cup Running
  BY DEF TxType
<1>2. Idle.pc = "idle" /\ \A t \in Running : t.pc # "idle"
  BY DEF Idle, Running
<1> QED
  BY <1>1, <1>2 DEF At, Running

\* What Goto makes of p's record; the others keep theirs.
LEMMA GotoEffect ==
  ASSUME TxType, NEW p \in Procs, ~At(p, "idle"),
         NEW statement \in {"find", "eval", "mark", "bump", "commit"},
         NEW row \in RoomRow \cup {NoRow}, NEW roll \in Rolls \cup {NoRoll},
         Goto(p, statement, row, roll)
  PROVE  /\ TxType'
         /\ tx'[p].pc = statement /\ tx'[p].op = tx[p].op
         /\ tx'[p].row = row /\ tx'[p].roll = roll
         /\ \A q \in Procs \ {p} : tx'[q] = tx[q]
<1> DEFINE old == tx[p]
           new == [old EXCEPT !.pc = statement, !.row = row, !.roll = roll]
<1>1. old \in Running
  BY Statements
<1>2. tx' = [tx EXCEPT ![p] = new]
  BY DEF Goto
<1> HIDE DEF old
<1>3. /\ new \in Running
      /\ new.pc = statement /\ new.op = old.op /\ new.row = row /\ new.roll = roll
  BY <1>1 DEF Running
<1> HIDE DEF new
<1> QED
  BY <1>2, <1>3 DEF TxType, old

LEMMA EndEffect ==
  ASSUME TxType, NEW p \in Procs, End(p)
  PROVE  /\ TxType'
         /\ At(p, "idle")'
         /\ \A q \in Procs \ {p} : tx'[q] = tx[q]
BY DEF TxType, End, At, Idle

\* A step of p that leaves the tables alone disturbs no other transaction, if it
\* locks a row only when no other holds it.
LEMMA LocalStep ==
  ASSUME PgInv, NEW p \in Procs, UNCHANGED storeVars, TxType',
         \A q \in Procs \ {p} : tx'[q] = tx[q],
         \A r : HoldsRow(p, r)' => CanLock(p, r),
         TxInv(p)'
  PROVE  PgInv'
<1>1. IInv'
  BY StutterIInv DEF PgInv
<1>2. UNCHANGED <<rooms, messages, lastId>>
  BY DEF storeVars
<1>3. ASSUME NEW q \in Procs \ {p} PROVE TxInv(q)'
  <2>1. TxInv(q) /\ tx'[q] = tx[q]
    BY DEF PgInv
  <2>2. CASE At(q, "idle")
    BY <2>1, <2>2 DEF TxInv, At
  <2>3. CASE ~At(q, "idle")
    <3>1. Progress(q)' /\ Found(q)'
      BY <1>2, <2>1, <2>3 DEF TxInv, Progress, Found, At
    <3>2. Expected(q)' = Expected(q)
      BY <1>2, <2>1 DEF Expected, At
    <3>3. ASSUME tx[q].row # NoRow PROVE CanLock(q, tx[q].op.room)'
      <4> DEFINE r == tx[q].op.room
      <4>1. CanLock(q, r) /\ HoldsRow(q, r)
        BY <2>1, <2>3, <3>3 DEF TxInv, Held, HoldsRow
      <4>2. ~HoldsRow(p, r)'
        BY <4>1 DEF CanLock
      <4>3. \A s \in Procs \ {p, q} : ~HoldsRow(s, r)'
        BY <4>1 DEF CanLock, HoldsRow, At
      <4> QED
        BY <2>1, <4>2, <4>3 DEF CanLock
    <3>4. Held(q)'
      BY <1>2, <2>1, <2>3, <3>2, <3>3 DEF TxInv, Held
    <3>5. tx'[q].op.room \in 1..lastId'
      BY <1>2, <2>1, <2>3 DEF TxInv
    <3> QED
      BY <3>1, <3>4, <3>5 DEF TxInv
  <2> QED
    BY <2>2, <2>3
<1> QED
  BY <1>1, <1>3 DEF PgInv

-----------------------------------------------------------------------------
(* The statements that leave the tables alone. *)

LEMMA BeginInv ==
  ASSUME PgInv, NEW p \in Procs, NEW o \in Requests, Begin(p, o)
  PROVE  PgInv'
<1> DEFINE new == [pc |-> CASE o.kind = "post" -> "eval"
                           [] o.kind = "edit" -> "find"
                           [] o.kind = "lock" -> "mark",
                   op |-> o, row |-> NoRow, roll |-> NoRoll]
<1>1. tx' = [tx EXCEPT ![p] = new] /\ UNCHANGED storeVars /\ o.room \in 1..lastId
  BY DEF Begin
<1>2. o \in Operation /\ o.kind \in {"post", "edit", "lock"}
  BY OperationFields, PgAssumption
<1>3. /\ new.pc = CASE o.kind = "post" -> "eval"
                    [] o.kind = "edit" -> "find"
                    [] o.kind = "lock" -> "mark"
      /\ new.op = o /\ new.row = NoRow /\ new.roll = NoRoll
      /\ new \in Running
  BY <1>2 DEF Running
<1> HIDE DEF new
<1>4. tx'[p] = new /\ (\A q \in Procs \ {p} : tx'[q] = tx[q]) /\ TxType'
  BY <1>1, <1>3 DEF PgInv, TxType
<1>5. TxInv(p)'
  <2>1. Progress(p)'
    BY <1>2, <1>3, <1>4 DEF Progress, At
  <2>2. Found(p)'
    BY <1>2, <1>3, <1>4 DEF Found, At
  <2>3. Held(p)'
    BY <1>3, <1>4 DEF Held
  <2> QED
    BY <1>1, <1>3, <1>4, <2>1, <2>2, <2>3 DEF TxInv, storeVars
<1>6. \A r : ~HoldsRow(p, r)'
  BY <1>3, <1>4 DEF HoldsRow
<1> QED
  BY <1>1, <1>4, <1>5, <1>6, LocalStep

LEMMA RollbackInv ==
  ASSUME PgInv, NEW p \in Procs, End(p), UNCHANGED storeVars
  PROVE  PgInv'
<1>1. /\ TxType' /\ At(p, "idle")'
      /\ \A q \in Procs \ {p} : tx'[q] = tx[q]
  BY EndEffect DEF PgInv
<1>2. TxInv(p)' /\ \A r : ~HoldsRow(p, r)'
  BY <1>1 DEF TxInv, HoldsRow
<1> QED
  BY <1>1, <1>2, LocalStep

LEMMA FindMessageInv ==
  ASSUME PgInv, NEW p \in Procs, FindMessage(p)
  PROVE  PgInv'
<1>1. CASE End(p)
  BY <1>1, RollbackInv DEF FindMessage
<1>2. CASE /\ \E m \in MessagesOf(tx[p].op.room) : m.seq = tx[p].op.seq
           /\ Goto(p, "eval", NoRow, NoRoll)
  <2>1. At(p, "find") /\ ~At(p, "idle") /\ UNCHANGED storeVars
    BY DEF FindMessage, At
  <2>2. /\ TxType'
        /\ tx'[p].pc = "eval" /\ tx'[p].op = tx[p].op
        /\ tx'[p].row = NoRow /\ tx'[p].roll = NoRoll
        /\ \A q \in Procs \ {p} : tx'[q] = tx[q]
    BY <1>2, <2>1, GotoEffect DEF PgInv
  <2>3. tx[p].op.room \in 1..lastId /\ tx[p].op.kind = "edit"
    BY <2>1 DEF PgInv, TxInv, Progress
  <2>4. Progress(p)' /\ Held(p)'
    BY <2>2, <2>3 DEF Progress, Held, At
  <2>5. Found(p)'
    BY <1>2, <2>1, <2>2, <2>3 DEF Found, At, MessagesOf, storeVars
  <2>6. TxInv(p)' /\ \A r : ~HoldsRow(p, r)'
    BY <2>1, <2>2, <2>3, <2>4, <2>5 DEF TxInv, HoldsRow, storeVars
  <2> QED
    BY <2>1, <2>2, <2>6, LocalStep
<1> QED
  BY <1>1, <1>2 DEF FindMessage

LEMMA EvalNoRollInv ==
  ASSUME PgInv, NEW p \in Procs, EvalNoRoll(p)
  PROVE  PgInv'
<1>1. /\ At(p, "eval") /\ ~At(p, "idle") /\ ~At(p, "find") /\ UNCHANGED storeVars
      /\ tx[p].op.body.expr = NoExpr
  BY DEF EvalNoRoll, At
<1>2. /\ TxType'
      /\ tx'[p].pc = "bump" /\ tx'[p].op = tx[p].op
      /\ tx'[p].row = NoRow /\ tx'[p].roll = NoRoll
      /\ \A q \in Procs \ {p} : tx'[q] = tx[q]
  BY <1>1, GotoEffect DEF PgInv, EvalNoRoll
<1>3. TxInv(p)
  BY DEF PgInv
<1>4. tx[p].op.room \in 1..lastId /\ tx[p].op.kind # "lock" /\ Found(p)
  BY <1>1, <1>3 DEF TxInv, Progress
<1>5. Progress(p)' /\ Held(p)'
  BY <1>1, <1>2, <1>4 DEF Progress, Held, At, EvalRoll
<1>6. Found(p)'
  BY <1>1, <1>2, <1>4 DEF Found, At, storeVars
<1>7. TxInv(p)' /\ \A r : ~HoldsRow(p, r)'
  BY <1>1, <1>2, <1>4, <1>5, <1>6 DEF TxInv, HoldsRow, storeVars
<1> QED
  BY <1>1, <1>2, <1>7, LocalStep

LEMMA EvalForUpdateInv ==
  ASSUME PgInv, NEW p \in Procs, EvalForUpdate(p)
  PROVE  PgInv'
<1> DEFINE o == tx[p].op
           row == rooms[tx[p].op.room]
<1>1. /\ At(p, "eval") /\ ~At(p, "idle") /\ ~At(p, "find") /\ UNCHANGED storeVars
      /\ o.room \in DOMAIN rooms /\ CanLock(p, o.room)
  BY DEF EvalForUpdate, At, Exists
<1>2. PICK roll \in EvalRoll(row, o.body.expr) : Goto(p, "bump", row, roll)
  BY DEF EvalForUpdate
<1>3. row \in RoomRow /\ row # NoRow
  BY <1>1, PgAssumption DEF PgInv, IInv, TypeOK
<1>4. roll \in Rolls \cup {NoRoll}
  BY <1>2, <1>3, EvalRollType
<1>5. /\ TxType'
      /\ tx'[p].pc = "bump" /\ tx'[p].op = o
      /\ tx'[p].row = row /\ tx'[p].roll = roll
      /\ \A q \in Procs \ {p} : tx'[q] = tx[q]
  BY <1>1, <1>2, <1>3, <1>4, GotoEffect DEF PgInv
<1>6. o.room \in 1..lastId /\ o.kind # "lock" /\ Found(p)
  BY <1>1 DEF PgInv, TxInv, Progress
<1>7. Progress(p)'
  BY <1>1, <1>2, <1>3, <1>5, <1>6 DEF Progress, At, storeVars
<1>8. Found(p)'
  BY <1>1, <1>5, <1>6 DEF Found, At, storeVars
<1>9. CanLock(p, o.room)'
  BY <1>1, <1>5 DEF CanLock, HoldsRow, At
<1>10. Held(p)'
  <2>1. Expected(p)' = row
    BY <1>1, <1>5, <1>6 DEF Expected, Marked, At, storeVars
  <2> QED
    BY <1>1, <1>5, <1>9, <2>1 DEF Held, storeVars, CanLock
<1>11. TxInv(p)'
  BY <1>1, <1>5, <1>6, <1>7, <1>8, <1>10 DEF TxInv, storeVars
<1>12. \A r : HoldsRow(p, r)' => CanLock(p, r)
  BY <1>1, <1>5 DEF HoldsRow
<1> QED
  BY <1>1, <1>5, <1>11, <1>12, LocalStep

\* The UPDATE of locked_at changes that column only, BumpCounters the counters.
LEMMA MarkedFields ==
  ASSUME NEW row \in RoomRow, NEW o \in Operation
  PROVE  /\ Marked(row, o) \in RoomRow
         /\ Marked(row, o).rng_state = row.rng_state
         /\ Marked(row, o).created_at = row.created_at
         /\ Marked(row, o).event_counter = row.event_counter
         /\ Marked(row, o).seq_counter = row.seq_counter
         /\ Marked(row, o).token = row.token
         /\ Marked(row, o).locked_at =
              IF o.kind = "lock" /\ row.locked_at = NotLocked THEN o.now ELSE row.locked_at
BY OperationFields DEF Marked, RoomRow

LEMMA BumpedMarkedFields ==
  ASSUME NEW row \in RoomRow, NEW o \in Operation
  PROVE  LET b == BumpCounters(Marked(row, o), SeqIncr(o)) IN
         /\ b \in RoomRow
         /\ b.event_counter = row.event_counter + 1
         /\ b.seq_counter = row.seq_counter + SeqIncr(o)
         /\ b.rng_state = row.rng_state
         /\ b.created_at = row.created_at
         /\ b.locked_at =
              IF o.kind = "lock" /\ row.locked_at = NotLocked THEN o.now ELSE row.locked_at
<1> DEFINE marked == Marked(row, o)
           n == SeqIncr(o)
<1>1. n \in {0, 1}
  BY DEF SeqIncr
<1>2. /\ marked \in RoomRow
      /\ marked.rng_state = row.rng_state
      /\ marked.created_at = row.created_at
      /\ marked.event_counter = row.event_counter
      /\ marked.seq_counter = row.seq_counter
      /\ marked.locked_at =
           IF o.kind = "lock" /\ row.locked_at = NotLocked THEN o.now ELSE row.locked_at
  BY MarkedFields
<1> HIDE DEF marked, n
<1>3. LET b == BumpCounters(marked, n) IN
      /\ b \in RoomRow
      /\ b.event_counter = marked.event_counter + 1
      /\ b.seq_counter = marked.seq_counter + n
      /\ b.rng_state = marked.rng_state
      /\ b.created_at = marked.created_at
      /\ b.locked_at = marked.locked_at
  BY <1>1, <1>2, BumpCountersFields
<1> QED
  BY <1>2, <1>3 DEF marked, n

LEMMA MarkLockedInv ==
  ASSUME PgInv, NEW p \in Procs, MarkLocked(p)
  PROVE  PgInv'
<1> DEFINE o == tx[p].op
           old == rooms[tx[p].op.room]
<1>1. /\ At(p, "mark") /\ ~At(p, "idle") /\ UNCHANGED storeVars
      /\ TxInv(p) /\ TxType /\ o \in Operation
  BY Statements DEF MarkLocked, At, PgInv
<1>2. o.room \in 1..lastId /\ o.kind = "lock"
  BY <1>1 DEF TxInv, Progress
<1>3. CASE Exists(p) /\ old.locked_at = NotLocked
  <2> DEFINE row == [old EXCEPT !.locked_at = o.now]
  <2>1. CanLock(p, o.room) /\ Goto(p, "bump", row, NoRoll) /\ o.room \in DOMAIN rooms
    BY <1>3 DEF MarkLocked, Exists
  <2>2. row = Marked(old, o)
    BY <1>2, <1>3 DEF Marked
  <2>3. old \in RoomRow
    BY <2>1 DEF PgInv, IInv, TypeOK
  <2>4. row \in RoomRow /\ row # NoRow
    BY <1>1, <2>2, <2>3, MarkedFields, PgAssumption
  <2> HIDE DEF row
  <2>5. /\ TxType'
        /\ tx'[p].pc = "bump" /\ tx'[p].op = o
        /\ tx'[p].row = row /\ tx'[p].roll = NoRoll
        /\ \A q \in Procs \ {p} : tx'[q] = tx[q]
    BY <1>1, <2>1, <2>4, GotoEffect
  <2>6. Progress(p)' /\ Found(p)'
    BY <1>2, <2>4, <2>5 DEF Progress, Found, At
  <2>7. CanLock(p, o.room)'
    BY <1>1, <2>1, <2>5 DEF CanLock, HoldsRow, At
  <2>8. Expected(p)' = row
    BY <1>1, <2>2, <2>5 DEF Expected, At, storeVars
  <2>9. Held(p)'
    BY <1>1, <2>1, <2>5, <2>7, <2>8 DEF Held, storeVars, CanLock
  <2>10. TxInv(p)'
    BY <1>1, <1>2, <2>5, <2>6, <2>9 DEF TxInv, storeVars
  <2>11. \A r : HoldsRow(p, r)' => CanLock(p, r)
    BY <2>1, <2>5 DEF HoldsRow
  <2> QED
    BY <1>1, <2>5, <2>10, <2>11, LocalStep
<1>4. CASE ~(Exists(p) /\ old.locked_at = NotLocked)
  <2>1. /\ TxType'
        /\ tx'[p].pc = "bump" /\ tx'[p].op = o
        /\ tx'[p].row = NoRow /\ tx'[p].roll = NoRoll
        /\ \A q \in Procs \ {p} : tx'[q] = tx[q]
    BY <1>1, <1>4, GotoEffect DEF MarkLocked
  <2>2. Progress(p)' /\ Held(p)'
    BY <1>2, <2>1 DEF Progress, Held, At
  <2>3. Found(p)'
    BY <1>1, <1>2, <1>4, <2>1 DEF Found, At, Exists, storeVars
  <2>4. TxInv(p)' /\ \A r : ~HoldsRow(p, r)'
    BY <1>1, <1>2, <2>1, <2>2, <2>3 DEF TxInv, HoldsRow, storeVars
  <2> QED
    BY <1>1, <2>1, <2>4, LocalStep
<1> QED
  BY <1>3, <1>4

LEMMA BumpInv ==
  ASSUME PgInv, NEW p \in Procs, Bump(p)
  PROVE  PgInv'
<1> DEFINE o == tx[p].op
           old == rooms[tx[p].op.room]
           row == BumpCounters(Marked(old, o), SeqIncr(o))
           roll == tx[p].roll
<1>1. /\ At(p, "bump") /\ ~At(p, "idle") /\ ~At(p, "find") /\ ~At(p, "commit")
      /\ UNCHANGED storeVars /\ TxInv(p) /\ TxType
      /\ o \in Operation /\ roll \in Rolls \cup {NoRoll}
      /\ CanLock(p, o.room) /\ o.room \in DOMAIN rooms
      /\ old.event_counter < MaxEvents
  BY Statements DEF Bump, At, PgInv, Exists
<1>2. o.room \in 1..lastId /\ Progress(p) /\ Found(p) /\ Held(p)
  BY <1>1 DEF TxInv
<1>3. old \in RoomRow
  BY <1>1 DEF PgInv, IInv, TypeOK
<1>4. row \in RoomRow /\ row # NoRow
  BY <1>1, <1>3, BumpedMarkedFields, PgAssumption
<1>5. Newest(p) = Marked(old, o)
  <2>1. CASE tx[p].row = NoRow
    BY <1>1, <1>2, <2>1 DEF Newest, Marked, Found
  <2>2. CASE tx[p].row # NoRow
    BY <1>1, <1>2, <2>2 DEF Newest, Held, Expected
  <2> QED
    BY <2>1, <2>2
<1>6. Goto(p, "commit", row, roll)
  BY <1>5 DEF Bump, SeqIncr
<1> HIDE DEF row
<1>7. /\ TxType'
      /\ tx'[p].pc = "commit" /\ tx'[p].op = o
      /\ tx'[p].row = row /\ tx'[p].roll = roll
      /\ \A q \in Procs \ {p} : tx'[q] = tx[q]
  BY <1>1, <1>4, <1>6, GotoEffect
<1>8. Progress(p)'
  BY <1>1, <1>2, <1>4, <1>7 DEF Progress, At, storeVars
<1>9. Found(p)'
  BY <1>1, <1>2, <1>7 DEF Found, At, storeVars
<1>10. CanLock(p, o.room)'
  BY <1>1, <1>7 DEF CanLock, HoldsRow, At
<1>11. Held(p)'
  <2>1. Expected(p)' = row
    BY <1>1, <1>7 DEF Expected, At, storeVars, row
  <2> QED
    BY <1>1, <1>7, <1>10, <2>1 DEF Held, storeVars, CanLock
<1>12. TxInv(p)'
  BY <1>1, <1>2, <1>7, <1>8, <1>9, <1>11 DEF TxInv, storeVars
<1>13. \A r : HoldsRow(p, r)' => CanLock(p, r)
  BY <1>1, <1>7 DEF HoldsRow
<1> QED
  BY <1>1, <1>7, <1>12, <1>13, LocalStep

-----------------------------------------------------------------------------
(* The steps that change the tables are operations of RoomStore. *)

LEMMA SameRow ==
  ASSUME NEW a \in RoomRow, NEW b \in RoomRow,
         a.token = b.token, a.created_at = b.created_at, a.locked_at = b.locked_at,
         a.rng_state = b.rng_state, a.seq_counter = b.seq_counter,
         a.event_counter = b.event_counter
  PROVE  a = b
BY DEF RoomRow

LEMMA CommitIsOperation ==
  ASSUME PgInv, NEW p \in Procs, Commit(p)
  PROVE  /\ Next
         /\ End(p)
         /\ tx[p].op.room \in DOMAIN rooms
         /\ CanLock(p, tx[p].op.room)
         /\ \E new : rooms' = [rooms EXCEPT ![tx[p].op.room] = new]
<1> DEFINE o == tx[p].op
           r == o.room
           old == rooms[r]
           roll == tx[p].roll
           row == BumpCounters(Marked(old, o), SeqIncr(o))
<1>1. /\ At(p, "commit") /\ ~At(p, "idle") /\ ~At(p, "find") /\ ~At(p, "bump")
      /\ TxInv(p) /\ TxType /\ o \in Operation
  BY Statements DEF Commit, At, PgInv
<1>2. /\ r \in DOMAIN rooms /\ CanLock(p, r) /\ tx[p].row = row
      /\ old.event_counter < MaxEvents
      /\ Found(p) /\ Progress(p)
  BY <1>1 DEF TxInv, Progress, Held, Expected
<1>3. old \in RoomRow
  BY <1>2 DEF PgInv, IInv, TypeOK
<1>4. /\ rooms' = [rooms EXCEPT ![r] = [row EXCEPT !.rng_state = NextRngState(row, roll)]]
      /\ End(p) /\ members' = members /\ lastId' = lastId
  BY <1>2 DEF Commit
<1>5. o.kind \in {"post", "edit", "lock"} /\ o.now \in Time
  BY <1>1, OperationFields
<1>6. row \in RoomRow /\ row.rng_state = old.rng_state
  BY <1>1, <1>3, BumpedMarkedFields
<1>7. NextRngState(row, roll) = NextRngState(old, roll)
  BY <1>6 DEF NextRngState
<1>8. CASE o.kind = "post"
  <2>1. o.client \in Clients /\ o.body \in Bodies /\ roll \in EvalRoll(old, o.body.expr)
    BY <1>1, <1>2, <1>8, OperationFields DEF Progress
  <2>2. row = BumpCounters(old, 1)
    BY <1>8 DEF Marked, SeqIncr
  <2>3. messages' = messages \cup
          {[room_id |-> r, seq |-> row.seq_counter, author |-> o.client,
            expr |-> o.body.expr, comment |-> o.body.comment, roll |-> roll,
            created_at |-> o.now, updated_at |-> o.now, updated_by |-> o.client,
            created_event_seq |-> row.event_counter, event_seq |-> row.event_counter]}
    BY <1>2, <1>8 DEF Commit
  <2> HIDE DEF row
  <2>4. PostMessage(r, o.client, o.body, roll, o.now)
    BY <1>2, <1>4, <1>7, <2>1, <2>2, <2>3 DEF PostMessage
  <2> QED
    BY <1>2, <1>4, <1>5, <2>1, <2>4 DEF Next
<1>9. CASE o.kind = "edit"
  <2>1. o.client \in Clients /\ o.body \in Bodies /\ roll \in EvalRoll(old, o.body.expr)
    BY <1>1, <1>2, <1>9, OperationFields DEF Progress
  <2>2. row = BumpCounters(old, 0)
    BY <1>9 DEF Marked, SeqIncr
  <2>3. messages' = {IF m.room_id = r /\ m.seq = o.seq
                     THEN Edited(m, o.client, o.body, roll, o.now, row.event_counter)
                     ELSE m : m \in messages}
    BY <1>2, <1>9 DEF Commit
  <2>4. PICK m \in messages : m.room_id = r /\ m.seq = o.seq
    BY <1>1, <1>2, <1>9 DEF Found
  <2> HIDE DEF row
  <2>5. EditMessage(r, o.seq, o.client, o.body, roll, o.now)
    BY <1>2, <1>4, <1>7, <2>1, <2>2, <2>3, <2>4 DEF EditMessage, MessagesOf
  <2> QED
    BY <1>2, <1>4, <1>5, <2>1, <2>4, <2>5 DEF Next
<1>10. CASE o.kind = "lock"
  <2> DEFINE bumped == BumpCounters(old, 0)
             mine == [row EXCEPT !.rng_state = NextRngState(row, roll)]
             theirs == [bumped EXCEPT
                          !.locked_at = IF bumped.locked_at = NotLocked THEN o.now
                                        ELSE bumped.locked_at]
  <2>1. /\ bumped \in RoomRow
        /\ bumped.event_counter = old.event_counter + 1
        /\ bumped.seq_counter = old.seq_counter
        /\ bumped.rng_state = old.rng_state
        /\ bumped.created_at = old.created_at
        /\ bumped.locked_at = old.locked_at
        /\ bumped.token = old.token
    <3>1. old.seq_counter \in Nat
      BY <1>3 DEF RoomRow
    <3>2. bumped.token = old.token
      BY <1>3 DEF BumpCounters, RoomRow
    <3> QED
      BY <1>3, <3>1, <3>2, BumpCountersFields
  <2>2. /\ row.event_counter = old.event_counter + 1
        /\ row.seq_counter = old.seq_counter
        /\ row.created_at = old.created_at
        /\ row.locked_at = IF old.locked_at = NotLocked THEN o.now ELSE old.locked_at
    <3>1. SeqIncr(o) = 0 /\ old.seq_counter \in Nat
      BY <1>3, <1>10 DEF SeqIncr, RoomRow
    <3> QED
      BY <1>1, <1>3, <1>10, <3>1, BumpedMarkedFields
  <2>3. row.token = old.token
    <3>1. Marked(old, o) \in RoomRow /\ Marked(old, o).token = old.token
      BY <1>1, <1>3, MarkedFields
    <3> QED
      BY <3>1 DEF BumpCounters, RoomRow
  <2>4. roll = NoRoll /\ NextRngState(row, roll) = row.rng_state
    BY <1>2, <1>10 DEF Progress, NextRngState
  <2>5. messages' = messages
    BY <1>10 DEF Commit
  <2> HIDE DEF row, bumped
  <2>6. /\ mine \in RoomRow /\ mine.token = row.token
        /\ mine.event_counter = row.event_counter /\ mine.seq_counter = row.seq_counter
        /\ mine.rng_state = row.rng_state /\ mine.created_at = row.created_at
        /\ mine.locked_at = row.locked_at
    BY <1>6, <2>4 DEF RoomRow
  <2>7. /\ theirs \in RoomRow /\ theirs.token = bumped.token
        /\ theirs.event_counter = bumped.event_counter
        /\ theirs.seq_counter = bumped.seq_counter
        /\ theirs.rng_state = bumped.rng_state /\ theirs.created_at = bumped.created_at
        /\ theirs.locked_at =
             IF bumped.locked_at = NotLocked THEN o.now ELSE bumped.locked_at
    BY <1>5, <2>1 DEF RoomRow
  <2>8. mine = theirs
    <3> HIDE DEF mine, theirs
    <3> QED
      BY <1>6, <2>1, <2>2, <2>3, <2>6, <2>7, SameRow
  <2>9. rooms' = [rooms EXCEPT ![r] = theirs]
    BY <1>4, <2>8
  <2>10. LockRoom(r, o.now)
    BY <1>2, <1>4, <2>5, <2>9, Zenon DEF LockRoom, bumped
  <2> QED
    BY <1>2, <1>4, <1>5, <2>10 DEF Next
<1> QED
  BY <1>5, <1>8, <1>9, <1>10

LEMMA IdsGrow == ASSUME IInv, Next PROVE lastId' \in Nat /\ lastId <= lastId'
<1>1. lastId \in Nat
  BY DEF IInv, TypeOK
<1>2. ASSUME NEW token \in Tokens, NEW now \in Time, CreateRoom(token, now)
      PROVE  lastId' = lastId + 1
  BY <1>2, CreateRoomEffect DEF IInv
<1>3. (\E token \in Tokens, now \in Time : CreateRoom(token, now)) \/ lastId' = lastId
  BY DEF Next, LockRoom, SetName, PostMessage, EditMessage, Sweep
<1> QED
  BY <1>1, <1>2, <1>3

\* An operation of p leaves the other transactions what they rely on, if it leaves
\* the rows they hold alone.
LEMMA StoreStep ==
  ASSUME PgInv, NEW p \in Procs, Next, TxType', At(p, "idle")',
         \A q \in Procs \ {p} : tx'[q] = tx[q],
         \A q \in Procs \ {p}, r \in DOMAIN rooms :
           HoldsRow(q, r) => r \in DOMAIN rooms' /\ rooms'[r] = rooms[r]
  PROVE  PgInv'
<1>1. IInv'
  BY NextIInv DEF PgInv
<1>2. LocksKept /\ RowsKept /\ Retired /\ lastId <= lastId' /\ lastId' \in Nat
      /\ lastId \in Nat
  BY StepKeeps, StepRetires, IdsGrow DEF PgInv, IInv, TypeOK
<1>3. TxInv(p)'
  BY DEF TxInv
<1>4. ASSUME NEW q \in Procs \ {p} PROVE TxInv(q)'
  <2> DEFINE o == tx[q].op
             r == o.room
  <2>1. CASE At(q, "idle")
    BY <2>1 DEF TxInv, At
  <2>2. CASE ~At(q, "idle")
    <3>1. /\ tx'[q] = tx[q] /\ r \in 1..lastId
          /\ Progress(q) /\ Found(q) /\ Held(q)
      BY <2>2 DEF PgInv, TxInv
    <3>2. ASSUME tx[q].row # NoRow
          PROVE  r \in DOMAIN rooms /\ r \in DOMAIN rooms' /\ rooms'[r] = rooms[r]
      <4>1. r \in DOMAIN rooms /\ HoldsRow(q, r)
        BY <2>2, <3>1, <3>2 DEF Held, HoldsRow
      <4> QED
        BY <4>1
    <3>3. r \in DOMAIN rooms' => r \in DOMAIN rooms
      BY <1>2, <3>1 DEF Retired
    <3>4. Progress(q)'
      <4>1. o.body.expr = NoExpr => EvalRoll(rooms[r], o.body.expr)' =
                                    EvalRoll(rooms[r], o.body.expr)
        BY <3>1 DEF EvalRoll
      <4> QED
        BY <3>1, <3>2, <4>1 DEF Progress, At, EvalRoll
    <3>5. Found(q)'
      <4>1. \A m \in messages : m.room_id = r /\ r \in DOMAIN rooms' =>
              \E n \in messages' : n.room_id = r /\ n.seq = m.seq
        BY <1>2 DEF RowsKept, Kept
      <4>2. r \in DOMAIN rooms' /\ rooms[r].locked_at # NotLocked =>
              rooms'[r].locked_at = rooms[r].locked_at
        BY <1>2, <3>3 DEF LocksKept
      <4> QED
        BY <3>1, <3>3, <4>1, <4>2 DEF Found, At
    <3>6. Held(q)'
      <4> SUFFICES ASSUME tx[q].row # NoRow PROVE Held(q)'
        BY <3>1 DEF Held
      <4>1. r \in DOMAIN rooms' /\ Expected(q)' = Expected(q)
        BY <3>1, <3>2 DEF Expected, At
      <4>2. CanLock(q, r)'
        BY <3>1 DEF Held, CanLock, HoldsRow, At
      <4> QED
        BY <3>1, <4>1, <4>2 DEF Held, CanLock
    <3> QED
      BY <1>2, <3>1, <3>4, <3>5, <3>6 DEF TxInv
  <2> QED
    BY <2>1, <2>2
<1> QED
  BY <1>1, <1>3, <1>4 DEF PgInv

LEMMA CommitInv ==
  ASSUME PgInv, NEW p \in Procs, Commit(p)
  PROVE  PgInv'
<1> DEFINE s == tx[p].op.room
<1>1. /\ Next /\ End(p) /\ s \in DOMAIN rooms /\ CanLock(p, s)
      /\ \E new : rooms' = [rooms EXCEPT ![s] = new]
  BY CommitIsOperation
<1>2. /\ TxType' /\ At(p, "idle")'
      /\ \A q \in Procs \ {p} : tx'[q] = tx[q]
  BY <1>1, EndEffect DEF PgInv
<1>3. ASSUME NEW q \in Procs \ {p}, NEW r \in DOMAIN rooms, HoldsRow(q, r)
      PROVE  r \in DOMAIN rooms' /\ rooms'[r] = rooms[r]
  <2>1. r # s
    BY <1>1, <1>3 DEF CanLock
  <2> HIDE DEF s
  <2> QED
    BY <1>1, <2>1
<1> QED
  BY <1>1, <1>2, <1>3, StoreStep

\* create_room, set_name and sweep: one statement, no transaction of its own.
LEMMA SingleStatementInv ==
  ASSUME PgInv, NEW p \in Procs,
         \/ \E token \in Tokens, now \in Time : PgCreateRoom(p, token, now)
         \/ \E r \in DOMAIN rooms, c \in Clients, name \in Names :
              PgSetName(p, r, c, name)
         \/ \E cutoff \in Time : PgSweep(p, cutoff)
  PROVE  Next /\ PgInv'
<1>1. /\ Next /\ tx' = tx /\ At(p, "idle")
      /\ TxType /\ TxType' /\ At(p, "idle")' /\ (\A q \in Procs \ {p} : tx'[q] = tx[q])
  BY DEF PgCreateRoom, PgSetName, PgSweep, Next, At, PgInv, TxType
<1>2. ASSUME NEW q \in Procs \ {p}, NEW r \in DOMAIN rooms, HoldsRow(q, r)
      PROVE  r \in DOMAIN rooms' /\ rooms'[r] = rooms[r]
  <2>1. ASSUME NEW token \in Tokens, NEW now \in Time, CreateRoom(token, now)
        PROVE  r \in DOMAIN rooms' /\ rooms'[r] = rooms[r]
    BY <2>1, CreateRoomEffect DEF PgInv, IInv
  <2>2. ASSUME NEW cutoff \in Time, PgSweep(p, cutoff)
        PROVE  r \in DOMAIN rooms' /\ rooms'[r] = rooms[r]
    <3>1. ~(rooms[r].created_at < cutoff)
      BY <1>2, <2>2 DEF PgSweep, CanLock
    <3>2. rooms[r].created_at \in Int /\ cutoff \in Int
      BY Columns, StoreAssumption DEF PgInv, IInv, RoomRow
    <3>3. rooms' = [s \in {t \in DOMAIN rooms : rooms[t].created_at >= cutoff} |-> rooms[s]]
      BY <2>2 DEF PgSweep, Sweep
    <3> QED
      BY <3>1, <3>2, <3>3
  <2>3. ASSUME NEW s, NEW c, NEW name, SetName(s, c, name)
        PROVE  r \in DOMAIN rooms' /\ rooms'[r] = rooms[r]
    BY <2>3 DEF SetName
  <2> QED
    BY <2>1, <2>2, <2>3 DEF PgCreateRoom, PgSetName
<1> QED
  BY <1>1, <1>2, StoreStep

LEMMA PgInitInv == PgInit => PgInv
<1> SUFFICES ASSUME PgInit PROVE PgInv
  OBVIOUS
<1>1. IInv
  BY InitIInv DEF PgInit
<1>2. TxType /\ \A p \in Procs : At(p, "idle")
  BY DEF PgInit, TxType, At, Idle
<1> QED
  BY <1>1, <1>2 DEF PgInv, TxInv

\* Every step keeps the invariant and is a step of RoomStore or leaves it alone.
LEMMA PgNextInv == PgInv /\ [PgNext]_pgVars => PgInv' /\ [Next]_storeVars
<1> SUFFICES ASSUME PgInv, [PgNext]_pgVars PROVE PgInv' /\ [Next]_storeVars
  OBVIOUS
<1>1. ASSUME NEW p \in Procs, NEW o \in Requests, Begin(p, o)
      PROVE  PgInv' /\ [Next]_storeVars
  BY <1>1, BeginInv DEF Begin
<1>2. ASSUME NEW p \in Procs, FindMessage(p) PROVE PgInv' /\ [Next]_storeVars
  BY <1>2, FindMessageInv DEF FindMessage
<1>3. ASSUME NEW p \in Procs, EvalNoRoll(p) PROVE PgInv' /\ [Next]_storeVars
  BY <1>3, EvalNoRollInv DEF EvalNoRoll
<1>4. ASSUME NEW p \in Procs, EvalForUpdate(p) PROVE PgInv' /\ [Next]_storeVars
  BY <1>4, EvalForUpdateInv DEF EvalForUpdate
<1>5. ASSUME NEW p \in Procs, MarkLocked(p) PROVE PgInv' /\ [Next]_storeVars
  BY <1>5, MarkLockedInv DEF MarkLocked
<1>6. ASSUME NEW p \in Procs, Bump(p) PROVE PgInv' /\ [Next]_storeVars
  BY <1>6, BumpInv DEF Bump
<1>7. ASSUME NEW p \in Procs, Commit(p) PROVE PgInv' /\ [Next]_storeVars
  BY <1>7, CommitInv, CommitIsOperation
<1>8. ASSUME NEW p \in Procs, Rollback(p) PROVE PgInv' /\ [Next]_storeVars
  BY <1>8, RollbackInv DEF Rollback
<1>9. ASSUME NEW p \in Procs,
             \/ \E token \in Tokens, now \in Time : PgCreateRoom(p, token, now)
             \/ \E r \in DOMAIN rooms, c \in Clients, name \in Names :
                  PgSetName(p, r, c, name)
             \/ \E cutoff \in Time : PgSweep(p, cutoff)
      PROVE  PgInv' /\ [Next]_storeVars
  BY <1>9, SingleStatementInv
<1>10. ASSUME UNCHANGED pgVars PROVE PgInv' /\ [Next]_storeVars
  <2>1. storeVars' = storeVars /\ tx' = tx
    BY <1>10 DEF pgVars
  <2>2. IInv' /\ rooms' = rooms /\ messages' = messages /\ lastId' = lastId
    BY <2>1, StutterIInv DEF PgInv, storeVars
  <2>3. ASSUME NEW p \in Procs PROVE TxInv(p)'
    BY <2>1, <2>2 DEF PgInv, TxInv, Progress, Found, Held, Expected, CanLock,
                      HoldsRow, At
  <2> QED
    BY <2>1, <2>2, <2>3 DEF PgInv, TxType
<1> QED
  BY <1>1, <1>2, <1>3, <1>4, <1>5, <1>6, <1>7, <1>8, <1>9, <1>10 DEF PgNext, Step

\* The inductive invariant holds whatever the processes interleave.
THEOREM PgInvariance == PgSpec => []PgInv
BY PgInitInv, PgNextInv, PTL DEF PgSpec

-----------------------------------------------------------------------------
(* The results. *)

\* A transaction is well-formed at each of its statements, and one that is about to
\* commit has locked the row it writes.
THEOREM PgTypeCorrect == PgSpec => []PgTypeOK
<1>1. PgInv => PgTypeOK
  BY DEF PgInv, IInv, TxType, PgTypeOK, TxInv, Progress, At
<1> QED
  BY <1>1, PgInvariance, PTL

\* However many processes write to a room, a transaction that writes still has before
\* it what it read: its roll goes on in the committed random stream, its message is
\* there, and its event id follows the last one.
THEOREM ReadsStayTrue == PgSpec => []NothingReadIsStale
<1>1. ASSUME PgInv PROVE NothingReadIsStale
  <2> SUFFICES ASSUME NEW p \in Procs, At(p, "bump") \/ At(p, "commit")
               PROVE  LET o == tx[p].op IN
                      /\ tx[p].roll # NoRoll /\ Exists(p) =>
                           tx[p].roll.from = rooms[o.room].rng_state
                      /\ o.kind = "edit" /\ Exists(p) =>
                           \E m \in MessagesOf(o.room) : m.seq = o.seq
                      /\ At(p, "commit") =>
                           /\ Exists(p)
                           /\ tx[p].row.event_counter = rooms[o.room].event_counter + 1
    BY DEF NothingReadIsStale
  <2> DEFINE o == tx[p].op
  <2>1. /\ ~At(p, "idle") /\ ~At(p, "find")
        /\ o \in Operation /\ Progress(p) /\ Found(p) /\ Held(p)
    BY <1>1, Statements DEF PgInv, TxInv, At
  <2>2. ASSUME tx[p].roll # NoRoll
        PROVE  tx[p].roll.from = rooms[o.room].rng_state
    <3>1. tx[p].roll \in EvalRoll(rooms[o.room], o.body.expr)
      BY <2>1, <2>2 DEF Progress
    <3> QED
      BY <3>1, <2>2 DEF EvalRoll
  <2>3. o.kind = "edit" /\ Exists(p) => \E m \in MessagesOf(o.room) : m.seq = o.seq
    BY <2>1 DEF Found, Exists, MessagesOf
  <2>4. ASSUME At(p, "commit")
        PROVE  /\ Exists(p)
               /\ tx[p].row.event_counter = rooms[o.room].event_counter + 1
    <3>1. o.room \in DOMAIN rooms /\ tx[p].row = Expected(p) /\ ~At(p, "bump")
      BY <2>1, <2>4 DEF Progress, Held, At
    <3>2. rooms[o.room] \in RoomRow
      BY <1>1, <3>1 DEF PgInv, IInv, TypeOK
    <3> QED
      BY <2>1, <3>1, <3>2, BumpedMarkedFields DEF Expected, Exists
  <2> QED
    BY <2>2, <2>3, <2>4
<1> QED
  BY <1>1, PgInvariance, PTL

\* The statements of any number of processes, interleaved in any way, with
\* rollbacks and sweeps at any point, change the tables as whole operations of the
\* Store trait, one after another.
THEOREM BackendsAgree == PgSpec => TransactionsAreAtomic
<1>1. PgInit => Init
  BY DEF PgInit
<1> QED
  BY <1>1, PgInvariance, PgNextInv, PTL DEF PgSpec, TransactionsAreAtomic, Spec

\* Hence a room keeps the promise of Transcript on Postgres too, for any number of
\* server processes.
THEOREM PostgresKeepsThePromise == PgSpec => KeepsThePromise
BY BackendsAgree, ThePromiseIsKept, Zenon DEF TransactionsAreAtomic
=============================================================================
