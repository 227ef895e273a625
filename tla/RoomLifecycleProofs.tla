------------------------- MODULE RoomLifecycleProofs -------------------------
(****************************************************************************)
(* Handlers work on what they read some awaits ago: a room row, a clock, a  *)
(* cutoff.  For any number of handlers and any deadlines, what they         *)
(* remember stays good enough: the id still names the room of the link, a   *)
(* message is dated before the deadline that was checked, and a sweep       *)
(* deletes nothing that is younger than its cutoff was meant for.           *)
(****************************************************************************)
EXTENDS RoomLifecycle, RoomStoreProofs

WorkerStates ==
  {Idle}
    \cup [pc : {"creating"}, token : Tokens, now : Time]
    \cup [pc : {"found"}, kind : Kinds, id : Nat, room : RoomRow]
    \cup [pc : {"checked"}, kind : Kinds, id : Nat, room : RoomRow, now : Time]

\* What a handler remembers of the room, of the clock and of its check.
SameRoom(w) ==
  worker[w].id \in DOMAIN rooms =>
    /\ rooms[worker[w].id].token = worker[w].room.token
    /\ rooms[worker[w].id].created_at = worker[w].room.created_at

Remembers(w) ==
  /\ worker[w].pc \in {"creating", "checked"} => worker[w].now <= clock
  /\ worker[w].pc \in {"found", "checked"} => worker[w].id \in 1..lastId /\ SameRoom(w)
  /\ worker[w].pc = "checked" /\ worker[w].kind # "lock" =>
       worker[w].now < worker[w].room.created_at + LockAfter

SweeperRemembers ==
  /\ sweeper \in [pc : {"asleep"}] \cup [pc : {"sweeping"}, cutoff : Int]
  /\ sweeper.pc = "sweeping" => sweeper.cutoff <= clock - DeleteAfter

CreatedInThePast == \A r \in DOMAIN rooms : rooms[r].created_at <= clock

LifeInv ==
  /\ IInv
  /\ clock \in Time
  /\ worker \in [Workers -> WorkerStates]
  /\ \A w \in Workers : Remembers(w)
  /\ SweeperRemembers
  /\ CreatedInThePast
  /\ NothingDatedPastTheDeadline

-----------------------------------------------------------------------------
(* Steps of a handler that leave the store alone, and steps that do not. *)

LEMMA WorkerTypes ==
  ASSUME LifeInv, NEW w \in Workers
  PROVE  /\ worker[w].pc \in {"idle", "creating", "found", "checked"}
         /\ worker[w].pc = "creating" => worker[w].token \in Tokens
         /\ worker[w].pc \in {"creating", "checked"} => worker[w].now \in Time
         /\ worker[w].pc \in {"found", "checked"} =>
              /\ worker[w].kind \in Kinds
              /\ worker[w].id \in Nat
              /\ worker[w].room \in RoomRow
<1>1. worker[w] \in WorkerStates
  BY DEF LifeInv
<1> QED
  BY <1>1 DEF WorkerStates, Idle

LEMMA HandlerMoves ==
  ASSUME LifeInv, NEW w \in Workers, NEW state \in WorkerStates, Goto(w, state),
         UNCHANGED <<storeVars, clock, sweeper>>, Remembers(w)'
  PROVE  LifeInv'
<1>1. IInv' /\ UNCHANGED <<rooms, messages, lastId, clock, sweeper>>
  BY StutterIInv DEF LifeInv, storeVars
<1>2. /\ worker' \in [Workers -> WorkerStates]
      /\ \A v \in Workers \ {w} : worker'[v] = worker[v]
  BY DEF Goto, LifeInv
<1>3. ASSUME NEW v \in Workers \ {w} PROVE Remembers(v)'
  BY <1>1, <1>2 DEF LifeInv, Remembers, SameRoom
<1> QED
  BY <1>1, <1>2, <1>3 DEF LifeInv, SweeperRemembers, CreatedInThePast,
                          NothingDatedPastTheDeadline

\* Whatever an operation does, others remember right as long as rooms keep token
\* and creation time, and ids are not reused.
LEMMA OthersRemember ==
  ASSUME LifeInv, IInv', NEW w \in Workers, worker'[w] = worker[w], clock' = clock,
         lastId <= lastId',
         \A r \in DOMAIN rooms \cap DOMAIN rooms' :
           /\ rooms'[r].token = rooms[r].token
           /\ rooms'[r].created_at = rooms[r].created_at,
         Retired
  PROVE  Remembers(w)'
<1>1. Remembers(w) /\ lastId \in Nat /\ lastId' \in Nat
  BY DEF LifeInv, IInv, TypeOK
<1>2. worker[w].pc \in {"found", "checked"} => SameRoom(w)'
  BY <1>1 DEF Remembers, SameRoom, Retired
<1> QED
  BY <1>1, <1>2 DEF Remembers

LEMMA HandlerWrites ==
  ASSUME LifeInv, IInv', NEW w \in Workers, Goto(w, Idle), UNCHANGED <<clock, sweeper>>,
         lastId <= lastId', Retired,
         \A r \in DOMAIN rooms \cap DOMAIN rooms' :
           /\ rooms'[r].token = rooms[r].token
           /\ rooms'[r].created_at = rooms[r].created_at,
         CreatedInThePast', NothingDatedPastTheDeadline'
  PROVE  LifeInv'
<1>1. /\ worker' \in [Workers -> WorkerStates]
      /\ worker'[w] = Idle
      /\ \A v \in Workers \ {w} : worker'[v] = worker[v]
  BY DEF Goto, LifeInv, WorkerStates
<1>2. Remembers(w)'
  BY <1>1 DEF Remembers, Idle
<1>3. \A v \in Workers \ {w} : Remembers(v)'
  BY <1>1, OthersRemember
<1> QED
  BY <1>1, <1>2, <1>3 DEF LifeInv, SweeperRemembers

-----------------------------------------------------------------------------
(* One lemma per action. *)

LEMMA BeginCreateInv ==
  ASSUME LifeInv, NEW w \in Workers, NEW token \in Tokens, BeginCreate(w, token)
  PROVE  LifeInv'
<1> DEFINE state == [pc |-> "creating", token |-> token, now |-> clock]
<1>1. Goto(w, state) /\ UNCHANGED <<storeVars, clock, sweeper>>
  BY DEF BeginCreate
<1>2. state \in WorkerStates
  BY DEF WorkerStates, LifeInv
<1>3. clock \in Int
  BY StoreAssumption DEF LifeInv
<1>4. Remembers(w)'
  BY <1>1, <1>3 DEF Remembers, Goto, LifeInv
<1> QED
  BY <1>1, <1>2, <1>4, HandlerMoves

LEMMA FindRoomInv ==
  ASSUME LifeInv, NEW w \in Workers, NEW kind \in Kinds, NEW r \in DOMAIN rooms,
         FindRoom(w, kind, r)
  PROVE  LifeInv'
<1> DEFINE state == [pc |-> "found", kind |-> kind, id |-> r, room |-> rooms[r]]
<1>1. Goto(w, state) /\ UNCHANGED <<storeVars, clock, sweeper>>
  BY DEF FindRoom
<1>2. r \in 1..lastId /\ rooms[r] \in RoomRow
  BY DEF LifeInv, IInv, TypeOK
<1>3. state \in WorkerStates
  BY <1>2, Columns DEF WorkerStates, LifeInv, IInv
<1>4. Remembers(w)'
  BY <1>1, <1>2 DEF Remembers, SameRoom, Goto, LifeInv, storeVars
<1> QED
  BY <1>1, <1>3, <1>4, HandlerMoves

LEMMA CheckInv ==
  ASSUME LifeInv, NEW w \in Workers, Check(w)
  PROVE  LifeInv'
<1> DEFINE state == [now |-> clock, pc |-> "checked", kind |-> worker[w].kind,
                     id |-> worker[w].id, room |-> worker[w].room]
<1>1. Goto(w, state) /\ UNCHANGED <<storeVars, clock, sweeper>> /\ worker[w].pc = "found"
  BY DEF Check
<1>2. state \in WorkerStates /\ clock \in Int /\ worker[w].room.created_at \in Int
  BY <1>1, WorkerTypes, StoreAssumption DEF WorkerStates, LifeInv, RoomRow
<1>3. worker[w].kind # "lock" => clock < worker[w].room.created_at + LockAfter
  BY <1>2, LifecycleAssumption DEF Check, RoomLocked
<1>4. worker'[w] = state /\ UNCHANGED <<rooms, lastId, clock>>
  BY <1>1 DEF Goto, LifeInv, storeVars
<1>5. worker[w].id \in 1..lastId /\ SameRoom(w)
  BY <1>1 DEF LifeInv, Remembers
<1>6. Remembers(w)'
  BY <1>2, <1>3, <1>4, <1>5 DEF Remembers, SameRoom
<1> QED
  BY <1>1, <1>2, <1>6, HandlerMoves

LEMMA RefuseInv ==
  ASSUME LifeInv, NEW w \in Workers, Refuse(w)
  PROVE  LifeInv'
<1>1. Goto(w, Idle) /\ UNCHANGED <<storeVars, clock, sweeper>> /\ Idle \in WorkerStates
  BY DEF Refuse, WorkerStates
<1>2. Remembers(w)'
  BY <1>1 DEF Remembers, Goto, LifeInv, Idle
<1> QED
  BY <1>1, <1>2, HandlerMoves

LEMMA FinishCreateInv ==
  ASSUME LifeInv, NEW w \in Workers, FinishCreate(w)
  PROVE  LifeInv'
<1> DEFINE token == worker[w].token
           now == worker[w].now
<1>1. /\ CreateRoom(token, now) /\ Goto(w, Idle) /\ UNCHANGED <<clock, sweeper>>
      /\ token \in Tokens /\ now \in Time /\ now <= clock
  BY WorkerTypes DEF FinishCreate, LifeInv, Remembers
<1>2. Next /\ IInv /\ IInv'
  BY <1>1, NextIInv DEF Next, LifeInv
<1>3. Retired /\ lastId <= lastId'
  BY <1>1, <1>2, StepRetires, CreateRoomEffect DEF IInv, TypeOK
<1>4. /\ DOMAIN rooms' = DOMAIN rooms \cup {lastId + 1} /\ lastId + 1 \notin DOMAIN rooms
      /\ \A s \in DOMAIN rooms : rooms'[s] = rooms[s]
      /\ messages' = messages
  BY <1>1, <1>2, CreateRoomEffect DEF IInv
<1>5. rooms'[lastId + 1].created_at = now
  BY <1>1, <1>4 DEF CreateRoom
<1>6. CreatedInThePast'
  BY <1>1, <1>4, <1>5 DEF LifeInv, CreatedInThePast
<1>7. NothingDatedPastTheDeadline'
  BY <1>2, <1>4 DEF LifeInv, NothingDatedPastTheDeadline, IInv, NoOrphans
<1> QED
  BY <1>1, <1>2, <1>3, <1>4, <1>6, <1>7, HandlerWrites

\* The deadline holds for what a checked handler writes.
LEMMA DatedBeforeTheDeadline ==
  ASSUME LifeInv, NEW w \in Workers, worker[w].pc = "checked", worker[w].kind # "lock",
         worker[w].id \in DOMAIN rooms
  PROVE  worker[w].now < rooms[worker[w].id].created_at + LockAfter
<1>1. Remembers(w)
  BY DEF LifeInv
<1> QED
  BY <1>1 DEF Remembers, SameRoom

\* Writing to a room with Bumps leaves tokens and creation times alone.
LEMMA BumpsKeepOrigins ==
  ASSUME NEW r, NEW n, NEW roll, Bumps(r, n, roll)
  PROVE  /\ DOMAIN rooms' = DOMAIN rooms
         /\ \A s \in DOMAIN rooms : /\ rooms'[s].token = rooms[s].token
                                  /\ rooms'[s].created_at = rooms[s].created_at
BY DEF Bumps

LEMMA WriteInv ==
  ASSUME LifeInv, NEW w \in Workers, Write(w)
  PROVE  LifeInv'
<1> DEFINE r == worker[w].id
           now == worker[w].now
           kind == worker[w].kind
           Safe == /\ Next
                   /\ lastId' = lastId
                   /\ DOMAIN rooms' = DOMAIN rooms
                   /\ \A s \in DOMAIN rooms :
                        /\ rooms'[s].token = rooms[s].token
                        /\ rooms'[s].created_at = rooms[s].created_at
                   /\ NothingDatedPastTheDeadline'
<1>1. /\ worker[w].pc = "checked" /\ r \in DOMAIN rooms
      /\ Goto(w, Idle) /\ UNCHANGED <<clock, sweeper>>
      /\ now \in Time /\ IInv /\ TypeOK
  BY WorkerTypes DEF Write, LifeInv, IInv
<1>2. kind # "lock" => now < rooms[r].created_at + LockAfter
  BY <1>1, DatedBeforeTheDeadline
<1>3. \A m \in messages : m.room_id \in DOMAIN rooms =>
        m.updated_at < rooms[m.room_id].created_at + LockAfter
  BY DEF LifeInv, NothingDatedPastTheDeadline
<1>4. ASSUME kind = "post",
             NEW c \in Clients, NEW body \in Bodies,
             NEW roll \in EvalRoll(rooms[r], body.expr), PostMessage(r, c, body, roll, now)
      PROVE  Safe
  <2>1. /\ Bumps(r, 1, roll)
        /\ messages' = messages \cup {Posted(r, c, body, roll, now)}
        /\ lastId' = lastId
    BY <1>1, <1>4, PostMessageEffect
  <2>2. Posted(r, c, body, roll, now).room_id = r /\
        Posted(r, c, body, roll, now).updated_at = now
    BY DEF Posted
  <2>3. Next
    BY <1>1, <1>4 DEF Next
  <2> QED
    BY <1>2, <1>3, <1>4, <2>1, <2>2, <2>3, BumpsKeepOrigins
       DEF NothingDatedPastTheDeadline
<1>5. ASSUME kind = "edit", NEW old \in MessagesOf(r),
             NEW c \in Clients, NEW body \in Bodies,
             NEW roll \in EvalRoll(rooms[r], body.expr),
             EditMessage(r, old.seq, c, body, roll, now)
      PROVE  Safe
  <2> DEFINE seq == old.seq
             event == rooms[r].event_counter + 1
             row(m) == IF m.room_id = r /\ m.seq = seq
                       THEN Edited(m, c, body, roll, now, event) ELSE m
  <2>1. /\ Bumps(r, 0, roll)
        /\ messages' = {row(m) : m \in messages}
        /\ lastId' = lastId
        /\ \A m \in messages :
             /\ row(m).room_id = m.room_id
             /\ m.room_id = r /\ m.seq = seq => row(m).updated_at = now
             /\ ~(m.room_id = r /\ m.seq = seq) => row(m) = m
    <3>1. TypeOK /\ r \in DOMAIN rooms /\ now \in Time
      BY <1>1
    <3> HIDE DEF seq, r, now
    <3> QED
      BY <3>1, <1>5, EditMessageEffect, SMTT(30) DEF seq
  <2>2. Next
    BY <1>1, <1>5 DEF Next, MessagesOf
  <2> HIDE DEF row, event
  <2>3. \A m \in messages : row(m).room_id \in DOMAIN rooms =>
          row(m).updated_at < rooms[row(m).room_id].created_at + LockAfter
    BY <1>2, <1>3, <1>5, <2>1
  <2> QED
    BY <2>1, <2>2, <2>3, BumpsKeepOrigins DEF NothingDatedPastTheDeadline
<1>6. ASSUME NEW c \in Clients, NEW name \in Names, SetName(r, c, name)
      PROVE  Safe
  <2>1. rooms' = rooms /\ messages' = messages /\ lastId' = lastId
    BY <1>6 DEF SetName
  <2>2. Next
    BY <1>1, <1>6 DEF Next
  <2> QED
    BY <1>3, <2>1, <2>2 DEF NothingDatedPastTheDeadline
<1>7. ASSUME LockRoom(r, now) PROVE Safe
  <2>1. Bumps(r, 0, NoRoll) /\ messages' = messages /\ lastId' = lastId
    BY <1>1, <1>7, LockRoomEffect
  <2>2. Next
    BY <1>1, <1>7 DEF Next
  <2> QED
    BY <1>3, <2>1, <2>2, BumpsKeepOrigins DEF NothingDatedPastTheDeadline
<1> HIDE DEF Safe
<1>8. Safe
  BY <1>4, <1>5, <1>6, <1>7 DEF Write
<1>9. IInv' /\ Retired /\ lastId <= lastId'
  BY <1>1, <1>8, NextIInv, StepRetires DEF Safe, TypeOK
<1>10. CreatedInThePast'
  BY <1>1, <1>8 DEF Safe, LifeInv, CreatedInThePast
<1> QED
  BY <1>1, <1>8, <1>9, <1>10, HandlerWrites DEF Safe

\* What a sweep deletes is older than its cutoff, which was already in the past.
LEMMA RunSweepInv ==
  ASSUME LifeInv, RunSweep
  PROVE  LifeInv' /\ \A r \in DOMAIN rooms \ DOMAIN rooms' : Expired(r)
<1> DEFINE cutoff == sweeper.cutoff
<1>1. /\ Sweep(cutoff) /\ UNCHANGED <<clock, worker>>
      /\ sweeper' = [pc |-> "asleep"]
      /\ cutoff \in Int /\ cutoff <= clock - DeleteAfter /\ clock \in Int
      /\ IInv
  BY StoreAssumption DEF RunSweep, LifeInv, SweeperRemembers
<1>2. IInv'
  BY <1>1, SweepIInv
<1>3. /\ DOMAIN rooms' \subseteq DOMAIN rooms
      /\ \A s \in DOMAIN rooms' : rooms'[s] = rooms[s]
      /\ messages' = {m \in messages : m.room_id \in DOMAIN rooms'}
      /\ lastId' = lastId
  BY <1>1, SweepEffect DEF IInv
<1>4. Retired
  BY <1>3 DEF Retired
<1>5. \A w \in Workers : Remembers(w)'
  <2>1. lastId <= lastId' /\ clock' = clock /\ worker' = worker
    BY <1>1, <1>3 DEF IInv, TypeOK
  <2> QED
    BY <1>2, <1>3, <1>4, <2>1, OthersRemember
<1>6. CreatedInThePast' /\ NothingDatedPastTheDeadline'
  BY <1>1, <1>3 DEF LifeInv, CreatedInThePast, NothingDatedPastTheDeadline
<1>7. LifeInv'
  BY <1>1, <1>2, <1>5, <1>6 DEF LifeInv, SweeperRemembers
<1>8. ASSUME NEW r \in DOMAIN rooms \ DOMAIN rooms' PROVE Expired(r)
  <2>1. rooms' = [s \in {t \in DOMAIN rooms : rooms[t].created_at >= cutoff} |-> rooms[s]]
    BY <1>1 DEF Sweep
  <2>2. ~(rooms[r].created_at >= cutoff)
    BY <1>8, <2>1
  <2>3. rooms[r].created_at \in Int
    BY <1>1, Columns, StoreAssumption DEF IInv, RoomRow
  <2> QED
    BY <1>1, <2>2, <2>3, LifecycleAssumption DEF Expired
<1> QED
  BY <1>7, <1>8

LEMMA ClockAndSweeperInv ==
  ASSUME LifeInv, Tick \/ WakeSweeper \/ SweepFails \/ UNCHANGED vars
  PROVE  LifeInv' /\ UNCHANGED storeVars
<1>1. /\ UNCHANGED storeVars /\ worker' = worker
      /\ clock' \in Time /\ clock <= clock' /\ clock' \in Int /\ clock \in Int
  BY StoreAssumption DEF Tick, WakeSweeper, SweepFails, vars, lifeVars, LifeInv
<1>2. IInv' /\ UNCHANGED <<rooms, messages, lastId>>
  BY <1>1, StutterIInv DEF LifeInv, storeVars
<1>3. ASSUME NEW w \in Workers PROVE Remembers(w)'
  <2>1. worker[w].pc \in {"creating", "checked"} => worker[w].now \in Int
    BY WorkerTypes, StoreAssumption
  <2> QED
    BY <1>1, <1>2, <2>1 DEF LifeInv, Remembers, SameRoom
<1>4. CreatedInThePast' /\ NothingDatedPastTheDeadline'
  <2>1. \A r \in DOMAIN rooms : rooms[r].created_at \in Int
    BY Columns, StoreAssumption DEF LifeInv, IInv, RoomRow
  <2> QED
    BY <1>1, <1>2, <2>1 DEF LifeInv, CreatedInThePast, NothingDatedPastTheDeadline
<1>5. SweeperRemembers'
  <2>1. CASE WakeSweeper
    BY <1>1, <2>1, LifecycleAssumption DEF WakeSweeper, SweeperRemembers
  <2>2. CASE SweepFails
    BY <2>2 DEF SweepFails, SweeperRemembers
  <2>3. CASE Tick \/ UNCHANGED vars
    BY <1>1, <2>3, LifecycleAssumption
       DEF Tick, vars, lifeVars, LifeInv, SweeperRemembers
  <2> QED
    BY <2>1, <2>2, <2>3
<1> QED
  BY <1>1, <1>2, <1>3, <1>4, <1>5 DEF LifeInv

LEMMA LifeInitInv == LifeInit => LifeInv
<1> SUFFICES ASSUME LifeInit PROVE LifeInv
  OBVIOUS
<1>1. IInv /\ clock \in Time
  BY InitIInv DEF LifeInit
<1>2. worker \in [Workers -> WorkerStates] /\ \A w \in Workers : Remembers(w)
  BY DEF LifeInit, WorkerStates, Remembers, Idle
<1>3. SweeperRemembers
  BY DEF LifeInit, SweeperRemembers
<1>4. CreatedInThePast /\ NothingDatedPastTheDeadline
  BY DEF LifeInit, Init, CreatedInThePast, NothingDatedPastTheDeadline
<1> QED
  BY <1>1, <1>2, <1>3, <1>4 DEF LifeInv

LEMMA LifeNextInv == LifeInv /\ [LifeNext]_vars => LifeInv'
<1> SUFFICES ASSUME LifeInv, [LifeNext]_vars PROVE LifeInv'
  OBVIOUS
<1> QED
  BY BeginCreateInv, FinishCreateInv, FindRoomInv, CheckInv, WriteInv, RefuseInv,
     RunSweepInv, ClockAndSweeperInv DEF LifeNext

\* What handlers and the sweep remember stays right in every reachable state.
THEOREM LifeInvariance == LifeSpec => []LifeInv
BY LifeInitInv, LifeNextInv, PTL DEF LifeSpec

-----------------------------------------------------------------------------
(* The results. *)

\* Tables, clock, handlers and sweep stay well-formed, and nothing is dated in the
\* future.
THEOREM LifeTypeCorrect == LifeSpec => []LifeTypeOK
<1>1. ASSUME LifeInv PROVE LifeTypeOK
  BY <1>1, WorkerTypes DEF LifeInv, LifeTypeOK, IInv, Remembers, SweeperRemembers,
                           CreatedInThePast
<1> QED
  BY <1>1, LifeInvariance, PTL

\* No message is dated at or after its room's deadline, for any number of handlers
\* and however long they take between the check and the write.
THEOREM DeadlineIsKept == LifeSpec => []NothingDatedPastTheDeadline
<1>1. LifeInv => NothingDatedPastTheDeadline
  BY DEF LifeInv
<1> QED
  BY <1>1, LifeInvariance, PTL

\* A handler that still finds its room finds the room of the link it was given.
THEOREM RoomsAreNotMixedUp == LifeSpec => []HandlersKeepTheirRoom
<1>1. LifeInv => HandlersKeepTheirRoom
  BY DEF LifeInv, HandlersKeepTheirRoom, Remembers, SameRoom
<1> QED
  BY <1>1, LifeInvariance, PTL

\* Only a sweep deletes, and only rooms that are past their last day when it runs,
\* however long ago it computed its cutoff.
THEOREM YoungRoomsStay == LifeSpec => OnlyExpiredRoomsDeleted
<1> DEFINE Young == \A r \in DOMAIN rooms \ DOMAIN rooms' : Expired(r)
<1>1. ASSUME LifeInv, LifeNext PROVE Young
  <2>1. CASE RunSweep
    BY <1>1, <2>1, RunSweepInv
  <2>2. ASSUME NEW w \in Workers, FinishCreate(w) PROVE Young
    BY <2>2 DEF FinishCreate, CreateRoom
  <2>3. ASSUME NEW w \in Workers, Write(w) PROVE Young
    <3>1. DOMAIN rooms' = DOMAIN rooms
      BY <2>3 DEF Write, PostMessage, EditMessage, SetName, LockRoom
    <3> QED
      BY <3>1
  <2>4. UNCHANGED storeVars => Young
    BY DEF storeVars
  <2> HIDE DEF Young
  <2> QED
    BY <1>1, <2>1, <2>2, <2>3, <2>4 DEF LifeNext, Tick, BeginCreate, FindRoom, Check,
                                      Refuse, WakeSweeper, SweepFails
<1>2. LifeInv /\ [LifeNext]_vars => [Young]_vars
  BY <1>1
<1> QED
  BY <1>2, LifeInvariance, PTL DEF LifeSpec, OnlyExpiredRoomsDeleted
=============================================================================
