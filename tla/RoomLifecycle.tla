---------------------------- MODULE RoomLifecycle ----------------------------
(****************************************************************************)
(* A room from creation over locking to deletion: the request handlers of   *)
(* server/src/web.rs that write, the hourly sweep task of server/src/main.rs *)
(* and the clock they read (server/src/clock.rs).                           *)
(*                                                                          *)
(* A handler looks the room up by its token, reads the clock, decides       *)
(* whether the room is locked, and writes; each of these is an await away   *)
(* from the next, so the room may be locked or deleted and time may pass in *)
(* between.  The database is RoomStore, one atomic step per operation.      *)
(*                                                                          *)
(* The clock never goes back: a host whose wall clock is set back is left   *)
(* out.  Live updates are the subject of LiveUpdates.                       *)
(****************************************************************************)
EXTENDS RoomStore

CONSTANTS
  Workers,      \* request handlers that run at the same time
  LockAfter,    \* LOCK_AFTER; 14 days in the code
  DeleteAfter   \* DELETE_AFTER; 365 days in the code

ASSUME LifecycleAssumption ==
  /\ LockAfter \in Nat
  /\ DeleteAfter \in Nat
  /\ LockAfter < DeleteAfter

VARIABLES
  clock,     \* clock::now()
  worker,    \* per handler: what it has read so far
  sweeper    \* the sweep task

lifeVars == <<clock, worker, sweeper>>
vars == <<storeVars, lifeVars>>

Kinds == {"post", "edit", "name", "lock"}

Idle == [pc |-> "idle"]

LifeInit ==
  /\ Init
  /\ clock \in Time
  /\ \A t \in Time : clock <= t
  /\ worker = [w \in Workers |-> Idle]
  /\ sweeper = [pc |-> "asleep"]

RoomLockedLate(room, now) == room.locked_at # NotLocked \/ now > room.created_at + LockAfter

\* room_locked, on the room as it was looked up.
RoomLocked(room, now) == room.locked_at # NotLocked \/ now >= room.created_at + LockAfter

Goto(w, state) == worker' = [worker EXCEPT ![w] = state]

------------------------------------------------------------------------------
Tick ==
  /\ clock + 1 \in Time
  /\ clock' = clock + 1
  /\ UNCHANGED <<storeVars, worker, sweeper>>

\* create_room: the clock is read before the store is asked.
BeginCreate(w, token) ==
  /\ worker[w].pc = "idle"
  /\ Goto(w, [pc |-> "creating", token |-> token, now |-> clock])
  /\ UNCHANGED <<storeVars, clock, sweeper>>

FinishCreate(w) ==
  /\ worker[w].pc = "creating"
  /\ CreateRoom(worker[w].token, worker[w].now)
  /\ Goto(w, Idle)
  /\ UNCHANGED <<clock, sweeper>>

\* find_room: the handler keeps the row it got.
FindRoom(w, kind, r) ==
  /\ worker[w].pc = "idle"
  /\ r \in DOMAIN rooms
  /\ Goto(w, [pc |-> "found", kind |-> kind, id |-> r, room |-> rooms[r]])
  /\ UNCHANGED <<storeVars, clock, sweeper>>

\* The handler reads the clock, once, and decides on the lock.  lock_room does
\* not look at the lock.
Check(w) ==
  /\ worker[w].pc = "found"
  /\ worker[w].kind = "lock" \/ ~RoomLocked(worker[w].room, clock)
  /\ Goto(w, [now |-> clock, pc |-> "checked", kind |-> worker[w].kind,
              id |-> worker[w].id, room |-> worker[w].room])
  /\ UNCHANGED <<storeVars, clock, sweeper>>

Write(w) ==
  LET r == worker[w].id
      now == worker[w].now
  IN
  /\ worker[w].pc = "checked"
  /\ r \in DOMAIN rooms
  /\ \/ /\ worker[w].kind = "post"
        /\ \E c \in Clients, body \in Bodies : \E roll \in EvalRoll(rooms[r], body.expr) :
             PostMessage(r, c, body, roll, now)
     \/ /\ worker[w].kind = "edit"
        /\ \E m \in MessagesOf(r), c \in Clients, body \in Bodies :
             \E roll \in EvalRoll(rooms[r], body.expr) :
               EditMessage(r, m.seq, c, body, roll, now)
     \/ /\ worker[w].kind = "name"
        /\ \E c \in Clients, name \in Names : SetName(r, c, name)
     \/ /\ worker[w].kind = "lock"
        /\ LockRoom(r, now)
  /\ Goto(w, Idle)
  /\ UNCHANGED <<clock, sweeper>>

\* The handler ends without writing: the room is locked, the input is blank or
\* does not parse, the room or message is gone, the token is taken, the store
\* fails, the client goes away.
Refuse(w) ==
  /\ worker[w].pc # "idle"
  /\ Goto(w, Idle)
  /\ UNCHANGED <<storeVars, clock, sweeper>>

WakeSweeperWithLockAfter ==
  /\ sweeper.pc = "asleep"
  /\ sweeper' = [pc |-> "sweeping", cutoff |-> clock - LockAfter]
  /\ UNCHANGED <<storeVars, clock, worker>>

\* The sweep task wakes up and computes its cutoff ...
WakeSweeper ==
  /\ sweeper.pc = "asleep"
  /\ sweeper' = [pc |-> "sweeping", cutoff |-> clock - DeleteAfter]
  /\ UNCHANGED <<storeVars, clock, worker>>

\* ... and deletes; an error is logged and the task sleeps until the next tick.
RunSweep ==
  /\ sweeper.pc = "sweeping"
  /\ Sweep(sweeper.cutoff)
  /\ sweeper' = [pc |-> "asleep"]
  /\ UNCHANGED <<clock, worker>>

SweepFails ==
  /\ sweeper.pc = "sweeping"
  /\ sweeper' = [pc |-> "asleep"]
  /\ UNCHANGED <<storeVars, clock, worker>>

LifeNext ==
  \/ Tick
  \/ \E w \in Workers :
       \/ \E token \in Tokens : BeginCreate(w, token)
       \/ FinishCreate(w)
       \/ \E kind \in Kinds, r \in DOMAIN rooms : FindRoom(w, kind, r)
       \/ Check(w) \/ Write(w) \/ Refuse(w)
  \/ WakeSweeper \/ RunSweep \/ SweepFails

\* The interval timer keeps firing; the database may fail, but not every time it
\* is asked.
Fairness == WF_vars(WakeSweeper) /\ SF_vars(RunSweep)

LifeSpec == LifeInit /\ [][LifeNext]_vars /\ Fairness

------------------------------------------------------------------------------
(* Properties. *)

Expired(r) == rooms[r].created_at + DeleteAfter < clock

\* The tables stay typed under the handlers, and nothing is dated in the future:
\* what a handler or the sweep remembers of the clock is in the past.
LifeTypeOK ==
  /\ TypeOK
  /\ clock \in Time
  /\ \A w \in Workers :
       /\ worker[w].pc \in {"idle", "creating", "found", "checked"}
       /\ worker[w].pc \in {"creating", "checked"} => worker[w].now <= clock
       /\ worker[w].pc \in {"found", "checked"} =>
            worker[w].room \in RoomRow /\ worker[w].id \in 1..lastId
  /\ \A r \in DOMAIN rooms : rooms[r].created_at <= clock
  /\ sweeper.pc = "sweeping" => sweeper.cutoff <= clock - DeleteAfter

\* Fourteen days after its creation a room is read-only (SPEC 3.1): no message is
\* ever posted or edited with a time at or after the deadline, even if its
\* handler writes later than it checked.
NothingDatedPastTheDeadline ==
  \A m \in messages :
    m.room_id \in DOMAIN rooms =>
      m.updated_at < rooms[m.room_id].created_at + LockAfter

\* A handler never writes into another room than the one whose link it was
\* given, even if that room is deleted, and others are created, between its
\* lookup and its write.
HandlersKeepTheirRoom ==
  \A w \in Workers :
    worker[w].pc \in {"found", "checked"} /\ worker[w].id \in DOMAIN rooms =>
      /\ rooms[worker[w].id].token = worker[w].room.token
      /\ rooms[worker[w].id].created_at = worker[w].room.created_at

\* A room younger than a year is never deleted, however late a sweep runs.
OnlyExpiredRoomsDeleted == [][\A r \in DOMAIN rooms \ DOMAIN rooms' : Expired(r)]_vars

\* A room that passes its first year is deleted in the end, with everything in it
\* (SPEC 3.1), whatever handlers are at work on it.
ExpiredRoomsVanish ==
  \A r \in 1..MaxRooms :
    (r \in DOMAIN rooms /\ Expired(r)) ~>
      (r \notin DOMAIN rooms /\ MessagesOf(r) = {})

\* A locked room is read-only: "no new messages, edits, or rolls" (SPEC 3.1).
LockIsFinal ==
  [][\A r \in DOMAIN rooms \cap DOMAIN rooms' :
       rooms[r].locked_at # NotLocked => MessagesOf(r)' = MessagesOf(r)]_vars
=============================================================================
