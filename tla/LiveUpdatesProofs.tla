-------------------------- MODULE LiveUpdatesProofs --------------------------
(****************************************************************************)
(* For any number of handlers, pages, messages and faults: what the stream  *)
(* brings to a page is never on it already, and what is newer than the      *)
(* stream's snapshot is on the page or on its way.                          *)
(*                                                                          *)
(* And with one handler at a time: a connected page that sends no edits     *)
(* shows the transcript as soon as nothing is on its way to it any more.    *)
(* Such a page shows the room as of some event, and the events on their way *)
(* to it are those that it has not been told of, in the order of their ids. *)
(****************************************************************************)
EXTENDS LiveUpdates, RoomStoreProofs, FiniteSetTheorems, SequenceTheorems,
        WellFoundedInduction

-----------------------------------------------------------------------------
(* Types. *)

Elements == [seq : Nat, event : Nat]
MsgEvents == [id : Nat, name : {"msg"}, oob : BOOLEAN, element : Elements]
LockedEvents == [id : Nat, name : {"locked"}]
Events == MsgEvents \cup LockedEvents

Announcing == {"committed", "sending"}

WorkerStates ==
  {Idle}
    \cup [pc : {"checked"}, kind : {"post", "lock"}]
    \cup [pc : {"checked"}, kind : {"edit"}, seq : Nat, origin : Browsers \cup {Outside}]
    \cup [pc : {"committed"}, origin : Browsers \cup {Outside}, event : MsgEvents]
    \cup [pc : {"committed"}, origin : {Outside}, event : LockedEvents]
    \cup [pc : {"sending"}, origin : Browsers \cup {Outside}, event : MsgEvents, chan : Nat]
    \cup [pc : {"sending"}, origin : {Outside}, event : LockedEvents, chan : Nat]

Connected == {"opening"} \cup Subscribed

ConnStates ==
  [chan : Nat \cup {NoChannel}, last : Nat, queue : Seq(Events), lagged : BOOLEAN,
   counter : Nat, unlocked : BOOLEAN, snapshot : Nat, refresh : Seq(Elements)]

TabStates ==
  [pc : {"away", "loading", "offline"} \cup Connected, view : Seq(Elements),
   composer : {"open", "locked"}, start : Nat, last : Nat]

LiveTypeOK ==
  /\ worker \in [Workers -> WorkerStates]
  /\ conn \in [Browsers -> ConnStates]
  /\ tab \in [Browsers -> TabStates]
  /\ reply \in [Browsers -> Elements \cup {NoReply}]
  /\ channel \in Nat \cup {NoChannel}
  /\ channels \in Nat
  /\ channel # NoChannel => channel \in 1..channels

-----------------------------------------------------------------------------
(* The inductive invariant. *)

LastSeq == rooms[Room].seq_counter

Announced == {worker[w].event : w \in {v \in Workers : worker[v].pc \in Announcing}}

Queued(b) == {conn[b].queue[i] : i \in DOMAIN conn[b].queue}

IsPost(e) == e.name = "msg" /\ ~e.oob

\* The room has a message seq, and event created it.
Created(seq, event) ==
  \E m \in MessagesOf(Room) : m.seq = seq /\ m.created_event_seq = event

\* An event says what is in the database.
EventTrue(e) ==
  /\ IsPost(e) => Created(e.element.seq, e.id)
  /\ e.name = "locked" => ~Unlocked

SamePost(d, e) == IsPost(d) /\ IsPost(e) /\ d.element.seq = e.element.seq

\* Handlers announce what they have committed, and no two of them the same post.
HandlersInv ==
  /\ \A w \in Workers : worker[w].pc \in Announcing => EventTrue(worker[w].event)
  /\ \A v, w \in Workers :
       /\ worker[v].pc \in Announcing /\ worker[w].pc \in Announcing
       /\ SamePost(worker[v].event, worker[w].event)
       => v = w

\* A post is in a queue once, and not while its handler still announces it.
QueueInv(b) ==
  LET queue == conn[b].queue IN
  /\ \A i \in DOMAIN queue : EventTrue(queue[i])
  /\ \A i, j \in DOMAIN queue : SamePost(queue[i], queue[j]) => i = j
  /\ \A i \in DOMAIN queue, w \in Workers :
       worker[w].pc \in Announcing => ~SamePost(queue[i], worker[w].event)

\* A list shows messages of the room, none of them twice.
ListInv(list) ==
  /\ \A i \in DOMAIN list : list[i].seq <= LastSeq
  /\ \A i, j \in DOMAIN list : list[i].seq = list[j].seq => i = j

Lists(list, seq) == \E i \in DOMAIN list : list[i].seq = seq

\* What the page shows when its stream is live.
Page(b) == IF tab[b].pc = "refresh" THEN conn[b].refresh ELSE tab[b].view

HasSnapshot == {"refresh", "live"}

\* What is newer than the snapshot is not on the page while it is on its way ...
NotYetShown(b) ==
  tab[b].pc \in HasSnapshot =>
    \A e \in Announced \cup Queued(b) :
      IsPost(e) /\ e.id > conn[b].snapshot => ~Lists(Page(b), e.element.seq)

\* ... and on the page or on its way as long as the stream goes on, which a handler
\* that is sending has taken the right channel for.
Arrives(b) ==
  tab[b].pc \in HasSnapshot /\ ~Ending(b) =>
    /\ \A m \in MessagesOf(Room) :
         m.created_event_seq > conn[b].snapshot =>
           \/ Lists(Page(b), m.seq)
           \/ \E e \in Announced \cup Queued(b) : IsPost(e) /\ e.element.seq = m.seq
           \/ \E e \in silent : e.id = m.created_event_seq
    /\ \A w \in Workers :
         /\ worker[w].pc = "sending"
         /\ IsPost(worker[w].event) /\ worker[w].event.id > conn[b].snapshot
         => worker[w].chan = conn[b].chan

\* The same for the lock, from the second look at the room on.
LockArrives(b) ==
  tab[b].pc \in {"snapshot"} \cup HasSnapshot /\ ~Ending(b) /\ conn[b].unlocked =>
    /\ ~Unlocked =>
         \/ tab[b].composer = "locked"
         \/ \E e \in Announced \cup Queued(b) \cup silent : e.name = "locked"
    /\ \A w \in Workers :
         worker[w].pc = "sending" /\ worker[w].event.name = "locked" =>
           worker[w].chan = conn[b].chan

StreamInv(b) ==
  /\ tab[b].pc \in Connected => conn[b].chan \in 1..channels
  /\ QueueInv(b)
  /\ ListInv(tab[b].view)
  /\ ListInv(conn[b].refresh)
  /\ NotYetShown(b)
  /\ Arrives(b)
  /\ LockArrives(b)

LiveInv ==
  /\ IInv
  /\ Room \in DOMAIN rooms
  /\ LiveTypeOK
  /\ HandlersInv
  /\ \A b \in Browsers : StreamInv(b)

-----------------------------------------------------------------------------
(* The page a read of the messages gives. *)

\* A set of numbers that is not empty and has a bound has a greatest one.
LEMMA GreatestNumber ==
  ASSUME NEW bound \in Nat, NEW T \in SUBSET (0..bound), T # {}
  PROVE  Max(T) \in T /\ \A t \in T : Max(T) >= t
<1> DEFINE R == {p \in Nat \X Nat : p[1] < p[2]}
           U == {bound - t : t \in T}
<1>1. IsWellFoundedOn(R, Nat)
  BY NatLessThanWellFounded DEF OpToRel
<1>2. \A m, n \in Nat : m < n => <<m, n>> \in R
  OBVIOUS
<1>3. U \subseteq Nat /\ U # {}
  <2>1. \A t \in T : bound - t \in Nat
    OBVIOUS
  <2> QED
    BY <2>1
<1> HIDE DEF R
<1>4. PICK u \in U : \A m \in U : ~(<<m, u>> \in R)
  BY <1>1, <1>3, WFMin
<1>5. \A m \in U : ~(m < u)
  BY <1>2, <1>3, <1>4
<1>6. PICK s \in T : u = bound - s
  BY <1>4
<1>7. \A t \in T : s >= t
  <2> TAKE t \in T
  <2>1. bound - t \in U
    OBVIOUS
  <2>2. ~(bound - t < bound - s)
    BY <2>1, <1>5, <1>6
  <2>3. s \in Int /\ t \in Int
    OBVIOUS
  <2> HIDE DEF U
  <2> QED
    BY <2>2, <2>3, SMT
<1> QED
  BY <1>7 DEF Max

\* A set whose elements are numbered 1..n has n elements.
LEMMA NumberedSet ==
  ASSUME NEW S, NEW n \in Nat,
         \A x \in S : x.seq \in 1..n,
         \A k \in 1..n : \E x \in S : x.seq = k,
         \A x, y \in S : x.seq = y.seq => x = y
  PROVE  IsFiniteSet(S) /\ Cardinality(S) = n
<1> DEFINE f == [k \in 1..n |-> CHOOSE x \in S : x.seq = k]
<1>1. \A k \in 1..n : f[k] \in S /\ f[k].seq = k
  OBVIOUS
<1>2. f \in [1..n -> S]
  BY <1>1
<1> HIDE DEF f
<1>3. f \in Injection(1..n, S)
  BY <1>1, <1>2 DEF Injection, IsInjective
<1>4. f \in Surjection(1..n, S)
  BY <1>1, <1>2 DEF Surjection
<1>5. ExistsBijection(1..n, S)
  BY <1>3, <1>4 DEF ExistsBijection, Bijection
<1>6. IsFiniteSet(1..n) /\ Cardinality(1..n) = n
  BY FS_Interval
<1> QED
  BY <1>5, <1>6, FS_Bijection

\* Sorting such a set puts the element numbered i at i.
LEMMA InOrderPlaces ==
  ASSUME NEW S, NEW n \in Nat,
         \A x \in S : x.seq \in 1..n,
         \A k \in 1..n : \E x \in S : x.seq = k,
         \A x, y \in S : x.seq = y.seq => x = y
  PROVE  /\ DOMAIN InOrder(S) = 1..n
         /\ InOrder(S) = [i \in 1..n |-> InOrder(S)[i]]
         /\ \A i \in 1..n : InOrder(S)[i] \in S /\ InOrder(S)[i].seq = i
<1>1. Cardinality(S) = n
  BY NumberedSet
<1>2. ASSUME NEW x \in S
      PROVE  Cardinality({y \in S : y.seq <= x.seq}) = x.seq
  <2> DEFINE L == {y \in S : y.seq <= x.seq}
  <2>1. x.seq \in 1..n
    OBVIOUS
  <2>2. \A y \in L : y.seq \in 1..x.seq
    BY <2>1
  <2>3. \A k \in 1..x.seq : \E y \in L : y.seq = k
    <3> TAKE k \in 1..x.seq
    <3>1. k \in 1..n
      BY <2>1
    <3>2. PICK y \in S : y.seq = k
      BY <3>1
    <3> QED
      BY <3>2
  <2>4. \A y, z \in L : y.seq = z.seq => y = z
    OBVIOUS
  <2>5. x.seq \in Nat
    BY <2>1
  <2> HIDE DEF L
  <2>6. Cardinality(L) = x.seq
    BY <2>2, <2>3, <2>4, <2>5, NumberedSet
  <2> QED
    BY <2>6 DEF L
<1>3. InOrder(S) = [i \in 1..n |->
        CHOOSE x \in S : Cardinality({y \in S : y.seq <= x.seq}) = i]
  BY <1>1 DEF InOrder
<1>4. ASSUME NEW i \in 1..n
      PROVE  InOrder(S)[i] \in S /\ InOrder(S)[i].seq = i
  <2>1. PICK x \in S : x.seq = i
    OBVIOUS
  <2>2. InOrder(S)[i] = CHOOSE z \in S : Cardinality({y \in S : y.seq <= z.seq}) = i
    BY <1>3
  <2>3. /\ InOrder(S)[i] \in S
        /\ Cardinality({y \in S : y.seq <= InOrder(S)[i].seq}) = i
    BY <2>1, <2>2, <1>2
  <2> QED
    BY <2>3, <1>2
<1> QED
  BY <1>3, <1>4

\* The page shows every message of the room in its latest version, in order.
LEMMA TranscriptIsTheRoom ==
  ASSUME IInv, Room \in DOMAIN rooms
  PROVE  /\ Transcript \in Seq(Elements)
         /\ DOMAIN Transcript = 1..LastSeq
         /\ \A i \in 1..LastSeq : Transcript[i].seq = i
         /\ \A i \in 1..LastSeq :
              /\ Transcript[i].event \in Nat
              /\ Transcript[i].event <= rooms[Room].event_counter
         /\ \A m \in MessagesOf(Room) :
              /\ m.seq \in 1..LastSeq
              /\ Transcript[m.seq] = Rendered(m)
              /\ Transcript[m.seq].event = m.event_seq
<1> DEFINE S == {Rendered(m) : m \in MessagesOf(Room)}
<1>1. LastSeq \in Nat /\ \A m \in MessagesOf(Room) : m \in messages /\ m.room_id = Room
  BY Columns DEF LastSeq, MessagesOf, IInv
<1>2. \A m \in MessagesOf(Room) :
        /\ m.seq \in Nat /\ m.event_seq \in Nat
        /\ m.seq \in 1..LastSeq
        /\ m.event_seq <= rooms[Room].event_counter
  BY <1>1, Columns, SeqRange DEF LastSeq, IInv, EventIdsOrderTheRoom
<1>3. \A k \in 1..LastSeq : \E m \in MessagesOf(Room) : m.seq = k
  BY SeqRange DEF LastSeq, MessagesOf, IInv
<1>4. \A m, n \in MessagesOf(Room) : m.seq = n.seq => m = n
  BY <1>1 DEF IInv, TranscriptGapless
<1>5. \A m \in MessagesOf(Room) : /\ Rendered(m) \in S
                                  /\ Rendered(m).seq = m.seq
                                  /\ Rendered(m).event = m.event_seq
  BY DEF Rendered
<1>6. \A x \in S : /\ x \in Elements
                   /\ x.seq \in 1..LastSeq
                   /\ x.event <= rooms[Room].event_counter
  BY <1>2 DEF Rendered, Elements
<1>7. \A k \in 1..LastSeq : \E x \in S : x.seq = k
  BY <1>3, <1>5
<1>8. \A x, y \in S : x.seq = y.seq => x = y
  BY <1>4 DEF Rendered
<1>9. Transcript = InOrder(S)
  BY DEF Transcript
<1> HIDE DEF S
<1>10. /\ DOMAIN Transcript = 1..LastSeq
       /\ Transcript = [i \in 1..LastSeq |-> Transcript[i]]
       /\ \A i \in 1..LastSeq : Transcript[i] \in S /\ Transcript[i].seq = i
  BY <1>1, <1>6, <1>7, <1>8, <1>9, InOrderPlaces
<1>11. Transcript \in [1..LastSeq -> Elements]
  BY <1>6, <1>10
<1>12. Transcript \in Seq(Elements)
  BY <1>1, <1>11
<1>13. \A m \in MessagesOf(Room) : Transcript[m.seq] = Rendered(m)
  BY <1>2, <1>5, <1>8, <1>10
<1>14. \A i \in 1..LastSeq :
         /\ Transcript[i].event \in Nat
         /\ Transcript[i].event <= rooms[Room].event_counter
  BY <1>6, <1>10 DEF Elements
<1>15. \A m \in MessagesOf(Room) : Transcript[m.seq].event = m.event_seq
  BY <1>5, <1>13
<1> QED
  BY <1>2, <1>10, <1>12, <1>13, <1>14, <1>15

LEMMA TranscriptList ==
  ASSUME IInv, Room \in DOMAIN rooms
  PROVE  ListInv(Transcript)
<1>1. LastSeq \in Nat
  BY Columns DEF LastSeq, IInv
<1> QED
  BY <1>1, TranscriptIsTheRoom DEF ListInv

\* A snapshot covers the counter that was read and every message of the page.
LEMMA SnapshotCovers ==
  ASSUME IInv, Room \in DOMAIN rooms, NEW counter \in Nat
  PROVE  /\ SnapshotSeq(counter, Transcript) \in Nat
         /\ counter <= SnapshotSeq(counter, Transcript)
         /\ \A m \in MessagesOf(Room) :
              /\ m.created_event_seq <= SnapshotSeq(counter, Transcript)
              /\ m.event_seq <= SnapshotSeq(counter, Transcript)
         /\ counter <= rooms[Room].event_counter =>
              SnapshotSeq(counter, Transcript) <= rooms[Room].event_counter
<1> DEFINE T == {counter} \cup {Transcript[i].event : i \in DOMAIN Transcript}
           bound == counter + rooms[Room].event_counter
<1>1. LastSeq \in Nat /\ rooms[Room].event_counter \in Nat
  BY Columns DEF LastSeq, IInv
<1>2. \A i \in DOMAIN Transcript : Transcript[i].event \in 0..rooms[Room].event_counter
  BY <1>1, TranscriptIsTheRoom
<1>3. bound \in Nat /\ T \in SUBSET (0..bound) /\ T # {}
  BY <1>1, <1>2
<1>4. SnapshotSeq(counter, Transcript) = Max(T)
  BY DEF SnapshotSeq
<1>5. counter \in T
  OBVIOUS
<1>6. \A m \in MessagesOf(Room) : m.event_seq \in T
  BY TranscriptIsTheRoom
<1> HIDE DEF T, bound
<1>7. Max(T) \in T /\ \A t \in T : Max(T) >= t
  BY <1>3, GreatestNumber
<1>8. T \subseteq Nat
  BY <1>3
<1>9. \A m \in MessagesOf(Room) :
        /\ m.created_event_seq \in Nat /\ m.event_seq \in Nat
        /\ m.created_event_seq <= m.event_seq
  BY Columns DEF MessagesOf, IInv, EventIdsOrderTheRoom
<1>10. Max(T) \in Nat /\ counter <= Max(T)
  BY <1>5, <1>7, <1>8
<1>11. ASSUME NEW m \in MessagesOf(Room)
       PROVE  m.created_event_seq <= Max(T) /\ m.event_seq <= Max(T)
  <2>1. Max(T) >= m.event_seq
    BY <1>6, <1>7
  <2> QED
    BY <2>1, <1>9, <1>10
<1>12. counter <= rooms[Room].event_counter => Max(T) <= rooms[Room].event_counter
  <2>1. \A t \in T : t = counter \/ t \in 0..rooms[Room].event_counter
    BY <1>2 DEF T
  <2> QED
    BY <2>1, <1>1, <1>7
<1> QED
  BY <1>4, <1>10, <1>11, <1>12

-----------------------------------------------------------------------------
(* What a write to the room does, and the event it is announced with. *)

Stores(e) ==
  /\ IInv' /\ (Room \in DOMAIN rooms)'
  /\ e \in Events
  /\ EventTrue(e)'
  /\ LastSeq \in Nat /\ LastSeq' \in Nat /\ LastSeq <= LastSeq'
  /\ \A seq, event : Created(seq, event) => Created(seq, event)'
  /\ \A m \in MessagesOf(Room)' :
       \/ Created(m.seq, m.created_event_seq)
       \/ IsPost(e) /\ e.element.seq = m.seq /\ e.id = m.created_event_seq
  /\ IsPost(e) => e.element.seq = LastSeq + 1
  /\ ~Unlocked => ~Unlocked'
  /\ Unlocked /\ ~Unlocked' => e.name = "locked"

\* The events' shapes.
LEMMA EventShapes ==
  /\ \A e \in MsgEvents : /\ e.name = "msg" /\ e.id \in Nat
                          /\ e.element \in Elements /\ e.element.seq \in Nat
  /\ \A e \in LockedEvents : e.name = "locked" /\ e.id \in Nat /\ ~IsPost(e)
  /\ \A e : IsPost(e) => e.name = "msg"
<1>1. \A e \in MsgEvents : e.name = "msg" /\ e.id \in Nat /\ e.element \in Elements
  BY DEF MsgEvents
<1>2. \A x \in Elements : x.seq \in Nat
  BY DEF Elements
<1>3. \A e \in LockedEvents : e.name = "locked" /\ e.id \in Nat
  BY DEF LockedEvents
<1>4. \A e : IsPost(e) => e.name = "msg"
  BY DEF IsPost
<1> QED
  BY <1>1, <1>2, <1>3, <1>4

\* The event of a message says which one and what the message says.
LEMMA MsgEventShape ==
  ASSUME NEW m, m.seq \in Nat, m.event_seq \in Nat, NEW oob \in BOOLEAN
  PROVE  /\ MsgEvent(m, oob) \in MsgEvents
         /\ MsgEvent(m, oob).id = m.event_seq
         /\ MsgEvent(m, oob).name = "msg"
         /\ MsgEvent(m, oob).element.seq = m.seq
         /\ IsPost(MsgEvent(m, oob)) <=> ~oob
<1>1. Rendered(m) \in Elements /\ Rendered(m).seq = m.seq
  BY DEF Rendered, Elements
<1>2. /\ MsgEvent(m, oob).id = m.event_seq
      /\ MsgEvent(m, oob).name = "msg"
      /\ MsgEvent(m, oob).oob = oob
      /\ MsgEvent(m, oob).element = Rendered(m)
      /\ MsgEvent(m, oob) \in MsgEvents
  BY <1>1 DEF MsgEvent, MsgEvents
<1>3. IsPost(MsgEvent(m, oob)) <=> ~oob
  BY <1>2, Zenon DEF IsPost
<1> QED
  BY <1>1, <1>2, <1>3

LEMMA PostStores ==
  ASSUME IInv, Room \in DOMAIN rooms,
         NEW c \in Clients, NEW body \in Bodies, NEW now \in Time,
         NEW roll \in EvalRoll(rooms[Room], body.expr),
         PostMessage(Room, c, body, roll, now),
         NEW m \in messages' \ messages
  PROVE  Stores(MsgEvent(m, FALSE)) /\ MsgEvent(m, FALSE) \in MsgEvents
<1> DEFINE new == Posted(Room, c, body, roll, now)
           e == MsgEvent(m, FALSE)
<1>1. /\ Bumps(Room, 1, roll)
      /\ messages' = messages \cup {new}
      /\ new \in MessageRow
  BY PostMessageEffect DEF IInv
<1>2. /\ m = new /\ m \in messages'
      /\ m.room_id = Room
      /\ m.seq = rooms[Room].seq_counter + 1
      /\ m.created_event_seq = rooms[Room].event_counter + 1
      /\ m.event_seq = rooms[Room].event_counter + 1
  BY <1>1 DEF Posted
<1>3. IInv'
  BY PostMessageIInv
<1>4. /\ rooms[Room].seq_counter \in Nat /\ rooms[Room].event_counter \in Nat
      /\ rooms'[Room].seq_counter = rooms[Room].seq_counter + 1
      /\ DOMAIN rooms' = DOMAIN rooms
  BY <1>1, Columns DEF Bumps, IInv
<1>5. rooms'[Room].locked_at = rooms[Room].locked_at
  BY WriteKeepsLock DEF PostMessage, IInv
<1>6. /\ e \in MsgEvents /\ e.name = "msg" /\ IsPost(e)
      /\ e.element.seq = m.seq /\ e.id = m.created_event_seq
  <2>1. m.seq \in Nat /\ m.event_seq \in Nat /\ m.event_seq = m.created_event_seq
    BY <1>2, <1>4
  <2> QED
    BY <2>1, MsgEventShape
<1> HIDE DEF e, new
<1>7. LastSeq \in Nat /\ LastSeq' = LastSeq + 1 /\ e.element.seq = LastSeq + 1
  BY <1>2, <1>4, <1>6 DEF LastSeq
<1>8. Unlocked' <=> Unlocked
  BY <1>5 DEF Unlocked
<1>9. Created(e.element.seq, e.id)'
  BY <1>2, <1>6 DEF Created, MessagesOf
<1>10. \A seq, event : Created(seq, event) => Created(seq, event)'
  BY <1>1 DEF Created, MessagesOf
<1>11. \A k \in MessagesOf(Room)' :
         \/ Created(k.seq, k.created_event_seq)
         \/ k = m
  BY <1>1, <1>2 DEF Created, MessagesOf
<1>12. EventTrue(e)'
  BY <1>6, <1>9 DEF EventTrue
<1>13. LastSeq' \in Nat /\ LastSeq <= LastSeq'
  BY <1>7
<1>14. (Room \in DOMAIN rooms)'
  BY <1>4
<1>15. Stores(e)
  BY <1>3, <1>6, <1>7, <1>8, <1>10, <1>11, <1>12, <1>13, <1>14, Zenon DEF Stores, Events
<1> QED
  BY <1>6, <1>15 DEF e

LEMMA EditStores ==
  ASSUME IInv, Room \in DOMAIN rooms, NEW seq,
         NEW c \in Clients, NEW body \in Bodies, NEW now \in Time,
         NEW roll \in EvalRoll(rooms[Room], body.expr),
         EditMessage(Room, seq, c, body, roll, now),
         NEW m \in messages' \ messages
  PROVE  Stores(MsgEvent(m, TRUE)) /\ MsgEvent(m, TRUE) \in MsgEvents
<1> DEFINE row(k) == IF k.room_id = Room /\ k.seq = seq
                     THEN Edited(k, c, body, roll, now, rooms[Room].event_counter + 1)
                     ELSE k
           e == MsgEvent(m, TRUE)
<1>1. /\ Bumps(Room, 0, roll)
      /\ messages' = {row(k) : k \in messages}
      /\ \A k \in messages :
           /\ row(k) \in MessageRow
           /\ row(k).room_id = k.room_id
           /\ row(k).seq = k.seq
           /\ row(k).created_event_seq = k.created_event_seq
  BY EditMessageEffect DEF IInv
<1>2. m \in messages' /\ m \in MessageRow
  BY <1>1
<1>3. m.seq \in Nat /\ m.event_seq \in Nat
  BY <1>2 DEF MessageRow
<1>4. IInv'
  BY EditMessageIInv
<1>5. /\ rooms[Room].seq_counter \in Nat
      /\ rooms'[Room].seq_counter = rooms[Room].seq_counter
      /\ DOMAIN rooms' = DOMAIN rooms
  BY <1>1, Columns DEF Bumps, IInv
<1>6. rooms'[Room].locked_at = rooms[Room].locked_at
  BY WriteKeepsLock DEF EditMessage, IInv
<1>7. e \in MsgEvents /\ e.name = "msg" /\ ~IsPost(e)
  BY <1>3, MsgEventShape
<1> HIDE DEF e, row
<1>8. LastSeq \in Nat /\ LastSeq' = LastSeq
  BY <1>5 DEF LastSeq
<1>9. Unlocked' <=> Unlocked
  BY <1>6 DEF Unlocked
<1>10. \A s, event : Created(s, event) => Created(s, event)'
  BY <1>1 DEF Created, MessagesOf
<1>11. \A k \in MessagesOf(Room)' : Created(k.seq, k.created_event_seq)
  BY <1>1 DEF Created, MessagesOf
<1>12. EventTrue(e)'
  BY <1>7 DEF EventTrue
<1>13. LastSeq' \in Nat /\ LastSeq <= LastSeq'
  BY <1>8
<1>14. (Room \in DOMAIN rooms)'
  BY <1>5
<1>15. Stores(e)
  BY <1>4, <1>7, <1>8, <1>9, <1>10, <1>11, <1>12, <1>13, <1>14, Zenon DEF Stores, Events
<1> QED
  BY <1>7, <1>15 DEF e

LEMMA LockStores ==
  ASSUME IInv, Room \in DOMAIN rooms, NEW now \in Time, LockRoom(Room, now),
         NEW e, e = LockedEvent(rooms'[Room].event_counter)
  PROVE  Stores(e) /\ e \in LockedEvents
<1> DEFINE bumped == BumpCounters(rooms[Room], 0)
           new == [bumped EXCEPT !.locked_at = IF @ = NotLocked THEN now ELSE @]
<1>1. Bumps(Room, 0, NoRoll) /\ messages' = messages
  BY LockRoomEffect DEF IInv
<1>2. IInv'
  BY LockRoomIInv
<1>3. /\ rooms[Room].seq_counter \in Nat /\ rooms[Room].event_counter \in Nat
      /\ rooms'[Room].seq_counter = rooms[Room].seq_counter
      /\ rooms'[Room].event_counter \in Nat
      /\ DOMAIN rooms' = DOMAIN rooms
  BY <1>1, Columns DEF Bumps, IInv
<1>4. rooms'[Room].locked_at # NotLocked
  <2>1. rooms[Room] \in RoomRow
    BY DEF IInv, TypeOK
  <2>2. bumped \in RoomRow
    BY <2>1, BumpCountersFields
  <2>3. rooms'[Room] = new
    BY DEF LockRoom
  <2> HIDE DEF bumped
  <2>4. new.locked_at = IF bumped.locked_at = NotLocked THEN now ELSE bumped.locked_at
    BY <2>2 DEF RoomRow
  <2> HIDE DEF new
  <2> QED
    BY <2>3, <2>4, StoreAssumption
<1>5. e \in LockedEvents /\ e.name = "locked"
  BY <1>3 DEF LockedEvent, LockedEvents
<1>6. ~IsPost(e)
  BY <1>5, EventShapes
<1>7. LastSeq \in Nat /\ LastSeq' = LastSeq
  BY <1>3 DEF LastSeq
<1>8. ~Unlocked'
  BY <1>4 DEF Unlocked
<1>9. \A s, event : Created(s, event) => Created(s, event)'
  BY <1>1 DEF Created, MessagesOf
<1>10. \A k \in MessagesOf(Room)' : Created(k.seq, k.created_event_seq)
  BY <1>1 DEF Created, MessagesOf
<1>11. EventTrue(e)'
  BY <1>6, <1>8 DEF EventTrue
<1>12. LastSeq' \in Nat /\ LastSeq <= LastSeq'
  BY <1>7
<1>13. (Room \in DOMAIN rooms)'
  BY <1>3
<1> QED
  BY <1>2, <1>5, <1>6, <1>7, <1>8, <1>9, <1>10, <1>11, <1>12, <1>13, Zenon
     DEF Stores, Events

-----------------------------------------------------------------------------
(* What the types say of a handler, a stream and a page. *)

LEMMA HandlerShapes ==
  ASSUME LiveTypeOK, NEW w \in Workers
  PROVE  /\ worker[w] \in WorkerStates
         /\ worker[w].pc \in Announcing =>
              /\ worker[w].event \in Events
              /\ worker[w].origin \in Browsers \cup {Outside}
              /\ worker[w].event \notin MsgEvents =>
                   worker[w].event \in LockedEvents /\ worker[w].origin = Outside
         /\ worker[w].pc = "checked" =>
              /\ worker[w].kind \in {"post", "lock", "edit"}
              /\ worker[w].kind = "edit" =>
                   worker[w].seq \in Nat /\ worker[w].origin \in Browsers \cup {Outside}
<1>1. worker[w] \in WorkerStates
  BY DEF LiveTypeOK
<1>2. CASE worker[w] = Idle
  BY <1>1, <1>2 DEF Idle, Announcing
<1>3. CASE worker[w] \in [pc : {"checked"}, kind : {"post", "lock"}]
  BY <1>1, <1>3 DEF Announcing
<1>4. CASE worker[w] \in
             [pc : {"checked"}, kind : {"edit"}, seq : Nat, origin : Browsers \cup {Outside}]
  BY <1>1, <1>4 DEF Announcing
<1>5. CASE worker[w] \in
             [pc : {"committed"}, origin : Browsers \cup {Outside}, event : MsgEvents]
  BY <1>1, <1>5 DEF Announcing, Events
<1>6. CASE worker[w] \in [pc : {"committed"}, origin : {Outside}, event : LockedEvents]
  BY <1>1, <1>6 DEF Announcing, Events
<1>7. CASE worker[w] \in
             [pc : {"sending"}, origin : Browsers \cup {Outside}, event : MsgEvents, chan : Nat]
  BY <1>1, <1>7 DEF Announcing, Events
<1>8. CASE worker[w] \in
             [pc : {"sending"}, origin : {Outside}, event : LockedEvents, chan : Nat]
  BY <1>1, <1>8 DEF Announcing, Events
<1> QED
  BY <1>1, <1>2, <1>3, <1>4, <1>5, <1>6, <1>7, <1>8 DEF WorkerStates

LEMMA StreamShapes ==
  ASSUME LiveTypeOK, NEW b \in Browsers
  PROVE  /\ conn[b] \in ConnStates /\ tab[b] \in TabStates
         /\ conn[b].chan \in Nat \cup {NoChannel}
         /\ conn[b].queue \in Seq(Events)
         /\ conn[b].lagged \in BOOLEAN
         /\ conn[b].counter \in Nat
         /\ conn[b].snapshot \in Nat
         /\ conn[b].refresh \in Seq(Elements)
         /\ tab[b].view \in Seq(Elements)
         /\ tab[b].start \in Nat /\ tab[b].last \in Nat
         /\ tab[b].pc \in {"away", "loading", "offline"} \cup Connected
<1>1. conn[b] \in ConnStates /\ tab[b] \in TabStates
  BY DEF LiveTypeOK
<1>2. /\ conn[b].chan \in Nat \cup {NoChannel}
      /\ conn[b].queue \in Seq(Events)
      /\ conn[b].lagged \in BOOLEAN
      /\ conn[b].counter \in Nat
      /\ conn[b].snapshot \in Nat
      /\ conn[b].refresh \in Seq(Elements)
  BY <1>1 DEF ConnStates
<1>3. /\ tab[b].view \in Seq(Elements)
      /\ tab[b].start \in Nat /\ tab[b].last \in Nat
      /\ tab[b].pc \in {"away", "loading", "offline"} \cup Connected
  BY <1>1 DEF TabStates
<1> QED
  BY <1>1, <1>2, <1>3

\* The channel that a sender is taken from is one of those created, and every one
\* that was there before is the room's only if it was.
LEMMA ChannelTaken ==
  ASSUME LiveTypeOK, TakeSender
  PROVE  /\ Channel \in 1..channels' /\ Channel # NoChannel
         /\ channel' = Channel
         /\ channels' \in Nat /\ channels <= channels'
         /\ \A g \in 1..channels : g = channel' => g = channel
<1>1. channels \in Nat /\ (channel # NoChannel => channel \in 1..channels)
  BY DEF LiveTypeOK
<1>2. Channel \in 1..(channels + 1) /\ Channel \in Nat
  <2>1. CASE channel = NoChannel
    <3>1. Channel = channels + 1
      BY <2>1 DEF Channel
    <3> QED
      BY <1>1, <3>1
  <2>2. CASE channel # NoChannel
    <3>1. Channel = channel
      BY <2>2 DEF Channel
    <3> QED
      BY <1>1, <2>2, <3>1
  <2> QED
    BY <2>1, <2>2
<1>3. {channels, Channel} \in SUBSET (0..(channels + 1)) /\ {channels, Channel} # {}
  BY <1>1, <1>2
<1>4. /\ Max({channels, Channel}) \in {channels, Channel}
      /\ \A t \in {channels, Channel} : Max({channels, Channel}) >= t
  <2>1. channels + 1 \in Nat
    BY <1>1
  <2> QED
    BY <1>3, <2>1, GreatestNumber
<1>5. channels' = Max({channels, Channel}) /\ channel' = Channel
  BY DEF TakeSender
<1>6. channels' \in Nat /\ channels <= channels' /\ Channel <= channels'
  BY <1>1, <1>2, <1>4, <1>5
<1>7. Channel # NoChannel
  BY <1>2, LiveAssumption
<1>8. \A g \in 1..channels : g = Channel => g = channel
  BY <1>1 DEF Channel
<1> QED
  BY <1>2, <1>5, <1>6, <1>7, <1>8

-----------------------------------------------------------------------------
(* Steps that neither write to the room nor move an event. *)

Quiet ==
  /\ UNCHANGED <<storeVars, silent>>
  /\ channels \in Nat /\ channels' \in Nat /\ channels <= channels'
  /\ \A g \in 1..channels : g = channel' => g = channel
  /\ \A w \in Workers :
       /\ worker'[w].pc \in Announcing <=> worker[w].pc \in Announcing
       /\ worker[w].pc \in Announcing => worker'[w].event = worker[w].event
       /\ worker'[w].pc = "sending" =>
            \/ worker[w].pc = "sending" /\ worker'[w].chan = worker[w].chan
            \/ worker'[w].chan = channel'

\* Nothing happens to the page b and its stream.
Untouched(b) == tab'[b] = tab[b] /\ conn'[b] = conn[b]

\* No event is announced or taken back.
LEMMA StillQuiet ==
  ASSUME LiveInv, UNCHANGED <<storeVars, channel, channels, silent>>,
         \A v \in Workers :
           \/ worker'[v] = worker[v]
           \/ worker[v].pc \notin Announcing /\ worker'[v].pc \notin Announcing
  PROVE  Quiet
<1>1. channels \in Nat
  BY DEF LiveInv, LiveTypeOK
<1>2. "sending" \in Announcing
  BY DEF Announcing
<1> QED
  BY <1>1, <1>2 DEF Quiet

LEMMA QuietStore ==
  ASSUME Quiet, IInv, Room \in DOMAIN rooms
  PROVE  /\ IInv' /\ (Room \in DOMAIN rooms)'
         /\ LastSeq' = LastSeq
         /\ Unlocked' <=> Unlocked
         /\ \A seq, event : Created(seq, event)' <=> Created(seq, event)
         /\ \A e : EventTrue(e)' <=> EventTrue(e)
         /\ MessagesOf(Room)' = MessagesOf(Room)
         /\ \A list : ListInv(list)' <=> ListInv(list)
<1>1. rooms' = rooms /\ messages' = messages /\ UNCHANGED storeVars
  BY DEF Quiet, storeVars
<1>2. IInv'
  BY <1>1, StutterIInv
<1>3. LastSeq' = LastSeq /\ (Unlocked' <=> Unlocked) /\ MessagesOf(Room)' = MessagesOf(Room)
  BY <1>1 DEF LastSeq, Unlocked, MessagesOf
<1>4. \A seq, event : Created(seq, event)' <=> Created(seq, event)
  BY <1>3 DEF Created
<1>5. \A e : EventTrue(e)' <=> EventTrue(e)
  BY <1>3, <1>4 DEF EventTrue
<1>6. \A list : ListInv(list)' <=> ListInv(list)
  BY <1>3 DEF ListInv
<1> QED
  BY <1>1, <1>2, <1>3, <1>4, <1>5, <1>6

LEMMA QuietAnnounced ==
  ASSUME Quiet
  PROVE  Announced' = Announced /\ silent' = silent
BY DEF Quiet, Announced

LEMMA QuietHandlers ==
  ASSUME Quiet, HandlersInv, IInv, Room \in DOMAIN rooms
  PROVE  HandlersInv'
<1>1. \A e : EventTrue(e)' <=> EventTrue(e)
  BY QuietStore
<1>2. \A w \in Workers :
        /\ worker'[w].pc \in Announcing <=> worker[w].pc \in Announcing
        /\ worker[w].pc \in Announcing => worker'[w].event = worker[w].event
  BY DEF Quiet
<1>3. (\A w \in Workers : worker[w].pc \in Announcing => EventTrue(worker[w].event))'
  BY <1>1, <1>2, QuietStore DEF HandlersInv, EventTrue
<1>4. \A v, w \in Workers :
        /\ worker'[v].pc \in Announcing /\ worker'[w].pc \in Announcing
        /\ SamePost(worker'[v].event, worker'[w].event)
        => v = w
  BY <1>2 DEF HandlersInv
<1> QED
  BY <1>3, <1>4 DEF HandlersInv, SamePost

\* The queue of a stream that receives nothing.
LEMMA QuietQueue ==
  ASSUME Quiet, IInv, Room \in DOMAIN rooms, NEW b \in Browsers,
         conn'[b].queue = conn[b].queue, QueueInv(b)
  PROVE  QueueInv(b)'
<1>1. \A e : EventTrue(e)' <=> EventTrue(e)
  BY QuietStore
<1>2. \A w \in Workers :
        /\ worker'[w].pc \in Announcing <=> worker[w].pc \in Announcing
        /\ worker[w].pc \in Announcing => worker'[w].event = worker[w].event
  BY DEF Quiet
<1>3. (\A i \in DOMAIN conn[b].queue : EventTrue(conn[b].queue[i]))'
  BY QuietStore DEF QueueInv, EventTrue
<1> QED
  BY <1>2, <1>3 DEF QueueInv, SamePost

LEMMA EmptyQueue ==
  ASSUME NEW b \in Browsers, conn'[b].queue = <<>>
  PROVE  QueueInv(b)' /\ Queued(b)' = {}
BY DEF QueueInv, Queued

LEMMA QuietArrives ==
  ASSUME Quiet, IInv, Room \in DOMAIN rooms, NEW b \in Browsers,
         conn[b].chan \in 1..channels,
         conn'[b].chan = conn[b].chan, conn'[b].lagged = conn[b].lagged,
         conn'[b].snapshot = conn[b].snapshot, Queued(b)' = Queued(b),
         tab[b].pc \in HasSnapshot, Page(b)' = Page(b), Arrives(b)
  PROVE  Arrives(b)'
<1> SUFFICES ASSUME ~Ending(b)'
             PROVE  Arrives(b)'
  BY DEF Arrives
<1>1. ~Ending(b) /\ conn[b].chan = channel'
  BY DEF Ending, Quiet
<1>2. /\ \A m \in MessagesOf(Room) :
           m.created_event_seq > conn[b].snapshot =>
             \/ Lists(Page(b), m.seq)
             \/ \E e \in Announced \cup Queued(b) : IsPost(e) /\ e.element.seq = m.seq
             \/ \E e \in silent : e.id = m.created_event_seq
      /\ \A w \in Workers :
           /\ worker[w].pc = "sending"
           /\ IsPost(worker[w].event) /\ worker[w].event.id > conn[b].snapshot
           => worker[w].chan = conn[b].chan
  BY <1>1 DEF Arrives
<1>3. \A m \in MessagesOf(Room)' :
        m.created_event_seq > conn'[b].snapshot =>
          \/ Lists(Page(b)', m.seq)
          \/ \E e \in Announced' \cup Queued(b)' : IsPost(e) /\ e.element.seq = m.seq
          \/ \E e \in silent' : e.id = m.created_event_seq
  BY <1>2, QuietStore, QuietAnnounced
<1>4. ASSUME NEW w \in Workers, worker'[w].pc = "sending",
             IsPost(worker'[w].event), worker'[w].event.id > conn'[b].snapshot
      PROVE  worker'[w].chan = conn'[b].chan
  <2>1. worker[w].pc \in Announcing /\ worker'[w].event = worker[w].event
    BY <1>4 DEF Quiet, Announcing
  <2>2. CASE worker[w].pc = "sending" /\ worker'[w].chan = worker[w].chan
    BY <1>2, <1>4, <2>1, <2>2
  <2>3. CASE worker'[w].chan = channel'
    BY <1>1, <2>3
  <2> QED
    BY <1>4, <2>2, <2>3 DEF Quiet
<1> QED
  BY <1>3, <1>4 DEF Arrives, IsPost, Lists

LEMMA QuietLockArrives ==
  ASSUME Quiet, IInv, Room \in DOMAIN rooms, NEW b \in Browsers,
         conn[b].chan \in 1..channels,
         conn'[b].chan = conn[b].chan, conn'[b].lagged = conn[b].lagged,
         conn'[b].unlocked = conn[b].unlocked, Queued(b)' = Queued(b),
         tab[b].pc \in {"snapshot"} \cup HasSnapshot,
         tab'[b].composer = tab[b].composer, LockArrives(b)
  PROVE  LockArrives(b)'
<1> SUFFICES ASSUME ~Ending(b)', conn'[b].unlocked
             PROVE  LockArrives(b)'
  BY DEF LockArrives
<1>1. ~Ending(b) /\ conn[b].chan = channel'
  BY DEF Ending, Quiet
<1>2. /\ ~Unlocked =>
           \/ tab[b].composer = "locked"
           \/ \E e \in Announced \cup Queued(b) \cup silent : e.name = "locked"
      /\ \A w \in Workers :
           worker[w].pc = "sending" /\ worker[w].event.name = "locked" =>
             worker[w].chan = conn[b].chan
  BY <1>1 DEF LockArrives
<1>3. ~Unlocked' =>
        \/ tab'[b].composer = "locked"
        \/ \E e \in Announced' \cup Queued(b)' \cup silent' : e.name = "locked"
  BY <1>2, QuietStore, QuietAnnounced
<1>4. ASSUME NEW w \in Workers, worker'[w].pc = "sending", worker'[w].event.name = "locked"
      PROVE  worker'[w].chan = conn'[b].chan
  <2>1. worker[w].pc \in Announcing /\ worker'[w].event = worker[w].event
    BY <1>4 DEF Quiet, Announcing
  <2>2. CASE worker[w].pc = "sending" /\ worker'[w].chan = worker[w].chan
    BY <1>2, <1>4, <2>1, <2>2
  <2>3. CASE worker'[w].chan = channel'
    BY <1>1, <2>3
  <2> QED
    BY <1>4, <2>2, <2>3 DEF Quiet
<1> QED
  BY <1>3, <1>4 DEF LockArrives

LEMMA QuietUntouched ==
  ASSUME Quiet, IInv, Room \in DOMAIN rooms, NEW b \in Browsers,
         LiveTypeOK, Untouched(b), StreamInv(b)
  PROVE  StreamInv(b)'
<1>1. tab'[b] = tab[b] /\ conn'[b] = conn[b]
  BY DEF Untouched
<1>2. Queued(b)' = Queued(b) /\ Page(b)' = Page(b)
  BY <1>1 DEF Queued, Page
<1>3. tab'[b].pc \in Connected => conn'[b].chan \in 1..channels'
  <2>1. channels \in Nat /\ channels' \in Nat /\ channels <= channels'
    BY DEF Quiet
  <2>2. tab[b].pc \in Connected => conn[b].chan \in 1..channels
    BY DEF StreamInv
  <2> QED
    BY <1>1, <2>1, <2>2
<1>4. QueueInv(b)'
  BY <1>1, QuietQueue DEF StreamInv
<1>5. ListInv(tab[b].view)' /\ ListInv(conn[b].refresh)'
  BY <1>1, QuietStore DEF StreamInv, ListInv
<1>6. NotYetShown(b)'
  BY <1>1, <1>2, QuietAnnounced DEF StreamInv, NotYetShown
<1>7. Arrives(b)'
  <2>1. CASE tab[b].pc \in HasSnapshot
    <3>1. conn[b].chan \in 1..channels
      BY <2>1 DEF StreamInv, Connected, Subscribed, HasSnapshot
    <3> QED
      BY <1>1, <1>2, <2>1, <3>1, QuietArrives DEF StreamInv
  <2>2. CASE tab[b].pc \notin HasSnapshot
    BY <1>1, <2>2 DEF Arrives
  <2> QED
    BY <2>1, <2>2
<1>8. LockArrives(b)'
  <2>1. CASE tab[b].pc \in {"snapshot"} \cup HasSnapshot
    <3>1. conn[b].chan \in 1..channels
      BY <2>1 DEF StreamInv, Connected, Subscribed, HasSnapshot
    <3> QED
      BY <1>1, <1>2, <2>1, <3>1, QuietLockArrives DEF StreamInv
  <2>2. CASE tab[b].pc \notin {"snapshot"} \cup HasSnapshot
    BY <1>1, <2>2 DEF LockArrives
  <2> QED
    BY <2>1, <2>2
<1> QED
  BY <1>3, <1>4, <1>5, <1>6, <1>7, <1>8 DEF StreamInv

LEMMA QuietLive ==
  ASSUME LiveInv, Quiet, LiveTypeOK',
         \A b \in Browsers : Untouched(b) \/ StreamInv(b)'
  PROVE  LiveInv'
<1>1. IInv' /\ (Room \in DOMAIN rooms)'
  BY QuietStore DEF LiveInv
<1>2. HandlersInv'
  BY QuietHandlers DEF LiveInv
<1>3. \A b \in Browsers : StreamInv(b)'
  BY QuietUntouched DEF LiveInv
<1> QED
  BY <1>1, <1>2, <1>3 DEF LiveInv

-----------------------------------------------------------------------------
(* The steps of the handlers that move no event. *)

\* Handler w goes on to a state that announces nothing, from one that does not.
LEMMA HandlerMoves ==
  ASSUME LiveInv, NEW w \in Workers, NEW state \in WorkerStates,
         worker[w].pc \notin Announcing, state.pc \notin Announcing,
         worker' = [worker EXCEPT ![w] = state],
         UNCHANGED <<storeVars, channel, channels, conn, tab, reply, silent, faults>>
  PROVE  LiveInv'
<1>1. LiveTypeOK
  BY DEF LiveInv
<1>2. LiveTypeOK'
  BY <1>1 DEF LiveTypeOK
<1>3. Quiet
  <2>1. \A v \in Workers : worker'[v] = IF v = w THEN state ELSE worker[v]
    BY <1>1 DEF LiveTypeOK
  <2> QED
    BY <2>1, StillQuiet
<1>4. \A b \in Browsers : Untouched(b)
  BY DEF Untouched
<1> QED
  BY <1>2, <1>3, <1>4, QuietLive

LEMMA BeginPostLive ==
  ASSUME LiveInv, NEW w \in Workers, BeginPost(w)
  PROVE  LiveInv'
<1> DEFINE state == [pc |-> "checked", kind |-> "post"]
<1>1. state \in WorkerStates /\ state.pc \notin Announcing
  BY DEF WorkerStates, Announcing
<1>2. worker[w].pc \notin Announcing
  BY DEF BeginPost, Announcing
<1>3. /\ worker' = [worker EXCEPT ![w] = state]
      /\ UNCHANGED <<storeVars, channel, channels, conn, tab, reply, silent, faults>>
  BY DEF BeginPost
<1> HIDE DEF state
<1> QED
  BY <1>1, <1>2, <1>3, HandlerMoves

LEMMA BeginLockLive ==
  ASSUME LiveInv, NEW w \in Workers, BeginLock(w)
  PROVE  LiveInv'
<1> DEFINE state == [pc |-> "checked", kind |-> "lock"]
<1>1. state \in WorkerStates /\ state.pc \notin Announcing
  BY DEF WorkerStates, Announcing
<1>2. worker[w].pc \notin Announcing
  BY DEF BeginLock, Announcing
<1>3. /\ worker' = [worker EXCEPT ![w] = state]
      /\ UNCHANGED <<storeVars, channel, channels, conn, tab, reply, silent, faults>>
  BY DEF BeginLock
<1> HIDE DEF state
<1> QED
  BY <1>1, <1>2, <1>3, HandlerMoves

LEMMA BeginEditLive ==
  ASSUME LiveInv, NEW w \in Workers, NEW seq \in Nat, NEW origin \in Editors \cup {Outside},
         BeginEdit(w, seq, origin)
  PROVE  LiveInv'
<1> DEFINE state == [pc |-> "checked", kind |-> "edit", seq |-> seq, origin |-> origin]
<1>1. origin \in Browsers \cup {Outside}
  BY LiveAssumption
<1>2. state \in [pc : {"checked"}, kind : {"edit"}, seq : Nat, origin : Browsers \cup {Outside}]
  BY <1>1
<1>3. state \in WorkerStates
  BY <1>2 DEF WorkerStates
<1>4. state.pc \notin Announcing
  BY DEF Announcing
<1>5. worker[w].pc \notin Announcing
  BY DEF BeginEdit, Announcing
<1>6. /\ worker' = [worker EXCEPT ![w] = state]
      /\ UNCHANGED <<storeVars, channel, channels, conn, tab, reply, silent, faults>>
  BY DEF BeginEdit
<1> HIDE DEF state
<1> QED
  BY <1>3, <1>4, <1>5, <1>6, HandlerMoves

LEMMA GiveUpLive ==
  ASSUME LiveInv, NEW w \in Workers, GiveUp(w)
  PROVE  LiveInv'
<1>1. Idle \in WorkerStates /\ Idle.pc \notin Announcing
  BY DEF WorkerStates, Idle, Announcing
<1>2. worker[w].pc \notin Announcing
  BY DEF GiveUp, Announcing
<1>3. /\ worker' = [worker EXCEPT ![w] = Idle]
      /\ UNCHANGED <<storeVars, channel, channels, conn, tab, reply, silent, faults>>
  BY DEF GiveUp
<1> QED
  BY <1>1, <1>2, <1>3, HandlerMoves

\* A handler that takes the sender takes that of the room's channel.
LEMMA TakeSenderToSendLive ==
  ASSUME LiveInv, NEW w \in Workers, TakeSenderToSend(w)
  PROVE  LiveInv'
<1> DEFINE old == worker[w]
           state == [pc |-> "sending", origin |-> old.origin, event |-> old.event,
                     chan |-> Channel]
<1>1. LiveTypeOK
  BY DEF LiveInv
<1>2. old.pc = "committed" /\ old.pc \in Announcing
  BY DEF TakeSenderToSend, Announcing
<1>3. /\ Channel \in 1..channels' /\ Channel # NoChannel
      /\ channel' = Channel
      /\ channels' \in Nat /\ channels <= channels'
      /\ \A g \in 1..channels : g = channel' => g = channel
  BY <1>1, ChannelTaken DEF TakeSenderToSend
<1>4. Channel \in Nat
  BY <1>3
<1>5. state \in WorkerStates
  <2>1. CASE old.event \in MsgEvents
    <3>1. old.origin \in Browsers \cup {Outside}
      BY <1>1, <1>2, HandlerShapes
    <3>2. state \in
            [pc : {"sending"}, origin : Browsers \cup {Outside}, event : MsgEvents, chan : Nat]
      BY <2>1, <3>1, <1>4
    <3> HIDE DEF state
    <3> QED
      BY <3>2 DEF WorkerStates
  <2>2. CASE old.event \notin MsgEvents
    <3>1. old.event \in LockedEvents /\ old.origin = Outside
      BY <1>1, <1>2, <2>2, HandlerShapes
    <3>2. state \in [pc : {"sending"}, origin : {Outside}, event : LockedEvents, chan : Nat]
      BY <3>1, <1>4
    <3> HIDE DEF state
    <3> QED
      BY <3>2 DEF WorkerStates
  <2> QED
    BY <2>1, <2>2
<1>6. state.pc \in Announcing /\ state.event = old.event /\ state.chan = channel'
  BY <1>3 DEF Announcing
<1>7. /\ worker' = [worker EXCEPT ![w] = state]
      /\ UNCHANGED <<storeVars, conn, tab, reply, silent, faults>>
  BY DEF TakeSenderToSend
<1> HIDE DEF state
<1>8. \A v \in Workers : worker'[v] = IF v = w THEN state ELSE worker[v]
  BY <1>1, <1>7 DEF LiveTypeOK
<1>9. LiveTypeOK'
  BY <1>1, <1>3, <1>4, <1>5, <1>7 DEF LiveTypeOK
<1>10. channels \in Nat
  BY <1>1 DEF LiveTypeOK
<1>11. Quiet
  BY <1>2, <1>3, <1>6, <1>7, <1>8, <1>10 DEF Quiet
<1>12. \A b \in Browsers : Untouched(b)
  BY <1>7 DEF Untouched
<1> QED
  BY <1>9, <1>11, <1>12, QuietLive

LEMMA PruneLive ==
  ASSUME LiveInv, Prune
  PROVE  LiveInv'
<1>1. LiveTypeOK
  BY DEF LiveInv
<1>2. /\ channel' = NoChannel
      /\ UNCHANGED <<storeVars, worker, channels, conn, tab, reply, silent, faults>>
  BY DEF Prune
<1>3. channels \in Nat /\ \A g \in 1..channels : g # NoChannel
  BY <1>1, LiveAssumption DEF LiveTypeOK
<1>4. LiveTypeOK'
  BY <1>1, <1>2 DEF LiveTypeOK
<1>5. Quiet
  BY <1>2, <1>3 DEF Quiet
<1>6. \A b \in Browsers : Untouched(b)
  BY <1>2 DEF Untouched
<1> QED
  BY <1>4, <1>5, <1>6, QuietLive

-----------------------------------------------------------------------------
(* The steps of a page and of its stream. *)

\* Page b and its stream go on, and nothing else does but for the channel map.
PageSteps(b, c, t) ==
  /\ c \in ConnStates /\ t \in TabStates
  /\ conn' = [conn EXCEPT ![b] = c]
  /\ tab' = [tab EXCEPT ![b] = t]
  /\ UNCHANGED <<storeVars, worker, silent>>

ChannelsStay == UNCHANGED <<channel, channels>>

LEMMA PageStepLive ==
  ASSUME LiveInv, NEW b \in Browsers, NEW c, NEW t, PageSteps(b, c, t),
         TakeSender \/ ChannelsStay,
         reply' \in [Browsers -> Elements \cup {NoReply}],
         Quiet => StreamInv(b)'
  PROVE  LiveInv'
<1>1. LiveTypeOK
  BY DEF LiveInv
<1>2. /\ channels \in Nat /\ channels' \in Nat /\ channels <= channels'
      /\ channel' \in Nat \cup {NoChannel}
      /\ channel' # NoChannel => channel' \in 1..channels'
      /\ \A g \in 1..channels : g = channel' => g = channel
  <2>1. CASE TakeSender
    <3>1. /\ Channel \in 1..channels' /\ Channel # NoChannel
          /\ channel' = Channel
          /\ channels' \in Nat /\ channels <= channels'
          /\ \A g \in 1..channels : g = channel' => g = channel
      BY <1>1, <2>1, ChannelTaken
    <3>2. Channel \in Nat
      BY <3>1
    <3> QED
      BY <1>1, <3>1, <3>2 DEF LiveTypeOK
  <2>2. CASE ChannelsStay
    BY <1>1, <2>2 DEF LiveTypeOK, ChannelsStay
  <2> QED
    BY <2>1, <2>2
<1>3. /\ conn' = [conn EXCEPT ![b] = c] /\ c \in ConnStates
      /\ tab' = [tab EXCEPT ![b] = t] /\ t \in TabStates
      /\ UNCHANGED <<storeVars, worker, silent>>
  BY DEF PageSteps
<1>4. conn' \in [Browsers -> ConnStates] /\ tab' \in [Browsers -> TabStates]
  BY <1>1, <1>3 DEF LiveTypeOK
<1>5. LiveTypeOK'
  BY <1>1, <1>2, <1>3, <1>4 DEF LiveTypeOK
<1>6. Quiet
  BY <1>2, <1>3 DEF Quiet
<1>7. \A a \in Browsers : a # b => Untouched(a)
  BY <1>1, <1>3 DEF Untouched, LiveTypeOK
<1> QED
  BY <1>5, <1>6, <1>7, QuietLive

\* What a step of page b and its stream makes of them.
LEMMA PageStepResult ==
  ASSUME LiveTypeOK, NEW b \in Browsers, NEW c, NEW t, PageSteps(b, c, t)
  PROVE  conn'[b] = c /\ tab'[b] = t
BY DEF PageSteps, LiveTypeOK

\* A page without a snapshot has nothing to keep but its list and its queue.
LEMMA NoSnapshotStream ==
  ASSUME LiveInv, Quiet, NEW b \in Browsers,
         tab'[b].pc \notin {"snapshot"} \cup HasSnapshot,
         tab'[b].pc \in Connected => conn'[b].chan \in 1..channels',
         conn'[b].queue = <<>> \/ conn'[b].queue = conn[b].queue,
         ListInv(tab'[b].view), ListInv(conn'[b].refresh)
  PROVE  StreamInv(b)'
<1>1. QueueInv(b)'
  <2>1. QueueInv(b)
    BY DEF LiveInv, StreamInv
  <2> QED
    BY <2>1, QuietQueue, EmptyQueue DEF LiveInv
<1>2. LastSeq' = LastSeq
  BY QuietStore DEF LiveInv
<1>3. ListInv(tab[b].view)' /\ ListInv(conn[b].refresh)'
  BY <1>2 DEF ListInv
<1>4. NotYetShown(b)' /\ Arrives(b)' /\ LockArrives(b)'
  BY DEF NotYetShown, Arrives, LockArrives
<1> QED
  BY <1>1, <1>3, <1>4 DEF StreamInv

LEMMA EmptyList == ListInv(<<>>)
BY DEF ListInv

LEMMA ClosedShape ==
  /\ Closed \in ConnStates
  /\ Closed.queue = <<>> /\ Closed.refresh = <<>>
<1>1. <<>> \in Seq(Events) /\ <<>> \in Seq(Elements)
  OBVIOUS
<1> QED
  BY <1>1 DEF Closed, ConnStates

LEMMA AwayShape ==
  /\ Away \in TabStates
  /\ Away.view = <<>> /\ Away.pc = "away"
<1>1. <<>> \in Seq(Elements)
  OBVIOUS
<1> QED
  BY <1>1 DEF Away, TabStates

LEMMA LoadRoomRowLive ==
  ASSUME LiveInv, NEW b \in Browsers, LoadRoomRow(b)
  PROVE  LiveInv'
<1> DEFINE t == [Away EXCEPT !.pc = "loading", !.start = rooms[Room].event_counter,
                             !.composer = IF Unlocked THEN "open" ELSE "locked"]
<1>1. LiveTypeOK
  BY DEF LiveInv
<1>2. rooms[Room].event_counter \in Nat
  BY Columns DEF LiveInv, IInv
<1>3. t \in TabStates /\ t.pc = "loading" /\ t.view = <<>>
  BY <1>2, AwayShape DEF TabStates
<1>4. tab' = [tab EXCEPT ![b] = t]
  BY DEF LoadRoomRow
<1>5. conn' = [conn EXCEPT ![b] = conn[b]]
  BY <1>1 DEF LoadRoomRow, LiveTypeOK
<1> HIDE DEF t
<1>6. PageSteps(b, conn[b], t) /\ ChannelsStay
  BY <1>1, <1>3, <1>4, <1>5, StreamShapes DEF PageSteps, LoadRoomRow, ChannelsStay
<1>7. conn'[b] = conn[b] /\ tab'[b] = t
  BY <1>1, <1>6, PageStepResult
<1>8. Quiet => StreamInv(b)'
  BY <1>3, <1>7, NoSnapshotStream, EmptyList
     DEF HasSnapshot, Connected, Subscribed, LiveInv, StreamInv
<1>9. reply' \in [Browsers -> Elements \cup {NoReply}]
  BY <1>1 DEF LoadRoomRow, LiveTypeOK
<1> QED
  BY <1>6, <1>8, <1>9, PageStepLive

LEMMA LoadMessagesLive ==
  ASSUME LiveInv, NEW b \in Browsers, LoadMessages(b)
  PROVE  LiveInv'
<1> DEFINE seq == SnapshotSeq(tab[b].start, Transcript)
           old == tab[b]
           t == [old EXCEPT !.pc = "offline", !.view = Transcript,
                            !.start = seq, !.last = seq]
<1>1. LiveTypeOK
  BY DEF LiveInv
<1>2. old \in TabStates /\ old.start \in Nat
  BY <1>1, StreamShapes
<1>3. seq \in Nat
  BY <1>2, SnapshotCovers DEF LiveInv
<1>4. Transcript \in Seq(Elements) /\ ListInv(Transcript)
  BY TranscriptIsTheRoom, TranscriptList DEF LiveInv
<1>5. tab' = [tab EXCEPT ![b] = t]
  BY DEF LoadMessages
<1> HIDE DEF seq, old
<1>6. t \in TabStates /\ t.pc = "offline" /\ t.view = Transcript
  BY <1>2, <1>3, <1>4 DEF TabStates
<1>7. conn' = [conn EXCEPT ![b] = conn[b]]
  BY <1>1 DEF LoadMessages, LiveTypeOK
<1> HIDE DEF t
<1>8. PageSteps(b, conn[b], t) /\ ChannelsStay
  BY <1>1, <1>5, <1>6, <1>7, StreamShapes DEF PageSteps, LoadMessages, ChannelsStay
<1>9. conn'[b] = conn[b] /\ tab'[b] = t
  BY <1>1, <1>8, PageStepResult
<1>10. Quiet => StreamInv(b)'
  BY <1>4, <1>6, <1>9, NoSnapshotStream
     DEF HasSnapshot, Connected, Subscribed, LiveInv, StreamInv
<1>11. reply' \in [Browsers -> Elements \cup {NoReply}]
  BY <1>1 DEF LoadMessages, LiveTypeOK
<1> QED
  BY <1>8, <1>10, <1>11, PageStepLive

LEMMA ConnectLive ==
  ASSUME LiveInv, NEW b \in Browsers, Connect(b)
  PROVE  LiveInv'
<1>1. LiveTypeOK
  BY DEF LiveInv
<1>2. PICK last \in {tab[b].last, tab[b].start} :
        conn' = [conn EXCEPT ![b] = [Closed EXCEPT !.chan = Channel, !.last = last]]
  BY DEF Connect
<1> DEFINE c == [Closed EXCEPT !.chan = Channel, !.last = last]
           old == tab[b]
           t == [old EXCEPT !.pc = "opening"]
<1>3. old \in TabStates /\ last \in Nat
  BY <1>1, <1>2, StreamShapes
<1>4. Channel \in 1..channels' /\ TakeSender
  BY <1>1, ChannelTaken DEF Connect
<1>5. c \in ConnStates /\ c.chan = Channel /\ c.queue = <<>> /\ c.refresh = <<>>
  <2>1. Channel \in Nat
    BY <1>4
  <2>2. Closed \in ConnStates /\ Closed.queue = <<>> /\ Closed.refresh = <<>>
    BY ClosedShape
  <2> HIDE DEF old
  <2> QED
    BY <1>3, <2>1, <2>2 DEF ConnStates
<1>6. tab' = [tab EXCEPT ![b] = t]
  BY DEF Connect
<1> HIDE DEF old, c
<1>7. t \in TabStates /\ t.pc = "opening" /\ t.view = old.view
  BY <1>3 DEF TabStates, Connected
<1> HIDE DEF t
<1>8. PageSteps(b, c, t)
  BY <1>2, <1>5, <1>6, <1>7 DEF PageSteps, Connect, c
<1>9. conn'[b] = c /\ tab'[b] = t
  BY <1>1, <1>8, PageStepResult
<1>10. ListInv(t.view)
  BY <1>7 DEF LiveInv, StreamInv, old
<1>11. Quiet => StreamInv(b)'
  BY <1>4, <1>5, <1>7, <1>9, <1>10, NoSnapshotStream, EmptyList DEF HasSnapshot
<1>12. reply' \in [Browsers -> Elements \cup {NoReply}]
  BY <1>1 DEF Connect, LiveTypeOK
<1> QED
  BY <1>4, <1>8, <1>11, <1>12, PageStepLive

LEMMA SubscribeLive ==
  ASSUME LiveInv, NEW b \in Browsers, Subscribe(b)
  PROVE  LiveInv'
<1> DEFINE old == tab[b]
           t == [old EXCEPT !.pc = "subscribed"]
<1>1. LiveTypeOK
  BY DEF LiveInv
<1>2. old \in TabStates
  BY <1>1, StreamShapes
<1>3. conn[b].chan \in 1..channels
  BY DEF Subscribe, LiveInv, StreamInv, Connected
<1>4. tab' = [tab EXCEPT ![b] = t]
  BY DEF Subscribe
<1> HIDE DEF old
<1>5. t \in TabStates /\ t.pc = "subscribed" /\ t.view = old.view
  BY <1>2 DEF TabStates, Connected, Subscribed
<1>6. conn' = [conn EXCEPT ![b] = conn[b]]
  BY <1>1 DEF Subscribe, LiveTypeOK
<1> HIDE DEF t
<1>7. PageSteps(b, conn[b], t) /\ ChannelsStay
  BY <1>1, <1>4, <1>5, <1>6, StreamShapes DEF PageSteps, Subscribe, ChannelsStay
<1>8. conn'[b] = conn[b] /\ tab'[b] = t
  BY <1>1, <1>7, PageStepResult
<1>9. ListInv(t.view) /\ ListInv(conn[b].refresh)
  BY <1>5 DEF LiveInv, StreamInv, old
<1>10. Quiet => StreamInv(b)'
  BY <1>3, <1>5, <1>7, <1>8, <1>9, NoSnapshotStream DEF HasSnapshot, ChannelsStay
<1>11. reply' \in [Browsers -> Elements \cup {NoReply}]
  BY <1>1 DEF Subscribe, LiveTypeOK
<1> QED
  BY <1>7, <1>10, <1>11, PageStepLive

\* From the second look at the room on a lock is announced on the stream's channel:
\* none is being announced while the room is open.
LEMMA ReadRoomLive ==
  ASSUME LiveInv, NEW b \in Browsers, ReadRoom(b)
  PROVE  LiveInv'
<1> DEFINE old == tab[b]
           oldc == conn[b]
           t == [old EXCEPT !.pc = "snapshot"]
           c == [oldc EXCEPT !.counter = rooms[Room].event_counter, !.unlocked = Unlocked]
<1>1. LiveTypeOK
  BY DEF LiveInv
<1>2. old \in TabStates /\ oldc \in ConnStates
  BY <1>1, StreamShapes
<1>3. rooms[Room].event_counter \in Nat /\ Unlocked \in BOOLEAN
  BY Columns DEF LiveInv, IInv, Unlocked
<1>4. tab' = [tab EXCEPT ![b] = t] /\ conn' = [conn EXCEPT ![b] = c]
  BY DEF ReadRoom
<1>5. oldc.chan \in 1..channels
  BY DEF ReadRoom, LiveInv, StreamInv, Connected, Subscribed
<1> HIDE DEF old, oldc
<1>6. t \in TabStates /\ t.pc = "snapshot" /\ t.view = old.view
  BY <1>2 DEF TabStates, Connected, Subscribed
<1>7. /\ c \in ConnStates
      /\ c.chan = oldc.chan /\ c.queue = oldc.queue /\ c.refresh = oldc.refresh
  BY <1>2, <1>3 DEF ConnStates
<1>8. c.unlocked = Unlocked
  BY <1>2 DEF ConnStates
<1> HIDE DEF t, c
<1>9. PageSteps(b, c, t) /\ ChannelsStay
  BY <1>4, <1>6, <1>7 DEF PageSteps, ReadRoom, ChannelsStay
<1>10. conn'[b] = c /\ tab'[b] = t
  BY <1>1, <1>9, PageStepResult
<1>11. ASSUME Quiet PROVE StreamInv(b)'
  <2>1. QueueInv(b)'
    BY <1>7, <1>10, <1>11, QuietQueue DEF oldc, LiveInv, StreamInv
  <2>2. LastSeq' = LastSeq /\ (Unlocked' <=> Unlocked)
    BY <1>11, QuietStore DEF LiveInv
  <2>3. ListInv(tab[b].view)' /\ ListInv(conn[b].refresh)'
    BY <1>6, <1>7, <1>10, <2>2 DEF LiveInv, StreamInv, ListInv, old, oldc
  <2>4. NotYetShown(b)' /\ Arrives(b)'
    BY <1>6, <1>10 DEF NotYetShown, Arrives, HasSnapshot
  <2>5. LockArrives(b)'
    <3>1. Unlocked => \A w \in Workers :
            worker[w].pc = "sending" => worker[w].event.name # "locked"
      BY DEF LiveInv, HandlersInv, EventTrue, Announcing
    <3>2. worker' = worker
      BY <1>9 DEF PageSteps
    <3> QED
      BY <1>8, <1>10, <2>2, <3>1, <3>2 DEF LockArrives
  <2>6. (tab[b].pc \in Connected => conn[b].chan \in 1..channels)'
    BY <1>5, <1>7, <1>9, <1>10 DEF ChannelsStay
  <2> QED
    BY <2>1, <2>3, <2>4, <2>5, <2>6 DEF StreamInv
<1>12. reply' \in [Browsers -> Elements \cup {NoReply}]
  BY <1>1 DEF ReadRoom, LiveTypeOK
<1> QED
  BY <1>9, <1>11, <1>12, PageStepLive

\* What is announced or queued now is in the database now, and the snapshot covers
\* it: nothing newer is on its way, and nothing newer has to be.
LEMMA ReadMessagesLive ==
  ASSUME LiveInv, NEW b \in Browsers, ReadMessages(b)
  PROVE  LiveInv'
<1> DEFINE seq == SnapshotSeq(conn[b].counter, Transcript)
           behind == conn[b].last < seq
           old == tab[b]
           oldc == conn[b]
           page == IF behind THEN Transcript ELSE <<>>
           next == IF behind THEN "refresh" ELSE "live"
           t == [old EXCEPT !.pc = next]
           c == [oldc EXCEPT !.snapshot = seq, !.refresh = page]
<1>1. LiveTypeOK
  BY DEF LiveInv
<1>2. old \in TabStates /\ oldc \in ConnStates /\ oldc.counter \in Nat
  BY <1>1, StreamShapes
<1>3. /\ seq \in Nat
      /\ \A m \in MessagesOf(Room) : m.created_event_seq <= seq
  BY <1>2, SnapshotCovers DEF LiveInv
<1>4. page \in Seq(Elements) /\ ListInv(page)
  <2>1. Transcript \in Seq(Elements) /\ ListInv(Transcript)
    BY TranscriptIsTheRoom, TranscriptList DEF LiveInv
  <2>2. <<>> \in Seq(Elements) /\ ListInv(<<>>)
    BY EmptyList
  <2> QED
    BY <2>1, <2>2
<1>5. tab' = [tab EXCEPT ![b] = t] /\ conn' = [conn EXCEPT ![b] = c]
  BY DEF ReadMessages
<1>6. oldc.chan \in 1..channels /\ old.pc = "snapshot"
  BY DEF ReadMessages, LiveInv, StreamInv, Connected, Subscribed
<1>7. next \in HasSnapshot
  BY DEF HasSnapshot
<1> HIDE DEF old, oldc, page, seq, next
<1>8. t \in TabStates /\ t.pc = next /\ t.view = old.view /\ t.composer = old.composer
  BY <1>2, <1>7 DEF TabStates, Connected, Subscribed, HasSnapshot
<1>9. /\ c \in ConnStates
      /\ c.chan = oldc.chan /\ c.queue = oldc.queue /\ c.lagged = oldc.lagged
      /\ c.snapshot = seq /\ c.refresh = page
  BY <1>2, <1>3, <1>4 DEF ConnStates
<1>10. c.unlocked = oldc.unlocked
  BY <1>2 DEF ConnStates
<1> HIDE DEF t, c
<1>11. PageSteps(b, c, t) /\ ChannelsStay
  BY <1>5, <1>8, <1>9 DEF PageSteps, ReadMessages, ChannelsStay
<1>12. conn'[b] = c /\ tab'[b] = t
  BY <1>1, <1>11, PageStepResult
<1>13. ASSUME Quiet PROVE StreamInv(b)'
  <2>1. QueueInv(b)'
    BY <1>9, <1>12, <1>13, QuietQueue DEF oldc, LiveInv, StreamInv
  <2>2. LastSeq' = LastSeq /\ MessagesOf(Room)' = MessagesOf(Room)
    BY <1>13, QuietStore DEF LiveInv
  <2>3. ListInv(tab[b].view)' /\ ListInv(conn[b].refresh)'
    BY <1>4, <1>8, <1>9, <1>12, <2>2 DEF LiveInv, StreamInv, ListInv, old, oldc
  <2>4. Queued(b)' = Queued(b) /\ Announced' = Announced
    BY <1>9, <1>12, <1>13, QuietAnnounced DEF Queued, oldc
  <2>5. \A e \in Announced \cup Queued(b) : IsPost(e) => ~(e.id > seq)
    <3>1. \A e \in Announced \cup Queued(b) : EventTrue(e)
      BY DEF LiveInv, HandlersInv, StreamInv, QueueInv, Announced, Queued
    <3>2. \A e \in Announced \cup Queued(b) :
            IsPost(e) => \E m \in MessagesOf(Room) : m.created_event_seq = e.id
      BY <3>1 DEF EventTrue, Created
    <3>3. \A m \in MessagesOf(Room) : ~(m.created_event_seq > seq)
      <4>1. \A m \in MessagesOf(Room) : m.created_event_seq \in Nat
        BY Columns DEF MessagesOf, LiveInv, IInv
      <4> QED
        BY <1>3, <4>1
    <3> QED
      BY <3>2, <3>3
  <2>6. NotYetShown(b)'
    BY <1>9, <1>12, <2>4, <2>5 DEF NotYetShown
  <2>7. Arrives(b)'
    <3>1. \A m \in MessagesOf(Room)' : ~(m.created_event_seq > conn'[b].snapshot)
      <4>1. \A m \in MessagesOf(Room) : m.created_event_seq \in Nat
        BY Columns DEF MessagesOf, LiveInv, IInv
      <4> QED
        BY <1>3, <1>9, <1>12, <2>2, <4>1
    <3>2. \A w \in Workers :
            worker'[w].pc = "sending" /\ IsPost(worker'[w].event) =>
              ~(worker'[w].event.id > conn'[b].snapshot)
      <4>1. \A w \in Workers : worker[w].pc = "sending" => worker[w].event \in Announced
        BY DEF Announced, Announcing
      <4> QED
        BY <1>9, <1>11, <1>12, <2>5, <4>1 DEF PageSteps
    <3> QED
      BY <3>1, <3>2 DEF Arrives, IsPost
  <2>8. LockArrives(b)'
    <3>1. LockArrives(b)
      BY DEF LiveInv, StreamInv
    <3>2. tab'[b].composer = tab[b].composer
      BY <1>8, <1>12 DEF old
    <3> QED
      BY <1>6, <1>9, <1>10, <1>12, <1>13, <2>4, <3>1, <3>2, QuietLockArrives
         DEF oldc, old, LiveInv
  <2>9. (tab[b].pc \in Connected => conn[b].chan \in 1..channels)'
    BY <1>6, <1>9, <1>11, <1>12 DEF ChannelsStay
  <2> QED
    BY <2>1, <2>3, <2>6, <2>7, <2>8, <2>9 DEF StreamInv
<1>14. reply' \in [Browsers -> Elements \cup {NoReply}]
  BY <1>1 DEF ReadMessages, LiveTypeOK
<1> QED
  BY <1>11, <1>13, <1>14, PageStepLive

\* What the page shows stays what the page showed.
LEMMA RefreshLive ==
  ASSUME LiveInv, NEW b \in Browsers, Refresh(b)
  PROVE  LiveInv'
<1> DEFINE old == tab[b]
           t == [old EXCEPT !.pc = "live", !.view = conn[b].refresh, !.last = conn[b].snapshot]
<1>1. LiveTypeOK
  BY DEF LiveInv
<1>2. old \in TabStates /\ conn[b].refresh \in Seq(Elements) /\ conn[b].snapshot \in Nat
  BY <1>1, StreamShapes
<1>3. tab' = [tab EXCEPT ![b] = t]
  BY DEF Refresh
<1>4. conn[b].chan \in 1..channels /\ old.pc = "refresh" /\ old.pc \in HasSnapshot
  BY DEF Refresh, LiveInv, StreamInv, Connected, Subscribed, HasSnapshot
<1> HIDE DEF old
<1>5. /\ t \in TabStates
      /\ t.pc = "live" /\ t.view = conn[b].refresh /\ t.composer = old.composer
  BY <1>2 DEF TabStates, Connected, Subscribed
<1>6. conn' = [conn EXCEPT ![b] = conn[b]]
  BY <1>1 DEF Refresh, LiveTypeOK
<1> HIDE DEF t
<1>7. PageSteps(b, conn[b], t) /\ ChannelsStay
  BY <1>1, <1>3, <1>5, <1>6, StreamShapes DEF PageSteps, Refresh, ChannelsStay
<1>8. conn'[b] = conn[b] /\ tab'[b] = t
  BY <1>1, <1>7, PageStepResult
<1>9. ASSUME Quiet PROVE StreamInv(b)'
  <2>1. QueueInv(b)'
    BY <1>8, <1>9, QuietQueue DEF LiveInv, StreamInv
  <2>2. LastSeq' = LastSeq
    BY <1>9, QuietStore DEF LiveInv
  <2>3. ListInv(tab[b].view)' /\ ListInv(conn[b].refresh)'
    BY <1>5, <1>8, <2>2 DEF LiveInv, StreamInv, ListInv
  <2>4. Queued(b)' = Queued(b) /\ Announced' = Announced
    BY <1>8, <1>9, QuietAnnounced DEF Queued
  <2>5. Page(b)' = Page(b)
    BY <1>4, <1>5, <1>8 DEF Page, old
  <2>6. NotYetShown(b)'
    BY <1>4, <1>8, <2>4, <2>5 DEF NotYetShown, LiveInv, StreamInv, old
  <2>7. Arrives(b)'
    BY <1>4, <1>8, <1>9, <2>4, <2>5, QuietArrives DEF LiveInv, StreamInv, old
  <2>8. LockArrives(b)'
    BY <1>4, <1>5, <1>8, <1>9, <2>4, QuietLockArrives DEF LiveInv, StreamInv, old
  <2>9. (tab[b].pc \in Connected => conn[b].chan \in 1..channels)'
    BY <1>4, <1>7, <1>8 DEF ChannelsStay
  <2> QED
    BY <2>1, <2>3, <2>6, <2>7, <2>8, <2>9 DEF StreamInv
<1>10. reply' \in [Browsers -> Elements \cup {NoReply}]
  BY <1>1 DEF Refresh, LiveTypeOK
<1> QED
  BY <1>7, <1>9, <1>10, PageStepLive

\* The page is alone again: EndStream and Drop.
LEMMA DisconnectedStream ==
  ASSUME LiveInv, NEW b \in Browsers, Disconnected(b), tab[b].pc \in Connected,
         UNCHANGED <<storeVars, worker, channel, channels, reply, silent>>
  PROVE  LiveInv'
<1> DEFINE old == tab[b]
           t == [old EXCEPT !.pc = "offline"]
<1>1. LiveTypeOK
  BY DEF LiveInv
<1>2. old \in TabStates
  BY <1>1, StreamShapes
<1>3. tab' = [tab EXCEPT ![b] = t] /\ conn' = [conn EXCEPT ![b] = Closed]
  BY DEF Disconnected
<1> HIDE DEF old
<1>4. t \in TabStates /\ t.pc = "offline" /\ t.view = old.view
  BY <1>2 DEF TabStates
<1> HIDE DEF t
<1>5. PageSteps(b, Closed, t) /\ ChannelsStay
  BY <1>3, <1>4, ClosedShape DEF PageSteps, ChannelsStay
<1>6. conn'[b] = Closed /\ tab'[b] = t
  BY <1>1, <1>5, PageStepResult
<1>7. ListInv(t.view)
  BY <1>4 DEF LiveInv, StreamInv, old
<1>8. Quiet => StreamInv(b)'
  BY <1>4, <1>6, <1>7, ClosedShape, EmptyList, NoSnapshotStream
     DEF HasSnapshot, Connected, Subscribed
<1>9. reply' \in [Browsers -> Elements \cup {NoReply}]
  BY <1>1 DEF LiveTypeOK
<1> QED
  BY <1>5, <1>8, <1>9, PageStepLive

LEMMA EndStreamLive ==
  ASSUME LiveInv, NEW b \in Browsers, EndStream(b)
  PROVE  LiveInv'
BY DisconnectedStream DEF EndStream, Connected, Subscribed

LEMMA DropLive ==
  ASSUME LiveInv, NEW b \in Browsers, Drop(b)
  PROVE  LiveInv'
BY DisconnectedStream DEF Drop, Connected, Subscribed

\* A swap changes what a message says and not which messages the list shows.
LEMMA SwapKeeps ==
  ASSUME NEW view \in Seq(Elements), NEW element \in Elements
  PROVE  /\ Swap(view, element) \in Seq(Elements)
         /\ DOMAIN Swap(view, element) = DOMAIN view
         /\ \A i \in DOMAIN view : Swap(view, element)[i].seq = view[i].seq
         /\ ListInv(view) => ListInv(Swap(view, element))
         /\ \A seq : Lists(Swap(view, element), seq) <=> Lists(view, seq)
<1> DEFINE s == Swap(view, element)
<1>1. s = [i \in 1..Len(view) |-> IF view[i].seq = element.seq THEN element ELSE view[i]]
  BY DEF Swap
<1>2. Len(view) \in Nat /\ \A i \in 1..Len(view) : view[i] \in Elements
  OBVIOUS
<1> HIDE DEF s
<1>3. s \in [1..Len(view) -> Elements]
  BY <1>1, <1>2
<1>4. s \in Seq(Elements) /\ DOMAIN s = DOMAIN view
  BY <1>2, <1>3
<1>5. \A i \in DOMAIN view : s[i].seq = view[i].seq
  BY <1>1, <1>2
<1>6. ListInv(view) => ListInv(s)
  BY <1>4, <1>5 DEF ListInv
<1>7. \A seq : Lists(s, seq) <=> Lists(view, seq)
  BY <1>4, <1>5 DEF Lists
<1> QED
  BY <1>4, <1>5, <1>6, <1>7 DEF s

LEMMA ApplyReplyLive ==
  ASSUME LiveInv, NEW b \in Browsers, ApplyReply(b)
  PROVE  LiveInv'
<1> DEFINE old == tab[b]
           new == Swap(old.view, reply[b])
           t == [old EXCEPT !.view = new]
<1>1. LiveTypeOK
  BY DEF LiveInv
<1>2. old \in TabStates /\ old.view \in Seq(Elements)
  BY <1>1, StreamShapes
<1>3. reply[b] \in Elements
  BY <1>1 DEF ApplyReply, LiveTypeOK
<1>4. tab' = [tab EXCEPT ![b] = t]
  BY DEF ApplyReply
<1>5. /\ new \in Seq(Elements)
      /\ ListInv(old.view) => ListInv(new)
      /\ \A seq : Lists(new, seq) <=> Lists(old.view, seq)
  BY <1>2, <1>3, SwapKeeps
<1> HIDE DEF old, new
<1>6. t \in TabStates /\ t.pc = old.pc /\ t.view = new /\ t.composer = old.composer
  BY <1>2, <1>5 DEF TabStates
<1>7. conn' = [conn EXCEPT ![b] = conn[b]]
  BY <1>1 DEF ApplyReply, LiveTypeOK
<1> HIDE DEF t
<1>8. PageSteps(b, conn[b], t) /\ ChannelsStay
  BY <1>1, <1>4, <1>6, <1>7, StreamShapes DEF PageSteps, ApplyReply, ChannelsStay
<1>9. conn'[b] = conn[b] /\ tab'[b] = t
  BY <1>1, <1>8, PageStepResult
<1>10. ASSUME Quiet PROVE StreamInv(b)'
  <2>1. QueueInv(b)'
    BY <1>9, <1>10, QuietQueue DEF LiveInv, StreamInv
  <2>2. LastSeq' = LastSeq /\ MessagesOf(Room)' = MessagesOf(Room)
    BY <1>10, QuietStore DEF LiveInv
  <2>3. ListInv(tab[b].view)' /\ ListInv(conn[b].refresh)'
    BY <1>5, <1>6, <1>9, <2>2 DEF LiveInv, StreamInv, ListInv, old
  <2>4. Queued(b)' = Queued(b) /\ Announced' = Announced
    BY <1>9, <1>10, QuietAnnounced DEF Queued
  <2>5. \A seq : Lists(Page(b)', seq) <=> Lists(Page(b), seq)
    <3>1. Page(b)' = (IF old.pc = "refresh" THEN conn[b].refresh ELSE new)
      BY <1>6, <1>9 DEF Page
    <3>2. Page(b) = (IF old.pc = "refresh" THEN conn[b].refresh ELSE old.view)
      BY DEF Page, old
    <3> QED
      BY <1>5, <3>1, <3>2
  <2>6. NotYetShown(b)'
    BY <1>6, <1>9, <2>4, <2>5 DEF NotYetShown, LiveInv, StreamInv, old, IsPost, Lists
  <2>7. Arrives(b)'
    <3>1. Arrives(b) /\ worker' = worker /\ silent' = silent
      BY <1>8 DEF LiveInv, StreamInv, PageSteps
    <3>2. (Ending(b)' <=> Ending(b)) /\ tab'[b].pc = tab[b].pc /\ conn'[b] = conn[b]
      BY <1>6, <1>8, <1>9 DEF Ending, ChannelsStay, old
    <3> QED
      BY <2>2, <2>4, <2>5, <3>1, <3>2 DEF Arrives, IsPost, Lists
  <2>8. LockArrives(b)'
    <3>1. CASE old.pc \in {"snapshot"} \cup HasSnapshot
      <4>1. conn[b].chan \in 1..channels /\ LockArrives(b)
        BY <3>1 DEF LiveInv, StreamInv, Connected, Subscribed, HasSnapshot, old
      <4>2. tab'[b].composer = tab[b].composer
        BY <1>6, <1>9 DEF old
      <4> QED
        BY <1>9, <1>10, <2>4, <3>1, <4>1, <4>2, QuietLockArrives DEF LiveInv, old
    <3>2. CASE old.pc \notin {"snapshot"} \cup HasSnapshot
      BY <1>6, <1>9, <3>2 DEF LockArrives
    <3> QED
      BY <3>1, <3>2
  <2>9. (tab[b].pc \in Connected => conn[b].chan \in 1..channels)'
    BY <1>6, <1>8, <1>9 DEF ChannelsStay, LiveInv, StreamInv, old
  <2> QED
    BY <2>1, <2>3, <2>6, <2>7, <2>8, <2>9 DEF StreamInv
<1>11. reply' \in [Browsers -> Elements \cup {NoReply}]
  <2>1. reply' = [reply EXCEPT ![b] = NoReply]
    BY DEF ApplyReply
  <2> QED
    BY <1>1, <2>1 DEF LiveTypeOK
<1> QED
  BY <1>8, <1>10, <1>11, PageStepLive

\* What an event does to the page.
LEMMA ApplyShape ==
  ASSUME NEW t \in TabStates, NEW e \in Events
  PROVE  /\ Apply(t, e) \in TabStates
         /\ Apply(t, e).pc = t.pc
         /\ e \in LockedEvents =>
              Apply(t, e).view = t.view /\ Apply(t, e).composer = "locked"
         /\ IsPost(e) =>
              /\ e \in MsgEvents
              /\ Apply(t, e).view = Append(t.view, e.element)
              /\ Apply(t, e).composer = t.composer
         /\ e \in MsgEvents /\ ~IsPost(e) =>
              /\ Apply(t, e).view = Swap(t.view, e.element)
              /\ Apply(t, e).composer = t.composer
<1>1. t.view \in Seq(Elements)
  BY DEF TabStates
<1>2. CASE e \in LockedEvents
  <2>1. e.name = "locked" /\ e.id \in Nat /\ ~IsPost(e) /\ e \notin MsgEvents
    BY <1>2, EventShapes
  <2>2. Apply(t, e) = [t EXCEPT !.composer = "locked", !.last = e.id]
    BY <2>1 DEF Apply
  <2> QED
    BY <1>2, <2>1, <2>2 DEF TabStates
<1>3. CASE e \in MsgEvents
  <2>1. e.name = "msg" /\ e.id \in Nat /\ e.element \in Elements /\ e \notin LockedEvents
    BY <1>3, EventShapes
  <2>2. CASE IsPost(e)
    <3>1. ~e.oob
      BY <2>2, Zenon DEF IsPost
    <3>2. Append(t.view, e.element) \in Seq(Elements)
      BY <1>1, <2>1
    <3> DEFINE view == Append(t.view, e.element)
    <3>3. Apply(t, e) = [t EXCEPT !.view = view, !.last = e.id]
      BY <2>1, <3>1 DEF Apply
    <3> HIDE DEF view
    <3>4. /\ Apply(t, e) \in TabStates /\ Apply(t, e).pc = t.pc
          /\ Apply(t, e).view = view /\ Apply(t, e).composer = t.composer
      BY <2>1, <3>2, <3>3 DEF TabStates, view
    <3> QED
      BY <1>3, <2>1, <2>2, <3>4 DEF view
  <2>3. CASE ~IsPost(e)
    <3>1. e.oob
      BY <2>1, <2>3, Zenon DEF IsPost
    <3> DEFINE view == Swap(t.view, e.element)
    <3>2. view \in Seq(Elements)
      BY <1>1, <2>1, SwapKeeps
    <3>3. Apply(t, e) = [t EXCEPT !.view = view, !.last = e.id]
      BY <2>1, <3>1 DEF Apply
    <3> HIDE DEF view
    <3>4. /\ Apply(t, e) \in TabStates /\ Apply(t, e).pc = t.pc
          /\ Apply(t, e).view = view /\ Apply(t, e).composer = t.composer
      BY <2>1, <3>2, <3>3 DEF TabStates
    <3> QED
      BY <1>3, <2>1, <2>3, <3>4 DEF view
  <2> QED
    BY <2>2, <2>3
<1> QED
  BY <1>2, <1>3 DEF Events

\* What is left of a queue that has given up its head.
LEMMA QueueTail ==
  ASSUME LiveInv, NEW b \in Browsers, conn[b].queue # <<>>,
         Quiet, conn'[b].queue = Tail(conn[b].queue)
  PROVE  /\ Head(conn[b].queue) \in Events /\ EventTrue(Head(conn[b].queue))
         /\ Tail(conn[b].queue) \in Seq(Events)
         /\ Queued(b) = {Head(conn[b].queue)} \cup Queued(b)'
         /\ \A e \in Announced \cup Queued(b)' : ~SamePost(Head(conn[b].queue), e)
         /\ QueueInv(b)'
<1> DEFINE q == conn[b].queue
           rest == Tail(q)
<1>1. q \in Seq(Events) /\ QueueInv(b)
  BY StreamShapes DEF LiveInv, StreamInv
<1>2. /\ Head(q) \in Events /\ Head(q) = q[1] /\ 1 \in DOMAIN q
      /\ rest \in Seq(Events) /\ Len(rest) \in Nat /\ Len(q) \in Nat
      /\ Len(rest) = Len(q) - 1
      /\ DOMAIN rest = 1..Len(rest) /\ DOMAIN q = 1..Len(q)
      /\ \A i \in 1..Len(rest) : rest[i] = q[i + 1]
  BY <1>1, HeadTailProperties
<1>3. \A i \in DOMAIN rest : i + 1 \in DOMAIN q /\ i + 1 # 1 /\ i \in Nat
  BY <1>2
<1>4. \A i \in DOMAIN q : i = 1 \/ (i - 1 \in DOMAIN rest /\ q[i] = rest[i - 1])
  <2> TAKE i \in DOMAIN q
  <2>1. i \in 1..Len(q)
    BY <1>2
  <2>2. CASE i # 1
    <3>1. i - 1 \in 1..Len(rest) /\ (i - 1) + 1 = i
      BY <1>2, <2>1, <2>2
    <3> QED
      BY <1>2, <3>1
  <2> QED
    BY <2>2
<1>5. \A i \in DOMAIN q : EventTrue(q[i])
  BY <1>1 DEF QueueInv
<1>6. \A i, j \in DOMAIN q : SamePost(q[i], q[j]) => i = j
  BY <1>1 DEF QueueInv
<1>7. \A i \in DOMAIN q, w \in Workers :
        worker[w].pc \in Announcing => ~SamePost(q[i], worker[w].event)
  BY <1>1 DEF QueueInv
<1> HIDE DEF q, rest
<1>8. Queued(b)' = {rest[i] : i \in DOMAIN rest} /\ Queued(b) = {q[i] : i \in DOMAIN q}
  BY DEF Queued, q, rest
<1>9. Queued(b) = {Head(q)} \cup Queued(b)'
  <2>1. \A x \in Queued(b) : x \in {Head(q)} \cup Queued(b)'
    BY <1>2, <1>4, <1>8
  <2>2. \A x \in {Head(q)} \cup Queued(b)' : x \in Queued(b)
    BY <1>2, <1>3, <1>8
  <2> QED
    BY <2>1, <2>2
<1>10. \A e \in Announced : ~SamePost(Head(q), e)
  BY <1>2, <1>7 DEF Announced
<1>11. \A e \in Queued(b)' : ~SamePost(Head(q), e)
  BY <1>2, <1>3, <1>6, <1>8
<1>12. QueueInv(b)'
  <2>1. conn'[b].queue = rest
    BY DEF q, rest
  <2>2. \A i \in DOMAIN rest : rest[i] = q[i + 1] /\ EventTrue(rest[i])
    BY <1>2, <1>3, <1>5
  <2>3. (\A i \in DOMAIN conn[b].queue : EventTrue(conn[b].queue[i]))'
    BY <2>1, <2>2, QuietStore DEF EventTrue, LiveInv
  <2>4. \A i, j \in DOMAIN rest : SamePost(rest[i], rest[j]) => i = j
    BY <1>3, <1>6, <2>2
  <2>5. \A i \in DOMAIN rest, w \in Workers :
          worker[w].pc \in Announcing => ~SamePost(rest[i], worker[w].event)
    BY <1>3, <1>7, <2>2
  <2>6. \A w \in Workers :
          /\ worker'[w].pc \in Announcing <=> worker[w].pc \in Announcing
          /\ worker[w].pc \in Announcing => worker'[w].event = worker[w].event
    BY DEF Quiet
  <2> QED
    BY <2>1, <2>3, <2>4, <2>5, <2>6 DEF QueueInv, SamePost
<1> QED
  BY <1>2, <1>5, <1>9, <1>10, <1>11, <1>12 DEF q, rest

\* A list that gets an element it does not have yet.
LEMMA AppendedList ==
  ASSUME NEW list \in Seq(Elements), NEW x \in Elements, ListInv(list),
         LastSeq \in Nat, x.seq <= LastSeq, ~Lists(list, x.seq)
  PROVE  /\ ListInv(Append(list, x))
         /\ \A seq : Lists(Append(list, x), seq) <=> Lists(list, seq) \/ seq = x.seq
<1> DEFINE new == Append(list, x)
<1>1. /\ new \in Seq(Elements) /\ Len(new) = Len(list) + 1 /\ Len(list) \in Nat
      /\ DOMAIN list = 1..Len(list) /\ DOMAIN new = 1..(Len(list) + 1)
      /\ \A i \in 1..Len(list) : new[i] = list[i]
      /\ new[Len(list) + 1] = x
  OBVIOUS
<1> HIDE DEF new
<1>2. \A i \in DOMAIN new : i \in DOMAIN list \/ i = Len(list) + 1
  BY <1>1
<1>3. \A i \in DOMAIN list : list[i].seq # x.seq /\ i \in DOMAIN new /\ new[i] = list[i]
  BY <1>1 DEF Lists
<1>4. ListInv(new)
  <2>1. \A i \in DOMAIN new : new[i].seq <= LastSeq
    BY <1>1, <1>2, <1>3 DEF ListInv
  <2>2. \A i, j \in DOMAIN new : new[i].seq = new[j].seq => i = j
    BY <1>1, <1>2, <1>3 DEF ListInv
  <2> QED
    BY <2>1, <2>2 DEF ListInv
<1>5. \A seq : Lists(new, seq) <=> Lists(list, seq) \/ seq = x.seq
  BY <1>1, <1>2, <1>3 DEF Lists
<1> QED
  BY <1>4, <1>5 DEF new

\* The page after the head e of the queue: it shows nothing twice, what it showed and
\* e, if e is a post that the snapshot does not cover.
PageAfter(b, e, t) ==
  /\ t \in TabStates
  /\ t.pc = "live"
  /\ ListInv(t.view)
  /\ \A seq : Lists(tab[b].view, seq) => Lists(t.view, seq)
  /\ \A seq : Lists(t.view, seq) =>
       Lists(tab[b].view, seq) \/ (IsPost(e) /\ e.element.seq = seq)
  /\ IsPost(e) /\ e.id > conn[b].snapshot => Lists(t.view, e.element.seq)
  /\ tab[b].composer = "locked" \/ e.name = "locked" => t.composer = "locked"

LEMMA DeliveredPage ==
  ASSUME LiveInv, NEW b \in Browsers, tab[b].pc = "live",
         NEW e \in Queued(b), e \in Events, EventTrue(e)
  PROVE  /\ Filtered(b, e) => PageAfter(b, e, tab[b])
         /\ ~Filtered(b, e) => PageAfter(b, e, Apply(tab[b], e))
<1> DEFINE t == tab[b]
<1>1. /\ t \in TabStates /\ t.view \in Seq(Elements) /\ conn[b].snapshot \in Nat
      /\ ListInv(t.view) /\ LastSeq \in Nat
  BY StreamShapes, Columns DEF LiveInv, StreamInv, LastSeq, IInv
<1>2. IsPost(e) => e.element.seq \in Nat /\ e.element.seq <= LastSeq /\ e.element \in Elements
  <2> HAVE IsPost(e)
  <2>1. PICK m \in MessagesOf(Room) : m.seq = e.element.seq
    BY DEF EventTrue, Created
  <2>2. m.seq \in 1..LastSeq
    BY TranscriptIsTheRoom DEF LiveInv
  <2>3. e.element \in Elements
    BY EventShapes DEF Events
  <2> QED
    BY <1>1, <2>1, <2>2, <2>3
<1>3. IsPost(e) /\ e.id > conn[b].snapshot => ~Lists(t.view, e.element.seq)
  BY DEF LiveInv, StreamInv, NotYetShown, Page, HasSnapshot
<1>4. e.id \in Nat
  BY EventShapes DEF Events
<1> HIDE DEF t
<1>5. ASSUME Filtered(b, e) PROVE PageAfter(b, e, t)
  <2>1. e.name = "msg" /\ ~(e.id > conn[b].snapshot)
    BY <1>1, <1>4, <1>5 DEF Filtered
  <2> QED
    BY <1>1, <2>1 DEF PageAfter, t
<1>6. ASSUME ~Filtered(b, e) PROVE PageAfter(b, e, Apply(t, e))
  <2> DEFINE u == Apply(t, e)
  <2>1. /\ u \in TabStates /\ u.pc = "live"
        /\ e \in LockedEvents => u.view = t.view /\ u.composer = "locked"
        /\ IsPost(e) => /\ e \in MsgEvents
                        /\ u.view = Append(t.view, e.element)
                        /\ u.composer = t.composer
        /\ e \in MsgEvents /\ ~IsPost(e) =>
             /\ u.view = Swap(t.view, e.element)
             /\ u.composer = t.composer
    BY <1>1, ApplyShape DEF t
  <2> HIDE DEF u
  <2>2. CASE e \in LockedEvents
    <3>1. ~IsPost(e) /\ u.view = t.view /\ u.composer = "locked"
      BY <2>1, <2>2, EventShapes
    <3> QED
      BY <1>1, <2>1, <3>1 DEF PageAfter, t, u
  <2>3. CASE IsPost(e)
    <3>1. e.id > conn[b].snapshot /\ e.name = "msg"
      BY <1>1, <1>4, <1>6, <2>3, EventShapes DEF Filtered
    <3> DEFINE view == Append(t.view, e.element)
    <3>a. /\ ListInv(view)
          /\ \A seq : Lists(view, seq) <=> Lists(t.view, seq) \/ seq = e.element.seq
      BY <1>1, <1>2, <1>3, <2>3, <3>1, AppendedList
    <3>b. u.view = view
      BY <2>1, <2>3
    <3> HIDE DEF view
    <3>2. /\ ListInv(u.view)
          /\ \A seq : Lists(u.view, seq) <=> Lists(t.view, seq) \/ seq = e.element.seq
      BY <3>a, <3>b
    <3>3. e.name # "locked" /\ u.composer = t.composer
      BY <2>1, <2>3, <3>1
    <3> QED
      BY <2>1, <2>3, <3>2, <3>3 DEF PageAfter, t, u
  <2>4. CASE e \in MsgEvents /\ ~IsPost(e)
    <3>1. e.element \in Elements /\ e.name # "locked"
      BY <2>4, EventShapes
    <3> DEFINE view == Swap(t.view, e.element)
    <3>a. ListInv(view) /\ \A seq : Lists(view, seq) <=> Lists(t.view, seq)
      BY <1>1, <3>1, SwapKeeps
    <3>b. u.view = view
      BY <2>1, <2>4
    <3> HIDE DEF view
    <3>2. ListInv(u.view) /\ \A seq : Lists(u.view, seq) <=> Lists(t.view, seq)
      BY <3>a, <3>b
    <3>3. u.composer = t.composer
      BY <2>1, <2>4
    <3> QED
      BY <2>1, <2>4, <3>1, <3>2, <3>3 DEF PageAfter, t, u
  <2> QED
    BY <2>2, <2>3, <2>4 DEF Events
<1> QED
  BY <1>5, <1>6 DEF t

LEMMA DeliverLive ==
  ASSUME LiveInv, NEW b \in Browsers, Deliver(b)
  PROVE  LiveInv'
<1> DEFINE oldc == conn[b]
           e == Head(conn[b].queue)
           rest == Tail(conn[b].queue)
           c == [oldc EXCEPT !.queue = rest]
           t == IF Filtered(b, e) THEN tab[b] ELSE Apply(tab[b], e)
<1>1. LiveTypeOK
  BY DEF LiveInv
<1>2. /\ tab[b].pc = "live" /\ conn[b].queue # <<>> /\ ~oldc.lagged
      /\ UNCHANGED <<storeVars, worker, channel, channels, reply, silent, faults>>
  BY DEF Deliver
<1>3. oldc \in ConnStates /\ oldc.queue \in Seq(Events) /\ tab[b] \in TabStates
  BY <1>1, StreamShapes
<1>4. Quiet
  BY <1>1, <1>2 DEF Quiet, LiveTypeOK
<1>5. e \in Queued(b) /\ e \in Events /\ EventTrue(e) /\ rest \in Seq(Events)
  <2>1. QueueInv(b)
    BY DEF LiveInv, StreamInv
  <2>2. e = conn[b].queue[1] /\ 1 \in DOMAIN conn[b].queue /\ rest \in Seq(Events)
    BY <1>2, <1>3, HeadTailProperties
  <2>3. e \in Events
    BY <1>2, <1>3, HeadTailProperties
  <2> QED
    BY <2>1, <2>2, <2>3 DEF Queued, QueueInv
<1>6. PageAfter(b, e, t)
  BY <1>2, <1>5, DeliveredPage
<1>7. conn' = [conn EXCEPT ![b] = c]
  BY DEF Deliver
<1>8. tab' = [tab EXCEPT ![b] = t]
  <2>1. CASE Filtered(b, e)
    <3>1. tab' = tab /\ t = tab[b]
      BY <2>1 DEF Deliver
    <3> HIDE DEF t
    <3> QED
      BY <1>1, <3>1 DEF LiveTypeOK
  <2>2. CASE ~Filtered(b, e)
    BY <2>2 DEF Deliver
  <2> QED
    BY <2>1, <2>2
<1> HIDE DEF e, rest, t, oldc
<1>9. /\ c \in ConnStates
      /\ c.queue = rest /\ c.chan = oldc.chan /\ c.lagged = oldc.lagged
      /\ c.snapshot = oldc.snapshot /\ c.refresh = oldc.refresh
  BY <1>3, <1>5 DEF ConnStates
<1>10. c.unlocked = oldc.unlocked
  BY <1>3 DEF ConnStates
<1> HIDE DEF c
<1>11. PageSteps(b, c, t) /\ ChannelsStay
  BY <1>2, <1>6, <1>7, <1>8, <1>9 DEF PageSteps, ChannelsStay, PageAfter
<1>12. conn'[b] = c /\ tab'[b] = t
  BY <1>1, <1>11, PageStepResult
<1>13. /\ Queued(b) = {e} \cup Queued(b)'
       /\ \A d \in Announced \cup Queued(b)' : ~SamePost(e, d)
       /\ QueueInv(b)'
  BY <1>2, <1>4, <1>9, <1>12, QueueTail DEF e, rest
<1>14. StreamInv(b)'
  <2>1. LastSeq' = LastSeq /\ MessagesOf(Room)' = MessagesOf(Room) /\ (Unlocked' <=> Unlocked)
    BY <1>4, QuietStore DEF LiveInv
  <2>2. Announced' = Announced /\ silent' = silent
    BY <1>4, QuietAnnounced
  <2>3. /\ t.pc = "live" /\ ListInv(t.view)
        /\ \A seq : Lists(tab[b].view, seq) => Lists(t.view, seq)
        /\ \A seq : Lists(t.view, seq) =>
             Lists(tab[b].view, seq) \/ (IsPost(e) /\ e.element.seq = seq)
        /\ IsPost(e) /\ e.id > conn[b].snapshot => Lists(t.view, e.element.seq)
        /\ tab[b].composer = "locked" \/ e.name = "locked" => t.composer = "locked"
    BY <1>6 DEF PageAfter
  <2>4. ListInv(tab[b].view)' /\ ListInv(conn[b].refresh)'
    BY <1>9, <1>12, <2>1, <2>3 DEF LiveInv, StreamInv, ListInv, oldc
  <2>5. Page(b) = tab[b].view /\ Page(b)' = t.view
    BY <1>2, <1>12, <2>3 DEF Page
  <2>6. NotYetShown(b)'
    <3>1. \A d \in Announced \cup Queued(b)' :
            IsPost(d) /\ d.id > conn[b].snapshot =>
              /\ ~Lists(tab[b].view, d.element.seq)
              /\ ~(IsPost(e) /\ e.element.seq = d.element.seq)
      BY <1>2, <1>13, <2>5 DEF LiveInv, StreamInv, NotYetShown, HasSnapshot, SamePost
    <3>2. \A d \in Announced \cup Queued(b)' :
            IsPost(d) /\ d.id > conn[b].snapshot => ~Lists(t.view, d.element.seq)
      BY <2>3, <3>1
    <3> QED
      BY <1>9, <1>12, <2>2, <2>5, <3>2 DEF NotYetShown, oldc, IsPost, Lists
  <2>7. Arrives(b)'
    <3> SUFFICES ASSUME ~Ending(b)'
                 PROVE  Arrives(b)'
      BY DEF Arrives
    <3>1. ~Ending(b)
      BY <1>2, <1>9, <1>12 DEF Ending, oldc
    <3>2. /\ \A m \in MessagesOf(Room) :
               m.created_event_seq > conn[b].snapshot =>
                 \/ Lists(Page(b), m.seq)
                 \/ \E d \in Announced \cup Queued(b) : IsPost(d) /\ d.element.seq = m.seq
                 \/ \E d \in silent : d.id = m.created_event_seq
          /\ \A w \in Workers :
               /\ worker[w].pc = "sending"
               /\ IsPost(worker[w].event) /\ worker[w].event.id > conn[b].snapshot
               => worker[w].chan = conn[b].chan
      BY <1>2, <3>1 DEF LiveInv, StreamInv, Arrives, HasSnapshot
    <3>3. ASSUME NEW m \in MessagesOf(Room), m.created_event_seq > conn[b].snapshot,
                 IsPost(e), e.element.seq = m.seq
          PROVE  Lists(t.view, m.seq)
      <4>1. Created(m.seq, e.id)
        BY <1>5, <3>3 DEF EventTrue
      <4>2. PICK n \in MessagesOf(Room) : n.seq = m.seq /\ n.created_event_seq = e.id
        BY <4>1 DEF Created
      <4>3. n = m
        BY <4>2 DEF LiveInv, IInv, TranscriptGapless, MessagesOf
      <4> QED
        BY <2>3, <3>3, <4>2, <4>3
    <3>4. \A m \in MessagesOf(Room) :
            m.created_event_seq > conn[b].snapshot =>
              \/ Lists(t.view, m.seq)
              \/ \E d \in Announced \cup Queued(b)' : IsPost(d) /\ d.element.seq = m.seq
              \/ \E d \in silent : d.id = m.created_event_seq
      BY <1>13, <2>3, <2>5, <3>2, <3>3
    <3>5. worker' = worker
      BY <1>2
    <3> QED
      BY <1>9, <1>12, <2>1, <2>2, <2>5, <3>2, <3>4, <3>5 DEF Arrives, oldc, IsPost, Lists
  <2>8. LockArrives(b)'
    <3> SUFFICES ASSUME ~Ending(b)', conn'[b].unlocked
                 PROVE  LockArrives(b)'
      BY DEF LockArrives
    <3>1. ~Ending(b) /\ conn[b].unlocked
      BY <1>2, <1>9, <1>10, <1>12 DEF Ending, oldc
    <3>2. /\ ~Unlocked =>
               \/ tab[b].composer = "locked"
               \/ \E d \in Announced \cup Queued(b) \cup silent : d.name = "locked"
          /\ \A w \in Workers :
               worker[w].pc = "sending" /\ worker[w].event.name = "locked" =>
                 worker[w].chan = conn[b].chan
      BY <1>2, <3>1 DEF LiveInv, StreamInv, LockArrives, HasSnapshot
    <3>3. ~Unlocked =>
            \/ t.composer = "locked"
            \/ \E d \in Announced \cup Queued(b)' \cup silent : d.name = "locked"
      BY <1>13, <2>3, <3>2
    <3>4. worker' = worker
      BY <1>2
    <3> QED
      BY <1>9, <1>12, <2>1, <2>2, <3>2, <3>3, <3>4 DEF LockArrives, oldc
  <2>9. (tab[b].pc \in Connected => conn[b].chan \in 1..channels)'
    BY <1>2, <1>9, <1>12 DEF LiveInv, StreamInv, oldc, Connected, Subscribed
  <2> QED
    BY <1>13, <2>4, <2>6, <2>7, <2>8, <2>9 DEF StreamInv
<1>15. reply' \in [Browsers -> Elements \cup {NoReply}]
  BY <1>1, <1>2 DEF LiveTypeOK
<1> QED
  BY <1>11, <1>14, <1>15, PageStepLive

-----------------------------------------------------------------------------
(* The steps that write to the room. *)

\* Event e is committed: a handler that had nothing to announce announces it, or
\* nobody ever will.
Commits(e) ==
  /\ Stores(e)
  /\ UNCHANGED <<channel, channels, conn, tab, reply, faults>>
  /\ silent \subseteq silent'
  /\ \/ worker' = worker /\ e \in silent'
     \/ \E w \in Workers :
          /\ worker[w].pc = "checked"
          /\ worker'[w].pc = "committed" /\ worker'[w].event = e
          /\ \A v \in Workers : v # w => worker'[v] = worker[v]

LEMMA ListShape ==
  ASSUME NEW list \in Seq(Elements)
  PROVE  /\ DOMAIN list \subseteq Nat
         /\ \A i \in DOMAIN list : list[i].seq \in Nat
<1>1. DOMAIN list = 1..Len(list) /\ \A i \in DOMAIN list : list[i] \in Elements
  OBVIOUS
<1> QED
  BY <1>1 DEF Elements

\* A post that is already announced or queued is in the database, and so is not the
\* one that is written now; nor is that one on any page.
LEMMA NewPost ==
  ASSUME LiveInv, NEW e, Stores(e)
  PROVE  /\ \A d : EventTrue(d) => ~SamePost(d, e) /\ ~SamePost(e, d)
         /\ \A list : ListInv(list) /\ DOMAIN list \subseteq Nat
                      /\ (\A i \in DOMAIN list : list[i].seq \in Nat)
                      /\ IsPost(e) => ~Lists(list, e.element.seq)
<1>1. LastSeq \in Nat /\ (IsPost(e) => e.element.seq = LastSeq + 1)
  BY DEF Stores
<1>2. \A m \in MessagesOf(Room) : m.seq \in 1..LastSeq
  BY TranscriptIsTheRoom DEF LiveInv
<1>3. \A d : EventTrue(d) /\ IsPost(d) => d.element.seq \in 1..LastSeq
  BY <1>2 DEF EventTrue, Created
<1>4. \A d : EventTrue(d) => ~SamePost(d, e) /\ ~SamePost(e, d)
  BY <1>1, <1>3 DEF SamePost
<1>5. ASSUME NEW list, ListInv(list), \A i \in DOMAIN list : list[i].seq \in Nat, IsPost(e)
      PROVE  ~Lists(list, e.element.seq)
  BY <1>1, <1>5 DEF ListInv, Lists
<1> QED
  BY <1>4, <1>5

LEMMA CommitsAnnounced ==
  ASSUME LiveInv, NEW e, Commits(e)
  PROVE  /\ Announced \subseteq Announced'
         /\ Announced' \subseteq Announced \cup {e}
         /\ e \in Announced' \cup silent'
         /\ \A w \in Workers : worker'[w].pc \in Announcing =>
              \/ worker[w].pc \in Announcing /\ worker'[w] = worker[w]
              \/ worker[w].pc \notin Announcing /\ worker'[w].event = e
         /\ \A w \in Workers : worker'[w].pc = "sending" => worker'[w] = worker[w]
         /\ \A v, w \in Workers :
              /\ worker'[v].pc \in Announcing /\ worker'[v] # worker[v]
              /\ worker'[w].pc \in Announcing /\ worker'[w] # worker[w]
              => v = w
<1>1. "checked" \notin Announcing /\ "committed" \in Announcing
  BY DEF Announcing
<1>2. CASE worker' = worker /\ e \in silent'
  <2>1. Announced' = Announced
    BY <1>2 DEF Announced
  <2> QED
    BY <1>2, <2>1
<1>3. CASE \E w \in Workers :
             /\ worker[w].pc = "checked"
             /\ worker'[w].pc = "committed" /\ worker'[w].event = e
             /\ \A v \in Workers : v # w => worker'[v] = worker[v]
  <2>1. PICK w \in Workers :
          /\ worker[w].pc = "checked"
          /\ worker'[w].pc = "committed" /\ worker'[w].event = e
          /\ \A v \in Workers : v # w => worker'[v] = worker[v]
    BY <1>3
  <2>2. Announced' = Announced \cup {e}
    <3>1. \A d \in Announced : d \in Announced'
      BY <1>1, <2>1 DEF Announced
    <3>2. \A d \in Announced' : d \in Announced \cup {e}
      BY <1>1, <2>1 DEF Announced
    <3>3. e \in Announced'
      BY <1>1, <2>1 DEF Announced
    <3> QED
      BY <3>1, <3>2, <3>3
  <2> QED
    BY <1>1, <2>1, <2>2
<1> QED
  BY <1>2, <1>3 DEF Commits

\* What was true of an event stays true.
LEMMA StoresTruth ==
  ASSUME NEW e, Stores(e)
  PROVE  /\ EventTrue(e)'
         /\ \A d : EventTrue(d) => EventTrue(d)'
BY DEF Stores, EventTrue

LEMMA CommitsHandlers ==
  ASSUME LiveInv, NEW e, Commits(e)
  PROVE  HandlersInv'
<1>1. Stores(e)
  BY DEF Commits
<1>2. /\ \A w \in Workers : worker'[w].pc \in Announcing =>
           \/ worker[w].pc \in Announcing /\ worker'[w] = worker[w]
           \/ worker[w].pc \notin Announcing /\ worker'[w].event = e
      /\ \A v, w \in Workers :
           /\ worker'[v].pc \in Announcing /\ worker'[v] # worker[v]
           /\ worker'[w].pc \in Announcing /\ worker'[w] # worker[w]
           => v = w
  BY CommitsAnnounced
<1>3. /\ \A w \in Workers : worker[w].pc \in Announcing => EventTrue(worker[w].event)
      /\ \A v, w \in Workers :
           /\ worker[v].pc \in Announcing /\ worker[w].pc \in Announcing
           /\ SamePost(worker[v].event, worker[w].event)
           => v = w
  BY DEF LiveInv, HandlersInv
<1>4. \A d : EventTrue(d) => ~SamePost(d, e) /\ ~SamePost(e, d)
  BY <1>1, NewPost
<1>5. (\A w \in Workers : worker[w].pc \in Announcing => EventTrue(worker[w].event))'
  <2> SUFFICES ASSUME NEW w \in Workers, worker'[w].pc \in Announcing
               PROVE  EventTrue(worker[w].event)'
    OBVIOUS
  <2>1. PICK d : d = worker'[w].event
    OBVIOUS
  <2>2. EventTrue(d)'
    BY <1>1, <1>2, <1>3, <2>1, StoresTruth
  <2> QED
    BY <2>1, <2>2 DEF EventTrue, Created
<1>6. \A v, w \in Workers :
        /\ worker'[v].pc \in Announcing /\ worker'[w].pc \in Announcing
        /\ SamePost(worker'[v].event, worker'[w].event)
        => v = w
  BY <1>2, <1>3, <1>4
<1> QED
  BY <1>5, <1>6 DEF HandlersInv, SamePost

LEMMA CommitsStream ==
  ASSUME LiveInv, NEW e, Commits(e), NEW b \in Browsers
  PROVE  StreamInv(b)'
<1>1. /\ Stores(e)
      /\ channel' = channel /\ channels' = channels /\ conn' = conn /\ tab' = tab
      /\ silent \subseteq silent'
  BY DEF Commits
<1>2. /\ LastSeq \in Nat /\ LastSeq' \in Nat /\ LastSeq <= LastSeq'
      /\ \A m \in MessagesOf(Room)' :
           \/ Created(m.seq, m.created_event_seq)
           \/ IsPost(e) /\ e.element.seq = m.seq /\ e.id = m.created_event_seq
      /\ Unlocked /\ ~Unlocked' => e.name = "locked"
  BY <1>1 DEF Stores
<1>3. /\ Announced \subseteq Announced'
      /\ Announced' \subseteq Announced \cup {e}
      /\ e \in Announced' \cup silent'
      /\ \A w \in Workers : worker'[w].pc \in Announcing =>
           \/ worker[w].pc \in Announcing /\ worker'[w] = worker[w]
           \/ worker[w].pc \notin Announcing /\ worker'[w].event = e
      /\ \A w \in Workers : worker'[w].pc = "sending" => worker'[w] = worker[w]
  BY CommitsAnnounced
<1>4. StreamInv(b) /\ LiveTypeOK
  BY DEF LiveInv
<1>5. \A d : EventTrue(d) => ~SamePost(d, e) /\ ~SamePost(e, d)
  BY <1>1, NewPost
<1>6. Queued(b)' = Queued(b) /\ Page(b)' = Page(b) /\ (Ending(b)' <=> Ending(b))
  BY <1>1 DEF Queued, Page, Ending
<1>7. QueueInv(b)'
  <2>1. QueueInv(b) /\ conn'[b].queue = conn[b].queue
    BY <1>1, <1>4 DEF StreamInv
  <2>2. \A i \in DOMAIN conn[b].queue : EventTrue(conn[b].queue[i])
    BY <2>1 DEF QueueInv
  <2>3. (\A i \in DOMAIN conn[b].queue : EventTrue(conn[b].queue[i]))'
    <3> SUFFICES ASSUME NEW i \in DOMAIN conn[b].queue
                 PROVE  EventTrue(conn[b].queue[i])'
      BY <2>1
    <3>1. PICK d : d = conn[b].queue[i]
      OBVIOUS
    <3>2. EventTrue(d)'
      BY <1>1, <2>2, <3>1, StoresTruth
    <3> QED
      BY <1>1, <3>1, <3>2 DEF EventTrue, Created
  <2>4. \A i \in DOMAIN conn[b].queue, w \in Workers :
          worker'[w].pc \in Announcing => ~SamePost(conn[b].queue[i], worker'[w].event)
    BY <1>3, <1>5, <2>1, <2>2 DEF QueueInv
  <2> QED
    BY <2>1, <2>3, <2>4 DEF QueueInv, SamePost
<1>8. ListInv(tab[b].view)' /\ ListInv(conn[b].refresh)'
  <2>1. /\ tab[b].view \in Seq(Elements) /\ conn[b].refresh \in Seq(Elements)
        /\ ListInv(tab[b].view) /\ ListInv(conn[b].refresh)
    BY <1>4, StreamShapes DEF StreamInv
  <2>2. /\ \A i \in DOMAIN tab[b].view : tab[b].view[i].seq \in Nat
        /\ \A i \in DOMAIN conn[b].refresh : conn[b].refresh[i].seq \in Nat
    BY <2>1, ListShape
  <2> QED
    BY <1>1, <1>2, <2>1, <2>2 DEF ListInv
<1>9. NotYetShown(b)'
  <2> SUFFICES ASSUME tab[b].pc \in HasSnapshot
               PROVE  NotYetShown(b)'
    BY <1>1 DEF NotYetShown
  <2>1. \A d \in Announced \cup Queued(b) :
          IsPost(d) /\ d.id > conn[b].snapshot => ~Lists(Page(b), d.element.seq)
    BY <1>4 DEF StreamInv, NotYetShown
  <2>2. IsPost(e) => ~Lists(Page(b), e.element.seq)
    <3>1. Page(b) \in Seq(Elements) /\ ListInv(Page(b))
      BY <1>4, StreamShapes DEF StreamInv, Page
    <3>2. DOMAIN Page(b) \subseteq Nat /\ \A i \in DOMAIN Page(b) : Page(b)[i].seq \in Nat
      BY <3>1, ListShape
    <3> QED
      BY <1>1, <3>1, <3>2, NewPost
  <2>3. \A d \in Announced' \cup Queued(b)' :
          IsPost(d) /\ d.id > conn[b].snapshot => ~Lists(Page(b), d.element.seq)
    BY <1>3, <1>6, <2>1, <2>2
  <2> QED
    BY <1>1, <1>6, <2>3 DEF NotYetShown, IsPost, Lists
<1>10. Arrives(b)'
  <2> SUFFICES ASSUME tab[b].pc \in HasSnapshot, ~Ending(b)
               PROVE  Arrives(b)'
    BY <1>1, <1>6 DEF Arrives
  <2>1. /\ \A m \in MessagesOf(Room) :
             m.created_event_seq > conn[b].snapshot =>
               \/ Lists(Page(b), m.seq)
               \/ \E d \in Announced \cup Queued(b) : IsPost(d) /\ d.element.seq = m.seq
               \/ \E d \in silent : d.id = m.created_event_seq
        /\ \A w \in Workers :
             /\ worker[w].pc = "sending"
             /\ IsPost(worker[w].event) /\ worker[w].event.id > conn[b].snapshot
             => worker[w].chan = conn[b].chan
    BY <1>4 DEF StreamInv, Arrives
  <2>2. ASSUME NEW m \in MessagesOf(Room)', m.created_event_seq > conn[b].snapshot
        PROVE  \/ Lists(Page(b), m.seq)
               \/ \E d \in Announced' \cup Queued(b) : IsPost(d) /\ d.element.seq = m.seq
               \/ \E d \in silent' : d.id = m.created_event_seq
    <3>1. CASE Created(m.seq, m.created_event_seq)
      <4>1. PICK n \in MessagesOf(Room) :
              n.seq = m.seq /\ n.created_event_seq = m.created_event_seq
        BY <3>1 DEF Created
      <4> QED
        BY <1>1, <1>3, <2>1, <2>2, <4>1
    <3>2. CASE IsPost(e) /\ e.element.seq = m.seq /\ e.id = m.created_event_seq
      BY <1>3, <3>2
    <3> QED
      BY <1>2, <3>1, <3>2
  <2>3. \A w \in Workers :
          /\ worker'[w].pc = "sending"
          /\ IsPost(worker'[w].event) /\ worker'[w].event.id > conn[b].snapshot
          => worker'[w].chan = conn[b].chan
    BY <1>3, <2>1
  <2> QED
    BY <1>1, <1>6, <2>2, <2>3 DEF Arrives, IsPost, Lists
<1>11. LockArrives(b)'
  <2> SUFFICES ASSUME tab[b].pc \in {"snapshot"} \cup HasSnapshot, ~Ending(b),
                      conn[b].unlocked
               PROVE  LockArrives(b)'
    BY <1>1, <1>6 DEF LockArrives
  <2>1. /\ ~Unlocked =>
             \/ tab[b].composer = "locked"
             \/ \E d \in Announced \cup Queued(b) \cup silent : d.name = "locked"
        /\ \A w \in Workers :
             worker[w].pc = "sending" /\ worker[w].event.name = "locked" =>
               worker[w].chan = conn[b].chan
    BY <1>4 DEF StreamInv, LockArrives
  <2>2. ~Unlocked' =>
          \/ tab[b].composer = "locked"
          \/ \E d \in Announced' \cup Queued(b) \cup silent' : d.name = "locked"
    BY <1>1, <1>2, <1>3, <2>1
  <2>3. \A w \in Workers :
          worker'[w].pc = "sending" /\ worker'[w].event.name = "locked" =>
            worker'[w].chan = conn[b].chan
    BY <1>3, <2>1
  <2> QED
    BY <1>1, <1>6, <2>2, <2>3 DEF LockArrives
<1>12. (tab[b].pc \in Connected => conn[b].chan \in 1..channels)'
  BY <1>1, <1>4 DEF StreamInv
<1> QED
  BY <1>7, <1>8, <1>9, <1>10, <1>11, <1>12 DEF StreamInv

LEMMA CommitsLive ==
  ASSUME LiveInv, NEW e, Commits(e), worker' \in [Workers -> WorkerStates]
  PROVE  LiveInv'
<1>1. IInv' /\ (Room \in DOMAIN rooms)'
  BY DEF Commits, Stores
<1>2. LiveTypeOK'
  BY DEF Commits, LiveInv, LiveTypeOK
<1> QED
  BY <1>1, <1>2, CommitsHandlers, CommitsStream DEF LiveInv

\* A handler holds the event of what it has committed.
LEMMA CommittedLive ==
  ASSUME LiveInv, NEW w \in Workers, NEW origin \in Browsers \cup {Outside}, NEW e,
         worker[w].pc = "checked", Stores(e),
         e \in MsgEvents \/ (e \in LockedEvents /\ origin = Outside),
         Committed(w, origin, e)
  PROVE  LiveInv'
<1> DEFINE state == [pc |-> "committed", origin |-> origin, event |-> e]
<1>1. \/ state \in [pc : {"committed"}, origin : Browsers \cup {Outside}, event : MsgEvents]
      \/ state \in [pc : {"committed"}, origin : {Outside}, event : LockedEvents]
  OBVIOUS
<1>2. state.pc = "committed" /\ state.event = e
  OBVIOUS
<1>3. /\ worker' = [worker EXCEPT ![w] = state]
      /\ UNCHANGED <<channel, channels, conn, tab, reply, silent, faults>>
  BY DEF Committed
<1> HIDE DEF state
<1>4. state \in WorkerStates
  BY <1>1 DEF WorkerStates
<1>5. worker \in [Workers -> WorkerStates]
  BY DEF LiveInv, LiveTypeOK
<1>6. /\ worker' \in [Workers -> WorkerStates]
      /\ worker'[w] = state /\ \A v \in Workers : v # w => worker'[v] = worker[v]
  BY <1>3, <1>4, <1>5
<1>7. Commits(e)
  BY <1>2, <1>3, <1>6 DEF Commits
<1> QED
  BY <1>6, <1>7, CommitsLive

LEMMA CommitPostLive ==
  ASSUME LiveInv, NEW w \in Workers, CommitPost(w)
  PROVE  LiveInv'
<1>1. PICK c \in Clients, body \in Bodies, now \in Time :
        \E roll \in EvalRoll(rooms[Room], body.expr) :
          PostMessage(Room, c, body, roll, now)
  BY DEF CommitPost
<1>2. PICK roll \in EvalRoll(rooms[Room], body.expr) : PostMessage(Room, c, body, roll, now)
  BY <1>1
<1>3. PICK m \in messages' \ messages : Committed(w, Outside, MsgEvent(m, FALSE))
  BY DEF CommitPost
<1>4. Stores(MsgEvent(m, FALSE)) /\ MsgEvent(m, FALSE) \in MsgEvents
  BY <1>2, PostStores DEF LiveInv
<1>5. worker[w].pc = "checked"
  BY DEF CommitPost
<1> QED
  BY <1>3, <1>4, <1>5, CommittedLive

LEMMA CommitEditLive ==
  ASSUME LiveInv, NEW w \in Workers, CommitEdit(w)
  PROVE  LiveInv'
<1>1. PICK c \in Clients, body \in Bodies, now \in Time :
        \E roll \in EvalRoll(rooms[Room], body.expr) :
          EditMessage(Room, worker[w].seq, c, body, roll, now)
  BY DEF CommitEdit
<1>2. PICK roll \in EvalRoll(rooms[Room], body.expr) :
        EditMessage(Room, worker[w].seq, c, body, roll, now)
  BY <1>1
<1>3. PICK m \in messages' \ messages : Committed(w, worker[w].origin, MsgEvent(m, TRUE))
  BY DEF CommitEdit
<1>4. Stores(MsgEvent(m, TRUE)) /\ MsgEvent(m, TRUE) \in MsgEvents
  BY <1>2, EditStores DEF LiveInv
<1>5. worker[w].pc = "checked" /\ worker[w].origin \in Browsers \cup {Outside}
  BY HandlerShapes DEF CommitEdit, LiveInv
<1>6. PICK origin \in Browsers \cup {Outside} : origin = worker[w].origin
  BY <1>5
<1>7. Committed(w, origin, MsgEvent(m, TRUE))
  BY <1>3, <1>6
<1> QED
  BY <1>4, <1>5, <1>7, CommittedLive

LEMMA CommitLockLive ==
  ASSUME LiveInv, NEW w \in Workers, CommitLock(w)
  PROVE  LiveInv'
<1>1. PICK now \in Time : LockRoom(Room, now)
  BY DEF CommitLock
<1>2. PICK e : e = LockedEvent(rooms'[Room].event_counter)
  OBVIOUS
<1>3. Stores(e) /\ e \in LockedEvents
  BY <1>1, <1>2, LockStores DEF LiveInv
<1>4. worker[w].pc = "checked" /\ Committed(w, Outside, e)
  BY <1>2 DEF CommitLock
<1> QED
  BY <1>3, <1>4, CommittedLive

\* Nobody holds the event of what another process commits.
LEMMA CommitElsewhereLive ==
  ASSUME LiveInv, CommitElsewhere
  PROVE  LiveInv'
<1>1. UNCHANGED <<worker, channel, channels, conn, tab, reply, faults>>
  BY DEF CommitElsewhere
<1>2. worker' \in [Workers -> WorkerStates]
  BY <1>1 DEF LiveInv, LiveTypeOK
<1>3. ASSUME NEW e, Stores(e), silent' = silent \cup {e}
      PROVE  LiveInv'
  <2>1. Commits(e)
    BY <1>1, <1>3 DEF Commits
  <2> QED
    BY <1>2, <2>1, CommitsLive
<1>4. PICK c \in Clients, body \in Bodies, now \in Time :
        \E roll \in EvalRoll(rooms[Room], body.expr) :
          \/ /\ PostMessage(Room, c, body, roll, now)
             /\ \E m \in messages' \ messages : silent' = silent \cup {MsgEvent(m, FALSE)}
          \/ \E seq \in 1..MaxEvents :
               /\ EditMessage(Room, seq, c, body, roll, now)
               /\ \E m \in messages' \ messages : silent' = silent \cup {MsgEvent(m, TRUE)}
          \/ /\ LockRoom(Room, now)
             /\ silent' = silent \cup {LockedEvent(rooms'[Room].event_counter)}
  BY DEF CommitElsewhere
<1>5. PICK roll \in EvalRoll(rooms[Room], body.expr) :
          \/ /\ PostMessage(Room, c, body, roll, now)
             /\ \E m \in messages' \ messages : silent' = silent \cup {MsgEvent(m, FALSE)}
          \/ \E seq \in 1..MaxEvents :
               /\ EditMessage(Room, seq, c, body, roll, now)
               /\ \E m \in messages' \ messages : silent' = silent \cup {MsgEvent(m, TRUE)}
          \/ /\ LockRoom(Room, now)
             /\ silent' = silent \cup {LockedEvent(rooms'[Room].event_counter)}
  BY <1>4
<1>6. CASE /\ PostMessage(Room, c, body, roll, now)
           /\ \E m \in messages' \ messages : silent' = silent \cup {MsgEvent(m, FALSE)}
  BY <1>3, <1>6, PostStores DEF LiveInv
<1>7. CASE \E seq \in 1..MaxEvents :
             /\ EditMessage(Room, seq, c, body, roll, now)
             /\ \E m \in messages' \ messages : silent' = silent \cup {MsgEvent(m, TRUE)}
  BY <1>3, <1>7, EditStores DEF LiveInv
<1>8. CASE /\ LockRoom(Room, now)
           /\ silent' = silent \cup {LockedEvent(rooms'[Room].event_counter)}
  <2>1. PICK e : e = LockedEvent(rooms'[Room].event_counter)
    OBVIOUS
  <2> QED
    BY <1>3, <1>8, <2>1, LockStores DEF LiveInv
<1> QED
  BY <1>5, <1>6, <1>7, <1>8

-----------------------------------------------------------------------------
(* The steps that move an event, or lose everything that is on its way. *)

\* What the store and the events' truth are while nothing is written.
LEMMA StoreStays ==
  ASSUME UNCHANGED storeVars, LiveInv
  PROVE  /\ IInv' /\ (Room \in DOMAIN rooms)'
         /\ LastSeq' = LastSeq
         /\ Unlocked' <=> Unlocked
         /\ MessagesOf(Room)' = MessagesOf(Room)
         /\ \A seq, event : Created(seq, event)' <=> Created(seq, event)
<1>1. rooms' = rooms /\ messages' = messages
  BY DEF storeVars
<1>2. IInv'
  BY StutterIInv DEF LiveInv
<1>3. LastSeq' = LastSeq /\ (Unlocked' <=> Unlocked) /\ MessagesOf(Room)' = MessagesOf(Room)
  BY <1>1 DEF LastSeq, Unlocked, MessagesOf
<1> QED
  BY <1>1, <1>2, <1>3 DEF LiveInv, Created

\* Handler w is done, with or without having sent its event.
Finishes(w) ==
  /\ worker[w].pc \in Announcing
  /\ worker' = [worker EXCEPT ![w] = Idle]
  /\ UNCHANGED <<storeVars, channel, channels, tab>>

LEMMA FinishesHandlers ==
  ASSUME LiveInv, NEW w \in Workers, Finishes(w)
  PROVE  /\ worker' \in [Workers -> WorkerStates]
         /\ HandlersInv'
         /\ \A v \in Workers : worker'[v].pc \in Announcing =>
              v # w /\ worker'[v] = worker[v]
         /\ Announced \subseteq Announced' \cup {worker[w].event}
         /\ Announced' \subseteq Announced
         /\ EventTrue(worker[w].event)
         /\ worker[w].event \in Events
<1>1. worker \in [Workers -> WorkerStates] /\ worker[w].pc \in Announcing
  BY DEF LiveInv, LiveTypeOK, Finishes
<1>2. Idle \in WorkerStates /\ Idle.pc \notin Announcing
  BY DEF WorkerStates, Idle, Announcing
<1>3. \A v \in Workers : worker'[v] = IF v = w THEN Idle ELSE worker[v]
  BY <1>1 DEF Finishes
<1>4. worker' \in [Workers -> WorkerStates]
  BY <1>1, <1>2 DEF Finishes
<1>5. \A v \in Workers : worker'[v].pc \in Announcing => v # w /\ worker'[v] = worker[v]
  BY <1>2, <1>3
<1>6. Announced \subseteq Announced' \cup {worker[w].event} /\ Announced' \subseteq Announced
  <2>1. \A v \in Workers : v # w => worker'[v] = worker[v]
    BY <1>3
  <2> QED
    BY <1>5, <2>1 DEF Announced
<1>7. EventTrue(worker[w].event) /\ worker[w].event \in Events
  BY <1>1, HandlerShapes DEF LiveInv, HandlersInv
<1>8. UNCHANGED storeVars
  BY DEF Finishes
<1>9. (\A v \in Workers : worker[v].pc \in Announcing => EventTrue(worker[v].event))'
  BY <1>5, <1>8, StoreStays DEF LiveInv, HandlersInv, EventTrue
<1>10. \A u, v \in Workers :
         /\ worker'[u].pc \in Announcing /\ worker'[v].pc \in Announcing
         /\ SamePost(worker'[u].event, worker'[v].event)
         => u = v
  BY <1>5 DEF LiveInv, HandlersInv
<1>11. HandlersInv'
  BY <1>9, <1>10 DEF HandlersInv, SamePost
<1> QED
  BY <1>4, <1>5, <1>6, <1>7, <1>11

\* An event that is dropped is one of those that are never broadcast.
LEMMA AbandonLive ==
  ASSUME LiveInv, NEW w \in Workers, Abandon(w)
  PROVE  LiveInv'
<1> DEFINE e == worker[w].event
<1>1. /\ silent' = silent \cup {e}
      /\ UNCHANGED <<storeVars, channel, channels, conn, tab, reply, faults>>
      /\ worker[w].pc = "committed"
  BY DEF Abandon
<1>2. Finishes(w)
  BY DEF Abandon, Finishes, Announcing
<1>3. /\ worker' \in [Workers -> WorkerStates]
      /\ HandlersInv'
      /\ \A v \in Workers : worker'[v].pc \in Announcing => v # w /\ worker'[v] = worker[v]
      /\ Announced \subseteq Announced' \cup {e}
      /\ Announced' \subseteq Announced
      /\ EventTrue(e)
  BY <1>2, FinishesHandlers
<1>4. LiveTypeOK'
  BY <1>1, <1>3 DEF LiveInv, LiveTypeOK
<1>5. /\ IInv' /\ (Room \in DOMAIN rooms)'
      /\ LastSeq' = LastSeq /\ (Unlocked' <=> Unlocked)
      /\ MessagesOf(Room)' = MessagesOf(Room)
      /\ \A seq, event : Created(seq, event)' <=> Created(seq, event)
  BY <1>1, StoreStays
<1> HIDE DEF e
<1>6. ASSUME NEW b \in Browsers PROVE StreamInv(b)'
  <2>1. StreamInv(b) /\ conn'[b] = conn[b] /\ tab'[b] = tab[b]
    BY <1>1 DEF LiveInv
  <2>2. Queued(b)' = Queued(b) /\ Page(b)' = Page(b) /\ (Ending(b)' <=> Ending(b))
    BY <1>1 DEF Queued, Page, Ending
  <2>3. QueueInv(b)'
    <3>1. (\A i \in DOMAIN conn[b].queue : EventTrue(conn[b].queue[i]))'
      BY <1>5, <2>1 DEF StreamInv, QueueInv, EventTrue
    <3> QED
      BY <1>3, <2>1, <3>1 DEF StreamInv, QueueInv, SamePost
  <2>4. ListInv(tab[b].view)' /\ ListInv(conn[b].refresh)'
    BY <1>5, <2>1 DEF StreamInv, ListInv
  <2>5. NotYetShown(b)'
    <3>1. tab[b].pc \in HasSnapshot =>
            \A d \in Announced' \cup Queued(b)' :
              IsPost(d) /\ d.id > conn[b].snapshot => ~Lists(Page(b)', d.element.seq)
      BY <1>3, <2>1, <2>2 DEF StreamInv, NotYetShown
    <3> QED
      BY <2>1, <3>1 DEF NotYetShown, IsPost, Lists
  <2>6. Arrives(b)'
    <3> SUFFICES ASSUME tab[b].pc \in HasSnapshot, ~Ending(b)
                 PROVE  Arrives(b)'
      BY <2>1, <2>2 DEF Arrives
    <3>1. /\ \A m \in MessagesOf(Room) :
               m.created_event_seq > conn[b].snapshot =>
                 \/ Lists(Page(b), m.seq)
                 \/ \E d \in Announced \cup Queued(b) : IsPost(d) /\ d.element.seq = m.seq
                 \/ \E d \in silent : d.id = m.created_event_seq
          /\ \A v \in Workers :
               /\ worker[v].pc = "sending"
               /\ IsPost(worker[v].event) /\ worker[v].event.id > conn[b].snapshot
               => worker[v].chan = conn[b].chan
      BY <2>1 DEF StreamInv, Arrives
    <3>2. \A m \in MessagesOf(Room) :
            IsPost(e) /\ e.element.seq = m.seq => e.id = m.created_event_seq
      BY <1>3 DEF EventTrue, Created, LiveInv, IInv, TranscriptGapless, MessagesOf
    <3>3. \A m \in MessagesOf(Room) :
            m.created_event_seq > conn[b].snapshot =>
              \/ Lists(Page(b), m.seq)
              \/ \E d \in Announced' \cup Queued(b) : IsPost(d) /\ d.element.seq = m.seq
              \/ \E d \in silent' : d.id = m.created_event_seq
      BY <1>1, <1>3, <3>1, <3>2
    <3>4. \A v \in Workers :
            /\ worker'[v].pc = "sending"
            /\ IsPost(worker'[v].event) /\ worker'[v].event.id > conn[b].snapshot
            => worker'[v].chan = conn[b].chan
      BY <1>3, <3>1 DEF Announcing
    <3> QED
      BY <1>5, <2>1, <2>2, <3>3, <3>4 DEF Arrives, IsPost, Lists
  <2>7. LockArrives(b)'
    <3> SUFFICES ASSUME tab[b].pc \in {"snapshot"} \cup HasSnapshot, ~Ending(b),
                        conn[b].unlocked
                 PROVE  LockArrives(b)'
      BY <2>1, <2>2 DEF LockArrives
    <3>1. /\ ~Unlocked =>
               \/ tab[b].composer = "locked"
               \/ \E d \in Announced \cup Queued(b) \cup silent : d.name = "locked"
          /\ \A v \in Workers :
               worker[v].pc = "sending" /\ worker[v].event.name = "locked" =>
                 worker[v].chan = conn[b].chan
      BY <2>1 DEF StreamInv, LockArrives
    <3>2. ~Unlocked =>
            \/ tab[b].composer = "locked"
            \/ \E d \in Announced' \cup Queued(b) \cup silent' : d.name = "locked"
      BY <1>1, <1>3, <3>1
    <3>3. \A v \in Workers :
            worker'[v].pc = "sending" /\ worker'[v].event.name = "locked" =>
              worker'[v].chan = conn[b].chan
      BY <1>3, <3>1 DEF Announcing
    <3> QED
      BY <1>5, <2>1, <2>2, <3>2, <3>3 DEF LockArrives
  <2>8. (tab[b].pc \in Connected => conn[b].chan \in 1..channels)'
    BY <1>1, <2>1 DEF StreamInv
  <2> QED
    BY <2>3, <2>4, <2>5, <2>6, <2>7, <2>8 DEF StreamInv
<1> QED
  BY <1>3, <1>4, <1>5, <1>6 DEF LiveInv

\* What a receiver makes of an event: the event is last, what was queued comes before
\* it, and only a stream that is told that it lagged has lost any of it.
LEMMA PushShape ==
  ASSUME NEW c \in ConnStates, NEW e \in Events
  PROVE  LET p == Push(c, e) IN
         /\ p \in ConnStates
         /\ p.chan = c.chan /\ p.snapshot = c.snapshot /\ p.refresh = c.refresh
         /\ p.unlocked = c.unlocked
         /\ Len(p.queue) \in Nat /\ DOMAIN p.queue = 1..Len(p.queue)
         /\ Len(p.queue) \in DOMAIN p.queue /\ p.queue[Len(p.queue)] = e
         /\ \E k \in {0, 1} : \A i \in DOMAIN p.queue :
              i # Len(p.queue) => i + k \in DOMAIN c.queue /\ p.queue[i] = c.queue[i + k]
         /\ ~p.lagged =>
              /\ ~c.lagged
              /\ \A i \in DOMAIN c.queue : i \in DOMAIN p.queue /\ p.queue[i] = c.queue[i]
<1> DEFINE p == Push(c, e)
           q == c.queue
<1>1. q \in Seq(Events) /\ Len(q) \in Nat /\ DOMAIN q = 1..Len(q)
  BY DEF ConnStates
<1>2. CASE Len(q) < Capacity
  <2> DEFINE new == Append(q, e)
  <2>1. /\ new \in Seq(Events) /\ Len(new) = Len(q) + 1 /\ DOMAIN new = 1..(Len(q) + 1)
        /\ \A i \in 1..Len(q) : new[i] = q[i]
        /\ new[Len(q) + 1] = e
    BY <1>1
  <2>2. p = [c EXCEPT !.queue = new]
    BY <1>2 DEF Push
  <2> HIDE DEF new, p
  <2>3. /\ p \in ConnStates
        /\ p.chan = c.chan /\ p.snapshot = c.snapshot /\ p.refresh = c.refresh
        /\ p.queue = new
    BY <2>1, <2>2 DEF ConnStates
  <2>4. p.unlocked = c.unlocked /\ p.lagged = c.lagged
    BY <2>2 DEF ConnStates
  <2> HIDE DEF q
  <2>5. /\ Len(new) \in Nat /\ DOMAIN new = 1..Len(new) /\ Len(new) \in DOMAIN new
        /\ new[Len(new)] = e
    BY <1>1, <2>1
  <2>6. \A i \in DOMAIN new : i # Len(new) => i + 0 \in DOMAIN q /\ new[i] = q[i + 0]
    BY <1>1, <2>1
  <2>7. \A i \in DOMAIN q : i \in DOMAIN new /\ new[i] = q[i]
    BY <1>1, <2>1
  <2>8. 0 \in {0, 1}
    OBVIOUS
  <2> QED
    BY <2>3, <2>4, <2>5, <2>6, <2>7, <2>8 DEF p, q
<1>3. CASE ~(Len(q) < Capacity)
  <2> DEFINE rest == Tail(q)
             new == Append(rest, e)
  <2>1. q # <<>> /\ Len(q) >= 1
    BY <1>1, <1>3, LiveAssumption
  <2>2. /\ rest \in Seq(Events) /\ Len(rest) = Len(q) - 1 /\ Len(rest) \in Nat
        /\ \A i \in 1..Len(rest) : rest[i] = q[i + 1]
    BY <1>1, <2>1, HeadTailProperties
  <2> HIDE DEF rest
  <2>3. /\ new \in Seq(Events) /\ Len(new) = Len(rest) + 1 /\ DOMAIN new = 1..(Len(rest) + 1)
        /\ \A i \in 1..Len(rest) : new[i] = rest[i]
        /\ new[Len(rest) + 1] = e
    BY <2>2
  <2>4. p = [c EXCEPT !.queue = new, !.lagged = TRUE]
    BY <1>3 DEF Push, rest
  <2> HIDE DEF new, p
  <2>5. /\ p \in ConnStates
        /\ p.chan = c.chan /\ p.snapshot = c.snapshot /\ p.refresh = c.refresh
        /\ p.queue = new
    BY <2>3, <2>4 DEF ConnStates
  <2>6. p.unlocked = c.unlocked /\ p.lagged
    BY <2>4 DEF ConnStates
  <2> HIDE DEF q
  <2>7. /\ Len(new) \in Nat /\ DOMAIN new = 1..Len(new) /\ Len(new) \in DOMAIN new
        /\ new[Len(new)] = e
    BY <2>2, <2>3
  <2>8. \A i \in DOMAIN new : i # Len(new) => i + 1 \in DOMAIN q /\ new[i] = q[i + 1]
    BY <1>1, <2>2, <2>3
  <2>9. 1 \in {0, 1}
    OBVIOUS
  <2> QED
    BY <2>5, <2>6, <2>7, <2>8, <2>9 DEF p, q
<1> QED
  BY <1>2, <1>3 DEF p, q

\* The queue of a stream after a send of e by w: what it had, and e if it listens.
LEMMA SentQueue ==
  ASSUME LiveInv, NEW w \in Workers, Send(w), NEW b \in Browsers
  PROVE  LET e == worker[w].event IN
         /\ conn'[b] \in ConnStates
         /\ conn'[b].chan = conn[b].chan /\ conn'[b].snapshot = conn[b].snapshot
         /\ conn'[b].refresh = conn[b].refresh /\ conn'[b].unlocked = conn[b].unlocked
         /\ Queued(b)' \subseteq Queued(b) \cup {e}
         /\ ~conn'[b].lagged =>
              /\ ~conn[b].lagged
              /\ Queued(b) \subseteq Queued(b)'
              /\ conn[b].chan = worker[w].chan /\ tab[b].pc \in Subscribed => e \in Queued(b)'
         /\ QueueInv(b)'
<1> DEFINE e == worker[w].event
           c == conn[b]
           p == Push(c, e)
<1>1. /\ worker[w].pc = "sending"
      /\ conn' = [a \in Browsers |->
           IF a \in Receivers(worker[w].chan) THEN Push(conn[a], e) ELSE conn[a]]
      /\ UNCHANGED <<storeVars, channel, channels, tab, silent, faults>>
  BY DEF Send
<1>2. Finishes(w)
  BY DEF Send, Finishes, Announcing
<1>3. /\ \A v \in Workers : worker'[v].pc \in Announcing => v # w /\ worker'[v] = worker[v]
      /\ EventTrue(e) /\ e \in Events
  BY <1>2, FinishesHandlers
<1>4. c \in ConnStates /\ worker[w].pc \in Announcing
  BY <1>1, StreamShapes DEF LiveInv, Announcing
<1>5. QueueInv(b)
  BY DEF LiveInv, StreamInv
<1>6. \A d : EventTrue(d)' <=> EventTrue(d)
  BY <1>1, StoreStays DEF EventTrue
<1>7. \A i \in DOMAIN c.queue : ~SamePost(c.queue[i], e) /\ ~SamePost(e, c.queue[i])
  BY <1>4, <1>5 DEF QueueInv, SamePost
<1>8. \A v \in Workers : worker'[v].pc \in Announcing => ~SamePost(e, worker'[v].event)
  BY <1>3, <1>4 DEF LiveInv, HandlersInv
<1>9. CASE b \in Receivers(worker[w].chan)
  <2>1. conn'[b] = p
    BY <1>1, <1>9
  <2>2. /\ p \in ConnStates
        /\ p.chan = c.chan /\ p.snapshot = c.snapshot /\ p.refresh = c.refresh
        /\ p.unlocked = c.unlocked
        /\ Len(p.queue) \in Nat /\ DOMAIN p.queue = 1..Len(p.queue)
        /\ Len(p.queue) \in DOMAIN p.queue /\ p.queue[Len(p.queue)] = e
        /\ \E k \in {0, 1} : \A i \in DOMAIN p.queue :
             i # Len(p.queue) => i + k \in DOMAIN c.queue /\ p.queue[i] = c.queue[i + k]
        /\ ~p.lagged =>
             /\ ~c.lagged
             /\ \A i \in DOMAIN c.queue : i \in DOMAIN p.queue /\ p.queue[i] = c.queue[i]
    BY <1>3, <1>4, PushShape
  <2> HIDE DEF p, e, c
  <2>3. PICK k \in {0, 1} : \A i \in DOMAIN p.queue :
          i # Len(p.queue) => i + k \in DOMAIN c.queue /\ p.queue[i] = c.queue[i + k]
    BY <2>2
  <2>4. Queued(b)' = {p.queue[i] : i \in DOMAIN p.queue}
    BY <2>1 DEF Queued
  <2>5. Queued(b) = {c.queue[i] : i \in DOMAIN c.queue}
    BY DEF Queued, c
  <2>6. Queued(b)' \subseteq Queued(b) \cup {e}
    BY <2>2, <2>3, <2>4, <2>5
  <2>7. ~p.lagged => ~c.lagged /\ Queued(b) \subseteq Queued(b)' /\ e \in Queued(b)'
    BY <2>2, <2>4, <2>5
  <2>8. \A i \in DOMAIN p.queue : EventTrue(p.queue[i])
    BY <1>3, <1>5, <2>2, <2>3 DEF QueueInv, c
  <2>9. (\A i \in DOMAIN conn[b].queue : EventTrue(conn[b].queue[i]))'
    <3> SUFFICES ASSUME NEW i \in DOMAIN p.queue
                 PROVE  EventTrue(conn[b].queue[i])'
      BY <2>1
    <3>1. PICK d : d = p.queue[i]
      OBVIOUS
    <3>2. EventTrue(d)'
      BY <1>6, <2>8, <3>1
    <3> QED
      BY <2>1, <3>1, <3>2 DEF EventTrue, Created
  <2>10. \A i, j \in DOMAIN p.queue : SamePost(p.queue[i], p.queue[j]) => i = j
    <3>1. \A i \in DOMAIN p.queue : i \in Nat
      BY <2>2
    <3>2. \A i, j \in DOMAIN c.queue : SamePost(c.queue[i], c.queue[j]) => i = j
      BY <1>5 DEF QueueInv, c
    <3> TAKE i, j \in DOMAIN p.queue
    <3> HAVE SamePost(p.queue[i], p.queue[j])
    <3>3. CASE i = Len(p.queue) \/ j = Len(p.queue)
      BY <1>7, <2>2, <2>3, <3>3
    <3>4. CASE i # Len(p.queue) /\ j # Len(p.queue)
      <4>1. i + k = j + k
        BY <2>3, <3>2, <3>4
      <4> QED
        BY <3>1, <4>1
    <3> QED
      BY <3>3, <3>4
  <2>11. \A i \in DOMAIN p.queue, v \in Workers :
           worker'[v].pc \in Announcing => ~SamePost(p.queue[i], worker'[v].event)
    BY <1>3, <1>5, <1>8, <2>2, <2>3 DEF QueueInv, c
  <2>12. QueueInv(b)'
    BY <2>1, <2>9, <2>10, <2>11 DEF QueueInv, SamePost
  <2> QED
    BY <2>1, <2>2, <2>6, <2>7, <2>12 DEF c, e
<1>10. CASE b \notin Receivers(worker[w].chan)
  <2>1. conn'[b] = c
    BY <1>1, <1>10
  <2>2. ~(conn[b].chan = worker[w].chan /\ tab[b].pc \in Subscribed)
    BY <1>10 DEF Receivers
  <2>3. Queued(b)' = Queued(b)
    BY <2>1 DEF Queued
  <2>4. (\A i \in DOMAIN conn[b].queue : EventTrue(conn[b].queue[i]))'
    BY <1>1, <1>5, <2>1, StoreStays DEF QueueInv, EventTrue
  <2>5. QueueInv(b)'
    BY <1>3, <1>5, <2>1, <2>4 DEF QueueInv, SamePost
  <2> QED
    BY <1>4, <2>1, <2>2, <2>3, <2>5
<1> QED
  BY <1>9, <1>10

\* Every stream that the event concerns listens on the channel it is sent on.
LEMMA SendLive ==
  ASSUME LiveInv, NEW w \in Workers, Send(w)
  PROVE  LiveInv'
<1> DEFINE e == worker[w].event
<1>1. /\ worker[w].pc = "sending" /\ worker[w].pc \in Announcing
      /\ UNCHANGED <<storeVars, channel, channels, tab, silent, faults>>
  BY DEF Send, Announcing
<1>2. Finishes(w)
  BY DEF Send, Finishes, Announcing
<1>3. /\ worker' \in [Workers -> WorkerStates]
      /\ HandlersInv'
      /\ \A v \in Workers : worker'[v].pc \in Announcing => v # w /\ worker'[v] = worker[v]
      /\ Announced \subseteq Announced' \cup {e}
      /\ Announced' \subseteq Announced
      /\ EventTrue(e)
      /\ e \in Events
  BY <1>2, FinishesHandlers
<1>4. /\ IInv' /\ (Room \in DOMAIN rooms)'
      /\ LastSeq' = LastSeq /\ (Unlocked' <=> Unlocked)
      /\ MessagesOf(Room)' = MessagesOf(Room)
  BY <1>1, StoreStays
<1>5. e \in Announced
  BY <1>1 DEF Announced
<1>6. reply' \in [Browsers -> Elements \cup {NoReply}]
  <2>1. reply \in [Browsers -> Elements \cup {NoReply}] /\ LiveTypeOK
    BY DEF LiveInv, LiveTypeOK
  <2>2. CASE worker[w].origin = Outside
    BY <2>1, <2>2 DEF Send
  <2>3. CASE worker[w].origin # Outside
    <3>1. e \in MsgEvents
      BY <1>1, <2>1, <2>3, HandlerShapes
    <3>2. e.element \in Elements
      BY <3>1, EventShapes
    <3>3. reply' = [reply EXCEPT ![worker[w].origin] = e.element]
      BY <2>3 DEF Send
    <3> QED
      BY <2>1, <3>2, <3>3
  <2> QED
    BY <2>2, <2>3
<1>7. LiveTypeOK'
  <2>1. conn' = [a \in Browsers |-> conn'[a]]
    BY DEF Send
  <2>2. \A a \in Browsers : conn'[a] \in ConnStates
    BY SentQueue
  <2>3. conn' \in [Browsers -> ConnStates]
    BY <2>1, <2>2
  <2> QED
    BY <1>1, <1>3, <1>6, <2>3 DEF LiveInv, LiveTypeOK
<1>8. ASSUME NEW b \in Browsers PROVE StreamInv(b)'
  <2>1. /\ conn'[b].chan = conn[b].chan /\ conn'[b].snapshot = conn[b].snapshot
        /\ conn'[b].refresh = conn[b].refresh /\ conn'[b].unlocked = conn[b].unlocked
        /\ Queued(b)' \subseteq Queued(b) \cup {e}
        /\ ~conn'[b].lagged =>
             /\ ~conn[b].lagged
             /\ Queued(b) \subseteq Queued(b)'
             /\ conn[b].chan = worker[w].chan /\ tab[b].pc \in Subscribed => e \in Queued(b)'
        /\ QueueInv(b)'
    BY SentQueue
  <2>2. StreamInv(b) /\ tab'[b] = tab[b]
    BY <1>1 DEF LiveInv
  <2> HIDE DEF e
  <2>3. Page(b)' = Page(b) /\ (Ending(b)' => conn'[b].lagged \/ Ending(b))
    BY <1>1, <2>1, <2>2 DEF Page, Ending
  <2>4. ~Ending(b)' => ~conn'[b].lagged /\ ~Ending(b)
    BY <1>1, <2>1 DEF Ending
  <2>5. ListInv(tab[b].view)' /\ ListInv(conn[b].refresh)'
    BY <1>4, <2>1, <2>2 DEF StreamInv, ListInv
  <2>6. NotYetShown(b)'
    <3>1. tab[b].pc \in HasSnapshot =>
            \A d \in Announced' \cup Queued(b)' :
              IsPost(d) /\ d.id > conn[b].snapshot => ~Lists(Page(b)', d.element.seq)
      BY <1>3, <1>5, <2>1, <2>2, <2>3 DEF StreamInv, NotYetShown
    <3> QED
      BY <2>1, <2>2, <3>1 DEF NotYetShown, IsPost, Lists
  <2>7. Arrives(b)'
    <3> SUFFICES ASSUME tab[b].pc \in HasSnapshot, ~Ending(b)'
                 PROVE  Arrives(b)'
      BY <2>2 DEF Arrives
    <3>1. /\ \A m \in MessagesOf(Room) :
               m.created_event_seq > conn[b].snapshot =>
                 \/ Lists(Page(b), m.seq)
                 \/ \E d \in Announced \cup Queued(b) : IsPost(d) /\ d.element.seq = m.seq
                 \/ \E d \in silent : d.id = m.created_event_seq
          /\ \A v \in Workers :
               /\ worker[v].pc = "sending"
               /\ IsPost(worker[v].event) /\ worker[v].event.id > conn[b].snapshot
               => worker[v].chan = conn[b].chan
      BY <2>2, <2>4 DEF StreamInv, Arrives
    <3>2. \A m \in MessagesOf(Room) :
            IsPost(e) /\ e.element.seq = m.seq => e.id = m.created_event_seq
      BY <1>3 DEF EventTrue, Created, LiveInv, IInv, TranscriptGapless, MessagesOf
    <3>3. IsPost(e) /\ e.id > conn[b].snapshot => e \in Queued(b)'
      BY <1>1, <2>1, <2>4, <3>1 DEF HasSnapshot, Subscribed, e
    <3>4. \A m \in MessagesOf(Room) :
            m.created_event_seq > conn[b].snapshot =>
              \/ Lists(Page(b), m.seq)
              \/ \E d \in Announced' \cup Queued(b)' : IsPost(d) /\ d.element.seq = m.seq
              \/ \E d \in silent : d.id = m.created_event_seq
      BY <1>3, <2>1, <2>4, <3>1, <3>2, <3>3
    <3>5. \A v \in Workers :
            /\ worker'[v].pc = "sending"
            /\ IsPost(worker'[v].event) /\ worker'[v].event.id > conn[b].snapshot
            => worker'[v].chan = conn[b].chan
      BY <1>3, <3>1 DEF Announcing
    <3> QED
      BY <1>1, <1>4, <2>1, <2>2, <2>3, <3>4, <3>5 DEF Arrives, IsPost, Lists
  <2>8. LockArrives(b)'
    <3> SUFFICES ASSUME tab[b].pc \in {"snapshot"} \cup HasSnapshot, ~Ending(b)',
                        conn[b].unlocked
                 PROVE  LockArrives(b)'
      BY <2>1, <2>2 DEF LockArrives
    <3>1. /\ ~Unlocked =>
               \/ tab[b].composer = "locked"
               \/ \E d \in Announced \cup Queued(b) \cup silent : d.name = "locked"
          /\ \A v \in Workers :
               worker[v].pc = "sending" /\ worker[v].event.name = "locked" =>
                 worker[v].chan = conn[b].chan
      BY <2>2, <2>4 DEF StreamInv, LockArrives
    <3>2. e.name = "locked" => e \in Queued(b)'
      BY <1>1, <2>1, <2>4, <3>1 DEF HasSnapshot, Subscribed, e
    <3>3. ~Unlocked =>
            \/ tab[b].composer = "locked"
            \/ \E d \in Announced' \cup Queued(b)' \cup silent : d.name = "locked"
      BY <1>3, <2>1, <2>4, <3>1, <3>2
    <3>4. \A v \in Workers :
            worker'[v].pc = "sending" /\ worker'[v].event.name = "locked" =>
              worker'[v].chan = conn[b].chan
      BY <1>3, <3>1 DEF Announcing
    <3> QED
      BY <1>1, <1>4, <2>1, <2>2, <3>3, <3>4 DEF LockArrives
  <2>9. (tab[b].pc \in Connected => conn[b].chan \in 1..channels)'
    BY <1>1, <2>1, <2>2 DEF StreamInv
  <2> QED
    BY <2>1, <2>5, <2>6, <2>7, <2>8, <2>9 DEF StreamInv
<1> QED
  BY <1>3, <1>4, <1>7, <1>8 DEF LiveInv

\* A restart leaves the database and what the pages show.
LEMMA RestartLive ==
  ASSUME LiveInv, Restart
  PROVE  LiveInv'
<1>1. /\ worker' = [w \in Workers |-> Idle]
      /\ channel' = NoChannel
      /\ conn' = [b \in Browsers |-> Closed]
      /\ reply' = [b \in Browsers |-> NoReply]
      /\ UNCHANGED <<storeVars, channels, silent>>
  BY DEF Restart
<1>2. Idle \in WorkerStates /\ Idle.pc \notin Announcing
  BY DEF WorkerStates, Idle, Announcing
<1>3. \A w \in Workers : worker'[w].pc \notin Announcing
  BY <1>1, <1>2
<1>4. ASSUME NEW b \in Browsers
      PROVE  /\ tab'[b] \in TabStates
             /\ tab'[b].pc \in {"away", "offline"}
             /\ tab'[b].view = <<>> \/ tab'[b].view = tab[b].view
  <2> DEFINE old == tab[b]
  <2>1. old \in TabStates
    BY StreamShapes DEF LiveInv
  <2>2. CASE old.pc \in {"away", "loading"}
    <3>1. tab'[b] = Away
      BY <2>2 DEF Restart
    <3> QED
      BY <3>1, AwayShape
  <2>3. CASE old.pc \notin {"away", "loading"}
    <3>1. tab'[b] = [old EXCEPT !.pc = "offline"]
      BY <2>3 DEF Restart
    <3> HIDE DEF old
    <3>2. tab'[b] \in TabStates /\ tab'[b].pc = "offline" /\ tab'[b].view = old.view
      BY <2>1, <3>1 DEF TabStates
    <3> QED
      BY <3>2 DEF old
  <2> QED
    BY <2>2, <2>3
<1>5. tab' \in [Browsers -> TabStates]
  <2>1. tab' = [b \in Browsers |-> tab'[b]]
    BY DEF Restart
  <2> QED
    BY <1>4, <2>1
<1>6. LiveTypeOK'
  BY <1>1, <1>2, <1>5, ClosedShape DEF LiveInv, LiveTypeOK
<1>7. IInv' /\ (Room \in DOMAIN rooms)' /\ LastSeq' = LastSeq
  BY <1>1, StoreStays
<1>8. HandlersInv'
  BY <1>3 DEF HandlersInv
<1>9. ASSUME NEW b \in Browsers PROVE StreamInv(b)'
  <2>1. conn'[b] = Closed
    BY <1>1
  <2>2. QueueInv(b)'
    BY <2>1, ClosedShape, EmptyQueue
  <2>3. ListInv(tab'[b].view) /\ ListInv(conn'[b].refresh)
    BY <1>4, <2>1, ClosedShape, EmptyList DEF LiveInv, StreamInv
  <2>4. ListInv(tab[b].view)' /\ ListInv(conn[b].refresh)'
    BY <1>7, <2>3 DEF ListInv
  <2>5. NotYetShown(b)' /\ Arrives(b)' /\ LockArrives(b)'
    BY <1>4 DEF NotYetShown, Arrives, LockArrives, HasSnapshot
  <2>6. (tab[b].pc \in Connected => conn[b].chan \in 1..channels)'
    BY <1>4 DEF Connected, Subscribed
  <2> QED
    BY <2>2, <2>4, <2>5, <2>6 DEF StreamInv
<1> QED
  BY <1>6, <1>7, <1>8, <1>9 DEF LiveInv

-----------------------------------------------------------------------------
(* The invariant and what follows from it. *)

LEMMA LiveInitInv == LiveInit => LiveInv
<1> SUFFICES ASSUME LiveInit PROVE LiveInv
  OBVIOUS
<1>1. PICK token \in Tokens, now \in Time :
        rooms = [r \in {Room} |->
                   [token |-> token, created_at |-> now, locked_at |-> NotLocked,
                    rng_state |-> 0, seq_counter |-> 0, event_counter |-> 0]]
  BY DEF LiveInit
<1>2. /\ lastId = Room /\ members = {} /\ messages = {}
      /\ worker = [w \in Workers |-> Idle]
      /\ channel = NoChannel /\ channels = 0
      /\ conn = [b \in Browsers |-> Closed]
      /\ tab = [b \in Browsers |-> Away]
      /\ reply = [b \in Browsers |-> NoReply]
  BY DEF LiveInit
<1>3. /\ DOMAIN rooms = {Room} /\ rooms \in [{Room} -> RoomRow]
      /\ rooms[Room].seq_counter = 0
  BY <1>1 DEF RoomRow
<1>4. IInv
  <2>1. TypeOK
    BY <1>2, <1>3 DEF TypeOK, Room
  <2>2. NoOrphans /\ EventIdsOrderTheRoom /\ FreshRandomness
    BY <1>2 DEF NoOrphans, EventIdsOrderTheRoom, FreshRandomness
  <2>3. TranscriptGapless
    <3>1. 1..0 = {}
      OBVIOUS
    <3> QED
      BY <1>2, <1>3, <3>1 DEF TranscriptGapless, MessagesOf
  <2> QED
    BY <2>1, <2>2, <2>3 DEF IInv
<1>5. Idle \in WorkerStates /\ Idle.pc \notin Announcing
  BY DEF WorkerStates, Idle, Announcing
<1>6. LiveTypeOK
  BY <1>2, <1>5, ClosedShape, AwayShape DEF LiveTypeOK
<1>7. HandlersInv
  BY <1>2, <1>5 DEF HandlersInv
<1>8. ASSUME NEW b \in Browsers PROVE StreamInv(b)
  <2>1. /\ conn[b].queue = <<>> /\ conn[b].refresh = <<>>
        /\ tab[b].pc = "away" /\ tab[b].view = <<>>
    BY <1>2, ClosedShape, AwayShape
  <2>2. QueueInv(b)
    BY <2>1 DEF QueueInv
  <2>3. NotYetShown(b) /\ Arrives(b) /\ LockArrives(b) /\ tab[b].pc \notin Connected
    BY <2>1 DEF NotYetShown, Arrives, LockArrives, HasSnapshot, Connected, Subscribed
  <2> QED
    BY <2>1, <2>2, <2>3, EmptyList DEF StreamInv
<1> QED
  BY <1>3, <1>4, <1>6, <1>7, <1>8 DEF LiveInv

LEMMA LiveStutter == LiveInv /\ UNCHANGED vars => LiveInv'
<1> SUFFICES ASSUME LiveInv, UNCHANGED vars PROVE LiveInv'
  OBVIOUS
<1>1. /\ UNCHANGED storeVars
      /\ UNCHANGED <<worker, channel, channels, conn, tab, reply, silent, faults>>
  BY DEF vars, liveVars
<1>2. LiveTypeOK'
  BY <1>1 DEF LiveInv, LiveTypeOK
<1>3. Quiet
  BY <1>1, StillQuiet
<1>4. \A b \in Browsers : Untouched(b)
  BY <1>1 DEF Untouched
<1> QED
  BY <1>2, <1>3, <1>4, QuietLive

LEMMA LiveNextInv == LiveInv /\ [LiveNext]_vars => LiveInv'
<1> SUFFICES ASSUME LiveInv, LiveNext PROVE LiveInv'
  BY LiveStutter
<1>1. ASSUME NEW w \in Workers,
             \/ BeginPost(w)
             \/ \E seq \in 1..MaxEvents, origin \in Editors \cup {Outside} :
                  BeginEdit(w, seq, origin)
             \/ BeginLock(w)
             \/ GiveUp(w)
      PROVE  LiveInv'
  BY <1>1, BeginPostLive, BeginEditLive, BeginLockLive, GiveUpLive
<1>2. ASSUME NEW w \in Workers, Handler(w) \/ Abandon(w)
      PROVE  LiveInv'
  BY <1>2, CommitPostLive, CommitEditLive, CommitLockLive, TakeSenderToSendLive,
     SendLive, AbandonLive DEF Handler
<1>3. ASSUME NEW b \in Browsers, Stream(b)
      PROVE  LiveInv'
  BY <1>3, ConnectLive, SubscribeLive, ReadRoomLive, ReadMessagesLive, RefreshLive,
     DeliverLive, EndStreamLive DEF Stream
<1>4. ASSUME NEW b \in Browsers,
             LoadRoomRow(b) \/ LoadMessages(b) \/ Drop(b) \/ ApplyReply(b)
      PROVE  LiveInv'
  BY <1>4, LoadRoomRowLive, LoadMessagesLive, DropLive, ApplyReplyLive
<1> QED
  BY <1>1, <1>2, <1>3, <1>4, PruneLive, CommitElsewhereLive, RestartLive DEF LiveNext

\* The invariant holds with and without fairness.
THEOREM LiveInvariance == LiveSpec => []LiveInv
BY LiveInitInv, LiveNextInv, PTL DEF LiveSpec

\* No page ever shows a message twice, whatever the handlers, the streams and the
\* faults do.
THEOREM NothingIsShownTwice == LiveSpec => []NoDuplicates
<1>1. LiveInv => NoDuplicates
  BY DEF LiveInv, StreamInv, ListInv, NoDuplicates
<1> QED
  BY <1>1, LiveInvariance, PTL

\* A post or a lock newer than the snapshot of a live stream is on the page, on its
\* way, or was committed without a broadcast, whatever the handlers, the streams and
\* the faults do.
THEOREM TheGapIsClosed == LiveSpec => []NothingFallsInTheGap
<1>1. ASSUME LiveInv, NEW b \in Browsers, tab[b].pc = "live", ~Ending(b)
      PROVE  /\ \A m \in MessagesOf(Room) :
                  m.created_event_seq > conn[b].snapshot =>
                    \/ Shows(b, m.seq)
                    \/ \E e \in Pending(b) : e.name = "msg" /\ ~e.oob /\ e.element.seq = m.seq
                    \/ \E e \in silent : e.id = m.created_event_seq
             /\ conn[b].unlocked /\ ~Unlocked =>
                    \/ tab[b].composer = "locked"
                    \/ \E e \in Pending(b) \cup silent : e.name = "locked"
  <2>1. Pending(b) = Announced \cup Queued(b)
    BY DEF Pending, Announced, Queued, Announcing
  <2>2. \A seq : Lists(Page(b), seq) <=> Shows(b, seq)
    BY <1>1 DEF Lists, Page, Shows
  <2>3. /\ \A m \in MessagesOf(Room) :
             m.created_event_seq > conn[b].snapshot =>
               \/ Lists(Page(b), m.seq)
               \/ \E e \in Announced \cup Queued(b) : IsPost(e) /\ e.element.seq = m.seq
               \/ \E e \in silent : e.id = m.created_event_seq
        /\ conn[b].unlocked /\ ~Unlocked =>
             \/ tab[b].composer = "locked"
             \/ \E e \in Announced \cup Queued(b) \cup silent : e.name = "locked"
    BY <1>1 DEF LiveInv, StreamInv, Arrives, LockArrives, HasSnapshot
  <2>4. \A e : IsPost(e) => e.name = "msg" /\ ~e.oob
    BY Zenon DEF IsPost
  <2> QED
    BY <2>1, <2>2, <2>3, <2>4
<1>2. LiveInv => NothingFallsInTheGap
  BY <1>1 DEF NothingFallsInTheGap
<1> QED
  BY <1>2, LiveInvariance, PTL

-----------------------------------------------------------------------------
(* What a page is sure to show. *)

LastEvent == rooms[Room].event_counter

\* The ids of the changes in lost that a page rendered as of start can have missed.
Missing(lost, start) == {e.id : e \in {x \in lost : x.id > start}}

\* The columns of a room's messages that the pages depend on.
Rows(M) ==
  /\ \A m \in M : /\ m.seq \in Nat /\ m.created_event_seq \in Nat /\ m.event_seq \in Nat
                  /\ m.created_event_seq <= m.event_seq
  /\ \A m, n \in M : m.seq = n.seq => m = n
  /\ \A m, n \in M : m.seq < n.seq => m.created_event_seq < n.created_event_seq

\* An event of a message shows it as of that event.
Tells(M, e) ==
  e.name = "msg" =>
    \E m \in M : /\ m.seq = e.element.seq
                 /\ e.element.event = e.id
                 /\ e.id <= m.event_seq
                 /\ m.created_event_seq <= e.id
                 /\ m.created_event_seq = e.id <=> ~e.oob

Has(list, x) == \E i \in DOMAIN list : list[i] = x

\* A list shows what was in the room as of event k, but for what is missing: its
\* messages in order, and each as of its last event if that is not a later one.
Covers(M, missing, list, k) ==
  /\ \A i, j \in DOMAIN list : i < j => list[i].seq < list[j].seq
  /\ \A i \in DOMAIN list :
       \E m \in M : m.seq = list[i].seq /\ m.created_event_seq <= k
  /\ \A m \in M :
       m.created_event_seq <= k =>
         Lists(list, m.seq) \/ m.created_event_seq \in missing
  /\ \A m \in M :
       m.event_seq <= k =>
         \/ Has(list, Rendered(m))
         \/ m.created_event_seq \in missing
         \/ m.event_seq \in missing

\* Event id of message m is one of those that are coming, or is lost.
Expected(m, id, coming, lost) ==
  \/ \E e \in coming : e.name = "msg" /\ e.id = id /\ e.element.seq = m.seq
  \/ \E e \in lost : e.id = id

\* What list does not show as of event k is coming, or lost.
Complete(M, coming, lost, k) ==
  \A m \in M :
    /\ m.created_event_seq > k => Expected(m, m.created_event_seq, coming, lost)
    /\ m.event_seq > k => Expected(m, m.event_seq, coming, lost)

Coming(b) == Announced \cup Queued(b)

\* Events come to a page in the order of their ids.
LineInv(b) ==
  /\ \A e \in Coming(b) : e.id <= LastEvent /\ Tells(MessagesOf(Room), e)
  /\ \A i, j \in DOMAIN conn[b].queue : i < j => conn[b].queue[i].id < conn[b].queue[j].id
  /\ \A e \in Queued(b), d \in Announced : e.id < d.id

\* The page t, with the stream c, shows the room as of event k, and has not been
\* told of a later one.
KeepsBy(M, lost, t, c, k) ==
  /\ t.start <= k /\ t.last <= k
  /\ Covers(M, Missing(lost, t.start), t.view, k)
  /\ t.pc \in {"opening", "subscribed", "snapshot"} => c.last <= k
  /\ t.pc = "snapshot" => k <= c.counter

Rendering == {"away", "loading"}

Keeps(b) ==
  /\ tab[b].pc = "loading" => tab[b].start <= LastEvent
  /\ tab[b].pc = "snapshot" => conn[b].counter <= LastEvent
  /\ tab[b].pc \notin Rendering =>
       \E k \in 0..LastEvent : KeepsBy(MessagesOf(Room), silent, tab[b], conn[b], k)

\* A stream that started from its snapshot brings the list to what the room is, one
\* event after the other.
FollowsBy(M, lost, coming, start, list, snapshot, k) ==
  /\ snapshot <= k
  /\ Covers(M, Missing(lost, start), list, k)
  /\ \A e \in coming : e.name = "msg" /\ e.id > snapshot => e.id > k

Follows(b) ==
  tab[b].pc \in HasSnapshot =>
    /\ tab[b].start <= conn[b].snapshot /\ conn[b].counter <= conn[b].snapshot
    /\ \E k \in 0..LastEvent :
         /\ FollowsBy(MessagesOf(Room), silent, Coming(b), tab[b].start, Page(b),
                      conn[b].snapshot, k)
         /\ ~Ending(b) => Complete(MessagesOf(Room), Coming(b), silent, k)

\* A stream on the room's channel gets what is newer than its snapshot, and a stream
\* on another channel nothing that is newer.
Hears(b) ==
  /\ tab[b].pc \in HasSnapshot /\ ~Ending(b) =>
       \A w \in Workers :
         /\ worker[w].pc = "sending"
         /\ worker[w].event.name = "msg" /\ worker[w].event.id > conn[b].snapshot
         => worker[w].chan = conn[b].chan
  /\ tab[b].pc \in {"snapshot"} \cup HasSnapshot /\ conn[b].chan # channel =>
       /\ \A e \in Queued(b) : e.id <= conn[b].counter
       /\ \A w \in Workers :
            worker[w].pc = "sending" /\ worker[w].chan = conn[b].chan =>
              worker[w].event.id <= conn[b].counter

CurrencyInv(b) == LineInv(b) /\ Keeps(b) /\ Follows(b) /\ Hears(b)

\* A handler in state s answers a page that sends edits, or none.
AnswersEditor(s) ==
  s.pc \in Announcing \/ (s.pc = "checked" /\ s.kind = "edit") =>
    s.origin \in Editors \cup {Outside}

\* Replies go to the pages that send edits.
RepliesInv ==
  /\ \A w \in Workers : AnswersEditor(worker[w])
  /\ \A b \in Browsers : reply[b] # NoReply => b \in Editors

DrainInv == RepliesInv /\ \A b \in Browsers \ Editors : CurrencyInv(b)

-----------------------------------------------------------------------------
(* Lists that cover the room. *)

LEMMA RowsOfTheRoom ==
  ASSUME IInv, Room \in DOMAIN rooms
  PROVE  /\ Rows(MessagesOf(Room))
         /\ LastEvent \in Nat
         /\ \A m \in MessagesOf(Room) : m.event_seq <= LastEvent
<1>1. \A m \in MessagesOf(Room) : m \in messages /\ m.room_id = Room
  BY DEF MessagesOf
<1>2. \A m \in MessagesOf(Room) :
        /\ m.seq \in Nat /\ m.created_event_seq \in Nat /\ m.event_seq \in Nat
        /\ m.created_event_seq \in 1..m.event_seq
        /\ m.event_seq <= LastEvent
  BY <1>1, Columns DEF IInv, EventIdsOrderTheRoom, LastEvent
<1>3. \A m, n \in MessagesOf(Room) : m.seq = n.seq => m = n
  BY <1>1 DEF IInv, TranscriptGapless
<1>4. \A m, n \in MessagesOf(Room) : m.seq < n.seq => m.created_event_seq < n.created_event_seq
  BY <1>1 DEF IInv, EventIdsOrderTheRoom
<1>5. LastEvent \in Nat
  BY Columns DEF IInv, LastEvent
<1> QED
  BY <1>2, <1>3, <1>4, <1>5 DEF Rows

\* What the room says is the room as of now.
LEMMA TranscriptCovers ==
  ASSUME IInv, Room \in DOMAIN rooms, NEW missing, NEW k \in Nat,
         \A m \in MessagesOf(Room) : m.event_seq <= k
  PROVE  Covers(MessagesOf(Room), missing, Transcript, k)
<1> DEFINE M == MessagesOf(Room)
           list == Transcript
<1>1. /\ DOMAIN list = 1..LastSeq
      /\ \A i \in 1..LastSeq : list[i].seq = i
      /\ \A m \in M : m.seq \in 1..LastSeq /\ list[m.seq] = Rendered(m)
  BY TranscriptIsTheRoom
<1>2. Rows(M) /\ LastSeq \in Nat
  BY RowsOfTheRoom, Columns DEF LastSeq, IInv
<1>3. \A i \in 1..LastSeq : \E m \in M : m.seq = i
  BY SeqRange DEF LastSeq, MessagesOf, IInv
<1> HIDE DEF M, list
<1>4. \A m \in M : m.created_event_seq <= k
  BY <1>2 DEF Rows, M
<1>5. \A i, j \in DOMAIN list : i < j => list[i].seq < list[j].seq
  BY <1>1, <1>2
<1>6. \A i \in DOMAIN list : \E m \in M : m.seq = list[i].seq /\ m.created_event_seq <= k
  BY <1>1, <1>3, <1>4
<1>7. \A m \in M : Lists(list, m.seq) /\ Has(list, Rendered(m))
  BY <1>1 DEF Lists, Has
<1> QED
  BY <1>5, <1>6, <1>7 DEF Covers, M, list

\* The rows after event e are those from before, but for the one that e is about.
Writes(M, N, e) ==
  /\ Rows(M) /\ Rows(N)
  /\ \A m \in M : \E n \in N :
       /\ n.seq = m.seq /\ n.created_event_seq = m.created_event_seq
       /\ m.event_seq <= n.event_seq
  /\ \A n \in N : n \notin M =>
       /\ e.name = "msg" /\ e.element.seq = n.seq /\ n.event_seq = e.id
       /\ \/ n.created_event_seq = e.id
          \/ \E m \in M : m.seq = n.seq /\ m.created_event_seq = n.created_event_seq
  /\ Tells(N, e)

LEMMA NothingWritten ==
  ASSUME NEW M, Rows(M), NEW e, e.name = "locked"
  PROVE  Writes(M, M, e)
BY DEF Writes, Rows, Tells

\* A later event does not concern what a list covers, nor does one that is lost.
LEMMA CoversLater ==
  ASSUME NEW M, NEW N, NEW e, Writes(M, N, e), NEW k \in Nat, e.id \in Nat, k < e.id,
         NEW list, NEW missing, NEW more, missing \subseteq more,
         Covers(M, missing, list, k)
  PROVE  Covers(N, more, list, k)
<1>1. \A i, j \in DOMAIN list : i < j => list[i].seq < list[j].seq
  BY DEF Covers
<1>2. \A i \in DOMAIN list : \E n \in N : n.seq = list[i].seq /\ n.created_event_seq <= k
  BY DEF Covers, Writes
<1>3. ASSUME NEW n \in N, n.created_event_seq <= k
      PROVE  Lists(list, n.seq) \/ n.created_event_seq \in more
  <2>1. n.created_event_seq # e.id
    BY <1>3 DEF Writes, Rows
  <2>2. \E m \in M : m.seq = n.seq /\ m.created_event_seq = n.created_event_seq
    BY <2>1 DEF Writes
  <2> QED
    BY <1>3, <2>2 DEF Covers
<1>4. ASSUME NEW n \in N, n.event_seq <= k
      PROVE  \/ Has(list, Rendered(n))
             \/ n.created_event_seq \in more
             \/ n.event_seq \in more
  <2>1. n \in M
    BY <1>4 DEF Writes, Rows
  <2> QED
    BY <1>4, <2>1 DEF Covers
<1> QED
  BY <1>1, <1>2, <1>3, <1>4 DEF Covers

LEMMA TellsLater ==
  ASSUME NEW M, NEW N, NEW e, Writes(M, N, e), NEW d \in Events, Tells(M, d)
  PROVE  Tells(N, d)
<1> SUFFICES ASSUME d.name = "msg" PROVE Tells(N, d)
  BY DEF Tells
<1>1. PICK m \in M : /\ m.seq = d.element.seq
                     /\ d.element.event = d.id
                     /\ d.id <= m.event_seq
                     /\ m.created_event_seq <= d.id
                     /\ m.created_event_seq = d.id <=> ~d.oob
  BY DEF Tells
<1>2. PICK n \in N : /\ n.seq = m.seq /\ n.created_event_seq = m.created_event_seq
                     /\ m.event_seq <= n.event_seq
  BY DEF Writes
<1>3. d.id \in Nat /\ m.event_seq \in Nat /\ n.event_seq \in Nat
  BY EventShapes DEF Events, Writes, Rows
<1>4. d.id <= n.event_seq
  BY <1>1, <1>2, <1>3
<1>5. n.created_event_seq = d.id <=> ~d.oob
  BY <1>1, <1>2
<1> QED
  BY <1>1, <1>2, <1>4, <1>5 DEF Tells

LEMMA CompleteLater ==
  ASSUME NEW M, NEW N, NEW e, Writes(M, N, e), NEW k,
         NEW coming, NEW more, NEW lost, NEW gone,
         coming \subseteq more, lost \subseteq gone, e \in more \/ e \in gone,
         Complete(M, coming, lost, k)
  PROVE  Complete(N, more, gone, k)
<1>1. ASSUME NEW m, NEW id, Expected(m, id, coming, lost), NEW n, n.seq = m.seq
      PROVE  Expected(n, id, more, gone)
  BY <1>1 DEF Expected
<1>2. ASSUME NEW n \in N, n \notin M
      PROVE  Expected(n, e.id, more, gone)
  BY <1>2 DEF Expected, Writes
<1>3. ASSUME NEW n \in N
      PROVE  /\ n.created_event_seq > k => Expected(n, n.created_event_seq, more, gone)
             /\ n.event_seq > k => Expected(n, n.event_seq, more, gone)
  <2>1. CASE n \in M
    BY <1>1, <2>1 DEF Complete
  <2>2. CASE n \notin M
    <3>1. n.event_seq = e.id
      BY <2>2 DEF Writes
    <3>2. n.created_event_seq # e.id =>
            \E m \in M : m.seq = n.seq /\ m.created_event_seq = n.created_event_seq
      BY <2>2 DEF Writes
    <3> QED
      BY <1>1, <1>2, <2>2, <3>1, <3>2 DEF Complete
  <2> QED
    BY <2>1, <2>2
<1> QED
  BY <1>3 DEF Complete

-----------------------------------------------------------------------------
(* What an event brings. *)

\* The event e comes next: what the list lacks of the room as of e is e itself, or
\* missing.
ComesNext(M, missing, k, e) ==
  /\ Rows(M) /\ Tells(M, e)
  /\ k < e.id
  /\ \A m \in M :
       /\ m.created_event_seq > k /\ m.created_event_seq <= e.id =>
            \/ e.name = "msg" /\ e.id = m.created_event_seq /\ e.element.seq = m.seq
            \/ m.created_event_seq \in missing
       /\ m.event_seq > k /\ m.event_seq <= e.id =>
            \/ e.name = "msg" /\ e.id = m.event_seq /\ e.element.seq = m.seq
            \/ m.event_seq \in missing

\* The element of an event is what its message looks like, if there is no later edit.
LEMMA ElementRendered ==
  ASSUME NEW M, NEW e \in MsgEvents, Rows(M), Tells(M, e),
         NEW m \in M, m.seq = e.element.seq, m.event_seq <= e.id
  PROVE  e.element = Rendered(m)
<1>1. e.name = "msg" /\ e.element \in Elements /\ e.id \in Nat
  BY EventShapes
<1>2. PICK n \in M : n.seq = e.element.seq /\ e.element.event = e.id /\ e.id <= n.event_seq
  BY <1>1 DEF Tells
<1>3. n = m
  BY <1>2 DEF Rows
<1>4. m.event_seq = e.id
  BY <1>1, <1>2, <1>3 DEF Rows
<1>5. e.element.seq = m.seq /\ e.element.event = m.event_seq
  BY <1>2, <1>3, <1>4
<1>6. e.element = [seq |-> e.element.seq, event |-> e.element.event]
  BY <1>1 DEF Elements
<1> QED
  BY <1>5, <1>6 DEF Rendered

\* A lock changes no message.
LEMMA LockedBrings ==
  ASSUME NEW M, NEW missing, NEW list, NEW k \in Nat, NEW e, e.id \in Nat,
         Covers(M, missing, list, k), ComesNext(M, missing, k, e), e.name = "locked"
  PROVE  Covers(M, missing, list, e.id)
<1>1. \A m \in M : /\ m.created_event_seq \in Nat /\ m.event_seq \in Nat
                   /\ m.created_event_seq <= m.event_seq
  BY DEF ComesNext, Rows
<1>2. \A m \in M :
        /\ m.created_event_seq <= e.id =>
             m.created_event_seq <= k \/ m.created_event_seq \in missing
        /\ m.event_seq <= e.id => m.event_seq <= k \/ m.event_seq \in missing
  BY <1>1 DEF ComesNext
<1>3. \A i \in DOMAIN list :
        \E m \in M : m.seq = list[i].seq /\ m.created_event_seq <= e.id
  BY <1>1 DEF Covers, ComesNext
<1> QED
  BY <1>2, <1>3 DEF Covers

\* A post comes behind everything that the list shows.
LEMMA PostBrings ==
  ASSUME NEW M, NEW missing, NEW list \in Seq(Elements), NEW k \in Nat,
         NEW e \in MsgEvents, IsPost(e),
         Covers(M, missing, list, k), ComesNext(M, missing, k, e)
  PROVE  Covers(M, missing, Append(list, e.element), e.id)
<1> DEFINE x == e.element
           new == Append(list, x)
<1>1. e.name = "msg" /\ e.id \in Nat /\ x \in Elements /\ x.seq \in Nat
  BY EventShapes
<1>2. ~e.oob
  BY Zenon DEF IsPost
<1>3. /\ Len(list) \in Nat /\ DOMAIN list = 1..Len(list) /\ DOMAIN new = 1..(Len(list) + 1)
      /\ \A i \in 1..Len(list) : new[i] = list[i]
      /\ new[Len(list) + 1] = x
  BY <1>1
<1>4. PICK p \in M : p.seq = x.seq /\ p.created_event_seq = e.id
  BY <1>1, <1>2 DEF ComesNext, Tells
<1> HIDE DEF new, x
<1>5. \A m \in M : /\ m.seq \in Nat /\ m.created_event_seq \in Nat /\ m.event_seq \in Nat
                   /\ m.created_event_seq <= m.event_seq
  BY DEF ComesNext, Rows
<1>6. ASSUME NEW i \in DOMAIN list PROVE list[i].seq < x.seq
  <2>1. PICK m \in M : m.seq = list[i].seq /\ m.created_event_seq <= k
    BY DEF Covers
  <2>2. m.created_event_seq < p.created_event_seq
    BY <1>1, <1>4, <1>5, <2>1 DEF ComesNext
  <2>3. ~(p.seq < m.seq) /\ p.seq # m.seq
    BY <1>4, <1>5, <2>2 DEF ComesNext, Rows
  <2> QED
    BY <1>4, <1>5, <2>1, <2>3
<1>7. \A i \in DOMAIN new : i \in DOMAIN list \/ i = Len(list) + 1
  BY <1>3
<1>8. \A i, j \in DOMAIN new : i < j => i \in DOMAIN list
  BY <1>3
<1>9. \A i \in DOMAIN list : new[i] = list[i] /\ i \in DOMAIN new
  BY <1>3
<1>10. \A i, j \in DOMAIN new : i < j => new[i].seq < new[j].seq
  BY <1>3, <1>6, <1>7, <1>8, <1>9 DEF Covers
<1>11. \A i \in DOMAIN new : \E m \in M : m.seq = new[i].seq /\ m.created_event_seq <= e.id
  <2> TAKE i \in DOMAIN new
  <2>1. CASE i \in DOMAIN list
    <3>1. PICK m \in M : m.seq = list[i].seq /\ m.created_event_seq <= k
      BY <2>1 DEF Covers
    <3> QED
      BY <1>1, <1>5, <1>9, <2>1, <3>1 DEF ComesNext
  <2>2. CASE i = Len(list) + 1
    BY <1>1, <1>3, <1>4, <2>2
  <2> QED
    BY <1>7, <2>1, <2>2
<1>12. /\ \A seq : Lists(list, seq) => Lists(new, seq)
       /\ Lists(new, x.seq)
  BY <1>3, <1>9 DEF Lists
<1>13. /\ \A y : Has(list, y) => Has(new, y)
       /\ Has(new, x)
  BY <1>3, <1>9 DEF Has
<1>14. ASSUME NEW m \in M, m.created_event_seq <= e.id
       PROVE  Lists(new, m.seq) \/ m.created_event_seq \in missing
  <2>1. CASE m.created_event_seq <= k
    BY <1>12, <2>1 DEF Covers
  <2>2. CASE m.created_event_seq > k
    BY <1>12, <1>14, <2>2 DEF ComesNext, x
  <2> QED
    BY <1>5, <2>1, <2>2
<1>15. ASSUME NEW m \in M, m.event_seq <= e.id
       PROVE  \/ Has(new, Rendered(m))
              \/ m.created_event_seq \in missing
              \/ m.event_seq \in missing
  <2>1. CASE m.event_seq <= k
    BY <1>13, <2>1 DEF Covers
  <2>2. CASE m.event_seq > k
    <3>1. CASE x.seq = m.seq
      <4>1. x = Rendered(m)
        BY <1>15, <3>1, ElementRendered DEF ComesNext, x
      <4> QED
        BY <1>13, <4>1
    <3>2. CASE m.event_seq \in missing
      BY <3>2
    <3> QED
      BY <1>15, <2>2, <3>1, <3>2 DEF ComesNext, x
  <2> QED
    BY <1>5, <2>1, <2>2
<1> QED
  BY <1>10, <1>11, <1>14, <1>15 DEF Covers, new, x

\* An edit finds its message on the list, unless the message is missing.
LEMMA EditBrings ==
  ASSUME NEW M, NEW missing, NEW list \in Seq(Elements), NEW k \in Nat,
         NEW e \in MsgEvents, ~IsPost(e),
         Covers(M, missing, list, k), ComesNext(M, missing, k, e)
  PROVE  Covers(M, missing, Swap(list, e.element), e.id)
<1> DEFINE x == e.element
           new == Swap(list, x)
<1>1. e.name = "msg" /\ e.id \in Nat /\ x \in Elements
  BY EventShapes
<1>2. e.oob
  BY <1>1, Zenon DEF IsPost
<1>3. /\ DOMAIN new = DOMAIN list
      /\ \A i \in DOMAIN list : new[i] = IF list[i].seq = x.seq THEN x ELSE list[i]
  BY DEF Swap
<1>4. \A i \in DOMAIN list : new[i].seq = list[i].seq
  BY <1>3
<1>5. PICK p \in M : /\ p.seq = x.seq
                     /\ p.created_event_seq <= e.id /\ p.created_event_seq # e.id
  BY <1>1, <1>2 DEF ComesNext, Tells
<1> HIDE DEF new, x
<1>6. \A m \in M : /\ m.created_event_seq \in Nat /\ m.event_seq \in Nat
                   /\ m.created_event_seq <= m.event_seq
  BY DEF ComesNext, Rows
<1>7. \A i, j \in DOMAIN new : i < j => new[i].seq < new[j].seq
  BY <1>3, <1>4 DEF Covers
<1>8. \A i \in DOMAIN new : \E m \in M : m.seq = new[i].seq /\ m.created_event_seq <= e.id
  <2> TAKE i \in DOMAIN new
  <2>1. PICK m \in M : m.seq = list[i].seq /\ m.created_event_seq <= k
    BY <1>3 DEF Covers
  <2> QED
    BY <1>1, <1>3, <1>4, <1>6, <2>1 DEF ComesNext
<1>9. \A seq : Lists(new, seq) <=> Lists(list, seq)
  BY <1>3, <1>4 DEF Lists
<1>10. \A m \in M : m.seq = x.seq => m = p
  BY <1>5 DEF ComesNext, Rows
<1>11. ASSUME NEW m \in M, m.created_event_seq <= e.id
       PROVE  Lists(new, m.seq) \/ m.created_event_seq \in missing
  <2>1. CASE m.created_event_seq <= k
    BY <1>9, <2>1 DEF Covers
  <2>2. CASE m.created_event_seq > k
    BY <1>5, <1>10, <1>11, <2>2 DEF ComesNext, x
  <2> QED
    BY <1>6, <2>1, <2>2
<1>12. ASSUME NEW m \in M, m.event_seq <= e.id
       PROVE  \/ Has(new, Rendered(m))
              \/ m.created_event_seq \in missing
              \/ m.event_seq \in missing
  <2>1. CASE m.seq = x.seq
    <3>1. x = Rendered(m)
      BY <1>12, <2>1, ElementRendered DEF ComesNext, x
    <3>2. m = p
      BY <1>10, <2>1
    <3>3. CASE Lists(list, m.seq)
      BY <1>3, <2>1, <3>1, <3>3 DEF Lists, Has
    <3>4. CASE ~Lists(list, m.seq)
      BY <1>5, <1>9, <1>11, <3>2, <3>4
    <3> QED
      BY <3>3, <3>4
  <2>2. CASE m.seq # x.seq
    <3>1. CASE m.event_seq <= k
      <4>1. CASE Has(list, Rendered(m))
        <5>1. Rendered(m).seq = m.seq
          BY DEF Rendered
        <5> QED
          BY <1>3, <2>2, <4>1, <5>1 DEF Has
      <4> QED
        BY <3>1, <4>1 DEF Covers
    <3>2. CASE m.event_seq > k
      BY <1>12, <2>2, <3>2 DEF ComesNext, x
    <3> QED
      BY <1>6, <3>1, <3>2
  <2> QED
    BY <2>1, <2>2
<1> QED
  BY <1>7, <1>8, <1>11, <1>12 DEF Covers, new, x

-----------------------------------------------------------------------------
(* The parts of the invariant after a step. *)

LEMMA LineAfter ==
  ASSUME NEW b \in Browsers,
         \A e \in Announced' \cup Queued(b)' :
           e.id <= LastEvent' /\ Tells(MessagesOf(Room)', e),
         \A i, j \in DOMAIN conn'[b].queue :
           i < j => conn'[b].queue[i].id < conn'[b].queue[j].id,
         \A e \in Queued(b)', d \in Announced' : e.id < d.id
  PROVE  LineInv(b)'
BY DEF LineInv, Coming, Tells

LEMMA KeepsAfter ==
  ASSUME NEW b \in Browsers,
         tab'[b].pc = "loading" => tab'[b].start <= LastEvent',
         tab'[b].pc = "snapshot" => conn'[b].counter <= LastEvent',
         tab'[b].pc \notin Rendering =>
           \E k \in 0..LastEvent' :
             KeepsBy(MessagesOf(Room)', silent', tab'[b], conn'[b], k)
  PROVE  Keeps(b)'
BY DEF Keeps, KeepsBy, Covers, Missing, Lists, Has, Rendered, Rendering

LEMMA FollowsAfter ==
  ASSUME NEW b \in Browsers,
         tab'[b].pc \in HasSnapshot =>
           /\ tab'[b].start <= conn'[b].snapshot /\ conn'[b].counter <= conn'[b].snapshot
           /\ \E k \in 0..LastEvent' :
                /\ FollowsBy(MessagesOf(Room)', silent', Announced' \cup Queued(b)',
                             tab'[b].start, Page(b)', conn'[b].snapshot, k)
                /\ ~Ending(b)' =>
                     Complete(MessagesOf(Room)', Announced' \cup Queued(b)', silent', k)
  PROVE  Follows(b)'
BY DEF Follows, FollowsBy, Complete, Expected, Coming, Covers, Missing, Lists, Has, Rendered,
       HasSnapshot

LEMMA HearsAfter ==
  ASSUME NEW b \in Browsers,
         tab'[b].pc \in HasSnapshot /\ ~Ending(b)' =>
           \A w \in Workers :
             /\ worker'[w].pc = "sending"
             /\ worker'[w].event.name = "msg" /\ worker'[w].event.id > conn'[b].snapshot
             => worker'[w].chan = conn'[b].chan,
         tab'[b].pc \in {"snapshot"} \cup HasSnapshot /\ conn'[b].chan # channel' =>
           /\ \A e \in Queued(b)' : e.id <= conn'[b].counter
           /\ \A w \in Workers :
                worker'[w].pc = "sending" /\ worker'[w].chan = conn'[b].chan =>
                  worker'[w].event.id <= conn'[b].counter
  PROVE  Hears(b)'
BY DEF Hears, HasSnapshot

-----------------------------------------------------------------------------
(* What a write does to the rows. *)

LEMMA InsertWrites ==
  ASSUME NEW M, Rows(M), NEW last \in Nat, \A m \in M : m.event_seq <= last,
         NEW n, n.seq \in Nat, \A m \in M : m.seq < n.seq,
         n.created_event_seq = last + 1, n.event_seq = last + 1
  PROVE  Writes(M, M \cup {n}, MsgEvent(n, FALSE))
<1>1. /\ MsgEvent(n, FALSE).id = last + 1 /\ MsgEvent(n, FALSE).name = "msg"
      /\ MsgEvent(n, FALSE).oob = FALSE
      /\ MsgEvent(n, FALSE).element = Rendered(n)
      /\ Rendered(n).seq = n.seq /\ Rendered(n).event = last + 1
  BY DEF MsgEvent, Rendered
<1>2. PICK e : e = MsgEvent(n, FALSE)
  OBVIOUS
<1>3. e.id = last + 1 /\ e.name = "msg" /\ e.element.seq = n.seq /\ e.element.event = last + 1
  BY <1>1, <1>2
<1>4. ~e.oob
  BY <1>1, <1>2
<1>5. Rows(M \cup {n})
  BY DEF Rows
<1>6. Tells(M \cup {n}, e)
  BY <1>3, <1>4 DEF Tells
<1>7. Writes(M, M \cup {n}, e)
  BY <1>3, <1>5, <1>6 DEF Writes, Rows
<1> QED
  BY <1>2, <1>7

LEMMA ReplaceWrites ==
  ASSUME NEW M, Rows(M), NEW last \in Nat, \A m \in M : m.event_seq <= last,
         NEW p \in M, NEW n, n.seq = p.seq, n.created_event_seq = p.created_event_seq,
         n.event_seq = last + 1
  PROVE  Writes(M, (M \ {p}) \cup {n}, MsgEvent(n, TRUE))
<1> DEFINE N == (M \ {p}) \cup {n}
<1>1. /\ MsgEvent(n, TRUE).id = last + 1 /\ MsgEvent(n, TRUE).name = "msg"
      /\ MsgEvent(n, TRUE).oob = TRUE
      /\ MsgEvent(n, TRUE).element = Rendered(n)
      /\ Rendered(n).seq = n.seq /\ Rendered(n).event = last + 1
  BY DEF MsgEvent, Rendered
<1>2. PICK e : e = MsgEvent(n, TRUE)
  OBVIOUS
<1>3. e.id = last + 1 /\ e.name = "msg" /\ e.element.seq = n.seq /\ e.element.event = last + 1
  BY <1>1, <1>2
<1>4. e.oob
  BY <1>1, <1>2
<1>5. p.created_event_seq \in Nat /\ p.created_event_seq <= last /\ p.seq \in Nat
  BY DEF Rows
<1>6. \A m \in N : m = n \/ (m \in M /\ m # p)
  OBVIOUS
<1>7. n \in N /\ \A m \in M : m = p \/ m \in N
  OBVIOUS
<1> HIDE DEF N
<1>8. Rows(N)
  BY <1>5, <1>6 DEF Rows
<1>9. Tells(N, e)
  BY <1>3, <1>4, <1>5, <1>7 DEF Tells
<1>10. \A m \in M : \E k \in N : /\ k.seq = m.seq /\ k.created_event_seq = m.created_event_seq
                                 /\ m.event_seq <= k.event_seq
  BY <1>7 DEF Rows
<1>11. \A k \in N : k \notin M =>
         /\ e.name = "msg" /\ e.element.seq = k.seq /\ k.event_seq = e.id
         /\ \E m \in M : m.seq = k.seq /\ m.created_event_seq = k.created_event_seq
  BY <1>3, <1>6
<1>12. Writes(M, N, e)
  BY <1>8, <1>9, <1>10, <1>11 DEF Writes
<1> QED
  BY <1>2, <1>12 DEF N

\* Event e is the next one of the room, and the rows are written for it.
Advances(e) ==
  /\ LastEvent \in Nat /\ LastEvent' = LastEvent + 1 /\ e.id = LastEvent'
  /\ Writes(MessagesOf(Room), MessagesOf(Room)', e)

LEMMA PostAdvances ==
  ASSUME IInv, Room \in DOMAIN rooms,
         NEW c \in Clients, NEW body \in Bodies, NEW now \in Time,
         NEW roll \in EvalRoll(rooms[Room], body.expr),
         PostMessage(Room, c, body, roll, now),
         NEW m \in messages' \ messages
  PROVE  Advances(MsgEvent(m, FALSE))
<1> DEFINE new == Posted(Room, c, body, roll, now)
<1>1. /\ Bumps(Room, 1, roll)
      /\ messages' = messages \cup {new}
      /\ new \in MessageRow
  BY PostMessageEffect DEF IInv
<1>2. /\ m = new
      /\ m.room_id = Room
      /\ m.seq = rooms[Room].seq_counter + 1
      /\ m.created_event_seq = LastEvent + 1
      /\ m.event_seq = LastEvent + 1
  BY <1>1 DEF Posted, LastEvent
<1>3. /\ LastEvent \in Nat /\ rooms[Room].seq_counter \in Nat
      /\ LastEvent' = LastEvent + 1
  BY <1>1, Columns DEF Bumps, IInv, LastEvent
<1> HIDE DEF new
<1>4. MessagesOf(Room)' = MessagesOf(Room) \cup {m}
  BY <1>1, <1>2 DEF MessagesOf
<1>5. /\ Rows(MessagesOf(Room))
      /\ \A n \in MessagesOf(Room) : n.event_seq <= LastEvent
  BY RowsOfTheRoom
<1>6. \A n \in MessagesOf(Room) : n.seq < m.seq
  <2>1. \A n \in MessagesOf(Room) : n.seq \in 1..LastSeq
    BY TranscriptIsTheRoom
  <2> QED
    BY <1>2, <1>3, <2>1 DEF LastSeq
<1>7. m.seq \in Nat
  BY <1>2, <1>3
<1>8. Writes(MessagesOf(Room), MessagesOf(Room) \cup {m}, MsgEvent(m, FALSE))
  BY <1>2, <1>3, <1>5, <1>6, <1>7, InsertWrites
<1>9. MsgEvent(m, FALSE).id = LastEvent + 1
  BY <1>2 DEF MsgEvent
<1> QED
  BY <1>3, <1>4, <1>8, <1>9 DEF Advances

LEMMA EditAdvances ==
  ASSUME IInv, Room \in DOMAIN rooms, NEW seq,
         NEW c \in Clients, NEW body \in Bodies, NEW now \in Time,
         NEW roll \in EvalRoll(rooms[Room], body.expr),
         EditMessage(Room, seq, c, body, roll, now),
         NEW m \in messages' \ messages
  PROVE  Advances(MsgEvent(m, TRUE))
<1> DEFINE row(k) == IF k.room_id = Room /\ k.seq = seq
                     THEN Edited(k, c, body, roll, now, rooms[Room].event_counter + 1)
                     ELSE k
<1>1. /\ Bumps(Room, 0, roll)
      /\ messages' = {row(k) : k \in messages}
      /\ \A k \in messages :
           /\ row(k) \in MessageRow
           /\ row(k).room_id = k.room_id
           /\ row(k).seq = k.seq
           /\ row(k).created_event_seq = k.created_event_seq
           /\ k.room_id = Room /\ k.seq = seq =>
                row(k).event_seq = rooms[Room].event_counter + 1
           /\ ~(k.room_id = Room /\ k.seq = seq) => row(k) = k
  BY EditMessageEffect DEF IInv
<1>2. LastEvent \in Nat /\ LastEvent' = LastEvent + 1
  BY <1>1, Columns DEF Bumps, IInv, LastEvent
<1> HIDE DEF row
<1>3. PICK p \in messages : m = row(p)
  BY <1>1
<1>4. p.room_id = Room /\ p.seq = seq /\ p \in MessagesOf(Room)
  BY <1>1, <1>3 DEF MessagesOf
<1>5. /\ m.seq = p.seq /\ m.created_event_seq = p.created_event_seq
      /\ m.event_seq = LastEvent + 1
  BY <1>1, <1>3, <1>4 DEF LastEvent
<1>6. /\ Rows(MessagesOf(Room))
      /\ \A n \in MessagesOf(Room) : n.event_seq <= LastEvent
  BY RowsOfTheRoom
<1>7. MessagesOf(Room)' = (MessagesOf(Room) \ {p}) \cup {m}
  <2>1. MessagesOf(Room)' = {row(k) : k \in MessagesOf(Room)}
    BY <1>1 DEF MessagesOf
  <2>2. \A k \in MessagesOf(Room) : k # p => row(k) = k /\ k \in messages
    BY <1>1, <1>4, <1>6 DEF MessagesOf, Rows
  <2>3. m \notin MessagesOf(Room) \ {p}
    BY DEF MessagesOf
  <2> QED
    BY <1>3, <1>4, <2>1, <2>2
<1>8. Writes(MessagesOf(Room), (MessagesOf(Room) \ {p}) \cup {m}, MsgEvent(m, TRUE))
  BY <1>2, <1>4, <1>5, <1>6, ReplaceWrites
<1>9. MsgEvent(m, TRUE).id = LastEvent + 1
  BY <1>5 DEF MsgEvent
<1> QED
  BY <1>2, <1>7, <1>8, <1>9 DEF Advances

LEMMA LockAdvances ==
  ASSUME IInv, Room \in DOMAIN rooms, NEW now \in Time, LockRoom(Room, now),
         NEW e, e = LockedEvent(rooms'[Room].event_counter)
  PROVE  Advances(e)
<1>1. Bumps(Room, 0, NoRoll) /\ messages' = messages
  BY LockRoomEffect DEF IInv
<1>2. LastEvent \in Nat /\ LastEvent' = LastEvent + 1
  BY <1>1, Columns DEF Bumps, IInv, LastEvent
<1>3. e.name = "locked" /\ e.id = LastEvent'
  BY DEF LockedEvent, LastEvent
<1>4. MessagesOf(Room)' = MessagesOf(Room)
  BY <1>1 DEF MessagesOf
<1>5. Writes(MessagesOf(Room), MessagesOf(Room), e)
  BY <1>3, RowsOfTheRoom, NothingWritten
<1> QED
  BY <1>2, <1>3, <1>4, <1>5 DEF Advances

-----------------------------------------------------------------------------
(* The handlers' steps and the page, while its stream stands still. *)

\* A step of a channel's users: a stream keeps hearing the same channel.
Holds(b) == tab[b].pc \in Subscribed /\ conn[b].chan = channel => channel' = channel

LEMMA CoversMissing ==
  ASSUME NEW M, NEW list, NEW k, NEW missing, NEW more, missing \subseteq more,
         Covers(M, missing, list, k)
  PROVE  Covers(M, more, list, k)
BY DEF Covers

LEMMA MissingGrows ==
  ASSUME NEW lost, NEW gone, lost \subseteq gone, NEW start
  PROVE  Missing(lost, start) \subseteq Missing(gone, start)
BY DEF Missing

\* Nothing that the invariant of page b speaks of has changed.
LEMMA QuietCurrency ==
  ASSUME LiveInv, Quiet, NEW b \in Browsers, Untouched(b), Holds(b), CurrencyInv(b)
  PROVE  CurrencyInv(b)'
<1>1. tab'[b] = tab[b] /\ conn'[b] = conn[b]
  BY DEF Untouched
<1>2. MessagesOf(Room)' = MessagesOf(Room) /\ LastEvent' = LastEvent
  BY QuietStore DEF LiveInv, Quiet, storeVars, LastEvent
<1>3. Announced' = Announced /\ silent' = silent /\ Queued(b)' = Queued(b)
  BY <1>1, QuietAnnounced DEF Queued
<1>4. tab[b].pc \in Connected => conn[b].chan \in 1..channels
  BY DEF LiveInv, StreamInv
<1>5. tab[b].pc \in {"snapshot"} \cup HasSnapshot =>
        tab[b].pc \in Subscribed /\ tab[b].pc \in Connected
  BY DEF HasSnapshot, Subscribed, Connected
<1>6. tab[b].pc \in HasSnapshot /\ ~Ending(b)' => ~Ending(b) /\ conn[b].chan = channel'
  BY <1>1, <1>4, <1>5 DEF Ending, Quiet
<1>7. LineInv(b)'
  BY <1>1, <1>2, <1>3, LineAfter DEF CurrencyInv, LineInv, Coming
<1>8. Keeps(b)'
  BY <1>1, <1>2, <1>3, KeepsAfter DEF CurrencyInv, Keeps
<1>9. Follows(b)'
  <2>1. Page(b)' = Page(b)
    BY <1>1 DEF Page
  <2>2. Follows(b)
    BY DEF CurrencyInv
  <2> QED
    BY <1>1, <1>2, <1>3, <1>6, <2>1, <2>2, FollowsAfter DEF Follows, Coming
<1>10. Hears(b)'
  <2>1. Hears(b)
    BY DEF CurrencyInv
  <2>2. \A w \in Workers :
          worker'[w].pc = "sending" =>
            /\ worker'[w].event = worker[w].event
            /\ \/ worker[w].pc = "sending" /\ worker'[w].chan = worker[w].chan
               \/ worker'[w].chan = channel'
    BY DEF Quiet, Announcing
  <2>3. tab[b].pc \in HasSnapshot /\ ~Ending(b)' =>
          \A w \in Workers :
            /\ worker'[w].pc = "sending"
            /\ worker'[w].event.name = "msg" /\ worker'[w].event.id > conn[b].snapshot
            => worker'[w].chan = conn[b].chan
    BY <1>6, <2>1, <2>2 DEF Hears
  <2>4. tab[b].pc \in {"snapshot"} \cup HasSnapshot /\ conn[b].chan # channel' =>
          conn[b].chan # channel
    BY <1>5 DEF Holds
  <2>5. tab[b].pc \in {"snapshot"} \cup HasSnapshot /\ conn[b].chan # channel' =>
          /\ \A e \in Queued(b) : e.id <= conn[b].counter
          /\ \A w \in Workers :
               worker'[w].pc = "sending" /\ worker'[w].chan = conn[b].chan =>
                 worker'[w].event.id <= conn[b].counter
    BY <2>1, <2>2, <2>4 DEF Hears
  <2> QED
    BY <1>1, <1>3, <2>3, <2>5, HearsAfter
<1> QED
  BY <1>7, <1>8, <1>9, <1>10 DEF CurrencyInv

\* What is committed now is later than all that the page shows, and on its way.
LEMMA CommitsCurrency ==
  ASSUME LiveInv, NEW e \in Events, Commits(e), Advances(e), NEW b \in Browsers,
         CurrencyInv(b)
  PROVE  CurrencyInv(b)'
<1> DEFINE M == MessagesOf(Room)
           N == MessagesOf(Room)'
<1>1. /\ Announced \subseteq Announced' /\ Announced' \subseteq Announced \cup {e}
      /\ e \in Announced' \cup silent'
      /\ \A w \in Workers : worker'[w].pc = "sending" => worker'[w] = worker[w]
  BY CommitsAnnounced
<1>2. tab' = tab /\ conn' = conn /\ channel' = channel /\ silent \subseteq silent'
  BY DEF Commits
<1>3. LastEvent \in Nat /\ LastEvent' = LastEvent + 1 /\ e.id = LastEvent + 1 /\ Writes(M, N, e)
  BY DEF Advances
<1>4. Queued(b)' = Queued(b)
  BY <1>2 DEF Queued
<1>5. \A d \in Coming(b) : d \in Events
  <2>1. \A d \in Announced : d \in Events
    BY HandlerShapes DEF Announced, LiveInv
  <2>2. \A d \in Queued(b) : d \in Events
    BY StreamShapes DEF Queued, LiveInv
  <2> QED
    BY <2>1, <2>2 DEF Coming
<1>6. \A d \in Coming(b) : d.id \in Nat /\ d.id <= LastEvent /\ Tells(M, d)
  BY <1>5, EventShapes DEF CurrencyInv, LineInv, Events
<1> HIDE DEF M, N
<1>7. Tells(N, e)
  BY <1>3 DEF Writes
<1>8. LineInv(b)'
  <2>1. \A d \in Coming(b) : d.id <= LastEvent' /\ Tells(N, d)
    BY <1>3, <1>5, <1>6, TellsLater
  <2>2. \A d \in Announced' \cup Queued(b)' : d \in Coming(b) \/ d = e
    BY <1>1, <1>4 DEF Coming
  <2>3. \A d \in Announced' \cup Queued(b)' : d.id <= LastEvent' /\ Tells(N, d)
    BY <1>3, <1>7, <2>1, <2>2
  <2>4. \A d \in Queued(b) : d.id < e.id
    BY <1>3, <1>6 DEF Coming
  <2>5. \A d \in Queued(b)', c \in Announced' : d.id < c.id
    BY <1>1, <1>4, <2>4 DEF CurrencyInv, LineInv
  <2> QED
    BY <1>2, <2>3, <2>5, LineAfter DEF CurrencyInv, LineInv, N
<1>9. ASSUME NEW start, NEW list, NEW k \in 0..LastEvent,
             Covers(M, Missing(silent, start), list, k)
      PROVE  Covers(N, Missing(silent', start), list, k)
  <2>1. Missing(silent, start) \subseteq Missing(silent', start)
    BY <1>2, MissingGrows
  <2> QED
    BY <1>3, <1>9, <2>1, CoversLater
<1>10. Keeps(b)'
  <2>1. Keeps(b)
    BY DEF CurrencyInv
  <2>2. ASSUME NEW k \in 0..LastEvent, KeepsBy(M, silent, tab[b], conn[b], k)
        PROVE  k \in 0..LastEvent' /\ KeepsBy(N, silent', tab[b], conn[b], k)
    BY <1>3, <1>9, <2>2 DEF KeepsBy
  <2>3. tab[b].start \in Nat /\ conn[b].counter \in Nat
    BY StreamShapes DEF LiveInv
  <2>4. /\ tab[b].pc = "loading" => tab[b].start <= LastEvent'
        /\ tab[b].pc = "snapshot" => conn[b].counter <= LastEvent'
    BY <1>3, <2>1, <2>3 DEF Keeps
  <2>5. tab[b].pc \notin Rendering =>
          \E k \in 0..LastEvent' : KeepsBy(N, silent', tab[b], conn[b], k)
    BY <2>1, <2>2 DEF Keeps, M
  <2> QED
    BY <1>2, <2>4, <2>5, KeepsAfter DEF N
<1>11. Follows(b)'
  <2>1. SUFFICES ASSUME tab[b].pc \in HasSnapshot PROVE Follows(b)'
    BY <1>2, FollowsAfter
  <2>2. Page(b)' = Page(b) /\ (Ending(b)' <=> Ending(b))
    BY <1>2 DEF Page, Ending
  <2>3. PICK k \in 0..LastEvent :
          /\ FollowsBy(M, silent, Coming(b), tab[b].start, Page(b), conn[b].snapshot, k)
          /\ ~Ending(b) => Complete(M, Coming(b), silent, k)
    BY <2>1 DEF CurrencyInv, Follows, M
  <2>4. FollowsBy(N, silent', Announced' \cup Queued(b)', tab[b].start, Page(b),
                  conn[b].snapshot, k)
    <3>1. Covers(N, Missing(silent', tab[b].start), Page(b), k)
      BY <1>9, <2>3 DEF FollowsBy
    <3>2. \A d \in Announced' \cup Queued(b)' : d \in Coming(b) \/ d = e
      BY <1>1, <1>4 DEF Coming
    <3>3. e.id > k
      BY <1>3
    <3> QED
      BY <2>3, <3>1, <3>2, <3>3 DEF FollowsBy
  <2>5. ~Ending(b) => Complete(N, Announced' \cup Queued(b)', silent', k)
    <3>1. Coming(b) \subseteq Announced' \cup Queued(b)'
      BY <1>1, <1>4 DEF Coming
    <3> QED
      BY <1>1, <1>2, <1>3, <2>3, <3>1, CompleteLater
  <2>6. k \in 0..LastEvent'
    BY <1>3
  <2> QED
    BY <1>2, <2>1, <2>2, <2>4, <2>5, <2>6, FollowsAfter DEF CurrencyInv, Follows, N
<1>12. Hears(b)'
  <2>1. Ending(b)' <=> Ending(b)
    BY <1>2 DEF Ending
  <2> QED
    BY <1>1, <1>2, <1>4, <2>1, HearsAfter DEF CurrencyInv, Hears
<1> QED
  BY <1>8, <1>10, <1>11, <1>12 DEF CurrencyInv

\* A later loss makes fewer events come, and excuses what they would have brought.
LEMMA AbandonCurrency ==
  ASSUME LiveInv, NEW w \in Workers, Abandon(w), NEW b \in Browsers, CurrencyInv(b)
  PROVE  CurrencyInv(b)'
<1> DEFINE e == worker[w].event
           M == MessagesOf(Room)
<1>1. /\ silent' = silent \cup {e}
      /\ UNCHANGED <<storeVars, channel, conn, tab>>
      /\ MessagesOf(Room)' = M /\ LastEvent' = LastEvent
  BY DEF Abandon, MessagesOf, LastEvent, storeVars
<1>2. Finishes(w)
  BY DEF Abandon, Finishes, Announcing
<1>3. /\ \A v \in Workers : worker'[v].pc \in Announcing => worker'[v] = worker[v]
      /\ Announced \subseteq Announced' \cup {e} /\ Announced' \subseteq Announced
  BY <1>2, FinishesHandlers
<1>4. Queued(b)' = Queued(b)
  BY <1>1 DEF Queued
<1> HIDE DEF e, M
<1>5. LineInv(b)'
  BY <1>1, <1>3, <1>4, LineAfter DEF CurrencyInv, LineInv, Coming, M
<1>6. \A start : Missing(silent, start) \subseteq Missing(silent', start)
  BY <1>1, MissingGrows
<1>7. Keeps(b)'
  <2>1. ASSUME NEW k, KeepsBy(M, silent, tab[b], conn[b], k)
        PROVE  KeepsBy(M, silent', tab[b], conn[b], k)
    BY <1>6, <2>1, CoversMissing DEF KeepsBy
  <2> QED
    BY <1>1, <2>1, KeepsAfter DEF CurrencyInv, Keeps, M
<1>8. Follows(b)'
  <2>1. SUFFICES ASSUME tab[b].pc \in HasSnapshot PROVE Follows(b)'
    BY <1>1, FollowsAfter
  <2>2. Page(b)' = Page(b) /\ (Ending(b)' <=> Ending(b))
    BY <1>1 DEF Page, Ending
  <2>3. PICK k \in 0..LastEvent :
          /\ FollowsBy(M, silent, Coming(b), tab[b].start, Page(b), conn[b].snapshot, k)
          /\ ~Ending(b) => Complete(M, Coming(b), silent, k)
    BY <2>1 DEF CurrencyInv, Follows, M
  <2>4. FollowsBy(M, silent', Announced' \cup Queued(b)', tab[b].start, Page(b),
                  conn[b].snapshot, k)
    BY <1>3, <1>4, <1>6, <2>3, CoversMissing DEF FollowsBy, Coming
  <2>5. ~Ending(b) => Complete(M, Announced' \cup Queued(b)', silent', k)
    <3>1. ASSUME NEW m, NEW id, Expected(m, id, Coming(b), silent)
          PROVE  Expected(m, id, Announced' \cup Queued(b)', silent')
      BY <1>1, <1>3, <1>4, <3>1 DEF Expected, Coming
    <3> QED
      BY <2>3, <3>1 DEF Complete
  <2> QED
    BY <1>1, <2>1, <2>2, <2>3, <2>4, <2>5, FollowsAfter DEF CurrencyInv, Follows, M
<1>9. Hears(b)'
  <2>1. Ending(b)' <=> Ending(b)
    BY <1>1 DEF Ending
  <2>2. \A v \in Workers : worker'[v].pc = "sending" => worker'[v] = worker[v]
    BY <1>3 DEF Announcing
  <2> QED
    BY <1>1, <1>4, <2>1, <2>2, HearsAfter DEF CurrencyInv, Hears
<1> QED
  BY <1>5, <1>7, <1>8, <1>9 DEF CurrencyInv

LEMMA PushKeeps ==
  ASSUME NEW c \in ConnStates, NEW e \in Events
  PROVE  Push(c, e).last = c.last /\ Push(c, e).counter = c.counter
<1>1. CASE Len(c.queue) < Capacity
  BY <1>1 DEF Push, ConnStates
<1>2. CASE ~(Len(c.queue) < Capacity)
  BY <1>2 DEF Push, ConnStates
<1> QED
  BY <1>1, <1>2

\* A queue stays in order when a later event joins it.
LEMMA SentInOrder ==
  ASSUME LiveInv, NEW w \in Workers, Send(w), NEW b \in Browsers, LineInv(b)
  PROVE  /\ \A i, j \in DOMAIN conn'[b].queue :
              i < j => conn'[b].queue[i].id < conn'[b].queue[j].id
         /\ conn'[b].last = conn[b].last /\ conn'[b].counter = conn[b].counter
         /\ conn'[b].chan # worker[w].chan \/ tab[b].pc \notin Subscribed =>
              conn'[b] = conn[b]
<1> DEFINE e == worker[w].event
           c == conn[b]
           p == Push(c, e)
<1>1. /\ worker[w].pc = "sending" /\ worker[w].pc \in Announcing
      /\ conn' = [a \in Browsers |->
           IF a \in Receivers(worker[w].chan) THEN Push(conn[a], e) ELSE conn[a]]
  BY DEF Send, Announcing
<1>2. c \in ConnStates /\ e \in Events
  BY <1>1, StreamShapes, HandlerShapes DEF LiveInv
<1>3. \A i \in DOMAIN c.queue : c.queue[i].id < e.id
  BY <1>1 DEF LineInv, Queued, Announced
<1>4. \A i, j \in DOMAIN c.queue : i < j => c.queue[i].id < c.queue[j].id
  BY DEF LineInv
<1>5. CASE b \in Receivers(worker[w].chan)
  <2>1. conn'[b] = p
    BY <1>1, <1>5
  <2>2. /\ p.chan = c.chan
        /\ Len(p.queue) \in Nat /\ DOMAIN p.queue = 1..Len(p.queue)
        /\ p.queue[Len(p.queue)] = e
        /\ \E k \in {0, 1} : \A i \in DOMAIN p.queue :
             i # Len(p.queue) => i + k \in DOMAIN c.queue /\ p.queue[i] = c.queue[i + k]
    BY <1>2, PushShape
  <2>3. p.last = c.last /\ p.counter = c.counter
    BY <1>2, PushKeeps
  <2>4. c.chan = worker[w].chan /\ tab[b].pc \in Subscribed
    BY <1>5 DEF Receivers
  <2> HIDE DEF p, e, c
  <2>5. PICK k \in {0, 1} : \A i \in DOMAIN p.queue :
          i # Len(p.queue) => i + k \in DOMAIN c.queue /\ p.queue[i] = c.queue[i + k]
    BY <2>2
  <2>6. ASSUME NEW i \in DOMAIN p.queue, NEW j \in DOMAIN p.queue, i < j
        PROVE  p.queue[i].id < p.queue[j].id
    <3>1. /\ i \in Nat /\ j \in Nat /\ j <= Len(p.queue) /\ i # Len(p.queue)
          /\ i + k < j + k
      BY <2>2, <2>6
    <3>2. i + k \in DOMAIN c.queue /\ p.queue[i] = c.queue[i + k]
      BY <2>5, <3>1
    <3>3. CASE j = Len(p.queue)
      BY <1>3, <2>2, <3>2, <3>3
    <3>4. CASE j # Len(p.queue)
      BY <1>4, <2>5, <3>1, <3>2, <3>4
    <3> QED
      BY <3>3, <3>4
  <2> QED
    BY <2>1, <2>2, <2>3, <2>4, <2>6 DEF c
<1>6. CASE b \notin Receivers(worker[w].chan)
  <2>1. conn'[b] = c
    BY <1>1, <1>6
  <2> QED
    BY <1>4, <2>1
<1> QED
  BY <1>5, <1>6

\* The only handler has sent what it announced: a stream that it concerns has it.
LEMMA SendCurrency ==
  ASSUME LiveInv, NEW w \in Workers, \A v \in Workers : v = w, Send(w),
         NEW b \in Browsers, CurrencyInv(b)
  PROVE  CurrencyInv(b)'
<1> DEFINE e == worker[w].event
           M == MessagesOf(Room)
<1>1. /\ worker[w].pc = "sending" /\ worker[w].pc \in Announcing
      /\ UNCHANGED <<storeVars, channel, tab, silent>>
      /\ MessagesOf(Room)' = M /\ LastEvent' = LastEvent
  BY DEF Send, Announcing, MessagesOf, LastEvent, storeVars
<1>2. Finishes(w)
  BY DEF Send, Finishes, Announcing
<1>3. Announced \subseteq Announced' \cup {e}
  BY <1>2, FinishesHandlers
<1>4. \A v \in Workers : worker'[v].pc \notin Announcing
  BY <1>2, FinishesHandlers
<1>5. Announced' = {}
  BY <1>4 DEF Announced
<1>6. e \in Coming(b) /\ e \in Announced
  BY <1>1 DEF Announced, Coming
<1>7. /\ conn'[b].chan = conn[b].chan /\ conn'[b].snapshot = conn[b].snapshot
      /\ conn'[b].refresh = conn[b].refresh
      /\ Queued(b)' \subseteq Queued(b) \cup {e}
      /\ ~conn'[b].lagged =>
           /\ ~conn[b].lagged
           /\ Queued(b) \subseteq Queued(b)'
           /\ conn[b].chan = worker[w].chan /\ tab[b].pc \in Subscribed => e \in Queued(b)'
  BY SentQueue
<1>8. /\ \A i, j \in DOMAIN conn'[b].queue :
           i < j => conn'[b].queue[i].id < conn'[b].queue[j].id
      /\ conn'[b].last = conn[b].last /\ conn'[b].counter = conn[b].counter
      /\ conn'[b].chan # worker[w].chan \/ tab[b].pc \notin Subscribed =>
           conn'[b] = conn[b]
  BY SentInOrder DEF CurrencyInv
<1>9. worker[w].pc = "sending" /\ tab' = tab
  BY <1>1
<1> HIDE DEF e, M
<1>10. Announced' \cup Queued(b)' \subseteq Coming(b)
  BY <1>5, <1>6, <1>7 DEF Coming
<1>11. LineInv(b)'
  <2>1. \A d \in Announced' \cup Queued(b)' : d.id <= LastEvent /\ Tells(M, d)
    BY <1>10 DEF CurrencyInv, LineInv, M
  <2> QED
    BY <1>1, <1>5, <1>8, <2>1, LineAfter
<1>12. Keeps(b)'
  <2>1. ASSUME NEW k, KeepsBy(M, silent, tab[b], conn[b], k)
        PROVE  KeepsBy(M, silent, tab[b], conn'[b], k)
    BY <1>8, <2>1 DEF KeepsBy
  <2> QED
    BY <1>1, <1>8, <2>1, KeepsAfter DEF CurrencyInv, Keeps, M
<1>13. Follows(b)'
  <2>1. SUFFICES ASSUME tab[b].pc \in HasSnapshot PROVE Follows(b)'
    BY <1>1, FollowsAfter
  <2>2. Page(b)' = Page(b)
    BY <1>1, <1>7 DEF Page
  <2>3. ~Ending(b)' => ~Ending(b) /\ ~conn'[b].lagged
    BY <1>1, <1>7 DEF Ending
  <2>4. PICK k \in 0..LastEvent :
          /\ FollowsBy(M, silent, Coming(b), tab[b].start, Page(b), conn[b].snapshot, k)
          /\ ~Ending(b) => Complete(M, Coming(b), silent, k)
    BY <2>1 DEF CurrencyInv, Follows, M
  <2>5. FollowsBy(M, silent, Announced' \cup Queued(b)', tab[b].start, Page(b),
                  conn[b].snapshot, k)
    BY <1>10, <2>4 DEF FollowsBy
  <2>6. ASSUME ~Ending(b)' PROVE Complete(M, Announced' \cup Queued(b)', silent, k)
    <3>1. tab[b].pc \in Subscribed
      BY <2>1 DEF HasSnapshot, Subscribed
    <3>2. e.name = "msg" /\ e.id > conn[b].snapshot => e \in Queued(b)'
      BY <1>7, <1>9, <2>1, <2>3, <2>6, <3>1 DEF CurrencyInv, Hears, e
    <3>3. \A d \in Coming(b) : d \in Announced' \cup Queued(b)' \/ d = e
      BY <1>3, <1>7, <2>3, <2>6 DEF Coming
    <3>4. conn[b].snapshot \in Nat /\ conn[b].snapshot <= k /\ k \in Nat
      <4>1. LastEvent \in Nat
        BY RowsOfTheRoom DEF LiveInv
      <4> QED
        BY <2>4, <4>1, StreamShapes DEF FollowsBy, LiveInv
    <3>5. ASSUME NEW m, NEW id \in Nat, id > k, Expected(m, id, Coming(b), silent)
          PROVE  Expected(m, id, Announced' \cup Queued(b)', silent)
      <4>1. id > conn[b].snapshot
        BY <3>4, <3>5
      <4> QED
        BY <3>2, <3>3, <3>5, <4>1 DEF Expected
    <3>6. \A m \in M : m.created_event_seq \in Nat /\ m.event_seq \in Nat
      BY RowsOfTheRoom DEF LiveInv, Rows, M
    <3>7. Complete(M, Coming(b), silent, k)
      BY <2>3, <2>4, <2>6
    <3> QED
      BY <3>5, <3>6, <3>7 DEF Complete
  <2>7. tab[b].start <= conn[b].snapshot /\ conn[b].counter <= conn[b].snapshot
    BY <2>1 DEF CurrencyInv, Follows
  <2> QED
    BY <1>1, <1>7, <1>8, <2>2, <2>5, <2>6, <2>7, FollowsAfter DEF M
<1>14. Hears(b)'
  <2>1. \A v \in Workers : worker'[v].pc # "sending"
    BY <1>4 DEF Announcing
  <2>2. ASSUME tab[b].pc \in {"snapshot"} \cup HasSnapshot, conn[b].chan # channel
        PROVE  \A d \in Queued(b)' : d.id <= conn[b].counter
    <3>1. \A d \in Queued(b) : d.id <= conn[b].counter
      BY <2>2 DEF CurrencyInv, Hears
    <3>2. CASE conn[b].chan = worker[w].chan
      <4>1. e.id <= conn[b].counter
        BY <1>9, <2>2, <3>2 DEF CurrencyInv, Hears, e
      <4> QED
        BY <1>7, <3>1, <4>1
    <3>3. CASE conn[b].chan # worker[w].chan
      <4>1. conn'[b] = conn[b]
        BY <1>7, <1>8, <3>3
      <4> QED
        BY <3>1, <4>1 DEF Queued
    <3> QED
      BY <3>2, <3>3
  <2> QED
    BY <1>1, <1>7, <1>8, <2>1, <2>2, HearsAfter
<1> QED
  BY <1>11, <1>12, <1>13, <1>14 DEF CurrencyInv

\* What a page shows survives the server.
LEMMA RestartCurrency ==
  ASSUME LiveInv, Restart, NEW b \in Browsers, CurrencyInv(b)
  PROVE  CurrencyInv(b)'
<1>1. /\ worker' = [w \in Workers |-> Idle]
      /\ conn' = [a \in Browsers |-> Closed]
      /\ UNCHANGED <<storeVars, silent>>
      /\ MessagesOf(Room)' = MessagesOf(Room) /\ LastEvent' = LastEvent
  BY DEF Restart, MessagesOf, LastEvent, storeVars
<1>2. Announced' = {}
  BY <1>1 DEF Announced, Announcing, Idle
<1>3. conn'[b] = Closed /\ Closed.queue = <<>>
  BY <1>1, ClosedShape
<1>4. Queued(b)' = {}
  BY <1>3 DEF Queued
<1>5. LineInv(b)'
  BY <1>2, <1>3, <1>4, LineAfter
<1> DEFINE old == tab[b]
<1>6. \/ tab'[b].pc = "away"
      \/ /\ old.pc \notin Rendering
         /\ tab'[b].pc = "offline" /\ tab'[b].view = old.view
         /\ tab'[b].start = old.start /\ tab'[b].last = old.last
  <2>1. CASE old.pc \in {"away", "loading"}
    <3>1. tab'[b] = Away
      BY <2>1 DEF Restart
    <3> QED
      BY <3>1, AwayShape
  <2>2. CASE old.pc \notin {"away", "loading"}
    <3>1. tab'[b] = [old EXCEPT !.pc = "offline"] /\ old \in TabStates
      BY <2>2, StreamShapes DEF Restart, LiveInv
    <3> HIDE DEF old
    <3> QED
      BY <2>2, <3>1 DEF TabStates, Rendering
  <2> QED
    BY <2>1, <2>2
<1> HIDE DEF old
<1>7. Keeps(b)'
  <2>1. tab'[b].pc # "loading" /\ tab'[b].pc # "snapshot"
    BY <1>6
  <2>2. tab'[b].pc \notin Rendering =>
          \E k \in 0..LastEvent' : KeepsBy(MessagesOf(Room)', silent', tab'[b], conn'[b], k)
    BY <1>1, <1>6 DEF CurrencyInv, Keeps, KeepsBy, Rendering, old
  <2> QED
    BY <2>1, <2>2, KeepsAfter
<1>8. Follows(b)'
  BY <1>6, FollowsAfter DEF HasSnapshot
<1>9. Hears(b)'
  BY <1>6, HearsAfter DEF HasSnapshot
<1> QED
  BY <1>5, <1>7, <1>8, <1>9 DEF CurrencyInv

-----------------------------------------------------------------------------
(* The steps of a page and of its stream. *)

\* Page b or its stream goes on.
PageGoesOn ==
  UNCHANGED <<storeVars, worker, silent>> /\ (TakeSender \/ ChannelsStay)

LEMMA PageGoesOnQuiet ==
  ASSUME LiveInv, PageGoesOn
  PROVE  /\ Quiet
         /\ channel # NoChannel => channel' = channel
         /\ MessagesOf(Room)' = MessagesOf(Room) /\ LastEvent' = LastEvent
         /\ Announced' = Announced /\ silent' = silent /\ worker' = worker
<1>1. LiveTypeOK
  BY DEF LiveInv
<1>2. /\ channels \in Nat /\ channels' \in Nat /\ channels <= channels'
      /\ \A g \in 1..channels : g = channel' => g = channel
      /\ channel # NoChannel => channel' = channel
  <2>1. CASE TakeSender
    <3>1. /\ channel' = Channel
          /\ channels' \in Nat /\ channels <= channels'
          /\ \A g \in 1..channels : g = channel' => g = channel
      BY <1>1, <2>1, ChannelTaken
    <3> QED
      BY <1>1, <3>1 DEF LiveTypeOK, Channel
  <2>2. CASE ChannelsStay
    BY <1>1, <2>2 DEF LiveTypeOK, ChannelsStay
  <2> QED
    BY <2>1, <2>2 DEF PageGoesOn
<1>3. UNCHANGED <<storeVars, worker, silent>>
  BY DEF PageGoesOn
<1>4. Quiet
  BY <1>2, <1>3 DEF Quiet
<1> QED
  BY <1>2, <1>3, <1>4, QuietAnnounced DEF MessagesOf, LastEvent, storeVars

\* A step of page b is none of any other page.
LEMMA OtherPages ==
  ASSUME LiveInv, PageGoesOn, NEW b \in Browsers, Untouched(b), CurrencyInv(b)
  PROVE  CurrencyInv(b)'
<1>1. Quiet /\ (channel # NoChannel => channel' = channel)
  BY PageGoesOnQuiet
<1>2. Holds(b)
  <2>1. tab[b].pc \in Subscribed => conn[b].chan \in 1..channels
    BY DEF LiveInv, StreamInv, Connected
  <2>2. \A g \in 1..channels : g # NoChannel
    BY LiveAssumption
  <2> QED
    BY <1>1, <2>1, <2>2 DEF Holds
<1> QED
  BY <1>1, <1>2, QuietCurrency

\* A page without a snapshot, whose queue is what it was or empty.
LEMMA NoSnapshotCurrency ==
  ASSUME LiveInv, PageGoesOn, NEW b \in Browsers, CurrencyInv(b),
         tab'[b].pc \notin {"snapshot"} \cup HasSnapshot,
         conn'[b].queue = <<>> \/ conn'[b].queue = conn[b].queue,
         tab'[b].pc = "loading" => tab'[b].start <= LastEvent,
         tab'[b].pc \notin Rendering =>
           \E k \in 0..LastEvent :
             KeepsBy(MessagesOf(Room), silent, tab'[b], conn'[b], k)
  PROVE  CurrencyInv(b)'
<1>1. /\ MessagesOf(Room)' = MessagesOf(Room) /\ LastEvent' = LastEvent
      /\ Announced' = Announced /\ silent' = silent
  BY PageGoesOnQuiet
<1>2. LineInv(b)'
  <2>1. CASE conn'[b].queue = <<>>
    <3>1. Queued(b)' = {}
      BY <2>1 DEF Queued
    <3> QED
      BY <1>1, <2>1, <3>1, LineAfter DEF CurrencyInv, LineInv, Coming
  <2>2. CASE conn'[b].queue = conn[b].queue
    <3>1. Queued(b)' = Queued(b)
      BY <2>2 DEF Queued
    <3> QED
      BY <1>1, <2>2, <3>1, LineAfter DEF CurrencyInv, LineInv, Coming
  <2> QED
    BY <2>1, <2>2
<1>3. Keeps(b)'
  BY <1>1, KeepsAfter
<1>4. Follows(b)'
  BY FollowsAfter
<1>5. Hears(b)'
  BY HearsAfter
<1> QED
  BY <1>2, <1>3, <1>4, <1>5 DEF CurrencyInv

LEMMA LoadRoomRowCurrency ==
  ASSUME LiveInv, NEW b \in Browsers, LoadRoomRow(b), CurrencyInv(b)
  PROVE  CurrencyInv(b)'
<1>1. PageGoesOn /\ conn' = conn
  BY DEF LoadRoomRow, PageGoesOn, ChannelsStay
<1>2. LastEvent \in Nat
  BY RowsOfTheRoom DEF LiveInv
<1>3. tab'[b] = [Away EXCEPT !.pc = "loading", !.start = LastEvent,
                             !.composer = IF Unlocked THEN "open" ELSE "locked"]
  BY DEF LoadRoomRow, LiveInv, LiveTypeOK, LastEvent
<1>4. tab'[b].pc = "loading" /\ tab'[b].start = LastEvent
  BY <1>3 DEF Away
<1> QED
  BY <1>1, <1>2, <1>4, NoSnapshotCurrency DEF HasSnapshot, Rendering

\* The page is rendered from what the room is, or newer than the row it read.
LEMMA LoadMessagesCurrency ==
  ASSUME LiveInv, NEW b \in Browsers, LoadMessages(b), CurrencyInv(b)
  PROVE  CurrencyInv(b)'
<1> DEFINE seq == SnapshotSeq(tab[b].start, Transcript)
           old == tab[b]
           t == [old EXCEPT !.pc = "offline", !.view = Transcript,
                            !.start = seq, !.last = seq]
<1>1. PageGoesOn /\ conn' = conn /\ old.pc = "loading"
  BY DEF LoadMessages, PageGoesOn, ChannelsStay
<1>2. old \in TabStates /\ old.start \in Nat
  BY StreamShapes DEF LiveInv
<1>3. tab'[b] = t
  BY DEF LoadMessages, LiveInv, LiveTypeOK
<1>4. old.start <= LastEvent
  BY <1>1 DEF CurrencyInv, Keeps
<1>5. /\ seq \in 0..LastEvent
      /\ \A m \in MessagesOf(Room) : m.event_seq <= seq
  <2>1. LastEvent \in Nat
    BY RowsOfTheRoom DEF LiveInv
  <2> QED
    BY <1>2, <1>4, <2>1, SnapshotCovers DEF LiveInv, LastEvent
<1> HIDE DEF seq, old
<1>6. /\ t.pc = "offline" /\ t.view = Transcript
      /\ t.start = seq /\ t.last = seq
  BY <1>2 DEF TabStates
<1>7. Covers(MessagesOf(Room), Missing(silent, seq), Transcript, seq)
  <2>1. seq \in Nat
    BY <1>5
  <2> QED
    BY <1>5, <2>1, TranscriptCovers DEF LiveInv
<1>8. KeepsBy(MessagesOf(Room), silent, t, conn[b], seq)
  BY <1>5, <1>6, <1>7 DEF KeepsBy
<1> QED
  BY <1>1, <1>3, <1>5, <1>6, <1>8, NoSnapshotCurrency DEF HasSnapshot

\* The stream is told of an event that the page has been told of, or of the one that
\* it was rendered with.
LEMMA ConnectCurrency ==
  ASSUME LiveInv, NEW b \in Browsers, Connect(b), CurrencyInv(b)
  PROVE  CurrencyInv(b)'
<1>1. PICK last \in {tab[b].last, tab[b].start} :
        conn' = [conn EXCEPT ![b] = [Closed EXCEPT !.chan = Channel, !.last = last]]
  BY DEF Connect
<1> DEFINE old == tab[b]
           c == [Closed EXCEPT !.chan = Channel, !.last = last]
           t == [old EXCEPT !.pc = "opening"]
<1>2. PageGoesOn /\ old.pc = "offline"
  BY DEF Connect, PageGoesOn
<1>3. old \in TabStates /\ conn'[b] = c /\ tab'[b] = t
  BY <1>1, StreamShapes DEF Connect, LiveInv, LiveTypeOK
<1>4. c.queue = <<>> /\ c.last = last
  BY DEF Closed
<1>5. PICK k \in 0..LastEvent : KeepsBy(MessagesOf(Room), silent, old, conn[b], k)
  BY <1>2 DEF CurrencyInv, Keeps, Rendering
<1>6. last <= k
  BY <1>5 DEF KeepsBy
<1> HIDE DEF old, c
<1>7. /\ t.pc = "opening" /\ t.view = old.view
      /\ t.start = old.start /\ t.last = old.last
  BY <1>3 DEF TabStates
<1>8. KeepsBy(MessagesOf(Room), silent, t, c, k)
  BY <1>4, <1>5, <1>6, <1>7 DEF KeepsBy
<1> QED
  BY <1>2, <1>3, <1>4, <1>7, <1>8, NoSnapshotCurrency DEF HasSnapshot

LEMMA SubscribeCurrency ==
  ASSUME LiveInv, NEW b \in Browsers, Subscribe(b), CurrencyInv(b)
  PROVE  CurrencyInv(b)'
<1> DEFINE old == tab[b]
           t == [old EXCEPT !.pc = "subscribed"]
<1>1. PageGoesOn /\ conn' = conn /\ old.pc = "opening"
  BY DEF Subscribe, PageGoesOn, ChannelsStay
<1>2. old \in TabStates /\ tab'[b] = t
  BY StreamShapes DEF Subscribe, LiveInv, LiveTypeOK
<1>3. PICK k \in 0..LastEvent : KeepsBy(MessagesOf(Room), silent, old, conn[b], k)
  BY <1>1 DEF CurrencyInv, Keeps, Rendering
<1> HIDE DEF old
<1>4. /\ t.pc = "subscribed" /\ t.view = old.view
      /\ t.start = old.start /\ t.last = old.last
  BY <1>2 DEF TabStates
<1>5. KeepsBy(MessagesOf(Room), silent, t, conn[b], k)
  BY <1>1, <1>3, <1>4 DEF KeepsBy
<1> QED
  BY <1>1, <1>2, <1>4, <1>5, NoSnapshotCurrency DEF HasSnapshot

LEMMA DisconnectedCurrency ==
  ASSUME LiveInv, NEW b \in Browsers, Disconnected(b), tab[b].pc \in Connected,
         UNCHANGED <<storeVars, worker, channel, channels, silent>>, CurrencyInv(b)
  PROVE  CurrencyInv(b)'
<1> DEFINE old == tab[b]
           t == [old EXCEPT !.pc = "offline"]
<1>1. PageGoesOn /\ old.pc \notin Rendering
  BY DEF PageGoesOn, ChannelsStay, Rendering, Connected, Subscribed
<1>2. old \in TabStates /\ tab'[b] = t /\ conn'[b] = Closed /\ Closed.queue = <<>>
  BY StreamShapes, ClosedShape DEF Disconnected, LiveInv, LiveTypeOK
<1>3. PICK k \in 0..LastEvent : KeepsBy(MessagesOf(Room), silent, old, conn[b], k)
  BY <1>1 DEF CurrencyInv, Keeps
<1> HIDE DEF old
<1>4. /\ t.pc = "offline" /\ t.view = old.view
      /\ t.start = old.start /\ t.last = old.last
  BY <1>2 DEF TabStates
<1>5. KeepsBy(MessagesOf(Room), silent, t, Closed, k)
  BY <1>3, <1>4 DEF KeepsBy
<1> QED
  BY <1>1, <1>2, <1>4, <1>5, NoSnapshotCurrency DEF HasSnapshot

\* The queue is what it was.
LEMMA SameLine ==
  ASSUME LiveInv, PageGoesOn, NEW b \in Browsers, CurrencyInv(b),
         conn'[b].queue = conn[b].queue
  PROVE  LineInv(b)' /\ Queued(b)' = Queued(b)
<1>1. Queued(b)' = Queued(b)
  BY DEF Queued
<1>2. /\ MessagesOf(Room)' = MessagesOf(Room) /\ LastEvent' = LastEvent
      /\ Announced' = Announced
  BY PageGoesOnQuiet
<1> QED
  BY <1>1, <1>2, LineAfter DEF CurrencyInv, LineInv, Coming

\* Nothing is on its way yet that is newer than the second look at the room.
LEMMA ReadRoomCurrency ==
  ASSUME LiveInv, NEW b \in Browsers, ReadRoom(b), CurrencyInv(b)
  PROVE  CurrencyInv(b)'
<1> DEFINE old == tab[b]
           oldc == conn[b]
           t == [old EXCEPT !.pc = "snapshot"]
           c == [oldc EXCEPT !.counter = LastEvent, !.unlocked = Unlocked]
<1>1. PageGoesOn /\ old.pc = "subscribed"
  BY DEF ReadRoom, PageGoesOn, ChannelsStay
<1>2. old \in TabStates /\ oldc \in ConnStates /\ tab'[b] = t /\ conn'[b] = c
  BY StreamShapes DEF ReadRoom, LiveInv, LiveTypeOK, LastEvent
<1>3. PICK k \in 0..LastEvent : KeepsBy(MessagesOf(Room), silent, old, oldc, k)
  BY <1>1 DEF CurrencyInv, Keeps, Rendering
<1>4. /\ MessagesOf(Room)' = MessagesOf(Room) /\ LastEvent' = LastEvent
      /\ silent' = silent /\ worker' = worker
  BY <1>1, PageGoesOnQuiet
<1>5. LastEvent \in Nat
  BY RowsOfTheRoom DEF LiveInv
<1> HIDE DEF old, oldc
<1>6. /\ t.pc = "snapshot" /\ t.view = old.view
      /\ t.start = old.start /\ t.last = old.last
  BY <1>2 DEF TabStates
<1>7. c.queue = oldc.queue /\ c.last = oldc.last /\ c.counter = LastEvent
  BY <1>2 DEF ConnStates
<1> HIDE DEF t, c
<1>8. LineInv(b)' /\ Queued(b)' = Queued(b)
  BY <1>1, <1>2, <1>7, SameLine DEF oldc
<1>9. Keeps(b)'
  <2>1. KeepsBy(MessagesOf(Room), silent, t, c, k)
    BY <1>1, <1>3, <1>5, <1>6, <1>7 DEF KeepsBy
  <2> QED
    BY <1>2, <1>4, <1>5, <1>6, <1>7, <2>1, KeepsAfter
<1>10. Follows(b)'
  BY <1>2, <1>6, FollowsAfter DEF HasSnapshot
<1>11. Hears(b)'
  <2>1. \A e \in Queued(b)' : e.id <= conn'[b].counter
    BY <1>2, <1>7, <1>8 DEF CurrencyInv, LineInv, Coming
  <2>2. \A w \in Workers : worker'[w].pc = "sending" => worker'[w].event.id <= conn'[b].counter
    BY <1>2, <1>4, <1>7 DEF CurrencyInv, LineInv, Coming, Announced, Announcing
  <2> QED
    BY <1>2, <1>6, <2>1, <2>2, HearsAfter DEF HasSnapshot
<1> QED
  BY <1>8, <1>9, <1>10, <1>11 DEF CurrencyInv

\* The snapshot is the room as of the latest event that it shows; a page that is not
\* behind shows the same.
LEMMA ReadMessagesCurrency ==
  ASSUME LiveInv, NEW b \in Browsers, ReadMessages(b), CurrencyInv(b)
  PROVE  CurrencyInv(b)'
<1> DEFINE M == MessagesOf(Room)
           seq == SnapshotSeq(conn[b].counter, Transcript)
           behind == conn[b].last < seq
           old == tab[b]
           oldc == conn[b]
           page == IF behind THEN Transcript ELSE <<>>
           next == IF behind THEN "refresh" ELSE "live"
           t == [old EXCEPT !.pc = next]
           c == [oldc EXCEPT !.snapshot = seq, !.refresh = page]
<1>1. PageGoesOn /\ old.pc = "snapshot"
  BY DEF ReadMessages, PageGoesOn, ChannelsStay
<1>2. old \in TabStates /\ oldc \in ConnStates /\ tab'[b] = t /\ conn'[b] = c
  BY StreamShapes DEF ReadMessages, LiveInv, LiveTypeOK
<1>3. PICK k \in 0..LastEvent : KeepsBy(M, silent, old, oldc, k)
  BY <1>1 DEF CurrencyInv, Keeps, Rendering
<1>4. /\ MessagesOf(Room)' = M /\ LastEvent' = LastEvent
      /\ silent' = silent /\ worker' = worker /\ Announced' = Announced
  BY <1>1, PageGoesOnQuiet
<1>5. LastEvent \in Nat /\ Rows(M)
  BY RowsOfTheRoom DEF LiveInv
<1>6. /\ seq \in Nat /\ oldc.counter <= seq /\ seq <= LastEvent
      /\ \A m \in M : m.created_event_seq <= seq /\ m.event_seq <= seq
  <2>1. oldc.counter \in Nat
    BY StreamShapes DEF LiveInv
  <2>2. oldc.counter <= LastEvent
    BY <1>1 DEF CurrencyInv, Keeps
  <2> QED
    BY <2>1, <2>2, SnapshotCovers DEF LiveInv, LastEvent
<1>7. Covers(M, Missing(silent, old.start), Transcript, seq)
  BY <1>6, TranscriptCovers DEF LiveInv
<1>8. oldc.last \in Nat /\ oldc.counter \in Nat /\ old.start \in Nat
  BY <1>2 DEF ConnStates, TabStates
<1> HIDE DEF seq, old, oldc, M
<1>9. /\ t.pc = next /\ t.view = old.view
      /\ t.start = old.start /\ t.last = old.last
  BY <1>2 DEF TabStates
<1>10. /\ c.queue = oldc.queue /\ c.last = oldc.last /\ c.counter = oldc.counter
       /\ c.chan = oldc.chan /\ c.snapshot = seq /\ c.refresh = page
  BY <1>2 DEF ConnStates
<1>11. behind <=> oldc.last < seq
  BY DEF oldc
<1>12. page = IF behind THEN Transcript ELSE <<>>
  OBVIOUS
<1>13. (behind => next = "refresh") /\ (~behind => next = "live")
  OBVIOUS
<1> HIDE DEF t, c, page, next, behind
<1>14. LineInv(b)' /\ Queued(b)' = Queued(b)
  BY <1>1, <1>2, <1>10, SameLine DEF oldc
<1>15. next \in HasSnapshot /\ next # "snapshot" /\ next # "loading"
       /\ next \notin {"opening", "subscribed", "snapshot"}
  BY <1>13 DEF HasSnapshot
<1>16. Keeps(b)'
  <2>1. KeepsBy(M, silent, t, c, k)
    BY <1>3, <1>9, <1>15 DEF KeepsBy
  <2> QED
    BY <1>2, <1>4, <1>9, <1>15, <2>1, KeepsAfter
<1>17. Follows(b)'
  <2>1. old.start <= seq /\ k <= seq
    BY <1>1, <1>3, <1>5, <1>6, <1>8 DEF KeepsBy
  <2>2. Covers(M, Missing(silent, old.start), Page(b)', seq)
    <3>1. CASE behind
      BY <1>2, <1>7, <1>9, <1>10, <1>12, <1>13, <3>1 DEF Page
    <3>2. CASE ~behind
      <4>1. k = seq
        BY <1>1, <1>3, <1>5, <1>6, <1>8, <1>11, <2>1, <3>2 DEF KeepsBy
      <4>2. Page(b)' = old.view
        BY <1>2, <1>9, <1>13, <3>2 DEF Page
      <4> QED
        BY <1>3, <4>1, <4>2 DEF KeepsBy
    <3> QED
      BY <3>1, <3>2
  <2>3. FollowsBy(M, silent, Announced' \cup Queued(b)', old.start, Page(b)', seq, seq)
    BY <1>6, <2>2 DEF FollowsBy
  <2>4. Complete(M, Announced' \cup Queued(b)', silent, seq)
    BY <1>5, <1>6 DEF Complete, Rows
  <2>5. seq \in 0..LastEvent
    BY <1>5, <1>6
  <2> QED
    BY <1>2, <1>4, <1>6, <1>9, <1>10, <2>1, <2>3, <2>4, <2>5, FollowsAfter
<1>18. Hears(b)'
  <2>1. \A w \in Workers : worker[w].pc = "sending" /\ worker[w].event.name = "msg" =>
          ~(worker[w].event.id > seq)
    <3>1. ASSUME NEW w \in Workers, worker[w].pc = "sending", worker[w].event.name = "msg"
          PROVE  worker[w].event.id <= seq /\ worker[w].event.id \in Nat
      <4>1. worker[w].pc \in Announcing /\ worker[w].event \in Announced
        BY <3>1 DEF Announced, Announcing
      <4>2. worker[w].event \in Events
        BY <4>1, HandlerShapes DEF LiveInv
      <4>3. PICK d \in Events : d = worker[w].event
        BY <4>2
      <4>4. Tells(M, d) /\ d.name = "msg"
        BY <3>1, <4>1, <4>3 DEF CurrencyInv, LineInv, Coming, M
      <4>5. d.id \in Nat
        BY EventShapes DEF Events
      <4>6. PICK m \in M : d.id <= m.event_seq
        BY <4>4 DEF Tells
      <4>7. m.event_seq <= seq /\ m.event_seq \in Nat
        BY <1>5, <1>6 DEF Rows
      <4> QED
        BY <1>6, <4>3, <4>5, <4>6, <4>7
    <3> QED
      BY <1>6, <3>1
  <2>2. conn[b].chan # channel =>
          /\ \A e \in Queued(b) : e.id <= oldc.counter
          /\ \A w \in Workers :
               worker[w].pc = "sending" /\ worker[w].chan = oldc.chan =>
                 worker[w].event.id <= oldc.counter
    BY <1>1 DEF CurrencyInv, Hears, old, oldc
  <2>3. channel' = channel
    BY DEF ReadMessages
  <2>4. oldc.chan # channel => conn[b].chan # channel
    BY DEF oldc
  <2>5. \A w \in Workers : worker'[w].pc = "sending" /\ worker'[w].event.name = "msg" =>
          ~(worker'[w].event.id > conn'[b].snapshot)
    BY <1>2, <1>4, <1>10, <2>1
  <2>6. conn'[b].chan # channel' =>
          /\ \A e \in Queued(b)' : e.id <= conn'[b].counter
          /\ \A w \in Workers :
               worker'[w].pc = "sending" /\ worker'[w].chan = conn'[b].chan =>
                 worker'[w].event.id <= conn'[b].counter
    BY <1>2, <1>4, <1>10, <1>14, <2>2, <2>3, <2>4
  <2> QED
    BY <2>5, <2>6, HearsAfter
<1> QED
  BY <1>14, <1>16, <1>17, <1>18 DEF CurrencyInv

LEMMA RefreshCurrency ==
  ASSUME LiveInv, NEW b \in Browsers, Refresh(b), CurrencyInv(b)
  PROVE  CurrencyInv(b)'
<1> DEFINE M == MessagesOf(Room)
           old == tab[b]
           t == [old EXCEPT !.pc = "live", !.view = conn[b].refresh, !.last = conn[b].snapshot]
<1>1. PageGoesOn /\ conn' = conn /\ old.pc = "refresh" /\ channel' = channel
  BY DEF Refresh, PageGoesOn, ChannelsStay
<1>2. old \in TabStates /\ tab'[b] = t
  BY StreamShapes DEF Refresh, LiveInv, LiveTypeOK
<1>3. /\ MessagesOf(Room)' = M /\ LastEvent' = LastEvent
      /\ silent' = silent /\ worker' = worker /\ Announced' = Announced
  BY <1>1, PageGoesOnQuiet
<1>4. LineInv(b)' /\ Queued(b)' = Queued(b)
  BY <1>1, SameLine
<1>5. /\ old.start <= conn[b].snapshot /\ conn[b].counter <= conn[b].snapshot
      /\ \E k \in 0..LastEvent :
           /\ FollowsBy(M, silent, Coming(b), old.start, Page(b), conn[b].snapshot, k)
           /\ ~Ending(b) => Complete(M, Coming(b), silent, k)
  BY <1>1 DEF CurrencyInv, Follows, HasSnapshot
<1>6. PICK k \in 0..LastEvent :
           /\ FollowsBy(M, silent, Coming(b), old.start, Page(b), conn[b].snapshot, k)
           /\ ~Ending(b) => Complete(M, Coming(b), silent, k)
  BY <1>5
<1>7. Page(b) = conn[b].refresh
  BY <1>1 DEF Page
<1>8. conn[b].snapshot \in Nat /\ old.start \in Nat /\ LastEvent \in Nat
  BY StreamShapes, RowsOfTheRoom DEF LiveInv
<1> HIDE DEF old, M
<1>9. /\ t.pc = "live" /\ t.view = conn[b].refresh
      /\ t.start = old.start /\ t.last = conn[b].snapshot
  BY <1>2 DEF TabStates
<1> HIDE DEF t
<1>10. Page(b)' = Page(b) /\ (Ending(b)' <=> Ending(b))
  BY <1>1, <1>2, <1>7, <1>9 DEF Page, Ending
<1>11. Keeps(b)'
  <2>1. old.start <= k
    BY <1>5, <1>6, <1>8 DEF FollowsBy
  <2>2. KeepsBy(M, silent, t, conn[b], k)
    BY <1>6, <1>7, <1>9, <2>1 DEF KeepsBy, FollowsBy
  <2> QED
    BY <1>1, <1>2, <1>3, <1>9, <2>2, KeepsAfter
<1>12. Follows(b)'
  BY <1>1, <1>2, <1>3, <1>4, <1>5, <1>6, <1>9, <1>10, FollowsAfter DEF Coming
<1>13. Hears(b)'
  <2>1. tab[b].pc \in HasSnapshot
    BY <1>1 DEF HasSnapshot, old
  <2> QED
    BY <1>1, <1>3, <1>4, <1>10, <2>1, HearsAfter DEF CurrencyInv, Hears
<1> QED
  BY <1>4, <1>11, <1>12, <1>13 DEF CurrencyInv

LEMMA ApplyKeeps ==
  ASSUME NEW t \in TabStates, NEW e \in Events
  PROVE  Apply(t, e).start = t.start /\ Apply(t, e).last = e.id
<1>1. CASE e \in LockedEvents
  <2>1. Apply(t, e) = [t EXCEPT !.composer = "locked", !.last = e.id]
    BY <1>1, EventShapes DEF Apply
  <2> QED
    BY <2>1 DEF TabStates
<1>2. CASE e \in MsgEvents
  <2>1. e.name = "msg"
    BY <1>2, EventShapes
  <2>2. CASE e.oob
    <3> DEFINE view == Swap(t.view, e.element)
    <3>1. Apply(t, e) = [t EXCEPT !.view = view, !.last = e.id]
      BY <2>1, <2>2 DEF Apply
    <3> HIDE DEF view
    <3> QED
      BY <3>1 DEF TabStates
  <2>3. CASE ~e.oob
    <3> DEFINE view == Append(t.view, e.element)
    <3>1. Apply(t, e) = [t EXCEPT !.view = view, !.last = e.id]
      BY <2>1, <2>3 DEF Apply
    <3> HIDE DEF view
    <3> QED
      BY <3>1 DEF TabStates
  <2> QED
    BY <2>2, <2>3
<1> QED
  BY <1>1, <1>2 DEF Events

\* An event that comes next makes the page what the room was as of it.
LEMMA EventBrings ==
  ASSUME NEW M, NEW missing, NEW t \in TabStates, NEW k \in Nat, NEW e \in Events,
         Covers(M, missing, t.view, k), ComesNext(M, missing, k, e)
  PROVE  Covers(M, missing, Apply(t, e).view, e.id)
<1>1. t.view \in Seq(Elements)
  BY DEF TabStates
<1>2. CASE e \in LockedEvents
  <2>1. Apply(t, e).view = t.view
    BY <1>2, ApplyShape
  <2> QED
    BY <1>2, <2>1, EventShapes, LockedBrings
<1>3. CASE e \in MsgEvents /\ IsPost(e)
  <2>1. Apply(t, e).view = Append(t.view, e.element)
    BY <1>3, ApplyShape
  <2> QED
    BY <1>1, <1>3, <2>1, PostBrings
<1>4. CASE e \in MsgEvents /\ ~IsPost(e)
  <2>1. Apply(t, e).view = Swap(t.view, e.element)
    BY <1>4, ApplyShape
  <2> QED
    BY <1>1, <1>4, <2>1, EditBrings
<1> QED
  BY <1>2, <1>3, <1>4 DEF Events

\* The head of a queue is older than everything else on its way.
LEMMA HeadComesFirst ==
  ASSUME LiveInv, NEW b \in Browsers, conn[b].queue # <<>>, Quiet, LineInv(b),
         conn'[b].queue = Tail(conn[b].queue)
  PROVE  /\ Head(conn[b].queue) \in Events
         /\ Coming(b) = {Head(conn[b].queue)} \cup Announced \cup Queued(b)'
         /\ \A d \in Announced \cup Queued(b)' : Head(conn[b].queue).id < d.id
         /\ \A i, j \in DOMAIN conn'[b].queue :
              i < j => conn'[b].queue[i].id < conn'[b].queue[j].id
<1> DEFINE q == conn[b].queue
           rest == Tail(q)
<1>1. Head(q) \in Events /\ Queued(b) = {Head(q)} \cup Queued(b)'
  BY QueueTail
<1>2. q \in Seq(Events)
  BY StreamShapes DEF LiveInv
<1>3. /\ Head(q) = q[1] /\ 1 \in DOMAIN q
      /\ rest \in Seq(Events) /\ Len(rest) \in Nat /\ Len(q) \in Nat
      /\ Len(rest) = Len(q) - 1
      /\ DOMAIN rest = 1..Len(rest) /\ DOMAIN q = 1..Len(q)
      /\ \A i \in 1..Len(rest) : rest[i] = q[i + 1]
  BY <1>2, HeadTailProperties
<1>4. \A i, j \in DOMAIN q : i < j => q[i].id < q[j].id
  BY DEF LineInv
<1>5. \A d \in Announced : Head(q).id < d.id
  BY <1>1 DEF LineInv
<1> HIDE DEF q, rest
<1>6. \A i \in DOMAIN rest : i \in Nat /\ i + 1 \in DOMAIN q /\ 1 < i + 1 /\ rest[i] = q[i + 1]
  BY <1>3
<1>7. \A i \in DOMAIN rest : q[1].id < rest[i].id
  BY <1>3, <1>4, <1>6
<1>8. \A i, j \in DOMAIN rest : i < j => rest[i].id < rest[j].id
  <2> TAKE i, j \in DOMAIN rest
  <2> HAVE i < j
  <2>1. i + 1 < j + 1
    BY <1>6
  <2> QED
    BY <1>4, <1>6, <2>1
<1>9. conn'[b].queue = rest
  BY DEF q, rest
<1>10. Queued(b)' = {rest[i] : i \in DOMAIN rest}
  BY <1>9 DEF Queued
<1>11. Coming(b) = {Head(q)} \cup Announced \cup Queued(b)'
  BY <1>1 DEF Coming
<1> QED
  BY <1>1, <1>3, <1>5, <1>7, <1>8, <1>9, <1>10, <1>11 DEF q

\* What a live stream takes from its queue comes next, unless its page has it.
LEMMA HeadComesNext ==
  ASSUME LiveInv, NEW b \in Browsers, tab[b].pc = "live", ~conn[b].lagged,
         CurrencyInv(b),
         NEW e \in Events, e \in Queued(b), \A d \in Coming(b) : d = e \/ e.id < d.id,
         NEW k \in 0..LastEvent, tab[b].start <= k, conn[b].snapshot <= k,
         conn[b].counter <= conn[b].snapshot, k < e.id,
         ~Ending(b) => Complete(MessagesOf(Room), Coming(b), silent, k)
  PROVE  ComesNext(MessagesOf(Room), Missing(silent, tab[b].start), k, e)
<1> DEFINE M == MessagesOf(Room)
           missing == Missing(silent, tab[b].start)
<1>1. LastEvent \in Nat /\ Rows(M)
  BY RowsOfTheRoom DEF LiveInv
<1>2. /\ conn[b].snapshot \in Nat /\ conn[b].counter \in Nat /\ tab[b].start \in Nat
      /\ e.id \in Nat /\ k \in Nat
  BY <1>1, StreamShapes, EventShapes DEF LiveInv, Events
<1>3. ~Ending(b)
  <2> SUFFICES ASSUME conn[b].chan # channel PROVE FALSE
    BY DEF Ending
  <2>1. e.id <= conn[b].counter
    BY DEF CurrencyInv, Hears, HasSnapshot
  <2> QED
    BY <1>2, <2>1
<1>4. Complete(M, Coming(b), silent, k) /\ Tells(M, e)
  BY <1>3 DEF CurrencyInv, LineInv, Coming
<1>5. \A d \in Coming(b) : d.id \in Nat
  <2>1. \A d \in Announced : d \in Events
    BY HandlerShapes DEF Announced, LiveInv
  <2>2. \A d \in Queued(b) : d \in Events
    BY StreamShapes DEF Queued, LiveInv
  <2> QED
    BY <2>1, <2>2, EventShapes DEF Coming, Events
<1> HIDE DEF M
<1>6. ASSUME NEW m, NEW id \in Nat, Expected(m, id, Coming(b), silent), id > k, id <= e.id
      PROVE  \/ e.name = "msg" /\ e.id = id /\ e.element.seq = m.seq
             \/ id \in missing
  <2>1. CASE \E d \in Coming(b) : d.name = "msg" /\ d.id = id /\ d.element.seq = m.seq
    BY <1>2, <1>5, <1>6, <2>1
  <2>2. CASE \E d \in silent : d.id = id
    <3>1. id > tab[b].start
      BY <1>2, <1>6
    <3> QED
      BY <2>2, <3>1 DEF Missing
  <2> QED
    BY <1>6, <2>1, <2>2 DEF Expected
<1>7. \A m \in M : m.created_event_seq \in Nat /\ m.event_seq \in Nat
  BY <1>1 DEF Rows
<1> HIDE DEF missing
<1>8. ASSUME NEW m \in M, m.created_event_seq > k, m.created_event_seq <= e.id
      PROVE  \/ e.name = "msg" /\ e.id = m.created_event_seq /\ e.element.seq = m.seq
             \/ m.created_event_seq \in missing
  BY <1>4, <1>6, <1>7, <1>8 DEF Complete
<1>9. ASSUME NEW m \in M, m.event_seq > k, m.event_seq <= e.id
      PROVE  \/ e.name = "msg" /\ e.id = m.event_seq /\ e.element.seq = m.seq
             \/ m.event_seq \in missing
  BY <1>4, <1>6, <1>7, <1>9 DEF Complete
<1> QED
  BY <1>1, <1>4, <1>8, <1>9 DEF ComesNext, M, missing

\* A live page is brought forward by every event that its stream lets through.
LEMMA DeliverCurrency ==
  ASSUME LiveInv, NEW b \in Browsers, Deliver(b), CurrencyInv(b)
  PROVE  CurrencyInv(b)'
<1> DEFINE M == MessagesOf(Room)
           oldc == conn[b]
           old == tab[b]
           e == Head(conn[b].queue)
           rest == Tail(conn[b].queue)
           c == [oldc EXCEPT !.queue = rest]
           t == IF Filtered(b, e) THEN tab[b] ELSE Apply(tab[b], e)
           missing == Missing(silent, tab[b].start)
<1>1. /\ PageGoesOn /\ channel' = channel
      /\ old.pc = "live" /\ conn[b].queue # <<>> /\ ~oldc.lagged
  BY DEF Deliver, PageGoesOn, ChannelsStay
<1>2. oldc \in ConnStates /\ old \in TabStates
  BY StreamShapes DEF LiveInv
<1>3. conn'[b] = c /\ tab'[b] = t
  <2>1. conn \in [Browsers -> ConnStates] /\ tab \in [Browsers -> TabStates]
    BY DEF LiveInv, LiveTypeOK
  <2>2. conn'[b] = c
    BY <2>1 DEF Deliver
  <2>3. CASE Filtered(b, e)
    BY <2>2, <2>3 DEF Deliver
  <2>4. CASE ~Filtered(b, e)
    <3>1. tab' = [tab EXCEPT ![b] = Apply(tab[b], e)]
      BY <2>4 DEF Deliver
    <3>2. tab'[b] = Apply(tab[b], e)
      BY <2>1, <3>1
    <3> QED
      BY <2>2, <2>4, <3>2
  <2> QED
    BY <2>3, <2>4
<1>4. /\ Quiet
      /\ MessagesOf(Room)' = M /\ LastEvent' = LastEvent
      /\ silent' = silent /\ worker' = worker /\ Announced' = Announced
  BY <1>1, PageGoesOnQuiet
<1>5. LastEvent \in Nat
  BY RowsOfTheRoom DEF LiveInv
<1>6. /\ old.start <= oldc.snapshot /\ oldc.counter <= oldc.snapshot
      /\ \E k \in 0..LastEvent :
           /\ FollowsBy(M, silent, Coming(b), old.start, Page(b), oldc.snapshot, k)
           /\ ~Ending(b) => Complete(M, Coming(b), silent, k)
  BY <1>1 DEF CurrencyInv, Follows, HasSnapshot
<1>7. PICK k \in 0..LastEvent :
           /\ FollowsBy(M, silent, Coming(b), old.start, Page(b), oldc.snapshot, k)
           /\ ~Ending(b) => Complete(M, Coming(b), silent, k)
  BY <1>6
<1>8. Page(b) = old.view
  BY <1>1 DEF Page
<1>9. conn'[b].queue = rest
  BY <1>2, <1>3 DEF ConnStates
<1>10. /\ e \in Events
       /\ Coming(b) = {e} \cup Announced \cup Queued(b)'
       /\ \A d \in Announced \cup Queued(b)' : e.id < d.id
       /\ \A i, j \in DOMAIN conn'[b].queue :
            i < j => conn'[b].queue[i].id < conn'[b].queue[j].id
  BY <1>1, <1>4, <1>9, HeadComesFirst DEF CurrencyInv
<1>11. Queued(b) = {e} \cup Queued(b)'
  BY <1>1, <1>4, <1>9, QueueTail
<1>12. t = IF Filtered(b, e) THEN old ELSE Apply(old, e)
  OBVIOUS
<1>13. Filtered(b, e) <=> e.name = "msg" /\ e.id <= oldc.snapshot
  BY DEF Filtered
<1> HIDE DEF e, rest, oldc, old, M, t, missing
<1>14. /\ c.queue = rest /\ c.chan = oldc.chan /\ c.lagged = oldc.lagged
       /\ c.snapshot = oldc.snapshot /\ c.counter = oldc.counter
  BY <1>2 DEF ConnStates
<1> HIDE DEF c
<1>15. e.id \in Nat /\ e.id <= LastEvent
  BY <1>10, EventShapes DEF CurrencyInv, LineInv, Coming, Events
<1>16. oldc.snapshot \in Nat /\ oldc.counter \in Nat /\ old.start \in Nat
  BY <1>2 DEF ConnStates, TabStates
<1>17. t.pc = "live" /\ t.start = old.start
  BY <1>1, <1>2, <1>10, <1>12, ApplyShape, ApplyKeeps
<1>18. Page(b)' = t.view
  BY <1>3, <1>17 DEF Page
<1>19. Ending(b)' <=> Ending(b)
  BY <1>1, <1>3, <1>14 DEF Ending, oldc
<1>20. k \in Nat /\ oldc.snapshot <= k /\ old.start <= k
  BY <1>5, <1>6, <1>7, <1>16 DEF FollowsBy
<1>21. LineInv(b)'
  BY <1>4, <1>10, <1>11, LineAfter DEF CurrencyInv, LineInv, Coming, M
<1> DEFINE left == Announced \cup Queued(b)'
<1>22. left \subseteq Coming(b) /\ \A d \in Coming(b) : d \in left \/ d = e
  BY <1>10
<1>23. \A d \in left : e.id < d.id
  BY <1>10
<1>24. Announced' \cup Queued(b)' = left
  BY <1>4
<1>25. t.last = IF Filtered(b, e) THEN old.last ELSE e.id
  BY <1>2, <1>10, <1>12, ApplyKeeps
<1> HIDE DEF left
<1>26. ASSUME NEW j \in 0..LastEvent, k <= j, e.name = "msg" => e.id <= j, ~Ending(b)
       PROVE  Complete(M, left, silent, j)
  <2>1. ASSUME NEW m, NEW id \in Nat, id > j, Expected(m, id, Coming(b), silent)
        PROVE  Expected(m, id, left, silent)
    BY <1>5, <1>15, <1>22, <1>26, <2>1 DEF Expected
  <2>2. \A m \in M : m.created_event_seq \in Nat /\ m.event_seq \in Nat
    BY RowsOfTheRoom DEF LiveInv, Rows, M
  <2>3. \A id \in Nat : id > j => id > k
    BY <1>5, <1>20, <1>26
  <2>4. Complete(M, Coming(b), silent, k)
    BY <1>7, <1>26
  <2> QED
    BY <2>1, <2>2, <2>3, <2>4 DEF Complete
<1>27. /\ \E j \in 0..LastEvent : KeepsBy(M, silent, t, c, j)
       /\ \E j \in 0..LastEvent :
            /\ FollowsBy(M, silent, left, old.start, t.view, oldc.snapshot, j)
            /\ ~Ending(b) => Complete(M, left, silent, j)
  <2>1. CASE Filtered(b, e)
    <3>1. t = old
      BY <1>12, <2>1
    <3>2. e.id <= k
      BY <1>13, <1>15, <1>16, <1>20, <2>1
    <3>3. \E j \in 0..LastEvent : KeepsBy(M, silent, old, oldc, j)
      BY <1>1 DEF CurrencyInv, Keeps, Rendering, old, oldc, M
    <3>4. \E j \in 0..LastEvent : KeepsBy(M, silent, t, c, j)
      BY <1>1, <3>1, <3>3 DEF KeepsBy
    <3>5. FollowsBy(M, silent, left, old.start, t.view, oldc.snapshot, k)
      BY <1>7, <1>8, <1>22, <3>1 DEF FollowsBy
    <3>6. ~Ending(b) => Complete(M, left, silent, k)
      BY <1>20, <1>26, <3>2
    <3> QED
      BY <3>4, <3>5, <3>6
  <2>2. CASE ~Filtered(b, e) /\ e.id <= k
    <3>1. e \notin MsgEvents
      <4> SUFFICES ASSUME e.name = "msg" PROVE FALSE
        BY EventShapes
      <4>1. e.id > oldc.snapshot
        BY <1>13, <1>15, <1>16, <2>2
      <4>2. e.id > k
        BY <1>7, <1>10, <4>1 DEF FollowsBy
      <4> QED
        BY <1>15, <1>20, <2>2, <4>2
    <3>2. e \in LockedEvents /\ e.name # "msg"
      BY <1>10, <3>1, EventShapes DEF Events
    <3>3. t.view = old.view
      BY <1>2, <1>10, <1>12, <2>2, <3>2, ApplyShape
    <3>4. KeepsBy(M, silent, t, c, k)
      BY <1>7, <1>8, <1>17, <1>20, <1>25, <2>2, <3>3 DEF KeepsBy, FollowsBy
    <3>5. FollowsBy(M, silent, left, old.start, t.view, oldc.snapshot, k)
      BY <1>7, <1>8, <1>22, <3>3 DEF FollowsBy
    <3>6. ~Ending(b) => Complete(M, left, silent, k)
      BY <1>20, <1>26, <3>2
    <3> QED
      BY <3>4, <3>5, <3>6
  <2>3. CASE ~Filtered(b, e) /\ ~(e.id <= k)
    <3>1. k < e.id /\ e.id \in 0..LastEvent
      BY <1>5, <1>15, <1>20, <2>3
    <3>2. e \in Queued(b) /\ \A d \in Coming(b) : d = e \/ e.id < d.id
      BY <1>10, <1>11
    <3>3. /\ tab[b].pc = "live" /\ ~conn[b].lagged
          /\ tab[b].start <= k /\ conn[b].snapshot <= k
          /\ conn[b].counter <= conn[b].snapshot
          /\ ~Ending(b) => Complete(MessagesOf(Room), Coming(b), silent, k)
      BY <1>1, <1>6, <1>7, <1>20 DEF old, oldc, M
    <3>4. ComesNext(M, missing, k, e)
      BY <1>10, <3>1, <3>2, <3>3, HeadComesNext DEF M, missing
    <3>5. Covers(M, missing, old.view, k)
      BY <1>7, <1>8 DEF FollowsBy, missing, old
    <3>6. t = Apply(old, e)
      BY <1>12, <2>3
    <3>7. Covers(M, missing, t.view, e.id)
      BY <1>2, <1>10, <1>20, <3>4, <3>5, <3>6, EventBrings
    <3>8. missing = Missing(silent, old.start)
      BY DEF missing, old
    <3>9. old.start <= e.id /\ oldc.snapshot <= e.id
      BY <1>15, <1>16, <1>20, <3>1
    <3>10. KeepsBy(M, silent, t, c, e.id)
      BY <1>15, <1>17, <1>25, <2>3, <3>7, <3>8, <3>9 DEF KeepsBy
    <3>11. \A d \in left : d.id > e.id
      BY <1>15, <1>23
    <3>12. FollowsBy(M, silent, left, old.start, t.view, oldc.snapshot, e.id)
      BY <3>7, <3>8, <3>9, <3>11 DEF FollowsBy
    <3>13. ~Ending(b) => Complete(M, left, silent, e.id)
      BY <1>15, <1>20, <1>26, <3>1
    <3> QED
      BY <3>1, <3>10, <3>12, <3>13
  <2> QED
    BY <2>1, <2>2, <2>3
<1>28. Keeps(b)'
  BY <1>3, <1>4, <1>17, <1>27, KeepsAfter
<1>29. Follows(b)'
  BY <1>3, <1>4, <1>6, <1>14, <1>17, <1>18, <1>19, <1>24, <1>27, FollowsAfter
<1>30. Hears(b)'
  <2>1. /\ ~Ending(b) =>
             \A w \in Workers :
               /\ worker[w].pc = "sending"
               /\ worker[w].event.name = "msg" /\ worker[w].event.id > oldc.snapshot
               => worker[w].chan = oldc.chan
        /\ oldc.chan # channel =>
             /\ \A d \in Queued(b) : d.id <= oldc.counter
             /\ \A w \in Workers :
                  worker[w].pc = "sending" /\ worker[w].chan = oldc.chan =>
                    worker[w].event.id <= oldc.counter
    BY <1>1 DEF CurrencyInv, Hears, HasSnapshot, old, oldc
  <2> QED
    BY <1>1, <1>3, <1>4, <1>11, <1>14, <1>19, <2>1, HearsAfter
<1> QED
  BY <1>21, <1>28, <1>29, <1>30 DEF CurrencyInv

-----------------------------------------------------------------------------
(* Replies go to the pages that edit. *)

LEMMA HandlerReplies ==
  ASSUME LiveInv, RepliesInv, NEW w \in Workers, NEW s,
         worker' = [worker EXCEPT ![w] = s], AnswersEditor(s),
         \A b \in Browsers : reply'[b] # NoReply => b \in Editors
  PROVE  RepliesInv'
<1>1. \A v \in Workers : worker'[v] = IF v = w THEN s ELSE worker[v]
  BY DEF LiveInv, LiveTypeOK
<1>2. \A v \in Workers : AnswersEditor(worker'[v])
  BY <1>1 DEF RepliesInv
<1> QED
  BY <1>2 DEF RepliesInv, AnswersEditor

LEMMA RepliesStay ==
  ASSUME RepliesInv, worker' = worker,
         \A b \in Browsers : reply'[b] = reply[b] \/ reply'[b] = NoReply
  PROVE  RepliesInv'
BY DEF RepliesInv, AnswersEditor

LEMMA IdleAnswersNobody == AnswersEditor(Idle)
BY DEF AnswersEditor, Idle, Announcing

LEMMA BeginReplies ==
  ASSUME LiveInv, RepliesInv, NEW w \in Workers,
         \/ BeginPost(w)
         \/ \E seq \in 1..MaxEvents, origin \in Editors \cup {Outside} :
              BeginEdit(w, seq, origin)
         \/ BeginLock(w)
         \/ GiveUp(w) \/ Abandon(w)
  PROVE  RepliesInv'
<1>1. reply' = reply
  BY DEF BeginPost, BeginEdit, BeginLock, GiveUp, Abandon
<1>2. \A b \in Browsers : reply'[b] # NoReply => b \in Editors
  BY <1>1 DEF RepliesInv
<1>3. AnswersEditor([pc |-> "checked", kind |-> "post"])
  BY DEF AnswersEditor, Announcing
<1>4. AnswersEditor([pc |-> "checked", kind |-> "lock"])
  BY DEF AnswersEditor, Announcing
<1>5. \A seq, origin : origin \in Editors \cup {Outside} =>
        AnswersEditor([pc |-> "checked", kind |-> "edit", seq |-> seq, origin |-> origin])
  BY DEF AnswersEditor
<1>6. CASE BeginPost(w)
  BY <1>2, <1>3, <1>6, HandlerReplies DEF BeginPost
<1>7. CASE BeginLock(w)
  BY <1>2, <1>4, <1>7, HandlerReplies DEF BeginLock
<1>8. ASSUME NEW seq \in 1..MaxEvents, NEW origin \in Editors \cup {Outside},
             BeginEdit(w, seq, origin)
      PROVE  RepliesInv'
  <2>1. PICK s : s = [pc |-> "checked", kind |-> "edit", seq |-> seq, origin |-> origin]
    OBVIOUS
  <2>2. AnswersEditor(s)
    BY <1>5, <2>1
  <2>3. worker' = [worker EXCEPT ![w] = s]
    BY <1>8, <2>1 DEF BeginEdit
  <2> QED
    BY <1>2, <2>2, <2>3, HandlerReplies
<1>9. CASE GiveUp(w) \/ Abandon(w)
  BY <1>2, <1>9, HandlerReplies, IdleAnswersNobody DEF GiveUp, Abandon
<1> QED
  BY <1>6, <1>7, <1>8, <1>9

LEMMA HandlerStepReplies ==
  ASSUME LiveInv, RepliesInv, NEW w \in Workers, Handler(w)
  PROVE  RepliesInv'
<1>1. ASSUME NEW origin \in Editors \cup {Outside}, NEW e, Committed(w, origin, e)
      PROVE  RepliesInv'
  <2>1. PICK s : s = [pc |-> "committed", origin |-> origin, event |-> e]
    OBVIOUS
  <2>2. AnswersEditor(s)
    BY <2>1 DEF AnswersEditor
  <2>3. worker' = [worker EXCEPT ![w] = s] /\ reply' = reply
    BY <1>1, <2>1 DEF Committed
  <2>4. \A b \in Browsers : reply'[b] # NoReply => b \in Editors
    BY <2>3 DEF RepliesInv
  <2> QED
    BY <2>2, <2>3, <2>4, HandlerReplies
<1>2. CASE CommitPost(w) \/ CommitLock(w)
  BY <1>1, <1>2 DEF CommitPost, CommitLock
<1>3. CASE CommitEdit(w)
  <2>1. worker[w].origin \in Editors \cup {Outside}
    BY <1>3 DEF CommitEdit, RepliesInv, AnswersEditor
  <2>2. PICK origin \in Editors \cup {Outside} : origin = worker[w].origin
    BY <2>1
  <2> QED
    BY <1>1, <1>3, <2>2 DEF CommitEdit
<1>4. CASE TakeSenderToSend(w)
  <2>1. worker[w].origin \in Editors \cup {Outside}
    BY <1>4 DEF TakeSenderToSend, RepliesInv, AnswersEditor, Announcing
  <2>2. PICK s : s = [pc |-> "sending", origin |-> worker[w].origin,
                      event |-> worker[w].event, chan |-> Channel]
    OBVIOUS
  <2>3. AnswersEditor(s)
    BY <2>1, <2>2 DEF AnswersEditor
  <2>4. worker' = [worker EXCEPT ![w] = s] /\ reply' = reply
    BY <1>4, <2>2 DEF TakeSenderToSend
  <2>5. \A b \in Browsers : reply'[b] # NoReply => b \in Editors
    BY <2>4 DEF RepliesInv
  <2> QED
    BY <2>3, <2>4, <2>5, HandlerReplies
<1>5. CASE Send(w)
  <2>1. worker[w].origin \in Editors \cup {Outside}
    BY <1>5 DEF Send, RepliesInv, AnswersEditor, Announcing
  <2>2. \A b \in Browsers : reply'[b] # NoReply => b \in Editors
    <3>1. reply \in [Browsers -> Elements \cup {NoReply}]
      BY DEF LiveInv, LiveTypeOK
    <3>2. CASE worker[w].origin = Outside
      BY <1>5, <3>2 DEF Send, RepliesInv
    <3>3. CASE worker[w].origin # Outside
      BY <1>5, <2>1, <3>1, <3>3 DEF Send, RepliesInv
    <3> QED
      BY <3>2, <3>3
  <2> QED
    BY <1>5, <2>2, HandlerReplies, IdleAnswersNobody DEF Send
<1> QED
  BY <1>2, <1>3, <1>4, <1>5 DEF Handler

LEMMA PageReplies ==
  ASSUME LiveInv, RepliesInv,
         \/ \E b \in Browsers :
              LoadRoomRow(b) \/ LoadMessages(b) \/ Stream(b) \/ Drop(b) \/ ApplyReply(b)
         \/ Prune \/ CommitElsewhere \/ Restart \/ UNCHANGED vars
  PROVE  RepliesInv'
<1>1. CASE \E b \in Browsers : LoadRoomRow(b) \/ LoadMessages(b) \/ Stream(b) \/ Drop(b)
  <2>1. worker' = worker /\ reply' = reply
    BY <1>1 DEF LoadRoomRow, LoadMessages, Stream, Connect, Subscribe, ReadRoom,
       ReadMessages, Refresh, Deliver, EndStream, Drop
  <2> QED
    BY <2>1, RepliesStay
<1>2. ASSUME NEW b \in Browsers, ApplyReply(b) PROVE RepliesInv'
  <2>1. worker' = worker /\ reply' = [reply EXCEPT ![b] = NoReply]
    BY <1>2 DEF ApplyReply
  <2>2. reply \in [Browsers -> Elements \cup {NoReply}]
    BY DEF LiveInv, LiveTypeOK
  <2> QED
    BY <2>1, <2>2, RepliesStay
<1>3. CASE Prune \/ CommitElsewhere \/ UNCHANGED vars
  <2>1. worker' = worker /\ reply' = reply
    BY <1>3 DEF Prune, CommitElsewhere, vars, liveVars
  <2> QED
    BY <2>1, RepliesStay
<1>4. CASE Restart
  <2>1. \A w \in Workers : worker'[w] = Idle
    BY <1>4 DEF Restart
  <2>2. \A b \in Browsers : reply'[b] = NoReply
    BY <1>4 DEF Restart
  <2>3. \A w \in Workers : AnswersEditor(worker'[w])
    BY <2>1, IdleAnswersNobody
  <2> QED
    BY <2>2, <2>3 DEF RepliesInv, AnswersEditor
<1> QED
  BY <1>1, <1>2, <1>3, <1>4

-----------------------------------------------------------------------------
(* Every step of the system. *)

\* A handler that has nothing to announce goes on.
LEMMA HandlerMovesCurrency ==
  ASSUME LiveInv, NEW w \in Workers, NEW b \in Browsers, CurrencyInv(b),
         \/ BeginPost(w)
         \/ \E seq \in 1..MaxEvents, origin \in Editors \cup {Outside} :
              BeginEdit(w, seq, origin)
         \/ BeginLock(w)
         \/ GiveUp(w)
  PROVE  CurrencyInv(b)'
<1>1. /\ worker[w].pc \notin Announcing
      /\ UNCHANGED <<storeVars, channel, channels, conn, tab, silent>>
  BY DEF BeginPost, BeginEdit, BeginLock, GiveUp, Announcing
<1>2. PICK s : worker' = [worker EXCEPT ![w] = s] /\ s.pc \notin Announcing
  <2>1. PICK post, lock :
          post = [pc |-> "checked", kind |-> "post"] /\ lock = [pc |-> "checked", kind |-> "lock"]
    OBVIOUS
  <2>2. post.pc \notin Announcing /\ lock.pc \notin Announcing /\ Idle.pc \notin Announcing
    BY <2>1 DEF Announcing, Idle
  <2>3. CASE BeginPost(w) \/ BeginLock(w) \/ GiveUp(w)
    BY <2>1, <2>2, <2>3 DEF BeginPost, BeginLock, GiveUp
  <2>4. ASSUME NEW seq \in 1..MaxEvents, NEW origin \in Editors \cup {Outside},
               BeginEdit(w, seq, origin)
        PROVE  \E s : worker' = [worker EXCEPT ![w] = s] /\ s.pc \notin Announcing
    <3>1. PICK edit : edit = [pc |-> "checked", kind |-> "edit", seq |-> seq, origin |-> origin]
      OBVIOUS
    <3>2. edit.pc \notin Announcing
      BY <3>1 DEF Announcing
    <3> QED
      BY <2>4, <3>1, <3>2 DEF BeginEdit
  <2> QED
    BY <2>3, <2>4
<1>3. \A v \in Workers : worker'[v] = IF v = w THEN s ELSE worker[v]
  BY <1>2 DEF LiveInv, LiveTypeOK
<1>4. Quiet
  BY <1>1, <1>2, <1>3, StillQuiet
<1>5. Untouched(b) /\ Holds(b)
  BY <1>1 DEF Untouched, Holds
<1> QED
  BY <1>4, <1>5, QuietCurrency

LEMMA TakeSenderToSendCurrency ==
  ASSUME LiveInv, NEW w \in Workers, TakeSenderToSend(w), NEW b \in Browsers, CurrencyInv(b)
  PROVE  CurrencyInv(b)'
<1>1. LiveTypeOK
  BY DEF LiveInv
<1>2. /\ channel' = Channel
      /\ channels' \in Nat /\ channels <= channels'
      /\ \A g \in 1..channels : g = channel' => g = channel
  BY <1>1, ChannelTaken DEF TakeSenderToSend
<1>3. PICK s : s = [pc |-> "sending", origin |-> worker[w].origin,
                    event |-> worker[w].event, chan |-> Channel]
  OBVIOUS
<1>4. /\ worker[w].pc = "committed" /\ worker' = [worker EXCEPT ![w] = s]
      /\ UNCHANGED <<storeVars, conn, tab, silent>>
  BY <1>3 DEF TakeSenderToSend
<1>5. /\ worker[w].pc \in Announcing /\ s.pc \in Announcing
      /\ s.event = worker[w].event /\ s.chan = channel'
  BY <1>2, <1>3, <1>4 DEF Announcing
<1>6. \A v \in Workers : worker'[v] = IF v = w THEN s ELSE worker[v]
  BY <1>1, <1>4 DEF LiveTypeOK
<1>7. channels \in Nat
  BY <1>1 DEF LiveTypeOK
<1>8. Quiet
  BY <1>2, <1>4, <1>5, <1>6, <1>7 DEF Quiet
<1>9. Untouched(b)
  BY <1>4 DEF Untouched
<1>10. Holds(b)
  <2>1. tab[b].pc \in Subscribed => conn[b].chan \in 1..channels
    BY DEF LiveInv, StreamInv, Connected
  <2>2. \A g \in 1..channels : g # NoChannel
    BY LiveAssumption
  <2> QED
    BY <1>2, <2>1, <2>2 DEF Holds, Channel
<1> QED
  BY <1>8, <1>9, <1>10, QuietCurrency

\* Only a channel without receivers is pruned.
LEMMA PruneCurrency ==
  ASSUME LiveInv, Prune, NEW b \in Browsers, CurrencyInv(b)
  PROVE  CurrencyInv(b)'
<1>1. /\ channel' = NoChannel
      /\ UNCHANGED <<storeVars, worker, channels, conn, tab, silent>>
      /\ b \notin Receivers(channel)
  BY DEF Prune
<1>2. channels \in Nat /\ \A g \in 1..channels : g # NoChannel
  BY LiveAssumption DEF LiveInv, LiveTypeOK
<1>3. Quiet
  BY <1>1, <1>2 DEF Quiet
<1>4. Untouched(b) /\ Holds(b)
  BY <1>1 DEF Untouched, Holds, Receivers
<1> QED
  BY <1>3, <1>4, QuietCurrency

LEMMA StutterCurrency ==
  ASSUME LiveInv, UNCHANGED vars, NEW b \in Browsers, CurrencyInv(b)
  PROVE  CurrencyInv(b)'
<1>1. UNCHANGED <<storeVars, worker, channel, channels, conn, tab, silent>>
  BY DEF vars, liveVars
<1>2. Quiet
  BY <1>1, StillQuiet
<1>3. Untouched(b) /\ Holds(b)
  BY <1>1 DEF Untouched, Holds
<1> QED
  BY <1>2, <1>3, QuietCurrency

\* A handler holds the event of what it has committed.
LEMMA CommittedCurrency ==
  ASSUME LiveInv, NEW w \in Workers, NEW origin, NEW e \in Events,
         worker[w].pc = "checked", Stores(e), Advances(e), Committed(w, origin, e),
         NEW b \in Browsers, CurrencyInv(b)
  PROVE  CurrencyInv(b)'
<1>1. PICK s : s = [pc |-> "committed", origin |-> origin, event |-> e]
  OBVIOUS
<1>2. s.pc = "committed" /\ s.event = e
  BY <1>1
<1>3. /\ worker' = [worker EXCEPT ![w] = s]
      /\ UNCHANGED <<channel, channels, conn, tab, reply, silent, faults>>
  BY <1>1 DEF Committed
<1>4. worker'[w] = s /\ \A v \in Workers : v # w => worker'[v] = worker[v]
  BY <1>3 DEF LiveInv, LiveTypeOK
<1>5. Commits(e)
  BY <1>2, <1>3, <1>4 DEF Commits
<1> QED
  BY <1>5, CommitsCurrency

LEMMA CommitPostCurrency ==
  ASSUME LiveInv, NEW w \in Workers, CommitPost(w), NEW b \in Browsers, CurrencyInv(b)
  PROVE  CurrencyInv(b)'
<1>1. PICK c \in Clients, body \in Bodies, now \in Time :
        \E roll \in EvalRoll(rooms[Room], body.expr) :
          PostMessage(Room, c, body, roll, now)
  BY DEF CommitPost
<1>2. PICK roll \in EvalRoll(rooms[Room], body.expr) : PostMessage(Room, c, body, roll, now)
  BY <1>1
<1>3. PICK m \in messages' \ messages : Committed(w, Outside, MsgEvent(m, FALSE))
  BY DEF CommitPost
<1>4. Stores(MsgEvent(m, FALSE)) /\ MsgEvent(m, FALSE) \in Events
  BY <1>2, PostStores DEF LiveInv, Events
<1>5. Advances(MsgEvent(m, FALSE))
  BY <1>2, PostAdvances DEF LiveInv
<1>6. worker[w].pc = "checked"
  BY DEF CommitPost
<1> QED
  BY <1>3, <1>4, <1>5, <1>6, CommittedCurrency

LEMMA CommitEditCurrency ==
  ASSUME LiveInv, NEW w \in Workers, CommitEdit(w), NEW b \in Browsers, CurrencyInv(b)
  PROVE  CurrencyInv(b)'
<1>1. PICK c \in Clients, body \in Bodies, now \in Time :
        \E roll \in EvalRoll(rooms[Room], body.expr) :
          EditMessage(Room, worker[w].seq, c, body, roll, now)
  BY DEF CommitEdit
<1>2. PICK roll \in EvalRoll(rooms[Room], body.expr) :
        EditMessage(Room, worker[w].seq, c, body, roll, now)
  BY <1>1
<1>3. PICK m \in messages' \ messages : Committed(w, worker[w].origin, MsgEvent(m, TRUE))
  BY DEF CommitEdit
<1>4. Stores(MsgEvent(m, TRUE)) /\ MsgEvent(m, TRUE) \in Events
  BY <1>2, EditStores DEF LiveInv, Events
<1>5. Advances(MsgEvent(m, TRUE))
  BY <1>2, EditAdvances DEF LiveInv
<1>6. worker[w].pc = "checked"
  BY DEF CommitEdit
<1> QED
  BY <1>3, <1>4, <1>5, <1>6, CommittedCurrency

LEMMA CommitLockCurrency ==
  ASSUME LiveInv, NEW w \in Workers, CommitLock(w), NEW b \in Browsers, CurrencyInv(b)
  PROVE  CurrencyInv(b)'
<1>1. PICK now \in Time : LockRoom(Room, now)
  BY DEF CommitLock
<1>2. PICK e : e = LockedEvent(rooms'[Room].event_counter)
  OBVIOUS
<1>3. Stores(e) /\ e \in Events
  BY <1>1, <1>2, LockStores DEF LiveInv, Events
<1>4. Advances(e)
  BY <1>1, <1>2, LockAdvances DEF LiveInv
<1>5. worker[w].pc = "checked" /\ Committed(w, Outside, e)
  BY <1>2 DEF CommitLock
<1> QED
  BY <1>3, <1>4, <1>5, CommittedCurrency

LEMMA CommitElsewhereCurrency ==
  ASSUME LiveInv, CommitElsewhere, NEW b \in Browsers, CurrencyInv(b)
  PROVE  CurrencyInv(b)'
<1>1. UNCHANGED <<worker, channel, channels, conn, tab, reply, faults>>
  BY DEF CommitElsewhere
<1>2. ASSUME NEW e \in Events, Stores(e), Advances(e), silent' = silent \cup {e}
      PROVE  CurrencyInv(b)'
  <2>1. Commits(e)
    BY <1>1, <1>2 DEF Commits
  <2> QED
    BY <1>2, <2>1, CommitsCurrency
<1>3. PICK c \in Clients, body \in Bodies, now \in Time :
        \E roll \in EvalRoll(rooms[Room], body.expr) :
          \/ /\ PostMessage(Room, c, body, roll, now)
             /\ \E m \in messages' \ messages : silent' = silent \cup {MsgEvent(m, FALSE)}
          \/ \E seq \in 1..MaxEvents :
               /\ EditMessage(Room, seq, c, body, roll, now)
               /\ \E m \in messages' \ messages : silent' = silent \cup {MsgEvent(m, TRUE)}
          \/ /\ LockRoom(Room, now)
             /\ silent' = silent \cup {LockedEvent(rooms'[Room].event_counter)}
  BY DEF CommitElsewhere
<1>4. PICK roll \in EvalRoll(rooms[Room], body.expr) :
          \/ /\ PostMessage(Room, c, body, roll, now)
             /\ \E m \in messages' \ messages : silent' = silent \cup {MsgEvent(m, FALSE)}
          \/ \E seq \in 1..MaxEvents :
               /\ EditMessage(Room, seq, c, body, roll, now)
               /\ \E m \in messages' \ messages : silent' = silent \cup {MsgEvent(m, TRUE)}
          \/ /\ LockRoom(Room, now)
             /\ silent' = silent \cup {LockedEvent(rooms'[Room].event_counter)}
  BY <1>3
<1>5. IInv /\ Room \in DOMAIN rooms
  BY DEF LiveInv
<1>6. CASE /\ PostMessage(Room, c, body, roll, now)
           /\ \E m \in messages' \ messages : silent' = silent \cup {MsgEvent(m, FALSE)}
  <2>1. PICK m \in messages' \ messages : silent' = silent \cup {MsgEvent(m, FALSE)}
    BY <1>6
  <2>2. Stores(MsgEvent(m, FALSE)) /\ MsgEvent(m, FALSE) \in Events
    BY <1>5, <1>6, PostStores DEF Events
  <2>3. Advances(MsgEvent(m, FALSE))
    BY <1>5, <1>6, PostAdvances
  <2> QED
    BY <1>2, <2>1, <2>2, <2>3
<1>7. ASSUME NEW seq \in 1..MaxEvents, EditMessage(Room, seq, c, body, roll, now),
             NEW m \in messages' \ messages, silent' = silent \cup {MsgEvent(m, TRUE)}
      PROVE  CurrencyInv(b)'
  <2>1. Stores(MsgEvent(m, TRUE)) /\ MsgEvent(m, TRUE) \in Events
    BY <1>5, <1>7, EditStores DEF Events
  <2>2. Advances(MsgEvent(m, TRUE))
    BY <1>5, <1>7, EditAdvances
  <2> QED
    BY <1>2, <1>7, <2>1, <2>2
<1>8. CASE /\ LockRoom(Room, now)
           /\ silent' = silent \cup {LockedEvent(rooms'[Room].event_counter)}
  <2>1. PICK e : e = LockedEvent(rooms'[Room].event_counter)
    OBVIOUS
  <2>2. Stores(e) /\ e \in Events /\ Advances(e)
    BY <1>5, <1>8, <2>1, LockStores, LockAdvances DEF Events
  <2> QED
    BY <1>2, <1>8, <2>1, <2>2
<1> QED
  BY <1>4, <1>6, <1>7, <1>8

\* What a page does that sends no edits, and its stream.
LEMMA OwnStepCurrency ==
  ASSUME LiveInv, NEW b \in Browsers,
         LoadRoomRow(b) \/ LoadMessages(b) \/ Stream(b) \/ Drop(b), CurrencyInv(b)
  PROVE  CurrencyInv(b)'
<1>1. CASE EndStream(b) \/ Drop(b)
  <2>1. /\ Disconnected(b) /\ tab[b].pc \in Connected
        /\ UNCHANGED <<storeVars, worker, channel, channels, silent>>
    BY <1>1 DEF EndStream, Drop, Connected, Subscribed
  <2> QED
    BY <2>1, DisconnectedCurrency
<1> QED
  BY <1>1, LoadRoomRowCurrency, LoadMessagesCurrency, ConnectCurrency, SubscribeCurrency,
     ReadRoomCurrency, ReadMessagesCurrency, RefreshCurrency, DeliverCurrency DEF Stream

LEMMA OtherStepCurrency ==
  ASSUME LiveInv, NEW a \in Browsers, NEW b \in Browsers, a # b,
         LoadRoomRow(a) \/ LoadMessages(a) \/ Stream(a) \/ Drop(a) \/ ApplyReply(a),
         CurrencyInv(b)
  PROVE  CurrencyInv(b)'
<1>1. tab \in [Browsers -> TabStates] /\ conn \in [Browsers -> ConnStates]
  BY DEF LiveInv, LiveTypeOK
<1>2. PageGoesOn
  BY DEF PageGoesOn, ChannelsStay, LoadRoomRow, LoadMessages, Stream, Connect, Subscribe,
     ReadRoom, ReadMessages, Refresh, Deliver, EndStream, Drop, ApplyReply
<1>3. Untouched(b)
  <2>1. ASSUME NEW f, tab' = [tab EXCEPT ![a] = f] \/ tab' = tab
        PROVE  tab'[b] = tab[b]
    BY <1>1, <2>1
  <2>2. ASSUME NEW f, conn' = [conn EXCEPT ![a] = f] \/ conn' = conn
        PROVE  conn'[b] = conn[b]
    BY <1>1, <2>2
  <2>3. CASE LoadRoomRow(a) \/ LoadMessages(a)
    BY <2>1, <2>2, <2>3 DEF LoadRoomRow, LoadMessages, Untouched
  <2>4. CASE Connect(a) \/ Subscribe(a) \/ ReadRoom(a)
    BY <2>1, <2>2, <2>4 DEF Connect, Subscribe, ReadRoom, Untouched
  <2>5. CASE ReadMessages(a) \/ Refresh(a)
    BY <2>1, <2>2, <2>5 DEF ReadMessages, Refresh, Untouched
  <2>6. CASE Deliver(a)
    BY <2>1, <2>2, <2>6 DEF Deliver, Untouched
  <2>7. CASE EndStream(a) \/ Drop(a)
    BY <2>1, <2>2, <2>7 DEF EndStream, Drop, Disconnected, Untouched
  <2>8. CASE ApplyReply(a)
    BY <2>1, <2>2, <2>8 DEF ApplyReply, Untouched
  <2> QED
    BY <2>3, <2>4, <2>5, <2>6, <2>7, <2>8 DEF Stream
<1> QED
  BY <1>2, <1>3, OtherPages

-----------------------------------------------------------------------------
(* The invariant and what follows from it. *)

LEMMA DrainInitInv == LiveInit => DrainInv
<1> SUFFICES ASSUME LiveInit PROVE DrainInv
  OBVIOUS
<1>1. /\ worker = [w \in Workers |-> Idle]
      /\ conn = [b \in Browsers |-> Closed]
      /\ tab = [b \in Browsers |-> Away]
      /\ reply = [b \in Browsers |-> NoReply]
  BY DEF LiveInit
<1>2. RepliesInv
  BY <1>1, IdleAnswersNobody DEF RepliesInv
<1>3. Idle.pc \notin Announcing
  BY DEF Idle, Announcing
<1>4. Announced = {}
  BY <1>1, <1>3 DEF Announced
<1>5. ASSUME NEW b \in Browsers PROVE CurrencyInv(b)
  <2>1. conn[b].queue = <<>> /\ tab[b].pc = "away"
    BY <1>1, ClosedShape, AwayShape
  <2>2. Coming(b) = {} /\ Queued(b) = {}
    BY <1>4, <2>1 DEF Coming, Queued
  <2>3. LineInv(b)
    BY <2>1, <2>2 DEF LineInv
  <2> QED
    BY <2>1, <2>3 DEF CurrencyInv, Keeps, Follows, Hears, Rendering, HasSnapshot
<1> QED
  BY <1>2, <1>5 DEF DrainInv

LEMMA DrainNextInv ==
  ASSUME \A v, w \in Workers : v = w, LiveInv, DrainInv, [LiveNext]_vars
  PROVE  DrainInv'
<1>1. RepliesInv /\ \A b \in Browsers \ Editors : CurrencyInv(b)
  BY DEF DrainInv
<1>2. RepliesInv'
  BY <1>1, BeginReplies, HandlerStepReplies, PageReplies DEF LiveNext
<1>3. ASSUME NEW b \in Browsers, b \notin Editors PROVE CurrencyInv(b)'
  <2>1. CurrencyInv(b)
    BY <1>1, <1>3
  <2>2. ASSUME NEW w \in Workers,
               \/ BeginPost(w)
               \/ \E seq \in 1..MaxEvents, origin \in Editors \cup {Outside} :
                    BeginEdit(w, seq, origin)
               \/ BeginLock(w)
               \/ GiveUp(w)
        PROVE  CurrencyInv(b)'
    BY <2>1, <2>2, HandlerMovesCurrency
  <2>3. ASSUME NEW w \in Workers, Handler(w) \/ Abandon(w)
        PROVE  CurrencyInv(b)'
    <3>1. \A v \in Workers : v = w
      OBVIOUS
    <3> QED
      BY <2>1, <2>3, <3>1, CommitPostCurrency, CommitEditCurrency, CommitLockCurrency,
         TakeSenderToSendCurrency, SendCurrency, AbandonCurrency DEF Handler
  <2>4. ASSUME NEW a \in Browsers,
               LoadRoomRow(a) \/ LoadMessages(a) \/ Stream(a) \/ Drop(a) \/ ApplyReply(a)
        PROVE  CurrencyInv(b)'
    <3>1. CASE a # b
      BY <2>1, <2>4, <3>1, OtherStepCurrency
    <3>2. CASE a = b
      <4>1. ~ApplyReply(b)
        BY <1>1, <1>3 DEF ApplyReply, RepliesInv
      <4> QED
        BY <2>1, <2>4, <3>2, <4>1, OwnStepCurrency
    <3> QED
      BY <3>1, <3>2
  <2>5. CASE Prune \/ CommitElsewhere \/ Restart \/ UNCHANGED vars
    BY <2>1, <2>5, PruneCurrency, CommitElsewhereCurrency, RestartCurrency, StutterCurrency
  <2> QED
    BY <2>2, <2>3, <2>4, <2>5 DEF LiveNext
<1> QED
  BY <1>2, <1>3 DEF DrainInv

\* When nothing is on its way, the event that a page shows the room as of is the last
\* one that was not lost.
LEMMA DrainedCurrent ==
  ASSUME LiveInv, NEW b \in Browsers, CurrencyInv(b), Drained(b)
  PROVE  Current(b)
<1> DEFINE M == MessagesOf(Room)
           view == tab[b].view
<1>1. tab[b].pc = "live" /\ ~Ending(b) /\ Coming(b) = {}
  BY DEF Drained, Pending, Coming, Announced, Queued, Announcing
<1>2. Page(b) = view
  BY <1>1 DEF Page
<1>3. /\ tab[b].start \in Nat /\ conn[b].snapshot \in Nat
      /\ \A m \in M : m.event_seq \in Nat
  BY StreamShapes, RowsOfTheRoom DEF LiveInv, Rows
<1>4. PICK k \in 0..LastEvent :
        /\ tab[b].start <= conn[b].snapshot
        /\ FollowsBy(M, silent, Coming(b), tab[b].start, view, conn[b].snapshot, k)
        /\ Complete(M, Coming(b), silent, k)
  BY <1>1, <1>2 DEF CurrencyInv, Follows, HasSnapshot
<1>5. tab[b].start <= k /\ k \in Nat
  <2>1. k \in Nat
    BY RowsOfTheRoom DEF LiveInv
  <2> QED
    BY <1>3, <1>4, <2>1 DEF FollowsBy
<1>6. Missing(silent, tab[b].start) = Missable(b)
  BY DEF Missing, Missable
<1>7. Covers(M, Missable(b), view, k)
  BY <1>4, <1>6 DEF FollowsBy
<1>8. \A m \in M : m.event_seq > k => m.event_seq \in Missable(b)
  <2> TAKE m \in M
  <2> HAVE m.event_seq > k
  <2>1. Expected(m, m.event_seq, {}, silent)
    BY <1>1, <1>4 DEF Complete
  <2>2. PICK e \in silent : e.id = m.event_seq
    BY <2>1 DEF Expected
  <2>3. e.id > tab[b].start
    BY <1>3, <1>5, <2>2
  <2> QED
    BY <2>2, <2>3 DEF Missable
<1>9. \A i \in DOMAIN view : view[i] \in Range(view)
  BY DEF Range
<1>10. \A x \in Range(view) : \E i \in DOMAIN view : x = view[i]
  BY DEF Range
<1>11. \A i, j \in DOMAIN view : i < j => view[i].seq < view[j].seq
  BY <1>7 DEF Covers
<1>12. ASSUME NEW m \in M
       PROVE  \/ Rendered(m) \in Range(view)
              \/ {m.created_event_seq, m.event_seq} \cap Missable(b) # {}
  <2>1. CASE m.event_seq > k
    BY <1>8, <2>1
  <2>2. CASE m.event_seq <= k
    BY <1>7, <1>9, <2>2 DEF Covers, Has
  <2> QED
    BY <1>3, <1>5, <2>1, <2>2
<1>13. \A x \in Range(view) : \E m \in M : x.seq = m.seq
  BY <1>7, <1>10 DEF Covers
<1> QED
  BY <1>11, <1>12, <1>13 DEF Current

\* With one handler at a time, a connected page that sends no edits shows the
\* transcript when nothing is on its way any more, whatever other pages, other
\* processes and the faults do, but for the changes that nobody broadcast here.
THEOREM DrainedReadersAreCurrent ==
  ASSUME \A v, w \in Workers : v = w
  PROVE  LiveSpec => [](\A b \in Browsers \ Editors : Drained(b) => Current(b))
<1>1. LiveInv /\ DrainInv /\ [LiveNext]_vars => DrainInv'
  BY DrainNextInv
<1>2. LiveInv /\ DrainInv => \A b \in Browsers \ Editors : Drained(b) => Current(b)
  BY DrainedCurrent DEF DrainInv
<1> QED
  BY <1>1, <1>2, DrainInitInv, LiveInvariance, PTL DEF LiveSpec

\* So it does on every page when none sends edits.
THEOREM DrainedPagesAreCurrent ==
  ASSUME \A v, w \in Workers : v = w, Editors = {}
  PROVE  LiveSpec => []DrainedMeansCurrent
<1>1. (\A b \in Browsers \ Editors : Drained(b) => Current(b)) => DrainedMeansCurrent
  BY DEF DrainedMeansCurrent
<1> QED
  BY <1>1, DrainedReadersAreCurrent, PTL
=============================================================================
