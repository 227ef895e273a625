----------------------------- MODULE LiveUpdates -----------------------------
(****************************************************************************)
(* How a change of a room reaches the pages that are open on it             *)
(* (server/src/web.rs): the handlers that post, edit and lock, the          *)
(* per-room tokio::sync::broadcast channel, the SSE stream behind           *)
(* /r/{token}/events, and the browser that applies the fragments.           *)
(*                                                                          *)
(* A handler runs concurrently with every other task: between two awaits    *)
(* of one handler any step of another may happen, and on the                *)
(* multi-threaded runtime also between two statements that use the shared   *)
(* channel map.  The database is RoomStore, one atomic step per operation.  *)
(*                                                                          *)
(* Other server processes may write to the same database; this process      *)
(* hears nothing of it.                                                     *)
(*                                                                          *)
(* One room, created before the run and younger than LOCK_AFTER throughout. *)
(* A rendered fragment is what identifies it: the message's seq and the     *)
(* event that last changed it.  Display names are left out.                 *)
(*                                                                          *)
(* The browser side is external: it is taken from the attributes of         *)
(* templates/room.html and message.html (sse-swap, hx-swap, hx-swap-oob)    *)
(* and from how EventSource reports Last-Event-ID.                          *)
(****************************************************************************)
EXTENDS RoomStore, SequencesExt, FiniteSetsExt

CONSTANTS
  Workers,      \* request handlers that run at the same time
  Browsers,     \* pages open on the room
  Editors,      \* the pages that themselves send edits
  Outside,      \* the origin of requests that come from none of the pages
  NoChannel,    \* the channel map has no entry for the room
  NoReply,      \* no edit response is on its way
  Capacity,     \* of the broadcast channel; 256 in the code
  MaxDrops,     \* bound: lost connections
  MaxSilent,    \* bound: changes that are committed and not broadcast here
  MaxRestarts,  \* bound: restarts of the server process
  MaxFaults,    \* bound: lost connections and restarts together
  MaxChannels   \* bound: channels created for the room

ASSUME LiveAssumption ==
  /\ Editors \subseteq Browsers
  /\ Outside \notin Browsers
  /\ NoChannel \notin Nat
  /\ Capacity \in Nat \ {0}
  /\ {MaxDrops, MaxSilent, MaxRestarts, MaxFaults, MaxChannels} \subseteq Nat

VARIABLES
  worker,    \* per handler: where it is and what it carries
  channel,   \* the room's entry in App.channels, a generation number
  channels,  \* generations created so far
  conn,      \* per browser: the server's side of its SSE connection
  tab,       \* per browser: the page
  reply,     \* per browser: the direct response to its last edit
  silent,    \* events committed by a handler that will not broadcast them here
  faults     \* how often each bounded fault has happened

liveVars == <<worker, channel, channels, conn, tab, reply, silent, faults>>
vars == <<storeVars, liveVars>>

Room == 1

\* What a rendered message shows: which message, as of which event.
Rendered(m) == [seq |-> m.seq, event |-> m.event_seq]

\* The rows of a set in order of seq: at i is the one that ends the first i.
InOrder(S) ==
  [i \in 1..Cardinality(S) |-> CHOOSE x \in S : Cardinality({y \in S : y.seq <= x.seq}) = i]

\* list_messages: the room's messages in order of seq.
Transcript == InOrder({Rendered(m) : m \in MessagesOf(Room)})

\* RoomEvent.  An edit is a "msg" whose fragment carries hx-swap-oob.
MsgEvent(m, oob) == [id |-> m.event_seq, name |-> "msg", oob |-> oob, element |-> Rendered(m)]
LockedEvent(id) == [id |-> id, name |-> "locked"]

\* The position in the event sequence that a read of the room row and a later
\* read of the messages cover together.
SnapshotSeq(counter, page) == Max({counter} \cup {page[i].event : i \in DOMAIN page})

Idle == [pc |-> "idle"]
Closed ==
  [chan |-> NoChannel, last |-> 0, queue |-> <<>>, lagged |-> FALSE,
   counter |-> 0, unlocked |-> FALSE, snapshot |-> 0, refresh |-> <<>>]
Away == [pc |-> "away", view |-> <<>>, composer |-> "open", start |-> 0, last |-> 0]

LiveInit ==
  /\ \E token \in Tokens, now \in Time :
       rooms = [r \in {Room} |->
                  [token |-> token, created_at |-> now, locked_at |-> NotLocked,
                   rng_state |-> 0, seq_counter |-> 0, event_counter |-> 0]]
  /\ lastId = Room
  /\ members = {}
  /\ messages = {}
  /\ worker = [w \in Workers |-> Idle]
  /\ channel = NoChannel
  /\ channels = 0
  /\ conn = [b \in Browsers |-> Closed]
  /\ tab = [b \in Browsers |-> Away]
  /\ reply = [b \in Browsers |-> NoReply]
  /\ silent = {}
  /\ faults = [drops |-> 0, restarts |-> 0]

------------------------------------------------------------------------------
(* The channel map. *)

\* App::channel: the room's sender, created on first use.
Channel == IF channel = NoChannel THEN channels + 1 ELSE channel

TakeSender ==
  /\ channel' = Channel
  /\ channels' = Max({channels, Channel})

\* Where a stream is when it has a receiver.
Subscribed == {"subscribed", "snapshot", "refresh", "live"}

\* Browsers whose receiver is attached to generation g.
Receivers(g) == {b \in Browsers : conn[b].chan = g /\ tab[b].pc \in Subscribed}

\* A generation lives on outside the map while some task holds its sender.
Senders(g) ==
  {w \in Workers : worker[w].pc = "sending" /\ worker[w].chan = g}
    \cup {b \in Browsers : tab[b].pc = "opening" /\ conn[b].chan = g}

PushDroppingOldest(c, event) ==
  [c EXCEPT !.queue = Append(IF Len(@) < Capacity THEN @ ELSE Tail(@), event)]

\* broadcast::Sender::send: a receiver that is Capacity behind loses the oldest
\* event and will be told that it lagged.
Push(c, event) ==
  IF Len(c.queue) < Capacity
  THEN [c EXCEPT !.queue = Append(@, event)]
  ELSE [c EXCEPT !.queue = Append(Tail(@), event), !.lagged = TRUE]

\* prune_channels, from the sweep task.
Prune ==
  /\ channel # NoChannel
  /\ Receivers(channel) = {}
  /\ channels < MaxChannels
  /\ channel' = NoChannel
  /\ UNCHANGED <<storeVars, worker, channels, conn, tab, reply, silent, faults>>

------------------------------------------------------------------------------
(* post_message, edit_message and lock_room. *)

Unlocked == rooms[Room].locked_at = NotLocked

\* The handler looked the room up and found it open; it acts on that from here
\* on.  (A request refused here changes nothing.)
BeginPost(w) ==
  /\ worker[w].pc = "idle"
  /\ Unlocked
  /\ worker' = [worker EXCEPT ![w] = [pc |-> "checked", kind |-> "post"]]
  /\ UNCHANGED <<storeVars, channel, channels, conn, tab, reply, silent, faults>>

\* Messages are never deleted while the room lives: get_message only refuses a
\* seq that does not exist yet.
BeginEdit(w, seq, origin) ==
  /\ worker[w].pc = "idle"
  /\ Unlocked
  /\ \E m \in MessagesOf(Room) : m.seq = seq
  /\ origin # Outside =>        \* one edit of a page at a time
       /\ \E i \in DOMAIN tab[origin].view : tab[origin].view[i].seq = seq
       /\ reply[origin] = NoReply
       /\ \A v \in Workers : "origin" \in DOMAIN worker[v] => worker[v].origin # origin
  /\ worker' = [worker EXCEPT ![w] =
       [pc |-> "checked", kind |-> "edit", seq |-> seq, origin |-> origin]]
  /\ UNCHANGED <<storeVars, channel, channels, conn, tab, reply, silent, faults>>

\* Locking does not look at the lock: locking twice is allowed.
BeginLock(w) ==
  /\ worker[w].pc = "idle"
  /\ worker' = [worker EXCEPT ![w] = [pc |-> "checked", kind |-> "lock"]]
  /\ UNCHANGED <<storeVars, channel, channels, conn, tab, reply, silent, faults>>

\* The store operation returned: what it wrote is committed, and the handler
\* holds the event to announce, and for an edit the page to answer.
Committed(w, origin, event) ==
  /\ worker' = [worker EXCEPT ![w] =
       [pc |-> "committed", origin |-> origin, event |-> event]]
  /\ UNCHANGED <<channel, channels, conn, tab, reply, silent, faults>>

CommitPost(w) ==
  /\ worker[w].pc = "checked" /\ worker[w].kind = "post"
  /\ \E c \in Clients, body \in Bodies, now \in Time :
       \E roll \in EvalRoll(rooms[Room], body.expr) :
         PostMessage(Room, c, body, roll, now)
  /\ \E m \in messages' \ messages : Committed(w, Outside, MsgEvent(m, FALSE))

CommitEdit(w) ==
  /\ worker[w].pc = "checked" /\ worker[w].kind = "edit"
  /\ \E c \in Clients, body \in Bodies, now \in Time :
       \E roll \in EvalRoll(rooms[Room], body.expr) :
         EditMessage(Room, worker[w].seq, c, body, roll, now)
  /\ \E m \in messages' \ messages : Committed(w, worker[w].origin, MsgEvent(m, TRUE))

CommitLock(w) ==
  /\ worker[w].pc = "checked" /\ worker[w].kind = "lock"
  /\ \E now \in Time : LockRoom(Room, now)
  /\ Committed(w, Outside, LockedEvent(rooms'[Room].event_counter))

\* App::broadcast, first half: look up the sender.
TakeSenderToSend(w) ==
  /\ worker[w].pc = "committed"
  /\ TakeSender
  /\ worker' = [worker EXCEPT ![w] =
       [pc |-> "sending", origin |-> worker[w].origin, event |-> worker[w].event,
        chan |-> Channel]]
  /\ UNCHANGED <<storeVars, conn, tab, reply, silent, faults>>

\* App::broadcast, second half: every receiver gets the event; then the handler
\* answers the request.
Send(w) ==
  /\ worker[w].pc = "sending"
  /\ conn' = [b \in Browsers |->
       IF b \in Receivers(worker[w].chan) THEN Push(conn[b], worker[w].event) ELSE conn[b]]
  /\ reply' = IF worker[w].origin # Outside
              THEN [reply EXCEPT ![worker[w].origin] = worker[w].event.element]
              ELSE reply
  /\ worker' = [worker EXCEPT ![w] = Idle]
  /\ UNCHANGED <<storeVars, channel, channels, tab, silent, faults>>

\* The handler ends before its store operation: the roll does not evaluate, the
\* database fails, the client goes away.
GiveUp(w) ==
  /\ worker[w].pc = "checked"
  /\ worker' = [worker EXCEPT ![w] = Idle]
  /\ UNCHANGED <<storeVars, channel, channels, conn, tab, reply, silent, faults>>

\* The handler ends after its commit and before the broadcast: reading the names
\* fails, or the client goes away and the handler is dropped, at that await or
\* while the store commits (a blocking task outlives the handler that awaits it).
Abandon(w) ==
  /\ worker[w].pc = "committed"
  /\ Cardinality(silent) < MaxSilent
  /\ silent' = silent \cup {worker[w].event}
  /\ worker' = [worker EXCEPT ![w] = Idle]
  /\ UNCHANGED <<storeVars, channel, channels, conn, tab, reply, faults>>

\* A handler of another server process on the same database posts, edits or locks;
\* its channel map is its own.
CommitElsewhere ==
  /\ Cardinality(silent) < MaxSilent
  /\ \E c \in Clients, body \in Bodies, now \in Time :
       \E roll \in EvalRoll(rooms[Room], body.expr) :
         \/ /\ PostMessage(Room, c, body, roll, now)
            /\ \E m \in messages' \ messages : silent' = silent \cup {MsgEvent(m, FALSE)}
         \/ \E seq \in 1..MaxEvents :
              /\ EditMessage(Room, seq, c, body, roll, now)
              /\ \E m \in messages' \ messages : silent' = silent \cup {MsgEvent(m, TRUE)}
         \/ /\ LockRoom(Room, now)
            /\ silent' = silent \cup {LockedEvent(rooms'[Room].event_counter)}
  /\ UNCHANGED <<worker, channel, channels, conn, tab, reply, faults>>

------------------------------------------------------------------------------
(* room_page: the page is rendered from two reads, the room's row and then the *)
(* messages. *)

LoadRoomRow(b) ==
  /\ tab[b].pc = "away"
  /\ tab' = [tab EXCEPT ![b] =
       [Away EXCEPT !.pc = "loading", !.start = rooms[Room].event_counter,
                    !.composer = IF Unlocked THEN "open" ELSE "locked"]]
  /\ UNCHANGED <<storeVars, worker, channel, channels, conn, reply, silent, faults>>

LoadMessages(b) ==
  LET seq == SnapshotSeq(tab[b].start, Transcript) IN
  /\ tab[b].pc = "loading"
  /\ tab' = [tab EXCEPT ![b] =
       [@ EXCEPT !.pc = "offline", !.view = Transcript, !.start = seq, !.last = seq]]
  /\ UNCHANGED <<storeVars, worker, channel, channels, conn, reply, silent, faults>>

------------------------------------------------------------------------------
(* events: the SSE stream. *)

\* The page asks for the stream.  EventSource reconnects by itself and reports
\* the last event id it was given; after a failed reconnect the htmx extension
\* opens the page's URL again, with the ?last= the page was rendered with.
Connect(b) ==
  /\ tab[b].pc = "offline"
  /\ TakeSender
  /\ \E last \in {tab[b].last, tab[b].start} :
       conn' = [conn EXCEPT ![b] = [Closed EXCEPT !.chan = Channel, !.last = last]]
  /\ tab' = [tab EXCEPT ![b].pc = "opening"]
  /\ UNCHANGED <<storeVars, worker, reply, silent, faults>>

Subscribe(b) ==
  /\ tab[b].pc = "opening"
  /\ tab' = [tab EXCEPT ![b].pc = "subscribed"]
  /\ UNCHANGED <<storeVars, worker, channel, channels, conn, reply, silent, faults>>

\* The second find_room.
ReadRoom(b) ==
  /\ tab[b].pc = "subscribed"
  /\ conn' = [conn EXCEPT ![b] =
       [@ EXCEPT !.counter = rooms[Room].event_counter, !.unlocked = Unlocked]]
  /\ tab' = [tab EXCEPT ![b].pc = "snapshot"]
  /\ UNCHANGED <<storeVars, worker, channel, channels, reply, silent, faults>>

\* list_messages, and the decision whether the client is behind.
ReadMessages(b) ==
  LET seq == SnapshotSeq(conn[b].counter, Transcript)
      behind == conn[b].last < seq
  IN
  /\ tab[b].pc = "snapshot"
  /\ conn' = [conn EXCEPT ![b] =
       [@ EXCEPT !.snapshot = seq, !.refresh = IF behind THEN Transcript ELSE <<>>]]
  /\ tab' = [tab EXCEPT ![b].pc = IF behind THEN "refresh" ELSE "live"]
  /\ UNCHANGED <<storeVars, worker, channel, channels, reply, silent, faults>>

\* The "refresh" event replaces the whole list, and only the list.
Refresh(b) ==
  /\ tab[b].pc = "refresh"
  /\ tab' = [tab EXCEPT ![b] =
       [@ EXCEPT !.pc = "live", !.view = conn[b].refresh, !.last = conn[b].snapshot]]
  /\ UNCHANGED <<storeVars, worker, channel, channels, conn, reply, silent, faults>>

FilteredWhateverItIs(b, event) == event.id <= conn[b].snapshot

FilteredBelow(b, event) == event.name = "msg" /\ event.id < conn[b].snapshot

\* What the stream leaves out: the snapshot covers it already.
Filtered(b, event) == event.name = "msg" /\ event.id <= conn[b].snapshot

\* Swapping an element for the one with the same id attribute; a swap whose
\* target is missing is dropped.
Swap(view, element) ==
  [i \in DOMAIN view |-> IF view[i].seq = element.seq THEN element ELSE view[i]]

Apply(page, event) ==
  CASE event.name = "locked" -> [page EXCEPT !.composer = "locked", !.last = event.id]
    [] event.name = "msg" /\ event.oob ->
         [page EXCEPT !.view = Swap(@, event.element), !.last = event.id]
    [] event.name = "msg" /\ ~event.oob ->
         [page EXCEPT !.view = Append(@, event.element), !.last = event.id]

\* One event leaves the receiver and, unless filtered, reaches the page.
Deliver(b) ==
  /\ tab[b].pc = "live" /\ ~conn[b].lagged /\ conn[b].queue # <<>>
  /\ conn' = [conn EXCEPT ![b].queue = Tail(@)]
  /\ tab' = IF Filtered(b, Head(conn[b].queue)) THEN tab
            ELSE [tab EXCEPT ![b] = Apply(@, Head(conn[b].queue))]
  /\ UNCHANGED <<storeVars, worker, channel, channels, reply, silent, faults>>

Disconnected(b) ==
  /\ conn' = [conn EXCEPT ![b] = Closed]
  /\ tab' = [tab EXCEPT ![b].pc = "offline"]

EndStreamOnceClosed(b) ==
  /\ tab[b].pc = "live"
  /\ conn[b].queue = <<>> /\ conn[b].chan # channel /\ Senders(conn[b].chan) = {}
  /\ Disconnected(b)
  /\ UNCHANGED <<storeVars, worker, channel, channels, reply, silent, faults>>

\* The stream ends by itself: the receiver lagged, or every sender of its
\* channel is gone and the queue is drained.
EndStream(b) ==
  /\ tab[b].pc = "live"
  /\ \/ conn[b].lagged
     \/ conn[b].queue = <<>> /\ conn[b].chan # channel /\ Senders(conn[b].chan) = {}
  /\ Disconnected(b)
  /\ UNCHANGED <<storeVars, worker, channel, channels, reply, silent, faults>>

\* The connection is lost, with whatever was queued on it.
Drop(b) ==
  /\ tab[b].pc \in {"opening", "subscribed", "snapshot", "refresh", "live"}
  /\ faults.drops < MaxDrops /\ faults.drops + faults.restarts < MaxFaults
  /\ faults' = [faults EXCEPT !.drops = @ + 1]
  /\ Disconnected(b)
  /\ UNCHANGED <<storeVars, worker, channel, channels, reply, silent>>

\* The editor's page swaps in the direct response to its own edit.
ApplyReply(b) ==
  /\ reply[b] # NoReply
  /\ tab' = [tab EXCEPT ![b].view = Swap(@, reply[b])]
  /\ reply' = [reply EXCEPT ![b] = NoReply]
  /\ UNCHANGED <<storeVars, worker, channel, channels, conn, silent, faults>>

\* The process dies and starts again: the channel map, the handlers and the
\* connections are gone, the database and the pages stay.
Restart ==
  /\ faults.restarts < MaxRestarts /\ faults.drops + faults.restarts < MaxFaults
  /\ faults' = [faults EXCEPT !.restarts = @ + 1]
  /\ worker' = [w \in Workers |-> Idle]
  /\ channel' = NoChannel
  /\ conn' = [b \in Browsers |-> Closed]
  /\ tab' = [b \in Browsers |->
       CASE tab[b].pc \in {"away", "loading"} -> Away
         [] OTHER -> [tab[b] EXCEPT !.pc = "offline"]]
  /\ reply' = [b \in Browsers |-> NoReply]
  /\ UNCHANGED <<storeVars, channels, silent>>

------------------------------------------------------------------------------
Handler(w) ==
  \/ CommitPost(w) \/ CommitEdit(w) \/ CommitLock(w)
  \/ TakeSenderToSend(w) \/ Send(w)

Stream(b) ==
  \/ Connect(b) \/ Subscribe(b) \/ ReadRoom(b) \/ ReadMessages(b)
  \/ Refresh(b) \/ Deliver(b) \/ EndStream(b)

LiveNext ==
  \/ \E w \in Workers :
       \/ BeginPost(w)
       \/ \E seq \in 1..MaxEvents, origin \in Editors \cup {Outside} :
            BeginEdit(w, seq, origin)
       \/ BeginLock(w)
       \/ Handler(w) \/ GiveUp(w) \/ Abandon(w)
  \/ \E b \in Browsers :
       \/ LoadRoomRow(b) \/ LoadMessages(b) \/ Stream(b)
       \/ Drop(b) \/ ApplyReply(b)
  \/ Prune
  \/ CommitElsewhere
  \/ Restart

\* Tokio polls every task that is ready, and EventSource keeps reconnecting.
\* Requests, page loads and faults may happen or not.
Fairness ==
  /\ \A w \in Workers : WF_vars(Handler(w))
  /\ \A b \in Browsers : WF_vars(Stream(b) \/ LoadMessages(b) \/ ApplyReply(b))

LiveSpec == LiveInit /\ [][LiveNext]_vars /\ Fairness

------------------------------------------------------------------------------
(* Properties. *)

\* Events on their way to b: committed and not yet sent, or queued for it.
Pending(b) ==
  {worker[w].event : w \in {v \in Workers : worker[v].pc \in {"committed", "sending"}}}
    \cup {conn[b].queue[i] : i \in DOMAIN conn[b].queue}

Shows(b, seq) == \E i \in DOMAIN tab[b].view : tab[b].view[i].seq = seq

\* A stream that is going to end by itself: the page will catch up anyway.
Ending(b) == conn[b].lagged \/ conn[b].chan # channel

\* "Snapshot strictly after subscribing, so nothing falls in the gap: anything
\* newer than the snapshot arrives on the channel" (web.rs:483).  A post newer
\* than the snapshot of a live stream is on the page or on its way, and a lock
\* newer than it has locked the composer or is on its way, however handlers and
\* the stream's own setup interleave.  Only what was committed without a broadcast
\* is lost, and it takes nothing else with it.
NothingFallsInTheGap ==
  \A b \in Browsers :
    tab[b].pc = "live" /\ ~Ending(b) =>
      /\ \A m \in MessagesOf(Room) :
           m.created_event_seq > conn[b].snapshot =>
             \/ Shows(b, m.seq)
             \/ \E e \in Pending(b) : e.name = "msg" /\ ~e.oob /\ e.element.seq = m.seq
             \/ \E e \in silent : e.id = m.created_event_seq
      /\ conn[b].unlocked /\ ~Unlocked =>
             \/ tab[b].composer = "locked"
             \/ \E e \in Pending(b) \cup silent : e.name = "locked"

\* No page ever shows a message twice: what the page or the refresh brought is
\* not appended again when its event is still queued.
NoDuplicates ==
  \A b \in Browsers : \A i, j \in DOMAIN tab[b].view :
    tab[b].view[i].seq = tab[b].view[j].seq => i = j

\* The changes a page can have missed: those without a broadcast here, since it was
\* rendered.
Missable(b) == {e.id : e \in {x \in silent : x.id > tab[b].start}}

\* A page shows messages of the room in order, and every message in its latest
\* version, but for what it can have missed.
Current(b) ==
  LET shown == Range(tab[b].view) IN
  /\ \A i, j \in DOMAIN tab[b].view : i < j => tab[b].view[i].seq < tab[b].view[j].seq
  /\ \A m \in MessagesOf(Room) :
       Rendered(m) \in shown \/ {m.created_event_seq, m.event_seq} \cap Missable(b) # {}
  /\ \A x \in shown : \E m \in MessagesOf(Room) : x.seq = m.seq

Drained(b) == tab[b].pc = "live" /\ ~Ending(b) /\ Pending(b) = {} /\ reply[b] = NoReply

\* When nothing is on its way any more, a connected page shows the transcript:
\* every message, in its latest version, in order (SPEC 6).  What a dropped handler
\* or another server process left without a broadcast is all that can be missing,
\* and loading the page again brings it.
DrainedMeansCurrent == \A b \in Browsers : Drained(b) => Current(b)

\* Catch-up on reconnect covers dropped connections (SPEC 6): then no message is
\* missing from a connected page, in whatever order and version it is shown.
CatchUpCoversDrops ==
  \A b \in Browsers : Drained(b) => \A m \in MessagesOf(Room) : Shows(b, m.seq)

\* A page shows messages in the order of their sequence numbers (SPEC 5).
ViewsFollowSeq ==
  \A b \in Browsers : \A i, j \in DOMAIN tab[b].view :
    i < j => tab[b].view[i].seq < tab[b].view[j].seq

\* Once requests and faults stop, every open page ends up connected and showing
\* the transcript, but for changes without a broadcast, whatever was lost, lagged,
\* pruned or restarted on the way.
Converges ==
  <>[]\A b \in Browsers : tab[b].pc # "away" => tab[b].pc = "live" /\ Current(b)
=============================================================================
