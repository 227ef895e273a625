# A verification project for dice-chat

dice-chat is a chat room with dice: a link opens a room, everyone who has the
link may post comments and rolls, edit any message, set a name, and lock the
room. The server (Rust, axum, tokio) keeps everything in SQLite or Postgres and
sends rendered HTML fragments to open pages over server-sent events. Rooms
become read-only after fourteen days and are deleted after a year.

This directory holds TLA+ models of that program, TLC configurations that check
them on small instances, and proofs checked by TLAPS. Paths below are relative
to the repository root (`src/` in `PROJECT.json`); `server/src/` is where
unqualified file names live.

Contents: [inventory](#1-inventory), [hard behaviours](#2-what-is-hard-here),
[plan](#3-plan), [modules](#4-modules-and-how-they-correspond-to-the-code),
[runs](#5-runs), [fairness](#6-fairness), [proofs](#7-proofs),
[disagreements found](#8-where-code-and-documentation-disagree),
[limits](#9-what-is-not-modelled-and-why), [running](#10-running-it).

## 1. Inventory

| Component | Code | State it keeps | Operations |
|---|---|---|---|
| Store, SQLite | `store/mod.rs`, `store/sqlite.rs` | tables `rooms` (with counters and RNG state), `members`, `messages`, `meta` | create_room, lock_room, set_name, post_message, edit_message, sweep, reads, meta_get/meta_set |
| Store, Postgres | `store/postgres.rs` | the same tables, shared by several server processes; one connection per process | the same, as multi-statement transactions |
| Room lifecycle | `web.rs`, `main.rs`, `clock.rs` | the clock; what a handler has read so far | find_room, room_locked, the five writing handlers, the hourly sweep |
| Live updates | `web.rs`, `room.html`, `message.html` | map of broadcast channels, one receiver and snapshot position per stream, the page | channel, broadcast, prune_channels, room_page, events |
| Dice terms and expressions | `dice/src/lib.rs` | none (pure) | parse, apply_suffix, Display |
| Dice evaluation | `dice/src/lib.rs` | the pool under evaluation | eval_term, Expr::eval |
| Room RNG | `rng.rs` | 256 bits, persisted with the room | fresh_state, from_state, next_u64, roll |
| Identity | `web.rs`, `main.rs` | signed cookie; the key in table `meta` | identity middleware, cookie_key |
| Schema | `sqlite.rs`, `postgres.rs` | the tables there are, the columns of `messages` | open/connect, migrate |
| Views, exports, tokens, time formatting, startup | `view.rs`, templates, `web.rs`, `token.rs`, `clock.rs`, `main.rs` | none | rendering |

How they interact:

- A handler calls the store (an await), then `broadcast`; the store never calls
  back. The store calls the evaluator inside its transaction, with the room's
  RNG; the RNG's successor state is written in the same transaction.
- Handlers and streams share the channel map (a mutex held for one lookup) and
  one `tokio::sync::broadcast` channel per room.
- A page gets its messages from `room_page` and from `events`; it reports the last
  event id it saw when it reconnects.
- Before a process serves it creates the schema, migrates it and reads or writes the
  cookie key, in a database that others may be starting on or serving from.
- The sweep task deletes rooms in the store and prunes channels, concurrently
  with everything else.

What makes each part correct:

- **Store.** A room's messages are numbered without holes; an event id names one
  change and is larger than all before it; two rolls never consume the same
  random numbers; ids are not reused; nothing survives its room; an edit keeps
  author, creation time and creation event.
- **Postgres.** Transactions of several processes amount to some sequence of the
  store's atomic operations; what one has read is still so when it writes, and all of
  them end.
- **Lifecycle.** Nothing is dated past the deadline, only expired rooms are
  deleted and all of them are, a handler never writes into another room.
- **Live updates.** Between snapshot and channel nothing is lost and nothing is
  shown twice; a drained page shows the transcript; every page converges.
- **Dice.** The parser accepts the grammar within its limits; the order in which
  suffixes are written does not matter, printed terms read back, keep and drop take
  the best or worst dice, explosions follow maximum faces, the value is what the dice
  show, arithmetic is exact or an error, and a roll ends within bounded draws.
- **RNG.** Two states never run together, the refused state is never reached, what is
  saved is read back, and every face is equally likely.
- **Startup.** No message is lost or half migrated, no process serves the old layout, a
  browser keeps its identity, and a process that is started again serves in the end.

## 2. What is hard here

`PROJECT.json` lists every hazard at its line. In groups:

- *Commit and broadcast are two steps.* Two handlers may announce in another order
  than they committed; a handler may end in between.
- *Check, then write.* `room_locked` looks at a row read earlier; the room may be
  locked, or deleted, before the write.
- *Snapshot and subscription.* `events` subscribes, reads the room, reads the
  messages, and filters the queue by the snapshot's position.
- *Bounded channel, pruning, restart.* A lagging receiver loses events; a channel
  can be dropped from the map between lookup and use; channels live in memory.
- *Several processes on one database.* Statements of their transactions
  interleave; row locks decide. Each has channels of its own, and hears nothing of
  what another broadcasts. They may start, migrate and write a cookie key at once.
- *Crashes.* Between two statements of the migration; between commit and broadcast.
- *Time.* Deadlines compared with a clock read once; a sweep that deletes for good.
- *Data algorithms with edges.* Suffixes that change the count, insertion into the
  vector being walked, ties in keep and drop, cuts and backtracking in the parser,
  64-bit overflow, the order of six assignments in the generator, limits.

## 3. Plan

Written, in this order: `RoomStore` (everything else rests on it) and its proofs;
`LiveUpdates`, the most intricate concurrency; `PgStore`, a refinement of `RoomStore`;
`RoomLifecycle`; the dice modules; `Transcript`, the abstract specification above
`RoomStore`; `RoomRng`; `Startup`; and the proofs about `PgStore`, `RoomLifecycle`,
`RoomRng`, `Startup`, `LiveUpdates`, the evaluator of dice and their parser.

The abstract specifications and what implements them:

    Transcript  <--  RoomStore  <--  PgStore
                         ^
                         |  (composed: its operations are the database of)
                 RoomLifecycle, LiveUpdates

What is left: `LiveUpdates` with a room that the sweep deletes while streams are open.

The runs are kept to a dozen, one for each question.

## 4. Modules and how they correspond to the code

`MC*.tla` modules add what TLC needs (symmetry sets, sets of dice terms and tokens);
everything else is in the component's module. Next to some definitions stands a
second one, named after a slip that could have been made in that code
(`BumpCountersKeepingSeq` next to `BumpCounters`). No specification uses them:
each belongs to one property, which fails when the slip is put in place of the
definition. They are listed under `mutants` in `PROJECT.json`.

### RoomStore

The tables as variables, one action per writing operation of the `Store` trait.
SQLite has one connection behind a mutex and every operation is a closure that
runs on it to the end, so an operation is one step. An operation that fails
changes nothing (a stuttering step). `rooms` is a function from id to row;
`lastId` is AUTOINCREMENT's memory, which outlives deleted rooms.

Two abstractions carry the properties. `rng_state` is the *position* in the room's
stream of random numbers, because what matters is which numbers a roll consumed
and not what they were. `roll` is the interval of the stream that an evaluation
consumed, standing for `roll_json` and `total`; its length is any number up to
`MaxDraws`, since rerolls and explosions make it depend on the faces (`DiceEval`
shows that there is a bound). Time is whatever the callers pass.

### Transcript

What a room promises, without tables: per open room a sequence of entries that grows
at its end, edits that change only what an entry says, locks that stay, rooms that
are forgotten whole and never come back (`opened` counts them). `RoomStore!Promise` is
the refinement mapping: `RoomLog` lists a room's messages by `seq`, `opened` is
`lastId`. A name change, a refused operation and a sweep that deletes nothing are
stuttering steps.

### PgStore

`tx` holds each process's transaction, statement by statement: find the message,
read the RNG state `FOR UPDATE` and evaluate, or mark the room locked, bump the
counters, commit. The tables are RoomStore's and change at commits only. What
Postgres does (READ COMMITTED, waiting for row locks, a waiting statement seeing
the newest row) is external and stated in the module's header. From the counter
update on, the transaction holds the row that every other writer of the room needs
first, so the remaining statements and the commit are one step. `Rollback` is
possible at every point: a failed evaluation, a deleted room, a dropped handler, a
dead connection. `TransactionsAreAtomic` is `RoomStore!Spec` itself: the refinement
mapping is the identity on the tables and forgets `tx`.

### RoomLifecycle

`RoomStore` plus the clock, the handlers and the sweep task. A handler goes
idle -> found -> checked -> idle, and holds the row it found; time may pass, rooms
may be locked, deleted and created at every point between. `creating` keeps the
clock value that create_room read before its insert. `Refuse` ends a handler for
any of the reasons the code has. The sweep computes its cutoff in one step and
deletes in another.

### LiveUpdates

`RoomStore` plus handlers, the channel map, streams and pages, for one room.

| Model | Code |
|---|---|
| `worker[w]`: checked, committed, sending | a handler of `web.rs` between lookup, store call, `App::channel` and `send`; the record carries what the handler holds there: what it is asked, then the event, then the sender |
| `channel`, `channels` | the room's entry in `App.channels`; each entry created is a new generation |
| `conn[b]`: chan, last, counter, unlocked, snapshot, refresh | the locals of `events`; `Closed` when there is no stream |
| `conn[b]`: queue, lagged | the receiver of its `BroadcastStream` |
| `tab[b]`: view, composer, start, last | the page: list, composer, the `?last=` it was rendered with, Last-Event-ID |
| `reply[b]` | the direct response to an edit, on its way |
| `silent` | events that were committed and are not broadcast in this process |
| `faults` | counts the bounded faults: drops and restarts |

`LoadRoomRow`/`LoadMessages` are `room_page`; `Connect`, `Subscribe`, `ReadRoom`,
`ReadMessages`, `Refresh`, `Deliver`, `EndStream` are `events`. A rendered message is
its seq and the event that last changed it; an edit's fragment carries `oob`.
`Abandon` is a handler that ends between commit and broadcast, `CommitElsewhere` a
handler of another server process, with a channel map of its own: both leave an event
in `silent`. The browser side is taken from the attributes in the templates: `msg` appends or, with
`hx-swap-oob`, replaces; `refresh` replaces the list; `locked` replaces the composer.

### DiceTerm and DiceParse

`DiceTerm` is `apply_suffix`, with the checks in the order of the code, and `Display`
for a term. `DiceParse` is the parser above it: `expr`, `product`, `term`, `dice_body`
as operators from a position to what was read and where it stopped. Errors are the
one outcome `Refused`; a cut is the difference between `Refused` and trying the next
alternative. A suffix and its number are one token, since a keyword without its
number is refused everywhere. The reference, `IsTermText` and its neighbours, says
which token sequences are expressions, without saying how to read them.

### DiceEval and DiceExpr

`DiceEval` is `eval_term` as a state machine whose steps are the calls of the Roller
(any face may come up) and the passes over the pool. `Rank` is the position in the
stable sort of the keep pass. Sums within the limits are at most 100 * 21 * 10,000,
so the checked additions of the term level cannot fail and are plain. `DiceExpr` is
`Expr::eval` around it, with `MaxInt` for the range of an i64, and what `roll_view`
makes of the outcome.

### RoomRng

A word is the set of its one bits, `^` the symmetric difference. `Successor` has the
six assignments of `next_u64` in their order. The state machine is one evaluation
after the other, as `eval_with_state` runs them: load the state, draw until accepted,
save the successor or, on failure, nothing. Widths, shift and rotations are constants.

### Startup

Each process goes through schema, check, migrate, key, serving. SQLite executes the
statements of the schema one by one; Postgres runs the batch as one transaction that
may find, when it creates, that another has created. The migration is one transaction
in both: it takes its lock with its first statement, works on `work`, and commits or
leaves `messages` as it was. `Busy` is SQLite's lock timeout. A failed process exits,
and any process may crash. `cookie` is one browser's cookie, which every serving
process may see; a signature is the number of the key that made it, or, for a key that
was lost or corrupt before the first start, what is left of that key (`None`, `Corrupt`).
`MessagesSurvive` relates each table to the one before it, and so to the one that the
first process found, be it empty, legacy or used.

## 5. Runs

| Run | Question | Bounds, and why they are enough |
|---|---|---|
| `store` | counters, event ids, randomness, edits, cascade, ids, and the refinement of `Transcript` | two creations under one token, so that a room is swept and another takes its token and must not take its id; three events in each: two posts and an edit or a lock in any order, with and without rolls; two times, so that the sweep keeps or deletes. One room exists at a time; the theorems of section 7 cover any number |
| `pg` | refinement of `RoomStore`, stale reads, termination | two processes, three events, one draw, and a sweep that may delete the room under either: every overlap of two transactions after a first one. `MCRequests` leaves out requests that differ only in their timestamp and edits of messages other than the first |
| `lifecycle` | deadlines, identity of rooms, deletions | four clock values around deadlines of one and two; two handlers; one token for two rooms, so that the second is created while a handler still holds the first |
| `lock_race` | is a locked room read-only? (violated) | two handlers, two events |
| `live_sequential` | drained pages are current, every page converges | one handler at a time, capacity one and three events, so that a receiver lags; a dropped connection or a restart, a prune, and a change without a broadcast |
| `live_concurrent` | nothing falls in the gap, no duplicates | two handlers, capacity one, three events, an editing page, a change without a broadcast, a prune |
| `live_out_of_order`, `live_catch_up` | the documented promises of section 8 (violated) | the smallest instance of each |
| `dice_parse` | parser against grammar, suffixes, printing | all inputs of up to six tokens over ten tokens, which is room for two products, or for a dice term with a suffix and an operator after it; all terms with up to three suffixes, numbers on both sides of every limit |
| `dice_eval` | evaluation and what is shown of it | every combination of suffixes on up to three dice with two or three sides or Fate; limits of two rerolls and two explosions, so that both are hit; expressions of up to three terms with `MaxInt` = 20, so that products and sums overflow on both sides |
| `rng` | the generator | words of four bits, every state an initial state; sides that divide the number of words, that do not, and that almost fill it |
| `startup` | schema, migration, cookie key, identity | three processes, so that two fail or race under a third that serves; two crashes; both backends; an empty, a legacy and a used database; a key that is there, missing or corrupt, and a browser that was or was not there before |

`DrainedMeansCurrent` and `NothingFallsInTheGap` say precisely what a change without a
broadcast costs: that change, on pages rendered before it, and nothing else. A page
that was connected all the time keeps missing it even across a reconnect, because a
later event moves its last id past it; loading the page again brings it.
`DrainedMeansCurrent` is checked with one handler at a time and pages that do not edit:
section 8 says what happens otherwise.

Deadlock is checked wherever the system never has to stop. The runs of
`LiveUpdates`, `DiceParse` and `DiceExpr` turn it off: their events, tokens and dice
run out.

The bounds on events, rooms, channels and faults are guards in the actions
(`MaxEvents`, `MaxRooms`, `MaxDraws`, `MaxChannels`, `MaxDrops`, `MaxSilent`,
`MaxRestarts`, `MaxFaults`, `MaxTokens`, `MaxSuffixes`, `MaxRolls`, `MaxIds`, `MaxCrashes`;
`Requests` in `PgStore`) and stand for no limit in the code.
`Capacity`, `LockAfter`, `DeleteAfter`, `MaxDice`, `MaxSides`, `MaxTerms`, `MaxRerolls`,
`MaxDepth`, `MaxInt` and the widths of `RoomRng` are the code's own constants at small
values. `MaxIds` = 2 makes a new client id differ from the one before, which is all
that `IdentitiesLast` looks at.

## 6. Fairness

- `LiveUpdates`: weak fairness of each handler's steps (tokio polls every task that
  is ready) and of each page's stream (tokio for the server side, EventSource's
  reconnecting for the browser side). Requests, page loads, prunes and faults may
  never happen.
- `RoomLifecycle`: weak fairness of the sweep timer, which fires every hour, and
  strong fairness of the sweep's delete: the database may fail again and again, but
  does not fail every time it is asked. The clock is not assumed to advance; the
  property starts when a room *has* expired.
- `PgStore`: strong fairness of each process's next statement: Postgres queues
  waiters of a row, so a transaction that waits gets its turn. Strong rather than
  weak, because the row may be taken again and again by others.
- `DiceExpr`: weak fairness of the next step; it is a sequential function.
- `Startup`: weak fairness of each process's own steps, its start included: whoever
  runs the server starts it again when it has ended. Crashes are bounded. The commit of
  a migration needs no stronger fairness, since a lock that is taken keeps nobody from
  stepping: the waiting process gives up, exits and is started again.

## 7. Proofs

All theorems hold for all values of the constants that the modules' ASSUMEs allow.

| Module | Theorems about | Inductive invariant |
|---|---|---|
| `RoomStoreProofs` | every property of the run `store`, `KeepsThePromise` (`RoomStore` implements `Transcript`) among them | `IInv` |
| `PgStoreProofs` | `PgTypeOK`, `NothingReadIsStale`, `TransactionsAreAtomic`, and the composition of both refinements | `PgInv` |
| `RoomLifecycleProofs` | `LifeTypeOK`, `NothingDatedPastTheDeadline`, `HandlersKeepTheirRoom`, `OnlyExpiredRoomsDeleted` | `LifeInv` |
| `LiveUpdatesProofs` | `NoDuplicates`, `NothingFallsInTheGap`; `DrainedMeansCurrent`, for one handler at a time and no page that edits | `LiveInv`, and with it `DrainInv` |
| `StartupProofs` | `MessagesSurvive`, `ServesOnlyNew`, `IdentitiesLast` | `IInv` |
| `DiceExprProofs` | every invariant of the run `dice_eval`: `RerollsStop`, `ExplosionsFollowMaxima`, `KeepsTheBest`, `ArithmeticIsExact`, `PartsAddUp` | `ExprInv /\ KeepInv /\ ResultInv` |
| `DiceParseProofs` | every property of the run `dice_parse`: `TermsAreSane`, `SuffixOrderIrrelevant`, `PrintedFormReadsBack`, `AcceptsTheGrammar` | `ParseInv` |
| `RoomRngProofs` | `NeverCorrupt`, `StatesDoNotMerge`, `StateRoundTrips`, `FacesAreFair` | `RngInv` |

What the ASSUMEs allow is no less than what the code runs with. Beyond bounds that are
natural numbers and placeholders that are no ordinary values, five of them say something:

- `LiveAssumption`: the channel holds at least one event (256 in the code).
- `StartupAssumption`: a legacy row has the two columns a legacy table has.
- `ExprAssumption`: an expression is a list of signed products, each a list of
  constants and of terms with the fields that `apply_suffix` leaves
  (`DiceEval!TermRecord`). No limit of the parser is assumed. That parsing leaves such
  terms, within the limits, is `OnlySaneTerms`; the two modules model the two
  halves of the crate and share no definition.
- `TermAssumption`: 1 is a number, and a term may have two dice (100 in the code): what
  `adv` and `dis` are printed as.
- `RngAssumption`: the number of sides is positive and fits a word. It is a `u32` and
  the word a `u64`.

### RoomStore

`RoomStoreProofs` proves, for all values of the constants (any number of rooms,
clients, events, draws), that the following hold of `RoomStore!Spec`: `TypeOK`,
`NoOrphans`, `TranscriptGapless`, `EventIdsOrderTheRoom`, `FreshRandomness`,
`ChangesAreNewer`, `RoomIdsNeverReused`, `OriginsSurvive`: every property the run
`store` checks but the refinement, which the second half proves (below).

The assumptions are those of `StoreAssumption`: the values that stand for NULL are
no ordinary values, times are integers, bounds are natural numbers.

The argument: the five invariants are not inductive one by one. That an inserted
row's key is free follows from `TranscriptGapless` (all keys of the room are at most
`seq_counter`); that its event id is new follows from `EventIdsOrderTheRoom` (no id
is above `event_counter`); both need `TypeOK` for arithmetic and `NoOrphans`, so that
every message has a room whose counters bound it; that its roll does not overlap
an older one follows from `FreshRandomness` (nothing consumed is ahead of
`rng_state`). Their conjunction `IInv` is inductive. The proof first states what each
operation does to the tables, free of EXCEPT and LET (`Bumps`, the `...Effect`
lemmas), then shows one lemma per operation with one step per conjunct.
The three action properties follow from `IInv` in the state before the step; that
an edit's event id differs from the one it replaces needs `EventIdsOrderTheRoom`.

### RoomStore implements Transcript

A room's sequence is read from the set of its messages by `seq`: `RowAtFinds` gives the
row, since `IInv` has exactly one at each number up to `seq_counter`. A post appends
because its number is the counter's successor; an edit changes the body at one place
because author and creation time are kept; a sweep restricts the function.

### PgStore

`PgInv` is `IInv` of the committed tables, the shape of each transaction at each
statement (`TxType`), and `TxInv`: a transaction that has its row locked is the only
one, and the row it holds is the committed one but for its own writes. So what
`FOR UPDATE` read is still true when the transaction commits, and the commit is the
operation of `RoomStore` with the parameters of the request (`CommitIsOperation`).
Everything before the commit leaves the tables alone. A sweep cannot take the room:
it would need the row. `NothingReadIsStale` follows too: it says of the reads themselves,
the RNG state of `FOR UPDATE`, the counters and the message that an edit found without
any lock, what the refinement needs of them. Without `FOR UPDATE` two transactions roll
from the same RNG state, and the second to commit violates it.

### RoomLifecycle

`LifeInv` adds to `IInv` what each handler remembers: the room it found was created
when it says, under the token it was asked for, and if it is still there it is the
same; the clock value it checked was before the deadline; and what the sweep
remembers: its cutoff lies in the past. A room id in memory cannot name another room
because ids only grow.

### LiveUpdates

`LiveInv` follows an event from its commit to the page. An event that a handler has
committed, or that is queued, names a message that exists, and no two of them
announce the same post (`HandlersInv`, `QueueInv`). Per page:

- `ListInv`: the page, and the list that a refresh is about to bring, have every
  message once and none that is not committed.
- `NotYetShown`: a post that is announced or queued and newer than the stream's
  snapshot is not on the page yet, so appending it duplicates nothing; one that is
  not newer is filtered. Before the snapshot there is no such promise: a stream that
  subscribes early queues what the snapshot then covers, and `ReadMessages`
  establishes it, since it takes the largest event of what it read.
- `Arrives`: a post newer than the snapshot is on the page, on its way, or in
  `silent`; and a handler that is sending such a post sends it on this stream's
  channel. The second half is why the first survives `Send`. A handler that sends on an
  older generation took its sender before the prune that this stream's channel came
  after, and had committed before that, so the snapshot covers its event; one that sends
  on a newer generation proves that this stream is going to end (`Ending`).
- `LockArrives`: the same for the lock, from the moment the stream read the room's row.

`NothingIsShownTwice` is `ListInv`; `TheGapIsClosed` is `Arrives` and `LockArrives` of a
live stream. The store's part is `IInv` again: an event id larger than the snapshot's
is larger than that of every message the snapshot has (`EventIdsOrderTheRoom`).

`DrainInv` goes from posts that are there to a page that is right. It says
of every page that sends no edits:

- `LineInv`: the events come to it in the order of their ids, first those that are
  queued, then the one that the handler announces, and each says what the database says.
- `Keeps`: whatever becomes of its stream, the page shows the room *as of some event* k
  (`Covers`): what was posted up to k, in order, and every message in its latest version
  if that is not newer than k. It has not been told of an event after k, so a
  reconnect never asks for less than what it lacks.
- `Follows`: once the stream has a snapshot, what is newer than k is on its way or in
  `silent` (`Complete`), and no message that the stream will not filter is older.
- `Hears`: why `Complete` survives `Send` and the end of a channel. Whoever sends
  something newer than the snapshot sends it on this stream's channel; and a stream whose
  channel is no longer the room's gets nothing newer than its second look at the room, so
  what it still delivers before it ends tells the page of nothing that it lacks.

Delivering an event moves k to its id: what lies between is in `silent`, because
ids come in order (`ComesNext`, with one lemma for each kind of event). When nothing is
on its way, `Complete` leaves `silent` as the only place for what is newer than k.

The theorem has two hypotheses, those of its run: `\A v, w \in Workers : v = w` and
`Editors = {}`. Without the first `LineInv` fails, without the second a late reply
undoes an edit; section 8 shows both. `DrainedReadersAreCurrent` needs only the
first: a page that does not edit is current whatever the others do. Dropped handlers,
other processes, lags, lost connections, prunes and restarts are all in. Before it was
proved, TLC found `DrainInv` to hold with the constants of `MCLiveSequential.cfg`.

### Startup

`IInv` says what each process may rely on where it stands (`Done`: past the schema
there are the tables, past the migration there is the new layout), that the table has
either the old rows or all the new ones with nothing lost (`TableIsWhole`), and that the
one process that holds the lock works on the table as it still is, or has found it
migrated and will fail at its first statement (`MigrationUnderLock`). So a commit
replaces the table by the migrated form of what it is then, not of what it was when the
process looked. `IdentitiesLast` needs in addition that the key of a serving process is
the stored one unless two processes raced (`OneKey`), and that the browser's cookie is
signed with it, unless it is still signed with a key that was lost before the first start
(`CookieFits`). `MessagesSurvive` is a step property: the table changes only where a
migration commits, and then from `OldTable` to `Migrated` (`OnlyCommitChanges`), which
say the same row by row (`OldSaysTheSame`).

### Dice

`ExprInv` describes the pool at each step of an evaluation. While dice are rolled, only
the newest can still be waiting for a reroll (`RerollInv`). While they explode, the
pool up to the cursor is in chains that are complete, the chain at the cursor is as long
as `depth` says, and what lies behind it is untouched (`ChainInv`): inserting a die
behind the cursor moves the dice of the rest by one, and the proof carries each chain
along by its own shift. A chain ends at a face below the maximum or at the limit.

`KeepInv` says that, once the pool is counted, what is dropped is what the suffix asks
for by rank. `KeepsTheBest` compares this with every other choice of as many dice:
dice of different places have different ranks (`RanksCount`), so the n best are n dice
(`RanksSelect`), each at least as good as any die left out, and n of the others sum to
no more (`GreaterSum`).

`ResultInv` is about sums. Between two calls of the evaluator, `product` is the product
of the outcomes so far and `total` the exact sum of the products so far (`SumsInv`),
which stand in the places of the expression (`ShapeInv`); a value is the sum of the dice
that the page does not cross out (`ValueInv`); and a result of `Overflow` names the number
that left the range (`OverflowInv`). `ArithmeticIsExact` is then that the exact sum
fits if every sum on the way did, and does not if the last one did not. `PartsAddUp`
adds up the rendered parts from left to right: a line of parts that begins a product adds
the product before it and starts anew (`ProductIsShown`), so after n products it shows
what `total` was (`LinesAreShown`).

These sums and products, and the suffixes of a term in the parser, are folds. The
community modules define a fold as the CHOICE of a function on the subsets of 1..n, or on
1..n, that satisfies its recursive equation. `FoldExists` and `SumExists` show that there
is such a function, by induction over n (`CountingUp`, from the well-foundedness of the
numbers); one `...Unfolds` lemma for each fold says what it does from one element to the
next. The rest needs no induction: it follows the steps of the evaluation.

The parser is a function of its input: `ParseInv` says no more than that `parsed` is what
`Parse` makes of `input`, so the theorems about it are theorems about `Parse`.

- *What is accepted.* `SaneTerms` are the records within the limits. `ReadKeepsSane` says
  that a suffix leaves a sane term sane or refuses it, whatever came before. `Many` is
  `many0`, a recursive function of the position that reads an operator with its item and
  goes on behind them; `RecursionExists` shows, counting down from the end of the input
  (`CountingDown`), that there is such a function, since an item ends behind its operator
  (`TermReads`, `ItemsStandBehind`). So a list is read as a list of what its items are
  read as, and stops inside the input or just behind it (`ManyReads`).
- *Suffixes that change places.* A term has four slots, one each for `keep` and `adv` or
  `dis`, rerolls, explosion and success. Every suffix fills one (`SlotOf`), and refuses or
  accepts by what is in that slot alone, or by what never changes. Two suffixes of one
  slot therefore fail in either order, and two of different slots do not see each other
  (`SuffixesCommute`). That `adv` changes the number of dice, which `keep` asks for, is
  why those two share a slot. Everything around the two tokens is read
  as before (`SwapKeepsTerms` to `SwapKeepsExprs`).
- *What is printed.* The text of an expression is its items one behind the other,
  with operators between blanks. Each item has its place in the text
  (`PrintedHasPlaces`), its printed suffixes, applied to the bare term, restore its slots
  (`ShownDiceRead`), and what ends it is a blank or the end. If the items of a list
  read back, so does the list (`PrintedListReads`), once for the terms of a product and
  once for the products of an expression.
- *What the grammar is.* The reference cuts the input at its operators (`PiecesAreCut`), a
  recursion over the positions that knows nothing of the parser's. A piece is a term by
  its text exactly if the parser reads all of it (`TextIsTerm`), and reading it in the
  middle of the input is the same as reading it alone, since a blank, an operator or the
  end stops a term (`TermWithin`). So at each piece the parser either reads a term up to the
  next operator, or refuses, or is stuck before one (`PieceIsRead`); and where it is stuck
  no list goes on, and the end is not reached (`ListFails`, `WholeFails`). The lists are
  then followed from the last piece to the first, first the terms of a product
  (`TimesLine`, `ProductLine`), then the products (`PlusLine`): either all pieces to the
  right are read, in their places (`LaysOut`), or one of them is no term, or there
  are more than `MaxTerms`. Counting and flattening what was laid out
  (`LaidOutIsCounted`, `LaidOutIsFlat`) gives the statement.

### RoomRng

That no two states have the same successor comes down to two facts about words: a
rotation is injective, and so is `w ^ (w << n)`: of two words take the lowest bit in
which they differ; the shifted copies agree there. `SuccessorIsUndone` then undoes the
six assignments from the last to the first. The all-zero state is its own successor,
so nothing else leads to it. For the round trip, each bit number has one byte and
one place in it.

For fairness: the accepted numbers are those below the zone, which is a multiple of the
number of sides. Those that give the face f are f - 1, f - 1 + sides, and so on, one in
each turn, so each face has a bijection with the turns (`GivenEquallyOften`); and what is
cut off is at most one turn, hence at most half (`MostAreAccepted`).

### What is only model-checked

- Liveness (`Converges`, `ExpiredRoomsVanish`, `TransactionsEnd`, `Terminates`,
  `EveryoneServes`) rests on fairness, and fairness on ENABLED, which the prover does
  not treat.

Every invariant and every action property that a passing run checks is proved; only the
five liveness properties above are not. `DrainedMeansCurrent` is proved under the
conditions that its run makes too: one handler at a time and no page that edits.

## 8. Where code and documentation disagree

The first three are runs that TLC finds violated; `PROJECT.json` quotes the lines.

1. `lock_race`: a message whose handler checked the lock before another request
   locked the room is still committed (`SPEC.md:39`).
2. `live_out_of_order`: two posts broadcast in the opposite order of their commits
   stand in the wrong order on open pages (`SPEC.md:74`).
3. `live_catch_up`: a page that saw the later event and lost its connection before
   the earlier one never gets the earlier message (`SPEC.md:84`).

The others are visible in the models and have no run of their own:

4. An editor's own response can arrive after a newer edit of the same message and
   overwrite it (comment at `web.rs:436`). With `Editors = {b1}` in `MCLiveSequential.cfg`,
   `DrainedMeansCurrent` is violated.
5. The explosion limit caps silently (`dice/src/lib.rs:683`), and a test relies on it,
   while `SPEC.md:150-153` says violations of limits are errors. `ExplosionsFollowMaxima`
   states what the code does.
6. Two processes that start without a stored key each write their own; one goes on
   signing with a key that is not stored, and its identities end with its restart
   (`main.rs:83` promises otherwise). `IdentitiesLast` excludes this case (`raced`). Its
   other exception is no disagreement: a browser whose cookie was signed with a key that
   is missing or corrupt at the first start gets a new id once, as `main.rs:92` announces,
   and keeps that one.
7. A change without a broadcast, by a dropped handler (`web.rs:342`) or another process,
   stays missing on connected pages, against the comment at `web.rs:483`.

## 9. What is not modelled, and why

- Sweeps of several processes that lock the rows of many rooms in different orders:
  `PgSweep` waits for all of them and deletes them in one step.
- Exports, tokens, time formatting, the templates, environment and listener: pure
  formatting or I/O without state of its own.
- The wording and the columns of parse errors.
- Wrong numbers of bytes in a stored RNG state: only the server writes that column.
- Display names in live updates: a page shows the names as of rendering; nothing
  promises more.
- A wall clock that is set back: `NothingDatedPastTheDeadline` depends on a clock that
  does not run backwards.
- Rooms deleted while streams are open: planned.
- A lock that falls between rendering and subscribing leaves the composer open; the
  server refuses its requests. Listed as a hazard without a property.
- The connection to Postgres is not reopened when it dies, and a poisoned mutex stays
  poisoned: both are errors from then on, without a state to get wrong.

## 10. Running it

    tlc -workers 2 -config MCRoomStore.cfg MCRoomStore
    tlapm RoomStoreProofs.tla

Every run finishes within about three minutes on two cores; the proofs take a few
minutes per module from nothing.
