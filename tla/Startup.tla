------------------------------- MODULE Startup -------------------------------
(****************************************************************************)
(* What happens before a process serves (server/src/main.rs): the schema is *)
(* created where it is missing, a database of the old layout is brought     *)
(* forward (migrate in both backends), and the key that signs the identity  *)
(* cookies is read, or generated and written; and what depends on it, the   *)
(* identity of one browser (identity in server/src/web.rs).  Several        *)
(* processes start on one database, fail, crash and are started again.      *)
(*                                                                          *)
(* Of the rows only the columns that the migration touches are modelled.    *)
(* A transaction works on a copy of the table, under the lock that its      *)
(* first statement takes.                                                   *)
(****************************************************************************)
EXTENDS Integers, Sequences, SequencesExt, Functions

CONSTANTS
  Processes,
  Backends,      \* "sqlite", "postgres"
  LegacyRows,    \* the messages of a database of the old layout, by number
  None,          \* SQL NULL; no key, cookie or lock
  Corrupt,       \* a key in meta that does not decode
  MaxIds,        \* bound: as many client ids differ; then they come again
  MaxCrashes     \* bound: crashes

ASSUME StartupAssumption ==
  /\ None \notin Processes
  /\ None \notin Nat /\ Corrupt \notin Nat
  /\ LegacyRows = [m \in DOMAIN LegacyRows |->
                     [kind |-> LegacyRows[m].kind, body |-> LegacyRows[m].body]]
  /\ MaxIds \in Nat \ {0, 1}
  /\ MaxCrashes \in Nat

VARIABLES
  backend,    \* which database it is
  tables,     \* the tables that exist
  messages,   \* the messages table: its columns and rows
  holder,     \* the process whose migration is in progress, or None
  work,       \* the table as that transaction sees it
  storedKey,  \* cookie_key in meta
  pc,         \* how far a process is
  step,       \* ... and which statement it executes next
  key,        \* the key it serves with
  keys,       \* keys generated so far
  cookie,     \* the browser's cookie: an id and the key that signed it
  ids,        \* the last id issued
  crashes,    \* crashes so far
  raced       \* two processes were about to write a key of their own

vars == <<backend, tables, messages, holder, work, storedKey, pc, step, key, keys,
          cookie, ids, crashes, raced>>
database == <<tables, messages, holder, work, storedKey>>
browser == <<cookie, ids>>

Schema == <<"meta", "rooms", "members", "messages">>

OldColumns == {"kind", "body"}
NewColumns == {"expr", "comment"}

------------------------------------------------------------------------------
(* The statements of the migration; rows by their number, values by column. *)

AddColumn(t, c, default) ==
  [columns |-> t.columns \cup {c},
   rows |-> [m \in DOMAIN t.rows |->
              [x \in t.columns \cup {c} |-> IF x = c THEN default ELSE t.rows[m][x]]]]

DropColumn(t, c) ==
  [columns |-> t.columns \ {c},
   rows |-> [m \in DOMAIN t.rows |-> Restrict(t.rows[m], t.columns \ {c})]]

\* UPDATE messages SET c = body WHERE kind = k.
CopyBody(t, c, k) ==
  [t EXCEPT !.rows = [m \in DOMAIN @ |->
                       IF @[m].kind = k THEN [@[m] EXCEPT ![c] = t.rows[m].body] ELSE @[m]]]

Statements == 6

Executed(t, i) ==
  CASE i = 1 -> AddColumn(t, "expr", None)
    [] i = 2 -> AddColumn(t, "comment", "")
    [] i = 3 -> CopyBody(t, "expr", "roll")
    [] i = 4 -> CopyBody(t, "comment", "text")
    [] i = 5 -> DropColumn(t, "kind")
    [] i = 6 -> DropColumn(t, "body")

\* A column that is added twice, or dropped or read where it is not.
StatementFails(t, i) ==
  CASE i = 1 -> "expr" \in t.columns
    [] i = 2 -> "comment" \in t.columns
    [] i = 5 -> "kind" \notin t.columns
    [] i = 6 -> "body" \notin t.columns
    [] OTHER -> ~({"kind", "body"} \subseteq t.columns)

NewTable == [columns |-> NewColumns, rows |-> <<>>]
OldTable == [columns |-> OldColumns, rows |-> LegacyRows]

\* What a row of the old layout says in the new one: "rolls keep their expression,
\* text messages become comments" (postgres.rs:80).
Meaning(row) ==
  IF "kind" \notin DOMAIN row
  THEN row
  ELSE [expr |-> IF row.kind = "roll" THEN row.body ELSE None,
        comment |-> IF row.kind = "text" THEN row.body ELSE ""]

------------------------------------------------------------------------------
\* An empty database, one of the old layout, or one that was in use; with its key,
\* without one or with one that does not decode.  The browser may have been here
\* before: its cookie was signed with the key that was stored, whatever is left of it.
Init ==
  /\ backend \in Backends
  /\ \/ tables = {} /\ messages = NewTable /\ storedKey = None
     \/ /\ tables = Range(Schema)
        /\ messages \in {OldTable,
                         [columns |-> NewColumns, rows |-> [m \in DOMAIN LegacyRows |->
                                                             Meaning(LegacyRows[m])]]}
        /\ storedKey \in {0, None, Corrupt}
  /\ cookie \in {None, [id |-> 0, signed |-> storedKey]}
  /\ holder = None
  /\ work = NewTable
  /\ pc = [p \in Processes |-> "off"]
  /\ step = [p \in Processes |-> 1]
  /\ key = [p \in Processes |-> None]
  /\ keys = 0
  /\ ids = 0
  /\ crashes = 0
  /\ raced = FALSE

Go(p, where) == pc' = [pc EXCEPT ![p] = where] /\ step' = [step EXCEPT ![p] = 1]

\* The process ends with exit(1); its connection is closed, its transaction undone.
Exit(p) ==
  /\ Go(p, "off")
  /\ key' = [key EXCEPT ![p] = None]
  /\ holder' = IF holder = p THEN None ELSE holder

Start(p) ==
  /\ pc[p] = "off"
  /\ Go(p, "schema")
  /\ UNCHANGED <<backend, database, key, keys, browser, crashes, raced>>

Locked(p) == holder \notin {None, p}

\* SQLite executes the statements of SCHEMA one by one, each for itself.
CreateTableAgain(p) ==
  /\ pc[p] = "schema" /\ backend = "sqlite"
  /\ ~Locked(p)
  /\ IF Schema[step[p]] \in tables
     THEN Exit(p) /\ UNCHANGED tables
     ELSE /\ tables' = tables \cup {Schema[step[p]]}
          /\ IF step[p] < Len(Schema)
             THEN step' = [step EXCEPT ![p] = @ + 1] /\ UNCHANGED pc
             ELSE Go(p, "check")
          /\ UNCHANGED <<holder, key>>
  /\ UNCHANGED <<backend, messages, work, storedKey, keys, browser, crashes, raced>>

CreateTable(p) ==
  /\ pc[p] = "schema" /\ backend = "sqlite"
  /\ Schema[step[p]] \in tables \/ ~Locked(p)
  /\ tables' = tables \cup {Schema[step[p]]}
  /\ IF step[p] < Len(Schema)
     THEN step' = [step EXCEPT ![p] = @ + 1] /\ UNCHANGED pc
     ELSE Go(p, "check")
  /\ UNCHANGED <<backend, messages, holder, work, storedKey, key, keys, browser, crashes, raced>>

\* Postgres executes them as one transaction, which looks for the tables first ...
LookForTables(p) ==
  /\ pc[p] = "schema" /\ backend = "postgres"
  /\ Go(p, IF tables = Range(Schema) THEN "check" ELSE "create")
  /\ UNCHANGED <<backend, database, key, keys, browser, crashes, raced>>

\* ... and fails, or not, if another process has created them in the meantime.
CreateTables(p) ==
  /\ pc[p] = "create"
  /\ tables' = Range(Schema)
  /\ Go(p, "check")
  /\ UNCHANGED <<backend, messages, holder, work, storedKey, key, keys, browser, crashes, raced>>

CreateTablesFails(p) ==
  /\ pc[p] = "create"
  /\ tables = Range(Schema)
  /\ Exit(p)
  /\ UNCHANGED <<backend, tables, messages, work, storedKey, keys, browser, crashes, raced>>

\* migrate, up to its early return.
Check(p) ==
  /\ pc[p] = "check"
  /\ Go(p, IF "kind" \in messages.columns THEN "migrate" ELSE "key")
  /\ UNCHANGED <<backend, database, key, keys, browser, crashes, raced>>

\* BEGIN, and the lock that the first ALTER TABLE waits for.
BeginMigration(p) ==
  /\ pc[p] = "migrate"
  /\ holder = None
  /\ holder' = p
  /\ work' = messages
  /\ UNCHANGED <<backend, tables, messages, storedKey, pc, step, key, keys, browser,
                 crashes, raced>>

ExecuteAtOnce(p) ==
  /\ pc[p] = "migrate" /\ holder = p
  /\ step[p] <= Statements
  /\ ~StatementFails(work, step[p])
  /\ work' = Executed(work, step[p])
  /\ messages' = work'
  /\ step' = [step EXCEPT ![p] = @ + 1]
  /\ UNCHANGED <<backend, tables, holder, storedKey, pc, key, keys, browser, crashes, raced>>

Execute(p) ==
  /\ pc[p] = "migrate" /\ holder = p
  /\ step[p] <= Statements
  /\ ~StatementFails(work, step[p])
  /\ work' = Executed(work, step[p])
  /\ step' = [step EXCEPT ![p] = @ + 1]
  /\ UNCHANGED <<backend, tables, messages, holder, storedKey, pc, key, keys, browser,
                 crashes, raced>>

\* Another process has migrated between the check and the lock.
MigrationFails(p) ==
  /\ pc[p] = "migrate" /\ holder = p
  /\ step[p] <= Statements
  /\ StatementFails(work, step[p])
  /\ Exit(p)
  /\ UNCHANGED <<backend, tables, messages, work, storedKey, keys, browser, crashes, raced>>

Commit(p) ==
  /\ pc[p] = "migrate" /\ holder = p
  /\ step[p] > Statements
  /\ messages' = work
  /\ holder' = None
  /\ Go(p, "key")
  /\ UNCHANGED <<backend, tables, work, storedKey, key, keys, browser, crashes, raced>>

BusyIgnored(p) ==
  /\ backend = "sqlite" /\ Locked(p)
  /\ \/ pc[p] = "schema" /\ Schema[step[p]] \notin tables
     \/ pc[p] \in {"migrate", "newkey"}
  /\ Go(p, "key")
  /\ UNCHANGED <<backend, database, key, keys, browser, crashes, raced>>

\* SQLite gives up waiting for a lock after a while.
Busy(p) ==
  /\ backend = "sqlite" /\ Locked(p)
  /\ \/ pc[p] = "schema" /\ Schema[step[p]] \notin tables
     \/ pc[p] \in {"migrate", "newkey"}
  /\ Exit(p)
  /\ UNCHANGED <<backend, tables, messages, work, storedKey, keys, browser, crashes, raced>>

\* cookie_key: meta_get, and the key if there is one that decodes.
GetKey(p) ==
  /\ pc[p] = "key"
  /\ IF storedKey \in {None, Corrupt}
     THEN Go(p, "newkey") /\ UNCHANGED key
     ELSE Go(p, "serving") /\ key' = [key EXCEPT ![p] = storedKey]
  /\ UNCHANGED <<backend, database, keys, browser, crashes, raced>>

SetKeyInMemory(p) ==
  /\ pc[p] = "newkey"
  /\ backend = "sqlite" => ~Locked(p)
  /\ keys' = keys + 1
  /\ key' = [key EXCEPT ![p] = keys + 1]
  /\ Go(p, "serving")
  /\ raced' = (raced \/ \E q \in Processes \ {p} : pc[q] = "newkey")
  /\ UNCHANGED <<backend, database, browser, crashes>>

\* Otherwise a fresh one; meta_set overwrites what is there.
SetKey(p) ==
  /\ pc[p] = "newkey"
  /\ backend = "sqlite" => ~Locked(p)
  /\ keys' = keys + 1
  /\ key' = [key EXCEPT ![p] = keys + 1]
  /\ storedKey' = keys + 1
  /\ Go(p, "serving")
  /\ raced' = (raced \/ \E q \in Processes \ {p} : pc[q] = "newkey")
  /\ UNCHANGED <<backend, tables, messages, holder, work, browser, crashes>>

\* identity: the browser's cookie counts if this process's key has signed it;
\* otherwise the browser gets a new id.
Visit(p) ==
  /\ pc[p] = "serving"
  /\ IF cookie # None /\ cookie.signed = key[p]
     THEN UNCHANGED browser
     ELSE /\ ids' = (ids + 1) % MaxIds
          /\ cookie' = [id |-> ids', signed |-> key[p]]
  /\ UNCHANGED <<backend, database, pc, step, key, keys, crashes, raced>>

Crash(p) ==
  /\ pc[p] # "off"
  /\ crashes < MaxCrashes
  /\ crashes' = crashes + 1
  /\ Exit(p)
  /\ UNCHANGED <<backend, tables, messages, work, storedKey, keys, browser, raced>>

Step(p) ==
  \/ Start(p)
  \/ CreateTable(p) \/ LookForTables(p) \/ CreateTables(p) \/ CreateTablesFails(p)
  \/ Check(p)
  \/ BeginMigration(p) \/ Execute(p) \/ MigrationFails(p) \/ Commit(p) \/ Busy(p)
  \/ GetKey(p) \/ SetKey(p)

Next == \E p \in Processes : Step(p) \/ Visit(p) \/ Crash(p)

\* A process goes on, and one that has ended is started again.
Spec == Init /\ [][Next]_vars /\ \A p \in Processes : WF_vars(Step(p))

------------------------------------------------------------------------------
(* Properties. *)

Saying(table) == [m \in DOMAIN table.rows |-> Meaning(table.rows[m])]

\* The table is of the old layout or of the new one, never between the two, whoever
\* crashes or fails in the middle; and from the first start on no step loses a message
\* or changes what it says: "rolls keep their expression, text messages become
\* comments".
MessagesSurvive ==
  /\ [](/\ messages.columns \in {OldColumns, NewColumns}
        /\ \A m \in DOMAIN messages.rows : DOMAIN messages.rows[m] = messages.columns)
  /\ [][Saying(messages') = Saying(messages)]_messages

\* A process serves only where every table has the layout that its queries name,
\* whatever the other processes do, and with a key.
ServesOnlyNew ==
  \A p \in Processes :
    pc[p] = "serving" =>
      /\ tables = Range(Schema)
      /\ messages.columns = NewColumns
      /\ key[p] # None

\* "The cookie signing key lives with the data, so a restart (or a second process on
\* the same database) keeps existing identities valid" (main.rs:83): a browser that
\* has an id keeps it, whichever process it talks to and whoever was started again
\* in between.  There are two exceptions: the key that signed its cookie was lost or
\* corrupt before the first start ("existing identities reset", main.rs:92), which can
\* cost it one id but no later one; or two processes were about to write a key of
\* their own.
IdentitiesLast ==
  [][~raced /\ cookie # None /\ cookie.signed \notin {None, Corrupt}
       => cookie'.id = cookie.id]_vars

\* Every process that is started again after a failure or a crash serves in the end.
EveryoneServes ==
  \A p \in Processes : <>[](pc[p] = "serving")
=============================================================================
