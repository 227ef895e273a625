---------------------------- MODULE StartupProofs ----------------------------
(****************************************************************************)
(* For any number of processes, any legacy rows and any crashes: the        *)
(* messages table is the one it was or the one the whole migration makes of *)
(* it, a process serves only on the new layout, and a browser keeps its     *)
(* identity unless its key was lost before the first start or two processes *)
(* were about to write one.                                                 *)
(****************************************************************************)
EXTENDS Startup, TLAPS

Places ==
  {"off", "schema", "create", "check", "migrate", "key", "newkey", "serving"}

AllTables == {"meta", "rooms", "members", "messages"}

-----------------------------------------------------------------------------
(* The table before the statement s of the migration, for s in 1..7. *)

ColumnsAt(s) ==
  (IF s <= 5 THEN {"kind"} ELSE {}) \cup (IF s <= 6 THEN {"body"} ELSE {})
    \cup (IF s >= 2 THEN {"expr"} ELSE {}) \cup (IF s >= 3 THEN {"comment"} ELSE {})

Cell(row, s, c) ==
  CASE c = "kind" -> row.kind
    [] c = "body" -> row.body
    [] c = "expr" -> IF s >= 4 /\ row.kind = "roll" THEN row.body ELSE None
    [] c = "comment" -> IF s >= 5 /\ row.kind = "text" THEN row.body ELSE ""

Halfway(s) ==
  [columns |-> ColumnsAt(s),
   rows |-> [m \in DOMAIN LegacyRows |-> [c \in ColumnsAt(s) |-> Cell(LegacyRows[m], s, c)]]]

\* The table when all statements are executed.
Migrated ==
  [columns |-> NewColumns, rows |-> [m \in DOMAIN LegacyRows |-> Meaning(LegacyRows[m])]]

-----------------------------------------------------------------------------
(* The inductive invariant. *)

PlacesOK ==
  /\ pc \in [Processes -> Places]
  /\ step \in [Processes -> 1..7]
  /\ key = [p \in Processes |-> key[p]]
  /\ keys \in Nat
  /\ storedKey \in Nat \cup {None, Corrupt}

\* The table changes at one commit only, from the old layout to the new one.
TableIsWhole == messages \in {OldTable, NewTable, Migrated}

\* The process that holds the lock is in its migration, and works on the table as
\* it was, or has found it migrated and will fail at its first statement.
MigrationUnderLock ==
  holder # None =>
    /\ holder \in Processes
    /\ pc[holder] = "migrate"
    /\ \/ messages = OldTable /\ work = Halfway(step[holder])
       \/ messages # OldTable /\ step[holder] = 1 /\ work = messages

\* What is behind a process stays true: the tables it has created or found, and
\* the new layout.
Done(p) ==
  /\ pc[p] = "schema" =>
       /\ step[p] \in 1..4
       /\ \A i \in 1..(step[p] - 1) : Schema[i] \in tables
  /\ pc[p] \in {"check", "migrate", "key", "newkey", "serving"} => tables = AllTables
  /\ pc[p] \in {"key", "newkey", "serving"} => messages.columns = NewColumns
  /\ pc[p] = "migrate" /\ holder # p => step[p] = 1

\* Who serves has a key; and as long as no two were about to write one, it is the
\* stored key, which has signed the browser's cookie too, unless that is signed with
\* a key that was lost before the first start.
OneKey(p) ==
  /\ pc[p] = "serving" => key[p] \in Nat
  /\ ~raced /\ pc[p] = "serving" => key[p] = storedKey
  /\ ~raced /\ pc[p] = "newkey" => storedKey \in {None, Corrupt}

CookieFits ==
  ~raced /\ cookie # None /\ cookie.signed \notin {None, Corrupt} =>
    cookie.signed = storedKey /\ storedKey \in Nat

IInv ==
  /\ PlacesOK
  /\ tables \subseteq AllTables
  /\ TableIsWhole
  /\ MigrationUnderLock
  /\ \A p \in Processes : Done(p) /\ OneKey(p)
  /\ CookieFits

-----------------------------------------------------------------------------
(* What the statements do to the table. *)

LEMMA LegacyShape ==
  ASSUME NEW m \in DOMAIN LegacyRows
  PROVE  /\ DOMAIN LegacyRows[m] = OldColumns
         /\ LegacyRows[m] = [c \in OldColumns |-> LegacyRows[m][c]]
         /\ LegacyRows[m]["kind"] = LegacyRows[m].kind
         /\ LegacyRows[m]["body"] = LegacyRows[m].body
<1>1. LegacyRows[m] = [kind |-> LegacyRows[m].kind, body |-> LegacyRows[m].body]
  BY StartupAssumption
<1> QED
  BY <1>1 DEF OldColumns

LEMMA StartsOld == Halfway(1) = OldTable
<1>1. ColumnsAt(1) = OldColumns
  BY DEF ColumnsAt, OldColumns
<1>2. ASSUME NEW m \in DOMAIN LegacyRows
      PROVE  [c \in ColumnsAt(1) |-> Cell(LegacyRows[m], 1, c)] = LegacyRows[m]
  <2>1. [c \in OldColumns |-> Cell(LegacyRows[m], 1, c)] = [c \in OldColumns |-> LegacyRows[m][c]]
    BY LegacyShape DEF Cell, OldColumns
  <2> QED
    BY <2>1, <1>1, LegacyShape
<1>3. LegacyRows = [m \in DOMAIN LegacyRows |-> LegacyRows[m]]
  BY StartupAssumption
<1>4. Halfway(1).rows = LegacyRows
  BY <1>2, <1>3 DEF Halfway
<1> QED
  BY <1>1, <1>4 DEF Halfway, OldTable

LEMMA EndsNew == Halfway(7) = Migrated
<1>1. ColumnsAt(7) = NewColumns
  BY DEF ColumnsAt, NewColumns
<1>2. ASSUME NEW m \in DOMAIN LegacyRows
      PROVE  [c \in ColumnsAt(7) |-> Cell(LegacyRows[m], 7, c)] = Meaning(LegacyRows[m])
  <2>1. "kind" \in DOMAIN LegacyRows[m]
    BY LegacyShape DEF OldColumns
  <2>2. Meaning(LegacyRows[m]) = [c \in NewColumns |-> Meaning(LegacyRows[m])[c]]
    BY <2>1 DEF Meaning, NewColumns
  <2>3. \A c \in NewColumns : Meaning(LegacyRows[m])[c] = Cell(LegacyRows[m], 7, c)
    <3>1. Meaning(LegacyRows[m]) =
            [expr |-> Cell(LegacyRows[m], 7, "expr"), comment |-> Cell(LegacyRows[m], 7, "comment")]
      BY <2>1 DEF Cell, Meaning
    <3> QED
      BY <3>1 DEF NewColumns
  <2>4. [c \in NewColumns |-> Meaning(LegacyRows[m])[c]]
          = [c \in NewColumns |-> Cell(LegacyRows[m], 7, c)]
    BY <2>3
  <2>5. [c \in ColumnsAt(7) |-> Cell(LegacyRows[m], 7, c)]
          = [c \in NewColumns |-> Cell(LegacyRows[m], 7, c)]
    BY <1>1
  <2> QED
    BY <2>2, <2>4, <2>5
<1> QED
  BY <1>1, <1>2 DEF Halfway, Migrated

LEMMA ColumnsBySteps ==
  /\ ColumnsAt(1) = {"kind", "body"}
  /\ ColumnsAt(2) = {"kind", "body", "expr"}
  /\ ColumnsAt(3) = {"kind", "body", "expr", "comment"}
  /\ ColumnsAt(4) = {"kind", "body", "expr", "comment"}
  /\ ColumnsAt(5) = {"kind", "body", "expr", "comment"}
  /\ ColumnsAt(6) = {"body", "expr", "comment"}
  /\ ColumnsAt(7) = {"expr", "comment"}
<1>1. ColumnsAt(1) = {"kind", "body"} /\ ColumnsAt(2) = {"kind", "body", "expr"}
  BY DEF ColumnsAt
<1>2. ColumnsAt(3) = {"kind", "body", "expr", "comment"}
  BY DEF ColumnsAt
<1>3. ColumnsAt(4) = {"kind", "body", "expr", "comment"}
  BY DEF ColumnsAt
<1>4. ColumnsAt(5) = {"kind", "body", "expr", "comment"}
  BY DEF ColumnsAt
<1>5. ColumnsAt(6) = {"body", "expr", "comment"} /\ ColumnsAt(7) = {"expr", "comment"}
  BY DEF ColumnsAt
<1> QED
  BY <1>1, <1>2, <1>3, <1>4, <1>5

\* A table is Halfway(s) if it has its columns and, cell by cell, its rows.
LEMMA HalfwayByCells ==
  ASSUME NEW s \in 1..7, NEW rows,
         rows = [m \in DOMAIN LegacyRows |-> rows[m]],
         \A m \in DOMAIN LegacyRows :
           /\ rows[m] = [c \in ColumnsAt(s) |-> rows[m][c]]
           /\ \A c \in ColumnsAt(s) : rows[m][c] = Cell(LegacyRows[m], s, c)
  PROVE  [columns |-> ColumnsAt(s), rows |-> rows] = Halfway(s)
<1>1. ASSUME NEW m \in DOMAIN LegacyRows
      PROVE  rows[m] = [c \in ColumnsAt(s) |-> Cell(LegacyRows[m], s, c)]
  <2>1. [c \in ColumnsAt(s) |-> rows[m][c]] = [c \in ColumnsAt(s) |-> Cell(LegacyRows[m], s, c)]
    OBVIOUS
  <2> QED
    BY <2>1
<1> DEFINE halfRows == [m \in DOMAIN LegacyRows |->
                         [c \in ColumnsAt(s) |-> Cell(LegacyRows[m], s, c)]]
<1>2. rows = halfRows
  BY <1>1
<1> QED
  BY <1>2 DEF Halfway

\* The three forms of a statement, each from one Halfway to the next.
LEMMA HalfwayCells ==
  ASSUME NEW s \in 1..7
  PROVE  /\ Halfway(s).columns = ColumnsAt(s)
         /\ DOMAIN Halfway(s).rows = DOMAIN LegacyRows
         /\ \A m \in DOMAIN LegacyRows :
              /\ DOMAIN Halfway(s).rows[m] = ColumnsAt(s)
              /\ \A c \in ColumnsAt(s) : Halfway(s).rows[m][c] = Cell(LegacyRows[m], s, c)
BY DEF Halfway

LEMMA AddsColumn ==
  ASSUME NEW s \in 1..6, NEW c, NEW default,
         ColumnsAt(s + 1) = ColumnsAt(s) \cup {c}, c \notin ColumnsAt(s),
         \A m \in DOMAIN LegacyRows :
           /\ Cell(LegacyRows[m], s + 1, c) = default
           /\ \A x \in ColumnsAt(s) : Cell(LegacyRows[m], s + 1, x) = Cell(LegacyRows[m], s, x)
  PROVE  AddColumn(Halfway(s), c, default) = Halfway(s + 1)
<1> DEFINE t == AddColumn(Halfway(s), c, default)
<1>0. Halfway(s).columns \cup {c} = ColumnsAt(s + 1)
  BY HalfwayCells
<1>1. t = [columns |-> ColumnsAt(s + 1), rows |-> t.rows]
  BY <1>0 DEF AddColumn
<1>2. t.rows = [m \in DOMAIN LegacyRows |-> [x \in ColumnsAt(s + 1) |->
                  IF x = c THEN default ELSE Halfway(s).rows[m][x]]]
  BY <1>0, HalfwayCells DEF AddColumn
<1>3. ASSUME NEW m \in DOMAIN LegacyRows
      PROVE  /\ t.rows[m] = [x \in ColumnsAt(s + 1) |-> t.rows[m][x]]
             /\ \A x \in ColumnsAt(s + 1) : t.rows[m][x] = Cell(LegacyRows[m], s + 1, x)
  <2>1. t.rows[m] = [x \in ColumnsAt(s + 1) |->
                      IF x = c THEN default ELSE Halfway(s).rows[m][x]]
    BY <1>2
  <2> HIDE DEF t
  <2>2. \A x \in ColumnsAt(s + 1) : t.rows[m][x] = Cell(LegacyRows[m], s + 1, x)
    BY <2>1, HalfwayCells
  <2> QED
    BY <2>1, <2>2
<1> HIDE DEF t
<1>4. t.rows = [m \in DOMAIN LegacyRows |-> t.rows[m]] /\ s + 1 \in 1..7
  BY <1>2
<1>5. [columns |-> ColumnsAt(s + 1), rows |-> t.rows] = Halfway(s + 1)
  BY <1>3, <1>4, HalfwayByCells
<1>6. t = Halfway(s + 1)
  BY <1>1, <1>5
<1> QED
  BY <1>6 DEF t

LEMMA CopiesBody ==
  ASSUME NEW s \in 1..6, NEW c \in ColumnsAt(s), NEW k,
         ColumnsAt(s + 1) = ColumnsAt(s), {"kind", "body"} \subseteq ColumnsAt(s),
         \A m \in DOMAIN LegacyRows :
           /\ Cell(LegacyRows[m], s + 1, c) =
                IF LegacyRows[m].kind = k THEN LegacyRows[m].body
                ELSE Cell(LegacyRows[m], s, c)
           /\ \A x \in ColumnsAt(s) \ {c} :
                Cell(LegacyRows[m], s + 1, x) = Cell(LegacyRows[m], s, x)
  PROVE  CopyBody(Halfway(s), c, k) = Halfway(s + 1)
<1> DEFINE t == CopyBody(Halfway(s), c, k)
           old == Halfway(s).rows
<1>0. Halfway(s) = [columns |-> ColumnsAt(s + 1), rows |-> old]
  BY DEF Halfway
<1>1. t = [columns |-> ColumnsAt(s + 1), rows |-> t.rows]
  <2> HIDE DEF old
  <2> QED
    BY <1>0 DEF CopyBody
<1>2. t.rows = [m \in DOMAIN LegacyRows |->
                 IF old[m].kind = k THEN [old[m] EXCEPT ![c] = old[m].body] ELSE old[m]]
  BY HalfwayCells DEF CopyBody, Halfway
<1>3. ASSUME NEW m \in DOMAIN LegacyRows
      PROVE  /\ t.rows[m] = [x \in ColumnsAt(s + 1) |-> t.rows[m][x]]
             /\ \A x \in ColumnsAt(s + 1) : t.rows[m][x] = Cell(LegacyRows[m], s + 1, x)
  <2>1. /\ old[m] = [x \in ColumnsAt(s) |-> old[m][x]]
        /\ old[m].kind = LegacyRows[m].kind
        /\ old[m].body = LegacyRows[m].body
    <3>1. old[m] = [x \in ColumnsAt(s) |-> Cell(LegacyRows[m], s, x)]
      BY DEF Halfway
    <3> HIDE DEF old
    <3>2. /\ old[m]["kind"] = Cell(LegacyRows[m], s, "kind")
          /\ old[m]["body"] = Cell(LegacyRows[m], s, "body")
      BY <3>1
    <3> QED
      BY <3>1, <3>2 DEF Cell
  <2>2. t.rows[m] = IF old[m].kind = k THEN [old[m] EXCEPT ![c] = old[m].body] ELSE old[m]
    BY <1>2
  <2> HIDE DEF t, old
  <2>3. t.rows[m] = [x \in ColumnsAt(s + 1) |-> t.rows[m][x]]
    BY <2>1, <2>2
  <2>4. \A x \in ColumnsAt(s) : old[m][x] = Cell(LegacyRows[m], s, x)
    BY HalfwayCells DEF old
  <2>5. \A x \in ColumnsAt(s + 1) : t.rows[m][x] = Cell(LegacyRows[m], s + 1, x)
    BY <2>1, <2>2, <2>4
  <2> QED
    BY <2>3, <2>5
<1> HIDE DEF t, old
<1>4. t.rows = [m \in DOMAIN LegacyRows |-> t.rows[m]] /\ s + 1 \in 1..7
  BY <1>2
<1>5. [columns |-> ColumnsAt(s + 1), rows |-> t.rows] = Halfway(s + 1)
  BY <1>3, <1>4, HalfwayByCells
<1>6. t = Halfway(s + 1)
  BY <1>1, <1>5
<1> QED
  BY <1>6 DEF t

LEMMA DropsColumn ==
  ASSUME NEW s \in 1..6, NEW c,
         ColumnsAt(s + 1) = ColumnsAt(s) \ {c},
         \A m \in DOMAIN LegacyRows : \A x \in ColumnsAt(s + 1) :
           Cell(LegacyRows[m], s + 1, x) = Cell(LegacyRows[m], s, x)
  PROVE  DropColumn(Halfway(s), c) = Halfway(s + 1)
<1> DEFINE t == DropColumn(Halfway(s), c)
<1>0. Halfway(s).columns \ {c} = ColumnsAt(s + 1)
  BY HalfwayCells
<1>1. t = [columns |-> ColumnsAt(s + 1), rows |-> t.rows]
  BY <1>0 DEF DropColumn
<1>2. t.rows = [m \in DOMAIN LegacyRows |->
                 [x \in ColumnsAt(s + 1) |-> Halfway(s).rows[m][x]]]
  BY <1>0, HalfwayCells DEF DropColumn, Restrict
<1>3. ASSUME NEW m \in DOMAIN LegacyRows
      PROVE  /\ t.rows[m] = [x \in ColumnsAt(s + 1) |-> t.rows[m][x]]
             /\ \A x \in ColumnsAt(s + 1) : t.rows[m][x] = Cell(LegacyRows[m], s + 1, x)
  <2>1. t.rows[m] = [x \in ColumnsAt(s + 1) |-> Halfway(s).rows[m][x]]
    BY <1>2
  <2> HIDE DEF t
  <2>2. \A x \in ColumnsAt(s + 1) : t.rows[m][x] = Cell(LegacyRows[m], s + 1, x)
    BY <2>1, HalfwayCells
  <2> QED
    BY <2>1, <2>2
<1> HIDE DEF t
<1>4. t.rows = [m \in DOMAIN LegacyRows |-> t.rows[m]] /\ s + 1 \in 1..7
  BY <1>2
<1>5. [columns |-> ColumnsAt(s + 1), rows |-> t.rows] = Halfway(s + 1)
  BY <1>3, <1>4, HalfwayByCells
<1>6. t = Halfway(s + 1)
  BY <1>1, <1>5
<1> QED
  BY <1>6 DEF t

\* The six statements do not fail on the old table, and together they make the new.
LEMMA StatementsMigrate ==
  ASSUME NEW s \in 1..6
  PROVE  /\ Executed(Halfway(s), s) = Halfway(s + 1)
         /\ ~StatementFails(Halfway(s), s)
<1>1. AddColumn(Halfway(1), "expr", None) = Halfway(2)
  <2>1. \A m \in DOMAIN LegacyRows :
          /\ Cell(LegacyRows[m], 2, "expr") = None
          /\ \A x \in ColumnsAt(1) : Cell(LegacyRows[m], 2, x) = Cell(LegacyRows[m], 1, x)
    BY ColumnsBySteps DEF Cell
  <2>2. ColumnsAt(1 + 1) = ColumnsAt(1) \cup {"expr"} /\ "expr" \notin ColumnsAt(1)
    BY ColumnsBySteps
  <2> QED
    BY <2>1, <2>2, AddsColumn
<1>2. AddColumn(Halfway(2), "comment", "") = Halfway(3)
  <2>1. \A m \in DOMAIN LegacyRows :
          /\ Cell(LegacyRows[m], 2 + 1, "comment") = ""
          /\ \A x \in ColumnsAt(2) : Cell(LegacyRows[m], 2 + 1, x) = Cell(LegacyRows[m], 2, x)
    BY ColumnsBySteps DEF Cell
  <2>2. ColumnsAt(2 + 1) = ColumnsAt(2) \cup {"comment"} /\ "comment" \notin ColumnsAt(2)
    BY ColumnsBySteps
  <2>3. 2 \in 1..6 /\ 2 + 1 = 3
    OBVIOUS
  <2>4. AddColumn(Halfway(2), "comment", "") = Halfway(2 + 1)
    BY <2>1, <2>2, <2>3, AddsColumn
  <2> QED
    BY <2>3, <2>4
<1>3. CopyBody(Halfway(3), "expr", "roll") = Halfway(4)
  <2>1. \A m \in DOMAIN LegacyRows :
          /\ Cell(LegacyRows[m], 4, "expr") =
               IF LegacyRows[m].kind = "roll" THEN LegacyRows[m].body
               ELSE Cell(LegacyRows[m], 3, "expr")
          /\ \A x \in ColumnsAt(3) \ {"expr"} :
               Cell(LegacyRows[m], 4, x) = Cell(LegacyRows[m], 3, x)
    BY ColumnsBySteps DEF Cell
  <2>2. /\ ColumnsAt(3 + 1) = ColumnsAt(3)
        /\ "expr" \in ColumnsAt(3) /\ {"kind", "body"} \subseteq ColumnsAt(3)
    BY ColumnsBySteps
  <2> QED
    BY <2>1, <2>2, CopiesBody
<1>4. CopyBody(Halfway(4), "comment", "text") = Halfway(5)
  <2>1. \A m \in DOMAIN LegacyRows :
          /\ Cell(LegacyRows[m], 5, "comment") =
               IF LegacyRows[m].kind = "text" THEN LegacyRows[m].body
               ELSE Cell(LegacyRows[m], 4, "comment")
          /\ \A x \in ColumnsAt(4) \ {"comment"} :
               Cell(LegacyRows[m], 5, x) = Cell(LegacyRows[m], 4, x)
    BY ColumnsBySteps DEF Cell
  <2>2. /\ ColumnsAt(4 + 1) = ColumnsAt(4)
        /\ "comment" \in ColumnsAt(4) /\ {"kind", "body"} \subseteq ColumnsAt(4)
    BY ColumnsBySteps
  <2> QED
    BY <2>1, <2>2, CopiesBody
<1>5. DropColumn(Halfway(5), "kind") = Halfway(6)
  <2>1. \A m \in DOMAIN LegacyRows : \A x \in ColumnsAt(5 + 1) :
          Cell(LegacyRows[m], 5 + 1, x) = Cell(LegacyRows[m], 5, x)
    BY ColumnsBySteps DEF Cell
  <2>2. ColumnsAt(5 + 1) = ColumnsAt(5) \ {"kind"}
    BY ColumnsBySteps
  <2> QED
    BY <2>1, <2>2, DropsColumn
<1>6. DropColumn(Halfway(6), "body") = Halfway(7)
  <2>1. \A m \in DOMAIN LegacyRows : \A x \in ColumnsAt(6 + 1) :
          Cell(LegacyRows[m], 6 + 1, x) = Cell(LegacyRows[m], 6, x)
    BY ColumnsBySteps DEF Cell
  <2>2. ColumnsAt(6 + 1) = ColumnsAt(6) \ {"body"}
    BY ColumnsBySteps
  <2> QED
    BY <2>1, <2>2, DropsColumn
<1>7. Executed(Halfway(s), s) = Halfway(s + 1)
  <2>1. s = 1 \/ s = 2 \/ s = 3 \/ s = 4 \/ s = 5 \/ s = 6
    OBVIOUS
  <2>2. CASE s = 1
    BY <2>2, <1>1 DEF Executed
  <2>3. CASE s = 2
    <3>1. Executed(Halfway(2), 2) = AddColumn(Halfway(2), "comment", "")
      BY SMT DEF Executed
    <3>2. s + 1 = 3
      BY <2>3
    <3> QED
      BY <3>1, <3>2, <2>3, <1>2
  <2>4. CASE s = 3
    BY <2>4, <1>3 DEF Executed
  <2>5. CASE s = 4
    BY <2>5, <1>4 DEF Executed
  <2>6. CASE s = 5
    BY <2>6, <1>5 DEF Executed
  <2>7. CASE s = 6
    BY <2>7, <1>6 DEF Executed
  <2> QED
    BY <2>1, <2>2, <2>3, <2>4, <2>5, <2>6, <2>7
<1>8. ~StatementFails(Halfway(s), s)
  BY ColumnsBySteps, HalfwayCells DEF StatementFails
<1> QED
  BY <1>7, <1>8

LEMMA SchemaTables ==
  /\ Range(Schema) = AllTables
  /\ Len(Schema) = 4
  /\ \A i \in 1..4 : Schema[i] \in AllTables
  /\ \A T : (\A i \in 1..4 : Schema[i] \in T) => AllTables \subseteq T
<1>1. /\ Schema[1] = "meta" /\ Schema[2] = "rooms"
      /\ Schema[3] = "members" /\ Schema[4] = "messages"
      /\ DOMAIN Schema = 1..4 /\ Len(Schema) = 4
  BY DEF Schema
<1>2. \A i \in 1..4 : i = 1 \/ i = 2 \/ i = 3 \/ i = 4
  OBVIOUS
<1>3. Range(Schema) = AllTables
  BY <1>1, <1>2 DEF Range, AllTables
<1>4. \A T : (\A i \in 1..4 : Schema[i] \in T) => AllTables \subseteq T
  <2> SUFFICES ASSUME NEW T, \A i \in 1..4 : Schema[i] \in T
               PROVE  AllTables \subseteq T
    OBVIOUS
  <2>1. Schema[1] \in T /\ Schema[2] \in T /\ Schema[3] \in T /\ Schema[4] \in T
    OBVIOUS
  <2> QED
    BY <2>1, <1>1 DEF AllTables
<1> QED
  BY <1>1, <1>2, <1>3, <1>4 DEF AllTables

LEMMA TablesDiffer ==
  /\ OldTable.columns = OldColumns /\ "kind" \in OldColumns
  /\ NewTable.columns = NewColumns /\ "kind" \notin NewColumns
  /\ Migrated.columns = NewColumns
  /\ OldTable # NewTable /\ OldTable # Migrated
<1>1. /\ OldTable.columns = OldColumns /\ NewTable.columns = NewColumns
      /\ Migrated.columns = NewColumns
  BY DEF OldTable, NewTable, Migrated
<1>2. "kind" \in OldColumns /\ "kind" \notin NewColumns
  BY DEF OldColumns, NewColumns
<1> QED
  BY <1>1, <1>2

-----------------------------------------------------------------------------
(* Steps with the same shape. *)

\* A process that is not in a transaction moves on; the tables may become more.
Moves(p, where, n) ==
  /\ where \in Places \ {"serving"} /\ n \in 1..7
  /\ pc' = [pc EXCEPT ![p] = where]
  /\ step' = [step EXCEPT ![p] = n]
  /\ holder # p
  /\ where = "newkey" => storedKey \in {None, Corrupt}
  /\ tables \subseteq tables' /\ tables' \subseteq AllTables
  /\ UNCHANGED <<messages, holder, work, storedKey, key, keys, cookie, raced>>

LEMMA MoveInv ==
  ASSUME IInv, NEW p \in Processes, NEW where, NEW n, Moves(p, where, n), Done(p)'
  PROVE  IInv'
<1> USE DEF Moves
<1>1. PlacesOK'
  BY DEF IInv, PlacesOK
<1>2. TableIsWhole' /\ CookieFits'
  BY DEF IInv, TableIsWhole, CookieFits
<1>3. MigrationUnderLock'
  BY DEF IInv, MigrationUnderLock, PlacesOK
<1>4. ASSUME NEW q \in Processes PROVE Done(q)'
  <2>1. CASE q = p
    BY <2>1
  <2>2. CASE q # p
    <3>1. Done(q) /\ pc'[q] = pc[q] /\ step'[q] = step[q]
      BY <2>2 DEF IInv, PlacesOK
    <3> QED
      BY <3>1 DEF Done
  <2> QED
    BY <2>1, <2>2
<1>5. ASSUME NEW q \in Processes PROVE OneKey(q)'
  BY DEF IInv, PlacesOK, OneKey
<1> QED
  BY <1>1, <1>2, <1>3, <1>4, <1>5 DEF IInv

LEMMA ExitInv ==
  ASSUME IInv, NEW p \in Processes, Exit(p),
         UNCHANGED <<tables, messages, work, storedKey, keys, cookie, raced>>
  PROVE  IInv'
<1>1. PlacesOK'
  BY DEF IInv, PlacesOK, Exit, Go, Places
<1>2. TableIsWhole' /\ CookieFits'
  BY DEF IInv, TableIsWhole, CookieFits
<1>3. MigrationUnderLock'
  BY DEF IInv, MigrationUnderLock, PlacesOK, Exit, Go
<1>4. ASSUME NEW q \in Processes PROVE Done(q)'
  <2>1. CASE q = p
    BY <2>1 DEF IInv, PlacesOK, Exit, Go, Done
  <2>2. CASE q # p
    <3>1. /\ Done(q) /\ pc'[q] = pc[q] /\ step'[q] = step[q]
          /\ holder' # q => holder # q
      BY <2>2 DEF IInv, PlacesOK, Exit, Go
    <3> QED
      BY <3>1 DEF Done
  <2> QED
    BY <2>1, <2>2
<1>5. ASSUME NEW q \in Processes PROVE OneKey(q)'
  BY DEF IInv, PlacesOK, OneKey, Exit, Go
<1> QED
  BY <1>1, <1>2, <1>3, <1>4, <1>5 DEF IInv

\* Only a process in its migration holds the lock.
LEMMA HolderMigrates ==
  ASSUME IInv, NEW p \in Processes, pc[p] # "migrate"
  PROVE  holder # p
BY StartupAssumption DEF IInv, MigrationUnderLock

-----------------------------------------------------------------------------
(* One lemma per action. *)

LEMMA StartInv == ASSUME IInv, NEW p \in Processes, Start(p) PROVE IInv'
<1>1. Moves(p, "schema", 1)
  BY HolderMigrates DEF Start, Go, Moves, Places, database, browser, IInv
<1>2. Done(p)'
  BY DEF Start, Go, Done, IInv, PlacesOK
<1> QED
  BY <1>1, <1>2, MoveInv

LEMMA CreateTableInv == ASSUME IInv, NEW p \in Processes, CreateTable(p) PROVE IInv'
<1>1. /\ step[p] \in 1..4 /\ tables' = tables \cup {Schema[step[p]]}
      /\ \A i \in 1..(step[p] - 1) : Schema[i] \in tables
      /\ holder # p
  BY HolderMigrates DEF CreateTable, IInv, Done
<1>2. tables \subseteq tables' /\ tables' \subseteq AllTables
  BY <1>1, SchemaTables DEF IInv
<1>3. UNCHANGED <<messages, holder, work, storedKey, key, keys, cookie, raced>>
  BY DEF CreateTable, browser
<1>4. CASE step[p] < Len(Schema)
  <2>1. /\ step' = [step EXCEPT ![p] = step[p] + 1] /\ pc' = pc /\ pc[p] = "schema"
        /\ step[p] + 1 \in 1..4
    BY <1>1, <1>4, SchemaTables DEF CreateTable
  <2>2. pc' = [pc EXCEPT ![p] = "schema"]
    BY <2>1 DEF IInv, PlacesOK
  <2>3. Done(p)'
    BY <1>1, <2>1 DEF Done, IInv, PlacesOK
  <2>4. Moves(p, "schema", step[p] + 1)
    <3>1. "schema" \in Places \ {"serving"} /\ step[p] + 1 \in 1..7 /\ holder # p
      BY <1>1, <2>1 DEF Places
    <3> QED
      BY <3>1, <1>2, <1>3, <2>1, <2>2 DEF Moves
  <2> QED
    BY <2>3, <2>4, MoveInv
<1>5. CASE ~(step[p] < Len(Schema))
  <2>1. Go(p, "check") /\ step[p] = 4
    BY <1>1, <1>5, SchemaTables DEF CreateTable
  <2>2. \A i \in 1..4 : Schema[i] \in tables'
    BY <1>1, <2>1
  <2>3. tables' = AllTables
    BY <2>2, <1>2, SchemaTables
  <2>4. Done(p)'
    BY <2>1, <2>3 DEF Done, Go, IInv, PlacesOK
  <2>5. Moves(p, "check", 1)
    BY <1>1, <1>2, <1>3, <2>1 DEF Moves, Places, Go
  <2> QED
    BY <2>4, <2>5, MoveInv
<1> QED
  BY <1>4, <1>5

LEMMA LookForTablesInv == ASSUME IInv, NEW p \in Processes, LookForTables(p) PROVE IInv'
<1> DEFINE where == IF tables = Range(Schema) THEN "check" ELSE "create"
<1>1. Go(p, where) /\ where \in {"check", "create"}
  BY DEF LookForTables
<1>2. Done(p)'
  BY SchemaTables DEF LookForTables, Go, Done, IInv, PlacesOK, database
<1> HIDE DEF where
<1>3. Moves(p, where, 1)
  <2>1. /\ holder # p /\ tables \subseteq AllTables
        /\ UNCHANGED <<tables, messages, holder, work, storedKey, key, keys, cookie,
                       raced>>
    BY HolderMigrates DEF LookForTables, database, browser, IInv
  <2> QED
    BY <1>1, <2>1 DEF Go, Moves, Places
<1> QED
  BY <1>2, <1>3, MoveInv

LEMMA CreateTablesInv == ASSUME IInv, NEW p \in Processes, CreateTables(p) PROVE IInv'
<1>1. Done(p)'
  BY SchemaTables DEF CreateTables, Go, Done, IInv, PlacesOK
<1>2. Moves(p, "check", 1)
  BY SchemaTables, HolderMigrates DEF CreateTables, Go, Moves, Places, browser, IInv
<1> QED
  BY <1>1, <1>2, MoveInv

LEMMA CheckInv == ASSUME IInv, NEW p \in Processes, Check(p) PROVE IInv'
<1> DEFINE where == IF "kind" \in messages.columns THEN "migrate" ELSE "key"
<1>1. Go(p, where) /\ where \in {"migrate", "key"}
  BY DEF Check
<1>2. where = "key" => messages.columns = NewColumns
  BY TablesDiffer DEF IInv, TableIsWhole
<1>3. tables = AllTables
  BY DEF Check, IInv, Done
<1> HIDE DEF where
<1>4. Done(p)'
  BY <1>1, <1>2, <1>3 DEF Check, Go, Done, IInv, PlacesOK, database
<1>5. Moves(p, where, 1)
  <2>1. /\ holder # p /\ tables \subseteq AllTables
        /\ UNCHANGED <<tables, messages, holder, work, storedKey, key, keys, cookie,
                       raced>>
    BY HolderMigrates DEF Check, database, browser, IInv
  <2> QED
    BY <1>1, <2>1 DEF Go, Moves, Places
<1> QED
  BY <1>4, <1>5, MoveInv

LEMMA FailureInv ==
  ASSUME IInv, NEW p \in Processes,
         CreateTablesFails(p) \/ MigrationFails(p) \/ Busy(p) \/ Crash(p)
  PROVE  IInv'
<1>1. /\ Exit(p)
      /\ UNCHANGED <<tables, messages, work, storedKey, keys, cookie, raced>>
  BY DEF CreateTablesFails, MigrationFails, Busy, Crash, browser
<1> QED
  BY <1>1, ExitInv

LEMMA BeginMigrationInv ==
  ASSUME IInv, NEW p \in Processes, BeginMigration(p) PROVE IInv'
<1>1. /\ pc[p] = "migrate" /\ holder = None /\ holder' = p /\ work' = messages
      /\ UNCHANGED <<tables, messages, storedKey, pc, step, key, keys, cookie, raced>>
  BY DEF BeginMigration, browser
<1>2. step[p] = 1
  BY <1>1, StartupAssumption DEF IInv, Done
<1>3. PlacesOK' /\ TableIsWhole' /\ CookieFits'
  BY <1>1 DEF IInv, PlacesOK, TableIsWhole, CookieFits
<1>4. MigrationUnderLock'
  BY <1>1, <1>2, StartsOld DEF MigrationUnderLock
<1>5. ASSUME NEW q \in Processes PROVE Done(q)' /\ OneKey(q)'
  BY <1>1, StartupAssumption DEF IInv, Done, OneKey
<1> QED
  BY <1>1, <1>3, <1>4, <1>5 DEF IInv

LEMMA ExecuteInv == ASSUME IInv, NEW p \in Processes, Execute(p) PROVE IInv'
<1>1. /\ pc[p] = "migrate" /\ holder = p /\ step[p] <= 6
      /\ ~StatementFails(work, step[p])
      /\ work' = Executed(work, step[p])
      /\ step' = [step EXCEPT ![p] = step[p] + 1]
      /\ UNCHANGED <<tables, messages, holder, storedKey, pc, key, keys, cookie, raced>>
  BY DEF Execute, Statements, browser
<1>2. step[p] \in 1..6
  BY <1>1 DEF IInv, PlacesOK
<1>3. messages = OldTable /\ work = Halfway(step[p])
  <2>1. ASSUME messages # OldTable, step[p] = 1, work = messages PROVE FALSE
    <3>1. "expr" \in messages.columns
      BY <2>1, TablesDiffer DEF IInv, TableIsWhole, NewColumns
    <3> QED
      BY <3>1, <2>1, <1>1 DEF StatementFails
  <2> QED
    BY <2>1, <1>1, StartupAssumption DEF IInv, MigrationUnderLock
<1>4. work' = Halfway(step[p] + 1)
  BY <1>1, <1>2, <1>3, StatementsMigrate
<1>5. step'[p] = step[p] + 1
  BY <1>1 DEF IInv, PlacesOK
<1>6. MigrationUnderLock'
  BY <1>1, <1>3, <1>4, <1>5 DEF MigrationUnderLock
<1>7. PlacesOK' /\ TableIsWhole' /\ CookieFits'
  BY <1>1, <1>2 DEF IInv, PlacesOK, TableIsWhole, CookieFits
<1>8. ASSUME NEW q \in Processes PROVE Done(q)' /\ OneKey(q)'
  BY <1>1 DEF IInv, Done, OneKey, PlacesOK
<1> QED
  BY <1>1, <1>6, <1>7, <1>8 DEF IInv

LEMMA CommitInv == ASSUME IInv, NEW p \in Processes, Commit(p) PROVE IInv'
<1>1. /\ pc[p] = "migrate" /\ holder = p /\ step[p] > 6
      /\ messages' = work /\ holder' = None
      /\ Go(p, "key")
      /\ UNCHANGED <<tables, work, storedKey, key, keys, cookie, raced>>
  BY DEF Commit, Statements, browser
<1>2. step[p] = 7
  BY <1>1 DEF IInv, PlacesOK
<1>3. messages' = Migrated
  BY <1>1, <1>2, EndsNew, StartupAssumption DEF IInv, MigrationUnderLock
<1>4. PlacesOK' /\ TableIsWhole' /\ CookieFits' /\ MigrationUnderLock'
  BY <1>1, <1>3 DEF IInv, PlacesOK, TableIsWhole, CookieFits, MigrationUnderLock, Go, Places
<1>5. ASSUME NEW q \in Processes PROVE Done(q)'
  <2>1. messages'.columns = NewColumns
    BY <1>3, TablesDiffer
  <2>2. CASE q = p
    BY <2>1, <2>2, <1>1 DEF IInv, Done, PlacesOK, Go
  <2>3. CASE q # p
    <3>1. Done(q) /\ pc'[q] = pc[q] /\ step'[q] = step[q] /\ holder # q
      BY <2>3, <1>1 DEF IInv, PlacesOK, Go
    <3> QED
      BY <3>1, <2>1, <1>1 DEF Done
  <2> QED
    BY <2>2, <2>3
<1>6. ASSUME NEW q \in Processes PROVE OneKey(q)'
  BY <1>1 DEF IInv, OneKey, PlacesOK, Go
<1> QED
  BY <1>1, <1>4, <1>5, <1>6 DEF IInv

LEMMA GetKeyInv == ASSUME IInv, NEW p \in Processes, GetKey(p) PROVE IInv'
<1>1. /\ pc[p] = "key" /\ holder # p /\ tables = AllTables /\ messages.columns = NewColumns
      /\ UNCHANGED <<tables, messages, holder, work, storedKey, keys, cookie, raced>>
  BY HolderMigrates DEF GetKey, database, browser, IInv, Done
<1>2. CASE storedKey \in {None, Corrupt}
  <2>1. Go(p, "newkey") /\ key' = key
    BY <1>2 DEF GetKey
  <2>2. Moves(p, "newkey", 1)
    BY <1>1, <1>2, <2>1 DEF Go, Moves, Places, IInv
  <2>3. Done(p)'
    BY <1>1, <2>1 DEF Go, Done, IInv, PlacesOK
  <2> QED
    BY <2>2, <2>3, MoveInv
<1>3. CASE storedKey \notin {None, Corrupt}
  <2>1. Go(p, "serving") /\ key' = [key EXCEPT ![p] = storedKey] /\ storedKey \in Nat
    BY <1>3 DEF GetKey, IInv, PlacesOK
  <2>2. PlacesOK' /\ TableIsWhole' /\ CookieFits' /\ MigrationUnderLock'
    BY <1>1, <2>1 DEF IInv, PlacesOK, TableIsWhole, CookieFits, MigrationUnderLock, Go, Places
  <2>3. ASSUME NEW q \in Processes PROVE Done(q)' /\ OneKey(q)'
    <3>1. CASE q = p
      BY <3>1, <1>1, <2>1 DEF IInv, Done, OneKey, PlacesOK, Go
    <3>2. CASE q # p
      BY <3>2, <1>1, <2>1 DEF IInv, Done, OneKey, PlacesOK, Go
    <3> QED
      BY <3>1, <3>2
  <2> QED
    BY <1>1, <2>2, <2>3 DEF IInv
<1> QED
  BY <1>2, <1>3

\* The one step that changes the stored key; if another process is about to do the
\* same, raced says so from here on.
LEMMA SetKeyInv == ASSUME IInv, NEW p \in Processes, SetKey(p) PROVE IInv'
<1>1. /\ pc[p] = "newkey" /\ holder # p /\ tables = AllTables
      /\ messages.columns = NewColumns
      /\ storedKey' = keys + 1 /\ keys' = keys + 1 /\ key' = [key EXCEPT ![p] = keys + 1]
      /\ Go(p, "serving")
      /\ raced' = (raced \/ \E q \in Processes \ {p} : pc[q] = "newkey")
      /\ UNCHANGED <<tables, messages, holder, work, cookie>>
  BY HolderMigrates DEF SetKey, browser, IInv, Done
<1>2. keys \in Nat /\ keys + 1 \in Nat
  BY DEF IInv, PlacesOK
<1>3. PlacesOK' /\ TableIsWhole' /\ MigrationUnderLock'
  BY <1>1, <1>2 DEF IInv, PlacesOK, TableIsWhole, MigrationUnderLock, Go, Places
<1>4. ASSUME NEW q \in Processes PROVE Done(q)'
  <2>1. CASE q = p
    BY <2>1, <1>1 DEF IInv, Done, PlacesOK, Go
  <2>2. CASE q # p
    BY <2>2, <1>1 DEF IInv, Done, PlacesOK, Go
  <2> QED
    BY <2>1, <2>2
<1>5. ~raced' => ~raced /\ storedKey \in {None, Corrupt}
  BY <1>1 DEF IInv, OneKey
<1>6. ASSUME NEW q \in Processes PROVE OneKey(q)'
  <2>1. CASE q = p
    BY <2>1, <1>1, <1>2 DEF IInv, PlacesOK, OneKey, Go
  <2>2. CASE q # p
    <3>1. pc'[q] = pc[q] /\ key'[q] = key[q] /\ OneKey(q)
      BY <2>2, <1>1 DEF IInv, PlacesOK, Go
    <3>2. ~raced' => pc[q] # "newkey"
      BY <2>2, <1>1
    <3>3. ~raced' => pc[q] # "serving"
      BY <3>1, <1>5, StartupAssumption DEF OneKey
    <3> QED
      BY <3>1, <3>2, <3>3 DEF OneKey
  <2> QED
    BY <2>1, <2>2
<1>7. CookieFits'
  BY <1>1, <1>5, StartupAssumption DEF IInv, CookieFits
<1> QED
  BY <1>1, <1>3, <1>4, <1>6, <1>7 DEF IInv

LEMMA VisitInv == ASSUME IInv, NEW p \in Processes, Visit(p) PROVE IInv'
<1>1. /\ pc[p] = "serving"
      /\ UNCHANGED <<tables, messages, holder, work, storedKey, pc, step, key, keys, raced>>
      /\ cookie' = cookie \/ cookie'.signed = key[p]
  BY DEF Visit, database, browser
<1>2. CookieFits'
  BY <1>1 DEF IInv, OneKey, CookieFits
<1> QED
  BY <1>1, <1>2 DEF IInv, PlacesOK, TableIsWhole, MigrationUnderLock, Done, OneKey

-----------------------------------------------------------------------------
LEMMA InitIInv == Init => IInv
<1> SUFFICES ASSUME Init PROVE IInv
  OBVIOUS
<1>1. PlacesOK
  BY DEF Init, PlacesOK, Places
<1>2. tables \subseteq AllTables /\ TableIsWhole
  BY SchemaTables DEF Init, TableIsWhole, Migrated
<1>3. MigrationUnderLock
  BY DEF Init, MigrationUnderLock
<1>4. \A p \in Processes : Done(p) /\ OneKey(p)
  BY DEF Init, Done, OneKey
<1>5. CookieFits
  BY StartupAssumption DEF Init, CookieFits
<1> QED
  BY <1>1, <1>2, <1>3, <1>4, <1>5 DEF IInv

LEMMA StutterInv == IInv /\ UNCHANGED vars => IInv'
BY DEF vars, IInv, PlacesOK, TableIsWhole, MigrationUnderLock, Done, OneKey, CookieFits

LEMMA NextInv == IInv /\ [Next]_vars => IInv'
<1> SUFFICES ASSUME IInv, [Next]_vars PROVE IInv'
  OBVIOUS
<1>1. ASSUME NEW p \in Processes, Step(p) PROVE IInv'
  BY <1>1, StartInv, CreateTableInv, LookForTablesInv, CreateTablesInv, CheckInv,
     FailureInv, BeginMigrationInv, ExecuteInv, CommitInv, GetKeyInv, SetKeyInv DEF Step
<1>2. ASSUME NEW p \in Processes, Visit(p) \/ Crash(p) PROVE IInv'
  BY <1>2, VisitInv, FailureInv
<1> QED
  BY <1>1, <1>2, StutterInv DEF Next

LEMMA Invariance == Spec => []IInv
<1> QED
  BY InitIInv, NextInv, PTL DEF Spec

-----------------------------------------------------------------------------
LEMMA OldSaysTheSame ==
  /\ \A m \in DOMAIN LegacyRows :
       /\ DOMAIN Meaning(LegacyRows[m]) = NewColumns
       /\ Meaning(Meaning(LegacyRows[m])) = Meaning(LegacyRows[m])
  /\ Saying(OldTable) = Saying(Migrated)
<1>1. ASSUME NEW m \in DOMAIN LegacyRows
      PROVE  /\ DOMAIN Meaning(LegacyRows[m]) = NewColumns
             /\ Meaning(Meaning(LegacyRows[m])) = Meaning(LegacyRows[m])
  BY LegacyShape DEF Meaning, NewColumns, OldColumns
<1>2. Saying(OldTable) = [m \in DOMAIN LegacyRows |-> Meaning(LegacyRows[m])]
  BY DEF Saying, OldTable
<1>3. Saying(Migrated) = [m \in DOMAIN LegacyRows |-> Meaning(Meaning(LegacyRows[m]))]
  BY DEF Saying, Migrated
<1> QED
  BY <1>1, <1>2, <1>3

\* The table changes at the commit of a migration only.
LEMMA OnlyCommitChanges ==
  ASSUME IInv, [Next]_vars
  PROVE  messages' = messages \/ (messages = OldTable /\ messages' = Migrated)
<1>1. ASSUME NEW p \in Processes, Commit(p)
      PROVE  messages' = messages \/ (messages = OldTable /\ messages' = Migrated)
  <2>1. /\ pc[p] = "migrate" /\ holder = p /\ step[p] > 6 /\ messages' = work
    BY <1>1 DEF Commit, Statements
  <2>2. step[p] = 7
    BY <2>1 DEF IInv, PlacesOK
  <2> QED
    BY <2>1, <2>2, EndsNew, StartupAssumption DEF IInv, MigrationUnderLock
<1>2. ASSUME NEW p \in Processes, (Step(p) /\ ~Commit(p)) \/ Visit(p) \/ Crash(p)
      PROVE  messages' = messages
  BY <1>2 DEF Step, Visit, Crash, Start, CreateTable, LookForTables, CreateTables,
              CreateTablesFails, Check, BeginMigration, Execute, MigrationFails, Busy,
              GetKey, SetKey, database
<1> QED
  BY <1>1, <1>2 DEF Next, vars

\* However many processes start, fail and crash, the messages are whole: the table
\* that was there before the first of them, or all that the migration makes of it,
\* which has the same messages and says the same.
THEOREM MessagesSurviveStarts == Spec => MessagesSurvive
<1> DEFINE Whole ==
             /\ messages.columns \in {OldColumns, NewColumns}
             /\ \A m \in DOMAIN messages.rows : DOMAIN messages.rows[m] = messages.columns
<1>1. IInv => Whole
  <2> SUFFICES ASSUME IInv PROVE Whole
    OBVIOUS
  <2>1. CASE messages = OldTable
    BY <2>1, LegacyShape DEF OldTable
  <2>2. CASE messages = NewTable
    BY <2>2 DEF NewTable
  <2>3. CASE messages = Migrated
    BY <2>3, OldSaysTheSame DEF Migrated
  <2> QED
    BY <2>1, <2>2, <2>3 DEF IInv, TableIsWhole
<1>2. IInv /\ [Next]_vars => [Saying(messages') = Saying(messages)]_messages
  BY OnlyCommitChanges, OldSaysTheSame
<1> QED
  BY <1>1, <1>2, Invariance, PTL DEF Spec, MessagesSurvive

\* However many processes start, fail and crash, no query meets a table or a column
\* that is not there.
THEOREM OnlyNewIsServed == Spec => []ServesOnlyNew
<1>1. IInv => ServesOnlyNew
  BY SchemaTables, StartupAssumption DEF IInv, Done, OneKey, ServesOnlyNew
<1> QED
  BY <1>1, Invariance, PTL

\* A browser keeps its id with any number of processes and restarts, unless the key
\* that signed it was lost before the first start or two processes were about to
\* write a key of their own.
THEOREM IdentitiesSurvive == Spec => IdentitiesLast
<1>1. IInv /\ [Next]_vars =>
        [~raced /\ cookie # None /\ cookie.signed \notin {None, Corrupt}
           => cookie'.id = cookie.id]_vars
  <2> SUFFICES ASSUME IInv, Next, ~raced, cookie # None,
                      cookie.signed \notin {None, Corrupt}
               PROVE  cookie'.id = cookie.id
    BY DEF vars
  <2>1. ASSUME NEW p \in Processes, Visit(p) PROVE cookie' = cookie
    <3>1. cookie.signed = key[p]
      BY <2>1 DEF Visit, IInv, OneKey, CookieFits
    <3> QED
      BY <3>1, <2>1 DEF Visit, browser
  <2>2. ASSUME NEW p \in Processes, Step(p) \/ Crash(p) PROVE cookie' = cookie
    BY <2>2 DEF Step, Crash, Start, CreateTable, LookForTables, CreateTables,
                CreateTablesFails, Check, BeginMigration, Execute, MigrationFails, Commit,
                Busy, GetKey, SetKey, browser
  <2> QED
    BY <2>1, <2>2 DEF Next
<1> QED
  BY <1>1, Invariance, PTL DEF Spec, IdentitiesLast
=============================================================================
