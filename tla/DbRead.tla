------------------------------- MODULE DbRead -------------------------------
(***************************************************************************)
(* Reading a SQLite file in the VEN: SqliteDB/sqliteDB.cpp.                *)
(*                                                                         *)
(* The rows arrive through callbacks that are plain functions, so they put *)
(* them into globals: one map DBVariablemap for the reads of one variable, *)
(* and for the scans of a table pointers to the maps to fill.  No lock     *)
(* guards them, and every thread of the program reads.                     *)
(*                                                                         *)
(* Operations on a map are atomic here; that two threads inside one        *)
(* std::map at the same time may crash the program is not modelled.        *)
(***************************************************************************)
EXTENDS Integers, FiniteSets

CONSTANTS
  Readers,   \* the threads that read
  Columns,   \* the variables of the one-row tables
  Values,    \* the values of a variable
  Default,   \* what a read returns that finds nothing: 0 or ""
  Rows       \* the rows the scanned table may have

VARIABLES
  row,      \* the one-row table: the value of every variable
  table,    \* the scanned table: the rows it has
  map,      \* DBVariablemap: per variable a set of at most one value
  pointer,  \* the reader whose maps the scans fill
  own,      \* per reader: its maps, reused from scan to scan
  at,       \* per reader: where it is
  col,      \* per reader: the variable it reads, in a set
  todo,     \* per reader: the rows of its SELECT that the callback has not got yet
  answer,   \* per reader: what its last read returned, and whether SQLite answered
  seen,     \* history, per reader: the values, or tables, there were during its read
  shared    \* history, per reader: another read of its kind overlapped its read

data    == <<row, table>>
globals == <<map, pointer, own>>
history == <<seen, shared>>
vars == <<data, globals, at, col, todo, answer, history>>

ValueSteps == {"clear", "exec", "find"}
ScanSteps  == {"point", "empty", "select", "rows"}

Reading  == {r \in Readers : at[r] \in ValueSteps}
Scanning == {r \in Readers : at[r] \in ScanSteps}

NoAnswer == [ok |-> TRUE, result |-> {}]

Goto(r, step) == at' = [at EXCEPT ![r] = step]

-----------------------------------------------------------------------------
(* Writes: one UPDATE, INSERT or DELETE statement.  A SELECT whose rows    *)
(* are being delivered holds the shared lock of the file: writers wait.    *)

Unlocked == \A r \in Readers : at[r] # "rows"

Write(c, v) ==
  /\ row' = [row EXCEPT ![c] = v]
  /\ seen' = [r \in Readers |-> IF r \in Reading /\ col[r] = {c}
                                  THEN seen[r] \cup {v} ELSE seen[r]]
  /\ UNCHANGED <<table, globals, at, col, todo, answer, shared>>

Change(rows) ==
  /\ Unlocked
  /\ table' = rows
  /\ seen' = [r \in Readers |-> IF r \in Scanning THEN seen[r] \cup {rows} ELSE seen[r]]
  /\ UNCHANGED <<row, globals, at, col, todo, answer, shared>>

-----------------------------------------------------------------------------
(* sqliteDBreadString and sqliteDBreadInt                                  *)

Overlaps(r, readers) ==
  shared' = [o \in Readers |-> IF o = r THEN readers # {}
                                        ELSE shared[o] \/ o \in readers]

StartRead(r) ==
  /\ at[r] = "idle"
  /\ Goto(r, "clear")
  /\ \E c \in Columns :
        /\ col' = [col EXCEPT ![r] = {c}]
        /\ seen' = [seen EXCEPT ![r] = {row[c]}]
  /\ answer' = [answer EXCEPT ![r] = NoAnswer]
  /\ Overlaps(r, Reading)
  /\ UNCHANGED <<data, globals, todo>>

\* Mutant: the map keeps what the last read put there.
KeepMap(r) ==
  /\ at[r] = "clear"
  /\ Goto(r, "exec")
  /\ UNCHANGED <<data, globals, col, todo, answer, history>>

ClearMap(r) ==
  /\ at[r] = "clear"
  /\ map' = [c \in Columns |-> {}]
  /\ Goto(r, "exec")
  /\ UNCHANGED <<data, pointer, own, col, todo, answer, history>>

\* Mutant: the map holds several values of one key.
ExecReadAgain(r) ==
  /\ at[r] = "exec"
  /\ map' = [c \in Columns |-> IF c \in col[r] THEN map[c] \cup {row[c]} ELSE map[c]]
  /\ Goto(r, "find")
  /\ UNCHANGED <<data, pointer, own, col, todo, answer, history>>

\* sqlite3_exec and its callback DBRead: map::insert keeps the value that is there.
ExecRead(r) ==
  /\ at[r] = "exec"
  /\ map' = [c \in Columns |-> IF c \in col[r] /\ map[c] = {} THEN {row[c]} ELSE map[c]]
  /\ Goto(r, "find")
  /\ UNCHANGED <<data, pointer, own, col, todo, answer, history>>

Return(r, ok, result) ==
  /\ Goto(r, "idle")
  /\ col' = [col EXCEPT ![r] = {}]
  /\ answer' = [answer EXCEPT ![r] = [ok |-> ok, result |-> result]]
  /\ seen' = [seen EXCEPT ![r] = {}]
  /\ shared' = [shared EXCEPT ![r] = FALSE]

\* The file cannot be opened, or stays busy: the default.
FailRead(r) ==
  /\ at[r] = "exec"
  /\ Return(r, FALSE, {Default})
  /\ UNCHANGED <<data, globals, todo>>

\* DBVariablemap.find: nothing is there when another read cleared the map.
FindValue(r) ==
  /\ at[r] = "find"
  /\ LET found == UNION {map[c] : c \in col[r]} IN
       Return(r, TRUE, IF found = {} THEN {Default} ELSE found)
  /\ UNCHANGED <<data, globals, todo>>

ReadVariable(r) ==
  \/ StartRead(r)
  \/ ClearMap(r)
  \/ ExecRead(r)
  \/ FailRead(r)
  \/ FindValue(r)

-----------------------------------------------------------------------------
(* readDBsignaldetails, readDBeventdetails, readDBreportdetails, opt       *)
(* schedules: each sets its pointers, clears through them and selects.     *)

StartScan(r) ==
  /\ at[r] = "idle"
  /\ Goto(r, "point")
  /\ seen' = [seen EXCEPT ![r] = {table}]
  /\ answer' = [answer EXCEPT ![r] = NoAnswer]
  /\ Overlaps(r, Scanning)
  /\ UNCHANGED <<data, globals, col, todo>>

SetPointer(r) ==
  /\ at[r] = "point"
  /\ pointer' = r
  /\ Goto(r, "empty")
  /\ UNCHANGED <<data, map, own, col, todo, answer, history>>

\* Mutant: the maps keep the rows of the last scan.
KeepMaps(r) ==
  /\ at[r] = "empty"
  /\ Goto(r, "select")
  /\ UNCHANGED <<data, globals, col, todo, answer, history>>

\* The maps that are cleared are those of the last one who set the pointer.
ClearMaps(r) ==
  /\ at[r] = "empty"
  /\ own' = [own EXCEPT ![pointer] = {}]
  /\ Goto(r, "select")
  /\ UNCHANGED <<data, map, pointer, col, todo, answer, history>>

Select(r) ==
  /\ at[r] = "select"
  /\ todo' = [todo EXCEPT ![r] = table]
  /\ Goto(r, "rows")
  /\ UNCHANGED <<data, globals, col, answer, history>>

FailScan(r) ==
  /\ at[r] = "select"
  /\ Return(r, FALSE, own[r])
  /\ UNCHANGED <<data, globals, todo>>

GetRow(r) ==
  /\ at[r] = "rows"
  /\ \E x \in todo[r] :
       /\ own' = [own EXCEPT ![pointer] = @ \cup {x}]
       /\ todo' = [todo EXCEPT ![r] = @ \ {x}]
  /\ UNCHANGED <<data, map, pointer, at, col, answer, history>>

EndScan(r) ==
  /\ at[r] = "rows"
  /\ todo[r] = {}
  /\ Return(r, TRUE, own[r])
  /\ UNCHANGED <<data, globals, todo>>

ScanTable(r) ==
  \/ StartScan(r)
  \/ SetPointer(r)
  \/ ClearMaps(r)
  \/ Select(r)
  \/ FailScan(r)
  \/ GetRow(r)
  \/ EndScan(r)

-----------------------------------------------------------------------------
Init ==
  /\ row \in [Columns -> Values]
  /\ table \in SUBSET Rows
  /\ map = [c \in Columns |-> {}]
  /\ pointer \in Readers
  /\ own = [r \in Readers |-> {}]
  /\ at = [r \in Readers |-> "idle"]
  /\ col = [r \in Readers |-> {}]
  /\ todo = [r \in Readers |-> {}]
  /\ answer = [r \in Readers |-> NoAnswer]
  /\ seen = [r \in Readers |-> {}]
  /\ shared = [r \in Readers |-> FALSE]

Next ==
  \/ \E c \in Columns, v \in Values : Write(c, v)
  \/ \E rows \in SUBSET Rows : Change(rows)
  \/ \E r \in Readers : ReadVariable(r) \/ ScanTable(r)

Spec == Init /\ [][Next]_vars

-----------------------------------------------------------------------------
\* Every variable has its type; a variable has at most one value in the map.
TypeOK ==
  /\ row \in [Columns -> Values]
  /\ table \in SUBSET Rows
  /\ map \in [Columns -> SUBSET Values]
  /\ \A c \in Columns : \A v, w \in map[c] : v = w
  /\ pointer \in Readers
  /\ own \in [Readers -> SUBSET Rows]
  /\ at \in [Readers -> {"idle"} \cup ValueSteps \cup ScanSteps]
  /\ col \in [Readers -> SUBSET Columns]
  /\ \A r \in Readers : IF r \in Reading THEN \E c \in Columns : col[r] = {c}
                                         ELSE col[r] = {}
  /\ todo \in [Readers -> SUBSET Rows]
  /\ shared \in [Readers -> BOOLEAN]

\* What a reader may find after its clear was put there during its read: an older value
\* never survives, although insert does not overwrite (sqliteDB.cpp:48-58).
MapFresh ==
  \A r \in Reading : at[r] # "clear" => \A c \in col[r] : map[c] \subseteq seen[r]

\* The reads keep the promise of RowReads (sqliteDB.cpp:448-545, 634-655, 745-775).
Kind(r) == IF at[r] \in ValueSteps THEN "value"
           ELSE IF at[r] \in ScanSteps THEN "scan" ELSE "none"

readBar == [r \in Readers |-> [kind |-> Kind(r), col |-> col[r], seen |-> seen[r],
                               shared |-> shared[r], answer |-> answer[r]]]

Promise == INSTANCE RowReads WITH read <- readBar

KeepsPromise == Promise!Spec

=============================================================================
