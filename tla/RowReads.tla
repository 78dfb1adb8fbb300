------------------------------ MODULE RowReads ------------------------------
(***************************************************************************)
(* What the threads of the VEN rely on when they read a SQLite file: that  *)
(* one read of a variable returns a value the row held during the read,    *)
(* and that one scan of a table returns the rows of one moment of it.      *)
(*                                                                         *)
(* The code keeps that promise for a read no other one overlaps.  What an  *)
(* overlapped read of a variable may return besides is the default (0 or   *)
(* ""); an overlapped scan promises nothing.                               *)
(***************************************************************************)
CONSTANTS
  Readers,   \* the threads that read
  Columns,   \* the variables of the one-row tables
  Values,    \* the values of a variable
  Default,   \* what a read returns that finds nothing: 0 or ""
  Rows       \* the rows the scanned table may have

VARIABLES
  row,    \* the one-row table: the value of every variable
  table,  \* the scanned table: the rows it has
  read    \* per reader: its current or its last read

vars == <<row, table, read>>

\* What a read returned, and whether SQLite answered it or an error was logged.
Answer(ok, result) == [ok |-> ok, result |-> result]

\* A reader that is not reading, and what its last read returned.
Rest(a) == [kind |-> "none", col |-> {}, seen |-> {}, shared |-> FALSE, answer |-> a]

Reading(kind) == {r \in Readers : read[r].kind = kind}

Init ==
  /\ row \in [Columns -> Values]
  /\ table \in SUBSET Rows
  /\ read = [r \in Readers |-> Rest(Answer(TRUE, {}))]

\* A write is one statement; the reads under way have seen the new value as well.
Write(c, v) ==
  /\ row' = [row EXCEPT ![c] = v]
  /\ read' = [r \in Readers |-> IF read[r].kind = "value" /\ read[r].col = {c}
                                  THEN [read[r] EXCEPT !.seen = @ \cup {v}]
                                  ELSE read[r]]
  /\ UNCHANGED table

Change(rows) ==
  /\ table' = rows
  /\ read' = [r \in Readers |-> IF read[r].kind = "scan"
                                  THEN [read[r] EXCEPT !.seen = @ \cup {rows}]
                                  ELSE read[r]]
  /\ UNCHANGED row

\* A read begins; it shares the time with the reads of its kind under way.
Start(r, kind, col, seen) ==
  /\ read[r].kind = "none"
  /\ read' = [o \in Readers |->
                IF o = r
                  THEN [kind |-> kind, col |-> col, seen |-> seen,
                        shared |-> Reading(kind) # {}, answer |-> Answer(TRUE, {})]
                  ELSE [read[o] EXCEPT !.shared = @ \/ read[o].kind = kind]]
  /\ UNCHANGED <<row, table>>

StartRead(r) == \E c \in Columns : Start(r, "value", {c}, {row[c]})
StartScan(r) == Start(r, "scan", {}, {table})

Finish(r, kind, answers) ==
  /\ read[r].kind = kind
  /\ \E a \in answers : read' = [read EXCEPT ![r] = Rest(a)]
  /\ UNCHANGED <<row, table>>

FinishRead(r) ==
  LET found == read[r].seen \cup (IF read[r].shared THEN {Default} ELSE {}) IN
  Finish(r, "value", {Answer(TRUE, {v}) : v \in found})

FinishScan(r) ==
  LET found == IF read[r].shared THEN SUBSET Rows ELSE read[r].seen IN
  Finish(r, "scan", {Answer(TRUE, rows) : rows \in found})

\* SQLite refuses: the file is missing, or busy for 3 s.
FailRead(r) == Finish(r, "value", {Answer(FALSE, {Default})})
FailScan(r) == Finish(r, "scan", {Answer(FALSE, rows) : rows \in SUBSET Rows})

Next ==
  \/ \E c \in Columns, v \in Values : Write(c, v)
  \/ \E rows \in SUBSET Rows : Change(rows)
  \/ \E r \in Readers :
       \/ StartRead(r)
       \/ StartScan(r)
       \/ FinishRead(r)
       \/ FinishScan(r)
       \/ FailRead(r)
       \/ FailScan(r)

Spec == Init /\ [][Next]_vars

=============================================================================
