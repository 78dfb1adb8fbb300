------------------------------ MODULE MCDbRead ------------------------------
(***************************************************************************)
(* Small instance of DbRead for TLC: two threads read and scan while the   *)
(* row and the table change.                                               *)
(***************************************************************************)
EXTENDS DbRead, TLC

\* Two values besides the default: an old one and a new one can be told apart.
TwoReaders == Cardinality(Readers) = 2 /\ Cardinality(Values) = 2 /\ Default \notin Values

\* Threads, variables, values and rows are interchangeable.
Interchangeable ==
  Permutations(Readers) \cup Permutations(Columns) \cup Permutations(Values)
    \cup Permutations(Rows)

ASSUME SmallInstance == TwoReaders

=============================================================================
