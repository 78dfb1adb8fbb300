---------------------------- MODULE DbReadProofs ----------------------------
(***************************************************************************)
(* Proofs about DbRead: its type invariant, and that it implements         *)
(* RowReads.  What makes the refinement work is that a read which shares   *)
(* its time with no other has the globals for itself.                      *)
(***************************************************************************)
EXTENDS DbRead, TLAPS

-----------------------------------------------------------------------------
(* The inductive invariant                                                 *)

\* seen holds what there is now, for every reader at work.
SeenNow ==
  /\ \A r \in Reading : \A c \in col[r] : row[c] \in seen[r]
  /\ \A r \in Scanning : table \in seen[r]

\* A reader at work that is not marked as sharing is the only one of its kind.
Alone ==
  /\ \A r, o \in Reading : ~shared[r] => o = r
  /\ \A r, o \in Scanning : ~shared[r] => o = r

\* Alone, a reader finds in the map what it put there.
FoundAlone ==
  \A r \in Reading : ~shared[r] /\ at[r] = "find" => \A c \in col[r] : map[c] # {}

\* Alone, a scan has cleared and fills its own maps; the table waits for its rows.
FilledAlone ==
  \A r \in Scanning : ~shared[r] =>
    /\ at[r] # "point" => pointer = r
    /\ at[r] = "select" => own[r] = {}
    /\ at[r] = "rows" => own[r] \cup todo[r] = table

\* What an idle reader keeps, and the answer of one at work.
Rest ==
  /\ DOMAIN seen = Readers
  /\ DOMAIN answer = Readers
  /\ \A r \in Readers : at[r] = "idle" => seen[r] = {} /\ shared[r] = FALSE
  /\ \A r \in Readers : at[r] # "idle" => answer[r] = NoAnswer

IInv == TypeOK /\ MapFresh /\ SeenNow /\ Alone /\ FoundAlone /\ FilledAlone /\ Rest

-----------------------------------------------------------------------------
(* Type correctness                                                        *)

LEMMA InitTypeOK == Init => TypeOK
  BY DEF Init, TypeOK, Reading, ValueSteps, ScanSteps

LEMMA NextTypeOK == TypeOK /\ [Next]_vars => TypeOK'
  <1> SUFFICES ASSUME TypeOK, [Next]_vars
               PROVE  TypeOK'
    OBVIOUS
  <1> USE DEF TypeOK, Goto, data, globals, history, Reading, ValueSteps, ScanSteps
  <1>1. ASSUME NEW c \in Columns, NEW v \in Values, Write(c, v)
        PROVE  TypeOK'
    BY <1>1 DEF Write
  <1>2. ASSUME NEW rows \in SUBSET Rows, Change(rows)
        PROVE  TypeOK'
    BY <1>2 DEF Change, Unlocked
  <1>3. ASSUME NEW r \in Readers, StartRead(r)
        PROVE  TypeOK'
    <2>1. PICK c \in Columns : col' = [col EXCEPT ![r] = {c}]
      BY <1>3 DEF StartRead
    <2>2. r \in Reading' /\ \A o \in Readers \ {r} : o \in Reading' <=> o \in Reading
      BY <1>3 DEF StartRead
    <2>3. \A o \in Readers : IF o \in Reading' THEN \E d \in Columns : col'[o] = {d}
                                                ELSE col'[o] = {}
      BY <2>1, <2>2
    <2>4. shared' \in [Readers -> BOOLEAN]
      BY <1>3 DEF StartRead, Overlaps
    <2>5. QED
      BY <1>3, <2>1, <2>3, <2>4 DEF StartRead
  <1>4. ASSUME NEW r \in Readers, ClearMap(r)
        PROVE  TypeOK'
    BY <1>4 DEF ClearMap
  <1>5. ASSUME NEW r \in Readers, ExecRead(r)
        PROVE  TypeOK'
    BY <1>5 DEF ExecRead
  <1>6. ASSUME NEW r \in Readers, FailRead(r)
        PROVE  TypeOK'
    BY <1>6 DEF FailRead, Return
  <1>7. ASSUME NEW r \in Readers, FindValue(r)
        PROVE  TypeOK'
    BY <1>7 DEF FindValue, Return
  <1>8. ASSUME NEW r \in Readers, StartScan(r)
        PROVE  TypeOK'
    BY <1>8 DEF StartScan, Overlaps
  <1>9. ASSUME NEW r \in Readers, SetPointer(r)
        PROVE  TypeOK'
    BY <1>9 DEF SetPointer
  <1>10. ASSUME NEW r \in Readers, ClearMaps(r)
        PROVE  TypeOK'
    BY <1>10 DEF ClearMaps
  <1>11. ASSUME NEW r \in Readers, Select(r)
        PROVE  TypeOK'
    BY <1>11 DEF Select
  <1>12. ASSUME NEW r \in Readers, FailScan(r)
        PROVE  TypeOK'
    BY <1>12 DEF FailScan, Return
  <1>13. ASSUME NEW r \in Readers, GetRow(r)
        PROVE  TypeOK'
    BY <1>13 DEF GetRow
  <1>14. ASSUME NEW r \in Readers, EndScan(r)
        PROVE  TypeOK'
    BY <1>14 DEF EndScan, Return
  <1>15. CASE UNCHANGED vars
    BY <1>15 DEF vars
  <1>16. QED
    BY <1>1, <1>2, <1>3, <1>4, <1>5, <1>6, <1>7, <1>8, <1>9, <1>10, <1>11, <1>12, <1>13,
       <1>14, <1>15
       DEF Next, ReadVariable, ScanTable

\* The variables keep their types, and DBVariablemap never holds two values of a key,
\* whatever reads and writes interleave.
THEOREM TypeCorrect == Spec => []TypeOK
  <1>1. Init => TypeOK
    BY InitTypeOK
  <1>2. TypeOK /\ [Next]_vars => TypeOK'
    BY NextTypeOK
  <1>3. QED
    BY <1>1, <1>2, PTL DEF Spec

-----------------------------------------------------------------------------
(* The other conjuncts                                                     *)

LEMMA NextSeenNow == TypeOK /\ TypeOK' /\ Rest /\ SeenNow /\ [Next]_vars => SeenNow'
  <1> SUFFICES ASSUME TypeOK, TypeOK', Rest, SeenNow, [Next]_vars
               PROVE  SeenNow'
    OBVIOUS
  <1> USE DEF SeenNow, Rest, TypeOK, Goto, data, globals, history, Reading, ValueSteps,
          ScanSteps, Scanning
  <1>1. ASSUME NEW c \in Columns, NEW v \in Values, Write(c, v)
        PROVE  SeenNow'
    BY <1>1 DEF Write
  <1>2. ASSUME NEW rows \in SUBSET Rows, Change(rows)
        PROVE  SeenNow'
    BY <1>2 DEF Change, Unlocked
  <1>3. ASSUME NEW r \in Readers, StartRead(r)
        PROVE  SeenNow'
    BY <1>3 DEF StartRead, Overlaps
  <1>4. ASSUME NEW r \in Readers, ClearMap(r)
        PROVE  SeenNow'
    BY <1>4 DEF ClearMap
  <1>5. ASSUME NEW r \in Readers, ExecRead(r)
        PROVE  SeenNow'
    BY <1>5 DEF ExecRead
  <1>6. ASSUME NEW r \in Readers, FailRead(r)
        PROVE  SeenNow'
    BY <1>6 DEF FailRead, Return
  <1>7. ASSUME NEW r \in Readers, FindValue(r)
        PROVE  SeenNow'
    BY <1>7 DEF FindValue, Return
  <1>8. ASSUME NEW r \in Readers, StartScan(r)
        PROVE  SeenNow'
    BY <1>8 DEF StartScan, Overlaps
  <1>9. ASSUME NEW r \in Readers, SetPointer(r)
        PROVE  SeenNow'
    BY <1>9 DEF SetPointer
  <1>10. ASSUME NEW r \in Readers, ClearMaps(r)
        PROVE  SeenNow'
    BY <1>10 DEF ClearMaps
  <1>11. ASSUME NEW r \in Readers, Select(r)
        PROVE  SeenNow'
    BY <1>11 DEF Select
  <1>12. ASSUME NEW r \in Readers, FailScan(r)
        PROVE  SeenNow'
    BY <1>12 DEF FailScan, Return
  <1>13. ASSUME NEW r \in Readers, GetRow(r)
        PROVE  SeenNow'
    BY <1>13 DEF GetRow
  <1>14. ASSUME NEW r \in Readers, EndScan(r)
        PROVE  SeenNow'
    BY <1>14 DEF EndScan, Return
  <1>15. CASE UNCHANGED vars
    BY <1>15 DEF vars
  <1>16. QED
    BY <1>1, <1>2, <1>3, <1>4, <1>5, <1>6, <1>7, <1>8, <1>9, <1>10, <1>11, <1>12, <1>13,
       <1>14, <1>15
       DEF Next, ReadVariable, ScanTable

LEMMA NextMapFresh == TypeOK /\ TypeOK' /\ SeenNow /\ MapFresh /\ [Next]_vars => MapFresh'
  <1> SUFFICES ASSUME TypeOK, TypeOK', SeenNow, MapFresh, [Next]_vars
               PROVE  MapFresh'
    OBVIOUS
  <1> USE DEF MapFresh, SeenNow, TypeOK, Goto, data, globals, history, Reading,
          ValueSteps, ScanSteps, Scanning
  <1>1. ASSUME NEW c \in Columns, NEW v \in Values, Write(c, v)
        PROVE  MapFresh'
    BY <1>1 DEF Write
  <1>2. ASSUME NEW rows \in SUBSET Rows, Change(rows)
        PROVE  MapFresh'
    BY <1>2 DEF Change, Unlocked
  <1>3. ASSUME NEW r \in Readers, StartRead(r)
        PROVE  MapFresh'
    BY <1>3 DEF StartRead, Overlaps
  <1>4. ASSUME NEW r \in Readers, ClearMap(r)
        PROVE  MapFresh'
    BY <1>4 DEF ClearMap
  <1>5. ASSUME NEW r \in Readers, ExecRead(r)
        PROVE  MapFresh'
    BY <1>5 DEF ExecRead
  <1>6. ASSUME NEW r \in Readers, FailRead(r)
        PROVE  MapFresh'
    BY <1>6 DEF FailRead, Return
  <1>7. ASSUME NEW r \in Readers, FindValue(r)
        PROVE  MapFresh'
    BY <1>7 DEF FindValue, Return
  <1>8. ASSUME NEW r \in Readers, StartScan(r)
        PROVE  MapFresh'
    BY <1>8 DEF StartScan, Overlaps
  <1>9. ASSUME NEW r \in Readers, SetPointer(r)
        PROVE  MapFresh'
    BY <1>9 DEF SetPointer
  <1>10. ASSUME NEW r \in Readers, ClearMaps(r)
        PROVE  MapFresh'
    BY <1>10 DEF ClearMaps
  <1>11. ASSUME NEW r \in Readers, Select(r)
        PROVE  MapFresh'
    BY <1>11 DEF Select
  <1>12. ASSUME NEW r \in Readers, FailScan(r)
        PROVE  MapFresh'
    BY <1>12 DEF FailScan, Return
  <1>13. ASSUME NEW r \in Readers, GetRow(r)
        PROVE  MapFresh'
    BY <1>13 DEF GetRow
  <1>14. ASSUME NEW r \in Readers, EndScan(r)
        PROVE  MapFresh'
    BY <1>14 DEF EndScan, Return
  <1>15. CASE UNCHANGED vars
    BY <1>15 DEF vars
  <1>16. QED
    BY <1>1, <1>2, <1>3, <1>4, <1>5, <1>6, <1>7, <1>8, <1>9, <1>10, <1>11, <1>12, <1>13,
       <1>14, <1>15
       DEF Next, ReadVariable, ScanTable

LEMMA NextAlone == TypeOK /\ TypeOK' /\ Alone /\ [Next]_vars => Alone'
  <1> SUFFICES ASSUME TypeOK, TypeOK', Alone, [Next]_vars
               PROVE  Alone'
    OBVIOUS
  <1> USE DEF Alone, TypeOK, Goto, data, globals, history, Reading, ValueSteps, ScanSteps, Scanning
  <1>1. ASSUME NEW c \in Columns, NEW v \in Values, Write(c, v)
        PROVE  Alone'
    BY <1>1 DEF Write
  <1>2. ASSUME NEW rows \in SUBSET Rows, Change(rows)
        PROVE  Alone'
    BY <1>2 DEF Change, Unlocked
  <1>3. ASSUME NEW r \in Readers, StartRead(r)
        PROVE  Alone'
    BY <1>3 DEF StartRead, Overlaps
  <1>4. ASSUME NEW r \in Readers, ClearMap(r)
        PROVE  Alone'
    BY <1>4 DEF ClearMap
  <1>5. ASSUME NEW r \in Readers, ExecRead(r)
        PROVE  Alone'
    BY <1>5 DEF ExecRead
  <1>6. ASSUME NEW r \in Readers, FailRead(r)
        PROVE  Alone'
    BY <1>6 DEF FailRead, Return
  <1>7. ASSUME NEW r \in Readers, FindValue(r)
        PROVE  Alone'
    BY <1>7 DEF FindValue, Return
  <1>8. ASSUME NEW r \in Readers, StartScan(r)
        PROVE  Alone'
    BY <1>8 DEF StartScan, Overlaps
  <1>9. ASSUME NEW r \in Readers, SetPointer(r)
        PROVE  Alone'
    BY <1>9 DEF SetPointer
  <1>10. ASSUME NEW r \in Readers, ClearMaps(r)
        PROVE  Alone'
    BY <1>10 DEF ClearMaps
  <1>11. ASSUME NEW r \in Readers, Select(r)
        PROVE  Alone'
    BY <1>11 DEF Select
  <1>12. ASSUME NEW r \in Readers, FailScan(r)
        PROVE  Alone'
    BY <1>12 DEF FailScan, Return
  <1>13. ASSUME NEW r \in Readers, GetRow(r)
        PROVE  Alone'
    BY <1>13 DEF GetRow
  <1>14. ASSUME NEW r \in Readers, EndScan(r)
        PROVE  Alone'
    BY <1>14 DEF EndScan, Return
  <1>15. CASE UNCHANGED vars
    BY <1>15 DEF vars
  <1>16. QED
    BY <1>1, <1>2, <1>3, <1>4, <1>5, <1>6, <1>7, <1>8, <1>9, <1>10, <1>11, <1>12, <1>13,
       <1>14, <1>15
       DEF Next, ReadVariable, ScanTable

LEMMA NextFoundAlone == TypeOK /\ TypeOK' /\ Alone /\ FoundAlone /\ [Next]_vars => FoundAlone'
  <1> SUFFICES ASSUME TypeOK, TypeOK', Alone, FoundAlone, [Next]_vars
               PROVE  FoundAlone'
    OBVIOUS
  <1> USE DEF Alone, FoundAlone, TypeOK, Goto, data, globals, history, Reading,
          ValueSteps, ScanSteps, Scanning
  <1>1. ASSUME NEW c \in Columns, NEW v \in Values, Write(c, v)
        PROVE  FoundAlone'
    BY <1>1 DEF Write
  <1>2. ASSUME NEW rows \in SUBSET Rows, Change(rows)
        PROVE  FoundAlone'
    BY <1>2 DEF Change, Unlocked
  <1>3. ASSUME NEW r \in Readers, StartRead(r)
        PROVE  FoundAlone'
    BY <1>3 DEF StartRead, Overlaps
  <1>4. ASSUME NEW r \in Readers, ClearMap(r)
        PROVE  FoundAlone'
    BY <1>4 DEF ClearMap
  <1>5. ASSUME NEW r \in Readers, ExecRead(r)
        PROVE  FoundAlone'
    BY <1>5 DEF ExecRead
  <1>6. ASSUME NEW r \in Readers, FailRead(r)
        PROVE  FoundAlone'
    BY <1>6 DEF FailRead, Return
  <1>7. ASSUME NEW r \in Readers, FindValue(r)
        PROVE  FoundAlone'
    BY <1>7 DEF FindValue, Return
  <1>8. ASSUME NEW r \in Readers, StartScan(r)
        PROVE  FoundAlone'
    BY <1>8 DEF StartScan, Overlaps
  <1>9. ASSUME NEW r \in Readers, SetPointer(r)
        PROVE  FoundAlone'
    BY <1>9 DEF SetPointer
  <1>10. ASSUME NEW r \in Readers, ClearMaps(r)
        PROVE  FoundAlone'
    BY <1>10 DEF ClearMaps
  <1>11. ASSUME NEW r \in Readers, Select(r)
        PROVE  FoundAlone'
    BY <1>11 DEF Select
  <1>12. ASSUME NEW r \in Readers, FailScan(r)
        PROVE  FoundAlone'
    BY <1>12 DEF FailScan, Return
  <1>13. ASSUME NEW r \in Readers, GetRow(r)
        PROVE  FoundAlone'
    BY <1>13 DEF GetRow
  <1>14. ASSUME NEW r \in Readers, EndScan(r)
        PROVE  FoundAlone'
    BY <1>14 DEF EndScan, Return
  <1>15. CASE UNCHANGED vars
    BY <1>15 DEF vars
  <1>16. QED
    BY <1>1, <1>2, <1>3, <1>4, <1>5, <1>6, <1>7, <1>8, <1>9, <1>10, <1>11, <1>12, <1>13,
       <1>14, <1>15
       DEF Next, ReadVariable, ScanTable

LEMMA NextFilledAlone == TypeOK /\ TypeOK' /\ Alone /\ FilledAlone /\ [Next]_vars => FilledAlone'
  <1> SUFFICES ASSUME TypeOK, TypeOK', Alone, FilledAlone, [Next]_vars
               PROVE  FilledAlone'
    OBVIOUS
  <1> USE DEF Alone, FilledAlone, TypeOK, Goto, data, globals, history, Reading,
          ValueSteps, ScanSteps, Scanning
  <1>1. ASSUME NEW c \in Columns, NEW v \in Values, Write(c, v)
        PROVE  FilledAlone'
    BY <1>1 DEF Write
  <1>2. ASSUME NEW rows \in SUBSET Rows, Change(rows)
        PROVE  FilledAlone'
    BY <1>2 DEF Change, Unlocked
  <1>3. ASSUME NEW r \in Readers, StartRead(r)
        PROVE  FilledAlone'
    BY <1>3 DEF StartRead, Overlaps
  <1>4. ASSUME NEW r \in Readers, ClearMap(r)
        PROVE  FilledAlone'
    BY <1>4 DEF ClearMap
  <1>5. ASSUME NEW r \in Readers, ExecRead(r)
        PROVE  FilledAlone'
    BY <1>5 DEF ExecRead
  <1>6. ASSUME NEW r \in Readers, FailRead(r)
        PROVE  FilledAlone'
    BY <1>6 DEF FailRead, Return
  <1>7. ASSUME NEW r \in Readers, FindValue(r)
        PROVE  FilledAlone'
    BY <1>7 DEF FindValue, Return
  <1>8. ASSUME NEW r \in Readers, StartScan(r)
        PROVE  FilledAlone'
    BY <1>8 DEF StartScan, Overlaps
  <1>9. ASSUME NEW r \in Readers, SetPointer(r)
        PROVE  FilledAlone'
    BY <1>9 DEF SetPointer
  <1>10. ASSUME NEW r \in Readers, ClearMaps(r)
        PROVE  FilledAlone'
    BY <1>10 DEF ClearMaps
  <1>11. ASSUME NEW r \in Readers, Select(r)
        PROVE  FilledAlone'
    BY <1>11 DEF Select
  <1>12. ASSUME NEW r \in Readers, FailScan(r)
        PROVE  FilledAlone'
    BY <1>12 DEF FailScan, Return
  <1>13. ASSUME NEW r \in Readers, GetRow(r)
        PROVE  FilledAlone'
    BY <1>13 DEF GetRow
  <1>14. ASSUME NEW r \in Readers, EndScan(r)
        PROVE  FilledAlone'
    BY <1>14 DEF EndScan, Return
  <1>15. CASE UNCHANGED vars
    BY <1>15 DEF vars
  <1>16. QED
    BY <1>1, <1>2, <1>3, <1>4, <1>5, <1>6, <1>7, <1>8, <1>9, <1>10, <1>11, <1>12, <1>13,
       <1>14, <1>15
       DEF Next, ReadVariable, ScanTable

LEMMA NextRest == TypeOK /\ TypeOK' /\ Rest /\ [Next]_vars => Rest'
  <1> SUFFICES ASSUME TypeOK, TypeOK', Rest, [Next]_vars
               PROVE  Rest'
    OBVIOUS
  <1> USE DEF Rest, NoAnswer, TypeOK, Goto, data, globals, history, Reading, ValueSteps,
          ScanSteps, Scanning
  <1>1. ASSUME NEW c \in Columns, NEW v \in Values, Write(c, v)
        PROVE  Rest'
    BY <1>1 DEF Write
  <1>2. ASSUME NEW rows \in SUBSET Rows, Change(rows)
        PROVE  Rest'
    BY <1>2 DEF Change, Unlocked
  <1>3. ASSUME NEW r \in Readers, StartRead(r)
        PROVE  Rest'
    BY <1>3 DEF StartRead, Overlaps
  <1>4. ASSUME NEW r \in Readers, ClearMap(r)
        PROVE  Rest'
    BY <1>4 DEF ClearMap
  <1>5. ASSUME NEW r \in Readers, ExecRead(r)
        PROVE  Rest'
    BY <1>5 DEF ExecRead
  <1>6. ASSUME NEW r \in Readers, FailRead(r)
        PROVE  Rest'
    BY <1>6 DEF FailRead, Return
  <1>7. ASSUME NEW r \in Readers, FindValue(r)
        PROVE  Rest'
    BY <1>7 DEF FindValue, Return
  <1>8. ASSUME NEW r \in Readers, StartScan(r)
        PROVE  Rest'
    BY <1>8 DEF StartScan, Overlaps
  <1>9. ASSUME NEW r \in Readers, SetPointer(r)
        PROVE  Rest'
    BY <1>9 DEF SetPointer
  <1>10. ASSUME NEW r \in Readers, ClearMaps(r)
        PROVE  Rest'
    BY <1>10 DEF ClearMaps
  <1>11. ASSUME NEW r \in Readers, Select(r)
        PROVE  Rest'
    BY <1>11 DEF Select
  <1>12. ASSUME NEW r \in Readers, FailScan(r)
        PROVE  Rest'
    BY <1>12 DEF FailScan, Return
  <1>13. ASSUME NEW r \in Readers, GetRow(r)
        PROVE  Rest'
    BY <1>13 DEF GetRow
  <1>14. ASSUME NEW r \in Readers, EndScan(r)
        PROVE  Rest'
    BY <1>14 DEF EndScan, Return
  <1>15. CASE UNCHANGED vars
    BY <1>15 DEF vars
  <1>16. QED
    BY <1>1, <1>2, <1>3, <1>4, <1>5, <1>6, <1>7, <1>8, <1>9, <1>10, <1>11, <1>12, <1>13,
       <1>14, <1>15
       DEF Next, ReadVariable, ScanTable

LEMMA InitIInv == Init => IInv
  BY DEF Init, IInv, TypeOK, MapFresh, SeenNow, Alone, FoundAlone, FilledAlone, Rest,
         NoAnswer, Reading, Scanning, ValueSteps, ScanSteps

LEMMA NextIInv == IInv /\ [Next]_vars => IInv'
  BY NextTypeOK, NextSeenNow, NextMapFresh, NextAlone, NextFoundAlone, NextFilledAlone,
     NextRest DEF IInv

LEMMA Invariant == Spec => []IInv
  <1>1. Init => IInv
    BY InitIInv
  <1>2. IInv /\ [Next]_vars => IInv'
    BY NextIInv
  <1>3. QED
    BY <1>1, <1>2, PTL DEF Spec

\* A reader never finds a value the row did not have during its read, for any number of
\* threads that read and write.
THEOREM FreshReads == Spec => []MapFresh
  <1>1. IInv => MapFresh
    BY DEF IInv
  <1>2. QED
    BY <1>1, Invariant, PTL

-----------------------------------------------------------------------------
(* The refinement                                                          *)

LEMMA InitPromise == Init => Promise!Init
  BY DEF Init, Promise!Init, Promise!Rest, Promise!Answer, readBar, Kind, NoAnswer,
         ValueSteps, ScanSteps

\* What the mapping makes of a step that only moves a reader on.
LEMMA Stutter ==
  ASSUME NEW r \in Readers, TypeOK, UNCHANGED <<data, col, answer, history>>,
         NEW step \in ValueSteps \cup ScanSteps, at' = [at EXCEPT ![r] = step],
         at[r] \in ValueSteps <=> step \in ValueSteps,
         at[r] \in ScanSteps <=> step \in ScanSteps
  PROVE  UNCHANGED Promise!vars
  <1>1. \A o \in Readers : Kind(o)' = Kind(o)
    BY DEF Kind, TypeOK
  <1>2. QED
    BY <1>1 DEF readBar, Promise!vars, data, history

LEMMA EndsRead ==
  ASSUME NEW r \in Readers, NEW kind, NEW answers, NEW a \in answers, TypeOK,
         Kind(r) = kind, readBar'[r] = Promise!Rest(a),
         \A o \in Readers \ {r} : readBar'[o] = readBar[o],
         UNCHANGED <<row, table>>
  PROVE  Promise!Finish(r, kind, answers)
  <1>1. readBar[r].kind = kind
    BY DEF readBar
  <1>2. readBar' = [readBar EXCEPT ![r] = Promise!Rest(a)]
    <2>1. readBar = [o \in Readers |-> readBar[o]] /\ readBar' = [o \in Readers |-> readBar'[o]]
      BY DEF readBar
    <2>2. QED
      BY <2>1
  <1>3. QED
    BY <1>1, <1>2 DEF Promise!Finish

LEMMA NextPromise == IInv /\ [Next]_vars => [Promise!Next]_Promise!vars
  <1> SUFFICES ASSUME IInv, [Next]_vars
               PROVE  [Promise!Next]_Promise!vars
    OBVIOUS
  <1> USE DEF IInv, Goto, data, globals, history
  <1>1. ASSUME NEW c \in Columns, NEW v \in Values, Write(c, v)
        PROVE  Promise!Write(c, v)
    <2>1. \A o \in Readers : Kind(o)' = Kind(o) /\ (o \in Reading <=> Kind(o) = "value")
      BY <1>1 DEF Write, Kind, Reading
    <2>2. QED
      BY <1>1, <2>1 DEF Write, Promise!Write, readBar
  <1>2. ASSUME NEW rows \in SUBSET Rows, Change(rows)
        PROVE  Promise!Change(rows)
    <2>1. \A o \in Readers : Kind(o)' = Kind(o) /\ (o \in Scanning <=> Kind(o) = "scan")
      BY <1>2 DEF Change, Kind, Scanning, ValueSteps, ScanSteps
    <2>2. QED
      BY <1>2, <2>1 DEF Change, Promise!Change, readBar
  <1>3. ASSUME NEW r \in Readers, StartRead(r)
        PROVE  Promise!StartRead(r)
    <2>1. PICK c \in Columns : /\ col' = [col EXCEPT ![r] = {c}]
                               /\ seen' = [seen EXCEPT ![r] = {row[c]}]
      BY <1>3 DEF StartRead
    <2>2. Kind(r) = "none" /\ Kind(r)' = "value"
      BY <1>3 DEF StartRead, Kind, TypeOK, ValueSteps, ScanSteps
    <2>3. \A o \in Readers \ {r} : Kind(o)' = Kind(o)
      BY <1>3 DEF StartRead, Kind, TypeOK
    <2>4. \A o \in Readers : o \in Reading <=> readBar[o].kind = "value"
      BY DEF Reading, readBar, Kind
    <2>5. Promise!Start(r, "value", {c}, {row[c]})
      <3>1. readBar[r].kind = "none"
        BY <2>2 DEF readBar
      <3>2. (Reading # {}) <=> (Promise!Reading("value") # {})
        BY <2>4 DEF Promise!Reading, Reading
      <3>3. readBar'[r] = [kind |-> "value", col |-> {c}, seen |-> {row[c]},
                           shared |-> Promise!Reading("value") # {},
                           answer |-> Promise!Answer(TRUE, {})]
        BY <1>3, <2>1, <2>2, <3>2 DEF StartRead, Overlaps, readBar, TypeOK, Rest, NoAnswer,
           Promise!Answer
      <3>4. \A o \in Readers \ {r} :
               readBar'[o] = [readBar[o] EXCEPT !.shared = @ \/ readBar[o].kind = "value"]
        BY <1>3, <2>1, <2>3, <2>4 DEF StartRead, Overlaps, readBar, TypeOK, Rest
      <3>5. readBar' = [o \in Readers |-> readBar'[o]]
        BY DEF readBar
      <3>6. QED
        BY <1>3, <3>1, <3>3, <3>4, <3>5 DEF StartRead, Promise!Start
    <2>6. QED
      BY <2>5 DEF Promise!StartRead
  <1>4. ASSUME NEW r \in Readers, ClearMap(r)
        PROVE  UNCHANGED Promise!vars
    BY <1>4, Stutter DEF ClearMap, ValueSteps, ScanSteps
  <1>5. ASSUME NEW r \in Readers, ExecRead(r)
        PROVE  UNCHANGED Promise!vars
    BY <1>5, Stutter DEF ExecRead, ValueSteps, ScanSteps
  <1>6. ASSUME NEW r \in Readers, FailRead(r)
        PROVE  Promise!FailRead(r)
    <2>1. Kind(r) = "value" /\ Kind(r)' = "none"
      BY <1>6 DEF FailRead, Return, Kind, TypeOK, ValueSteps, ScanSteps
    <2>2. \A o \in Readers \ {r} : readBar'[o] = readBar[o]
      BY <1>6 DEF FailRead, Return, readBar, Kind, TypeOK, Rest
    <2>3. readBar'[r] = Promise!Rest(Promise!Answer(FALSE, {Default}))
      BY <1>6, <2>1 DEF FailRead, Return, readBar, TypeOK, Rest, Promise!Rest, Promise!Answer
    <2>4. QED
      BY <1>6, <2>1, <2>2, <2>3, EndsRead DEF FailRead, Promise!FailRead
  <1>7. ASSUME NEW r \in Readers, FindValue(r)
        PROVE  Promise!FinishRead(r)
    <2>1. Kind(r) = "value" /\ Kind(r)' = "none"
      BY <1>7 DEF FindValue, Return, Kind, TypeOK, ValueSteps, ScanSteps
    <2>2. \A o \in Readers \ {r} : readBar'[o] = readBar[o]
      BY <1>7 DEF FindValue, Return, readBar, Kind, TypeOK, Rest
    <2> DEFINE found == UNION {map[c] : c \in col[r]}
               promised == seen[r] \cup (IF shared[r] THEN {Default} ELSE {})
    <2>3. PICK c \in Columns : col[r] = {c}
      BY <1>7 DEF FindValue, TypeOK, Reading, ValueSteps
    <2>4. found = map[c]
      BY <2>3
    <2>5. \E v \in promised : (IF found = {} THEN {Default} ELSE found) = {v}
      <3>1. CASE map[c] = {}
        BY <1>7, <2>3, <2>4, <3>1 DEF FindValue, FoundAlone, Reading, ValueSteps
      <3>2. CASE map[c] # {}
        <4>1. PICK v \in map[c] : map[c] = {v}
          BY <3>2 DEF TypeOK
        <4>2. v \in seen[r]
          BY <1>7, <2>3, <4>1 DEF FindValue, MapFresh, Reading, ValueSteps
        <4>3. QED
          BY <2>4, <3>2, <4>1, <4>2
      <3>3. QED
        BY <3>1, <3>2
    <2>6. PICK v \in promised : (IF found = {} THEN {Default} ELSE found) = {v}
      BY <2>5
    <2>7. readBar'[r] = Promise!Rest(Promise!Answer(TRUE, {v}))
      BY <1>7, <2>1, <2>6 DEF FindValue, Return, readBar, TypeOK, Rest, Promise!Rest, Promise!Answer
    <2>8. promised = readBar[r].seen \cup (IF readBar[r].shared THEN {Default} ELSE {})
      BY DEF readBar
    <2>9. QED
      BY <1>7, <2>1, <2>2, <2>7, <2>8, EndsRead DEF FindValue, Promise!FinishRead
  <1>8. ASSUME NEW r \in Readers, StartScan(r)
        PROVE  Promise!StartScan(r)
    <2>1. Kind(r) = "none" /\ Kind(r)' = "scan" /\ col[r] = {}
      BY <1>8 DEF StartScan, Kind, TypeOK, Reading, ValueSteps, ScanSteps
    <2>2. \A o \in Readers \ {r} : Kind(o)' = Kind(o)
      BY <1>8 DEF StartScan, Kind, TypeOK
    <2>3. \A o \in Readers : o \in Scanning <=> readBar[o].kind = "scan"
      BY DEF Scanning, readBar, Kind, ValueSteps, ScanSteps
    <2>4. readBar[r].kind = "none"
      BY <2>1 DEF readBar
    <2>5. (Scanning # {}) <=> (Promise!Reading("scan") # {})
      BY <2>3 DEF Promise!Reading, Scanning
    <2>6. readBar'[r] = [kind |-> "scan", col |-> {}, seen |-> {table},
                         shared |-> Promise!Reading("scan") # {},
                         answer |-> Promise!Answer(TRUE, {})]
      BY <1>8, <2>1, <2>5 DEF StartScan, Overlaps, readBar, TypeOK, Rest, NoAnswer,
         Promise!Answer
    <2>7. \A o \in Readers \ {r} :
             readBar'[o] = [readBar[o] EXCEPT !.shared = @ \/ readBar[o].kind = "scan"]
      BY <1>8, <2>2, <2>3 DEF StartScan, Overlaps, readBar, TypeOK, Rest
    <2>8. readBar' = [o \in Readers |-> readBar'[o]]
      BY DEF readBar
    <2>9. QED
      BY <1>8, <2>4, <2>6, <2>7, <2>8 DEF StartScan, Promise!StartScan, Promise!Start
  <1>9. ASSUME NEW r \in Readers, SetPointer(r)
        PROVE  UNCHANGED Promise!vars
    BY <1>9, Stutter DEF SetPointer, ValueSteps, ScanSteps
  <1>10. ASSUME NEW r \in Readers, ClearMaps(r)
        PROVE  UNCHANGED Promise!vars
    BY <1>10, Stutter DEF ClearMaps, ValueSteps, ScanSteps
  <1>11. ASSUME NEW r \in Readers, Select(r)
        PROVE  UNCHANGED Promise!vars
    BY <1>11, Stutter DEF Select, ValueSteps, ScanSteps
  <1>12. ASSUME NEW r \in Readers, FailScan(r)
        PROVE  Promise!FailScan(r)
    <2>1. Kind(r) = "scan" /\ Kind(r)' = "none"
      BY <1>12 DEF FailScan, Return, Kind, TypeOK, ValueSteps, ScanSteps
    <2>2. \A o \in Readers \ {r} : readBar'[o] = readBar[o]
      BY <1>12 DEF FailScan, Return, readBar, Kind, TypeOK, Rest
    <2>3. readBar'[r] = Promise!Rest(Promise!Answer(FALSE, own[r]))
      BY <1>12, <2>1 DEF FailScan, Return, readBar, TypeOK, Rest, Promise!Rest, Promise!Answer
    <2>4. own[r] \in SUBSET Rows
      BY DEF TypeOK
    <2>5. QED
      BY <1>12, <2>1, <2>2, <2>3, <2>4, EndsRead DEF FailScan, Promise!FailScan
  <1>13. ASSUME NEW r \in Readers, GetRow(r)
        PROVE  UNCHANGED Promise!vars
    BY <1>13 DEF GetRow, readBar, Kind, Promise!vars
  <1>14. ASSUME NEW r \in Readers, EndScan(r)
        PROVE  Promise!FinishScan(r)
    <2>1. Kind(r) = "scan" /\ Kind(r)' = "none"
      BY <1>14 DEF EndScan, Return, Kind, TypeOK, ValueSteps, ScanSteps
    <2>2. \A o \in Readers \ {r} : readBar'[o] = readBar[o]
      BY <1>14 DEF EndScan, Return, readBar, Kind, TypeOK, Rest
    <2>3. readBar'[r] = Promise!Rest(Promise!Answer(TRUE, own[r]))
      BY <1>14, <2>1 DEF EndScan, Return, readBar, TypeOK, Rest, Promise!Rest, Promise!Answer
    <2>4. own[r] \in IF shared[r] THEN SUBSET Rows ELSE seen[r]
      <3>1. CASE shared[r]
        BY <3>1 DEF TypeOK
      <3>2. CASE ~shared[r]
        BY <1>14, <3>2 DEF EndScan, FilledAlone, SeenNow, Scanning, ScanSteps
      <3>3. QED
        BY <3>1, <3>2
    <2>5. own[r] \in IF readBar[r].shared THEN SUBSET Rows ELSE readBar[r].seen
      BY <2>4 DEF readBar
    <2>6. QED
      BY <1>14, <2>1, <2>2, <2>3, <2>5, EndsRead DEF EndScan, Promise!FinishScan
  <1>15. CASE UNCHANGED vars
    BY <1>15 DEF vars, readBar, Kind, Promise!vars
  <1>16. QED
    BY <1>1, <1>2, <1>3, <1>4, <1>5, <1>6, <1>7, <1>8, <1>9, <1>10, <1>11, <1>12, <1>13,
       <1>14, <1>15 DEF Next, ReadVariable, ScanTable, Promise!Next

\* The reads implement RowReads for any number of threads, variables, values and rows: a
\* read no other overlaps returns what the row held, a scan what the table held.
THEOREM Implements == Spec => KeepsPromise
  <1>1. Init => Promise!Init
    BY InitPromise
  <1>2. IInv /\ [Next]_vars => [Promise!Next]_Promise!vars
    BY NextPromise
  <1>3. QED
    BY <1>1, <1>2, Invariant, PTL DEF Spec, KeepsPromise, Promise!Spec

=============================================================================
