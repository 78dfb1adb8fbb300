---------------------------- MODULE ReportsProofs ----------------------------
(***************************************************************************)
(* Machine-checked proofs about Reports, for every number of report ids,   *)
(* slots, threads and messages.                                            *)
(***************************************************************************)
EXTENDS Reports, FiniteSetTheorems, WellFoundedInduction, TLAPS

-----------------------------------------------------------------------------
(* The operators of the model: First, Listed, the slots                    *)

\* A set of naturals has a least element: of the intervals from 0 up to an element of
\* it, one contains no other.
LEMMA LeastElement ==
  ASSUME NEW s \in SUBSET Nat, s # {}
  PROVE  \E r \in s : \A q \in s : r <= q
<1> DEFINE upTo == {0..r : r \in s}
<1>1. IsWellFoundedOn(StrictSubsetOrdering(Nat), FiniteSubsetsOf(Nat))
  BY FS_StrictSubsetOrderingWellFounded
<1>2. \A r \in Nat : 0..r \in FiniteSubsetsOf(Nat)
  BY FS_Interval DEF FiniteSubsetsOf
<1>3. upTo \subseteq FiniteSubsetsOf(Nat) /\ upTo # {}
  BY <1>2
<1> HIDE DEF upTo
<1>4. PICK least \in upTo : \A u \in upTo : <<u, least>> \notin StrictSubsetOrdering(Nat)
  BY <1>1, <1>3, WFMin
<1>5. PICK r \in s : least = 0..r
  BY <1>4 DEF upTo
<1>6. ASSUME NEW q \in s, q < r
      PROVE  FALSE
  <2>1. 0..q \in upTo /\ 0..q \in FiniteSubsetsOf(Nat) /\ 0..r \in FiniteSubsetsOf(Nat)
    BY <1>2, <1>6 DEF upTo
  <2>2. r \in 0..r /\ r \notin 0..q
    BY <1>6
  <2>3. 0..q \subseteq 0..r /\ 0..q # 0..r
    BY <1>6, <2>2
  <2>4. <<0..q, 0..r>> \in StrictSubsetOrdering(Nat)
    BY <2>1, <2>3 DEF StrictSubsetOrdering, FiniteSubsetsOf
  <2> QED
    BY <2>1, <2>4, <1>4, <1>5
<1> QED
  BY <1>6

LEMMA FirstIsLeast ==
  ASSUME NEW s \in SUBSET Nat, s # {}
  PROVE  First(s) \in s /\ \A q \in s : First(s) <= q
BY LeastElement DEF First

LEMMA ConstantTypes ==
  /\ NumReports \in Nat \ {0} /\ MaxReport \in Nat \ {0}
  /\ NumThreads \in Nat \ {0} /\ MaxPayload \in Nat \ {0}
  /\ MaxMessages \in Nat /\ Retries \in Nat
  /\ Metadata \subseteq BOOLEAN /\ Lengths \subseteq Nat
BY ReportsAssumption

LEMMA ConstantSets ==
  /\ Ids \subseteq Nat /\ 1 \in Ids
  /\ Slots \subseteq Nat /\ 0 \in Slots /\ Slots \subseteq 0..MaxReport
  /\ NoSlot \notin Slots /\ MaxReport \in 0..MaxReport
  /\ Threads \subseteq Actors /\ Caller \in Actors /\ Caller \notin Threads
BY ConstantTypes DEF Ids, Slots, NoSlot, Threads, Actors, Caller

LEMMA FirstId ==
  ASSUME NEW s \in SUBSET Ids, s # {}
  PROVE  First(s) \in s /\ First(s) \in Ids
BY ConstantSets, FirstIsLeast

LEMMA FirstFreeSlot ==
  ASSUME NEW m, FreeSlots(m) # {}
  PROVE  /\ First(FreeSlots(m)) \in Slots
         /\ \A r \in Listed(m) : m[r].slot # First(FreeSlots(m))
<1>1. FreeSlots(m) \in SUBSET Slots
  BY DEF FreeSlots
<1>2. First(FreeSlots(m)) \in FreeSlots(m)
  BY <1>1, ConstantSets, FirstIsLeast
<1> QED
  BY <1>2 DEF FreeSlots

LEMMA RowTypes ==
  /\ NoRow \in Row
  /\ Empty \in [Ids -> Row]
  /\ Listed(Empty) = {}
  /\ \A s \in Slots, meta \in BOOLEAN :
       [slot |-> s, meta |-> meta] \in Row /\ [slot |-> s, meta |-> meta] # NoRow
BY ConstantSets DEF NoRow, Row, Empty, Listed, NoSlot

LEMMA ListedType ==
  ASSUME NEW m
  PROVE  /\ Listed(m) \in SUBSET Ids
         /\ IsFiniteSet(Listed(m))
         /\ Cardinality(Listed(m)) \in Nat
<1>1. Listed(m) \in SUBSET Ids
  BY DEF Listed
<1>2. IsFiniteSet(Ids)
  BY FS_Interval, ConstantTypes DEF Ids
<1> QED
  BY <1>1, <1>2, FS_Subset, FS_CardinalityType

LEMMA ActivationTypes ==
  /\ Idle \in Activations
  /\ \A id \in Ids, slot \in 0..MaxReport : Stopping(id, slot) \in Activations
  /\ \A id \in Ids : Ending(id) \in Activations
<1>1. 0 \in 0..MaxReport /\ 0 \in 0..Retries /\ Retries \in 0..Retries /\ 1 \in Ids
  BY ConstantTypes, ConstantSets
<1>2. Idle \in Activations
  BY <1>1 DEF Idle, Activations
<1>3. \A id \in Ids, slot \in 0..MaxReport : Stopping(id, slot) \in Activations
  <2> TAKE id \in Ids, slot \in 0..MaxReport
  <2>1. \A i \in Activations : [i EXCEPT !.at = "before", !.id = id] \in Activations
    BY DEF Activations
  <2>2. \A i \in Activations : [i EXCEPT !.slot = slot, !.tries = Retries] \in Activations
    BY <1>1 DEF Activations
  <2> QED
    BY <1>2, <2>1, <2>2 DEF Stopping
<1>4. \A id \in Ids : Ending(id) \in Activations
  <2> TAKE id \in Ids
  <2>1. \A i \in Activations : [i EXCEPT !.at = "read", !.id = id] \in Activations
    BY DEF Activations
  <2> QED
    BY <1>2, <2>1 DEF Ending
<1> QED
  BY <1>2, <1>3, <1>4

-----------------------------------------------------------------------------
(* Type correctness                                                        *)

LEMMA InitTypeOK == Init => TypeOK
<1> SUFFICES ASSUME Init PROVE TypeOK
  OBVIOUS
<1>1. caller \in CallerStates
  <2>1. 0 \in 0..MaxPayload /\ 0 \in 0..MaxMessages
    BY ConstantTypes
  <2> QED
    BY <2>1 DEF Init, Resting, CallerStates, CallerAts
<1>2. pc \in [Threads -> Places] /\ task \in [Threads -> Tasks]
  BY ConstantSets DEF Init, Places, Tasks
<1>3. file \in [Ids -> Row] /\ maps \in [Ids -> Row] /\ todo \in [Threads -> [Ids -> Row]]
  BY RowTypes DEF Init
<1>4. act \in [Actors -> Activations]
  BY ActivationTypes DEF Init
<1>5. notifier \in {"REPORT", "NULL", "RESET"} /\ count \in Int
  BY DEF Init
<1>6. missed \in BOOLEAN /\ doubled \in BOOLEAN
  BY DEF Init
<1> QED
  BY <1>1, <1>2, <1>3, <1>4, <1>5, <1>6 DEF TypeOK

\* What the steps write has its type: the threads that a notification wakes, and those
\* that a test of the predicate or the last wait ends.
LEMMA NotifyType ==
  ASSUME TypeOK, NEW slot, NotifySlot(slot)
  PROVE  notifier' \in {"REPORT", "NULL", "RESET"} /\ pc' \in [Threads -> Places]
BY DEF NotifySlot, TypeOK, Places

LEMMA TestedType ==
  ASSUME TypeOK, NEW t \in Threads, NEW otherwise \in Places, Tested(t, otherwise)
  PROVE  pc' \in [Threads -> Places] /\ act' \in [Actors -> Activations]
<1>1. task[t].id \in Ids
  BY DEF TypeOK, Tasks
<1>2. Ending(task[t].id) \in Activations
  BY <1>1, ActivationTypes
<1> QED
  BY <1>2 DEF Tested, TypeOK, Places

LEMMA NextWaitType ==
  ASSUME TypeOK, NEW t \in Threads, NextWait(t)
  PROVE  /\ pc' \in [Threads -> Places]
         /\ task' \in [Threads -> Tasks]
         /\ act' \in [Actors -> Activations]
<1>1. task[t] \in Tasks /\ task[t].id \in Ids /\ task[t].left \in Nat
  BY DEF TypeOK, Tasks
<1>2. Ending(task[t].id) \in Activations
  BY <1>1, ActivationTypes
<1>3. pc' \in [Threads -> Places] /\ act' \in [Actors -> Activations]
  BY <1>2 DEF NextWait, TypeOK, Places
<1>4. PICK left \in Nat : task' = [task EXCEPT ![t].left = left]
  <2> DEFINE left == IF task[t].left = 0 THEN 0 ELSE task[t].left - 1
  <2>1. left \in Nat
    BY <1>1
  <2> QED
    BY <2>1 DEF NextWait
<1>5. task' \in [Threads -> Tasks]
  BY <1>4 DEF TypeOK, Tasks
<1> QED
  BY <1>3, <1>5

LEMMA StopOneType ==
  ASSUME TypeOK, NEW a \in Actors, StopOne(a)
  PROVE  TypeOK'
<1>1. act[a] \in Activations /\ act[a].tries \in 0..Retries
  BY DEF TypeOK, Activations
<1>2. CASE ReadBefore(a)
  BY <1>2 DEF ReadBefore, TypeOK, Activations, callerVars, threadVars, history
<1>3. CASE NotifyFirst(a)
  BY <1>3, NotifyType DEF NotifyFirst, TypeOK, Activations, callerVars, history
<1>4. CASE ReadAfter(a)
  BY <1>4 DEF ReadAfter, TypeOK, Activations, callerVars, threadVars, history
<1>5. CASE NotifyAgain(a)
  BY <1>1, <1>5, NotifyType, ConstantTypes
     DEF NotifyAgain, TypeOK, Activations, callerVars, history
<1>6. CASE StopReturns(a)
  BY <1>6 DEF StopReturns, TypeOK, Activations, callerVars, threadVars
<1> QED
  BY <1>2, <1>3, <1>4, <1>5, <1>6 DEF StopOne

LEMMA UpdateType ==
  ASSUME TypeOK, NEW a \in Actors, UpdateDataFile(a)
  PROVE  TypeOK'
<1>1. act[a].val \in Int /\ act[a].id \in Ids
  BY DEF TypeOK, Activations
<1>2. CASE ReadCount(a)
  BY <1>2 DEF ReadCount, TypeOK, Activations, callerVars, threadVars, history
<1>3. CASE WriteCount(a)
  BY <1>1, <1>3 DEF WriteCount, TypeOK, Activations, callerVars, threadVars
<1>4. CASE DeleteRow(a)
  BY <1>1, <1>4, RowTypes, ActivationTypes
     DEF DeleteRow, TypeOK, Places, callerVars, history
<1> QED
  BY <1>2, <1>3, <1>4 DEF UpdateDataFile

LEMMA ThreadType ==
  ASSUME TypeOK, NEW t \in Threads, ThreadStep(t)
  PROVE  TypeOK'
<1>1. CASE ReportWait(t)
  BY <1>1, TestedType DEF ReportWait, TypeOK, threadLocal, callerVars, history, Places
<1>2. CASE ReportTimeout(t)
  BY <1>2, TestedType DEF ReportTimeout, TypeOK, threadLocal, callerVars, history, Places
<1>3. CASE SendUpdate(t)
  BY <1>3, NextWaitType DEF SendUpdate, TypeOK, threadLocal, callerVars, history
<1>4. CASE ReadPending(t)
  BY <1>4, RowTypes DEF ReadPending, TypeOK, threadLocal, callerVars, history, Places
<1>5. CASE StopPending(t)
  <2> DEFINE r == First(Listed(todo[t]))
  <2>1. r \in Ids
    BY <1>5, ListedType, FirstId DEF StopPending
  <2>2. todo[t] \in [Ids -> Row] /\ todo[t][r].slot \in 0..MaxReport
    BY <2>1 DEF TypeOK, Row
  <2>3. Stopping(r, todo[t][r].slot) \in Activations
    BY <2>1, <2>2, ActivationTypes
  <2> HIDE DEF r
  <2>4. /\ act' = [act EXCEPT ![t] = Stopping(r, todo[t][r].slot)]
        /\ todo' = [todo EXCEPT ![t][r] = NoRow]
        /\ UNCHANGED <<threadLocal, pc, task>>
    BY <1>5 DEF StopPending, r
  <2> QED
    BY <2>1, <2>2, <2>3, <2>4, RowTypes, ConstantSets
       DEF TypeOK, threadLocal, callerVars, history
<1>6. CASE RegisterReports(t)
  BY <1>6, NextWaitType DEF RegisterReports, TypeOK, threadLocal, callerVars, history
<1> QED
  BY <1>1, <1>2, <1>3, <1>4, <1>5, <1>6 DEF ThreadStep

LEMMA CallerRest ==
  ASSUME TypeOK
  PROVE  /\ caller.size \in 0..MaxPayload /\ caller.messages \in 0..MaxMessages
         /\ caller.left \in SUBSET Ids /\ caller.budget \in Int /\ caller.rounds \in Int
BY DEF TypeOK, CallerStates

LEMMA GotoType ==
  ASSUME TypeOK, NEW at \in CallerAts, Goto(at)
  PROVE  caller' \in CallerStates
BY DEF Goto, TypeOK, CallerStates

LEMMA ReceiveType ==
  ASSUME TypeOK, NEW m, NEW at \in CallerAts, Receive(m, at)
  PROVE  caller' \in CallerStates
<1> DEFINE messages == caller.messages + 1
<1>1. messages \in 0..MaxMessages /\ 0 \in 0..MaxPayload
  BY CallerRest, ConstantTypes DEF Receive
<1> HIDE DEF messages
<1>2. caller' = [at |-> at, left |-> {}, size |-> 0, budget |-> 0, rounds |-> 0,
                 messages |-> messages, outcome |-> "none"]
  BY DEF Receive, Resting, messages
<1> QED
  BY <1>1, <1>2 DEF CallerStates

LEMMA CountedType ==
  ASSUME TypeOK, caller' = [caller EXCEPT !.size = caller.size + 1],
         caller.size < MaxPayload
  PROVE  caller' \in CallerStates
<1>1. caller.size + 1 \in 0..MaxPayload
  BY CallerRest, ConstantTypes
<1> QED
  BY <1>1 DEF TypeOK, CallerStates

LEMMA PassType ==
  ASSUME TypeOK, NEW at \in CallerAts, NEW rounds \in Int, BeginPass(at, rounds)
  PROVE  maps' \in [Ids -> Row] /\ caller' \in CallerStates
<1>1. Listed(file) \in SUBSET Ids
  BY ListedType
<1> QED
  BY <1>1 DEF BeginPass, TypeOK, CallerStates

LEMMA AcceptType ==
  ASSUME TypeOK, NEW r \in Ids, NEW meta \in Metadata, NEW length \in Lengths,
         Accept(r, meta, length)
  PROVE  TypeOK'
<1> DEFINE s == First(FreeSlots(maps))
<1>1. s \in Slots /\ meta \in BOOLEAN /\ length \in Nat
  BY FirstFreeSlot, ConstantTypes DEF Accept
<1>2. [slot |-> s, meta |-> meta] \in Row
  BY <1>1, RowTypes
<1> HIDE DEF s
<1>3. PICK t \in Threads :
        /\ pc' = [pc EXCEPT ![t] = "check"]
        /\ task' = [task EXCEPT ![t] = [id |-> r, slot |-> s, meta |-> meta,
                                        left |-> length]]
        /\ maps' = [maps EXCEPT ![r] = [slot |-> s, meta |-> meta]]
  BY DEF Accept, s
<1>4. pc' \in [Threads -> Places] /\ task' \in [Threads -> Tasks]
  BY <1>1, <1>3 DEF TypeOK, Places, Tasks
<1>5. maps' \in [Ids -> Row]
  BY <1>2, <1>3 DEF TypeOK
<1>6. caller' \in CallerStates
  BY CountedType DEF Accept
<1> QED
  BY <1>4, <1>5, <1>6 DEF Accept, TypeOK, history

LEMMA ScheduleType ==
  ASSUME TypeOK,
         \/ CreateReport
         \/ Refuse
         \/ \E r \in Ids : AcceptInVain(r)
         \/ RecordSize
         \/ RemoveFile
         \/ InsertRow
         \/ Scheduled
  PROVE  TypeOK'
<1>1. CASE CreateReport
  BY <1>1, ReceiveType
     DEF CreateReport, TypeOK, callerLocal, threadVars, history, CallerAts
<1>2. CASE Refuse
  BY <1>2, CountedType DEF Refuse, TypeOK, callerLocal, threadVars, history
<1>3. CASE \E r \in Ids : AcceptInVain(r)
  BY <1>3, CountedType DEF AcceptInVain, TypeOK, callerLocal, threadVars, history
<1>4. CASE RecordSize
  BY <1>4, GotoType, ListedType
     DEF RecordSize, TypeOK, callerLocal, threadVars, history, CallerAts
<1>5. CASE RemoveFile
  <2>1. Listed(maps) \in SUBSET Ids
    BY ListedType
  <2>2. caller' \in CallerStates
    BY <1>5, <2>1 DEF RemoveFile, TypeOK, CallerStates, CallerAts
  <2> QED
    BY <1>5, <2>2, RowTypes DEF RemoveFile, TypeOK, callerLocal, threadVars, history
<1>6. CASE InsertRow
  <2> DEFINE r == First(caller.left)
  <2>1. r \in Ids
    BY <1>6, CallerRest, FirstId DEF InsertRow
  <2> HIDE DEF r
  <2>2. /\ file' = [file EXCEPT ![r] = maps[r]]
        /\ caller' = [caller EXCEPT !.left = caller.left \ {r}]
        /\ UNCHANGED <<callerLocal, count, maps>>
    BY <1>6 DEF InsertRow, r
  <2>3. caller' \in CallerStates
    BY <2>2 DEF TypeOK, CallerStates
  <2> QED
    BY <2>1, <2>2, <2>3 DEF TypeOK, callerLocal, threadVars, history
<1>7. CASE Scheduled
  BY <1>7, GotoType, RowTypes
     DEF Scheduled, TypeOK, callerLocal, threadVars, history, CallerAts
<1> QED
  BY <1>1, <1>2, <1>3, <1>4, <1>5, <1>6, <1>7

LEMMA CancelType ==
  ASSUME TypeOK, CancelReport \/ (\E r \in Ids : CancelOne(r)) \/ Canceled
  PROVE  TypeOK'
<1>1. CASE CancelReport
  BY <1>1, ReceiveType
     DEF CancelReport, TypeOK, callerLocal, threadVars, history, CallerAts
<1>2. ASSUME NEW r \in Ids, CancelOne(r)
      PROVE  TypeOK'
  <2>1. maps[r].slot \in 0..MaxReport
    BY DEF TypeOK, Row
  <2>2. Stopping(r, maps[r].slot) \in Activations
    BY <2>1, ActivationTypes
  <2>3. act' \in [Actors -> Activations]
    BY <1>2, <2>2 DEF CancelOne, TypeOK
  <2>4. caller' \in CallerStates
    BY <1>2, CountedType DEF CancelOne
  <2> QED
    BY <1>2, <2>3, <2>4 DEF CancelOne, TypeOK, threadVars, history
<1>3. CASE Canceled
  BY <1>3, GotoType, RowTypes
     DEF Canceled, TypeOK, callerLocal, threadVars, history, CallerAts
<1> QED
  BY <1>1, <1>2, <1>3

LEMMA RoundsType ==
  ASSUME TypeOK
  PROVE  Rounds \in Int /\ Forever \in Int
<1>1. \A m, n \in Int : m * n \in Int
  OBVIOUS
<1>2. Retries \in Int /\ count \in Int /\ -1 \in Int
  BY ConstantTypes DEF TypeOK
<1> QED
  BY <1>1, <1>2 DEF Rounds, Forever

LEMMA LeaveType ==
  ASSUME TypeOK,
         \/ Leave
         \/ LeaveStatus
         \/ LeaveNotify
         \/ LeavePassed
         \/ LeaveAgain
         \/ LeaveReset
         \/ LeaveFails
         \/ LeaveSucceeds
  PROVE  TypeOK'
<1>1. CASE Leave
  BY <1>1, ReceiveType DEF Leave, TypeOK, callerLocal, threadVars, history, CallerAts
<1>2. CASE LeaveStatus
  <2>1. caller' \in CallerStates /\ maps' \in [Ids -> Row]
    BY <1>2, GotoType, PassType DEF LeaveStatus, CallerAts, TypeOK
  <2> QED
    BY <1>2, <2>1 DEF LeaveStatus, TypeOK, callerLocal, threadVars, history
<1>3. CASE LeaveNotify
  <2>1. PICK r : NotifySlot(maps[r].slot)
                 /\ caller' = [caller EXCEPT !.left = caller.left \ {r},
                                             !.budget = caller.budget - 1]
    BY <1>3 DEF LeaveNotify
  <2>2. caller.budget - 1 \in Int
    BY CallerRest
  <2>3. caller' \in CallerStates
    BY <2>1, <2>2 DEF TypeOK, CallerStates
  <2> QED
    BY <1>3, <2>1, <2>3, NotifyType DEF LeaveNotify, TypeOK, history
<1>4. CASE LeavePassed
  BY <1>4, GotoType DEF LeavePassed, TypeOK, callerLocal, threadVars, history, CallerAts
<1>5. CASE LeaveAgain
  <2> DEFINE rounds == IF caller.at = "counted" THEN Rounds ELSE caller.rounds
  <2>1. rounds \in Int /\ Forever \in Int
    BY RoundsType, CallerRest
  <2>2. (IF rounds = Forever THEN Forever ELSE rounds - 1) \in Int
    BY <2>1
  <2> DEFINE next == IF rounds = Forever THEN Forever ELSE rounds - 1
  <2>3. \/ Goto("reset") /\ UNCHANGED maps
        \/ BeginPass("again", next)
    BY <1>5 DEF LeaveAgain
  <2> HIDE DEF rounds, next
  <2>4. next \in Int
    BY <2>2 DEF next
  <2>5. caller' \in CallerStates /\ maps' \in [Ids -> Row]
    BY <2>3, <2>4, GotoType, PassType DEF CallerAts, TypeOK
  <2> QED
    BY <1>5, <2>5 DEF LeaveAgain, TypeOK, callerLocal, threadVars, history
<1>6. CASE LeaveReset
  BY <1>6, GotoType DEF LeaveReset, TypeOK, threadVars, history, CallerAts
<1>7. CASE LeaveFails
  <2>1. caller' \in CallerStates
    BY <1>7 DEF LeaveFails, TypeOK, CallerStates, CallerAts
  <2> QED
    BY <1>7, <2>1, RowTypes DEF LeaveFails, TypeOK, callerLocal, threadVars, history
<1>8. CASE LeaveSucceeds
  <2>1. caller' \in CallerStates
    BY <1>8 DEF LeaveSucceeds, TypeOK, CallerStates, CallerAts
  <2> QED
    BY <1>8, <2>1, RowTypes DEF LeaveSucceeds, TypeOK, threadVars
<1> QED
  BY <1>1, <1>2, <1>3, <1>4, <1>5, <1>6, <1>7, <1>8

LEMMA NextTypeOK == TypeOK /\ [Next]_vars => TypeOK'
<1> SUFFICES ASSUME TypeOK, [Next]_vars
             PROVE  TypeOK'
  OBVIOUS
<1>1. CASE CallerStep
  BY <1>1, ScheduleType, AcceptType, CancelType, LeaveType DEF CallerStep
<1>2. ASSUME NEW t \in Threads, ThreadStep(t)
      PROVE  TypeOK'
  BY <1>2, ThreadType
<1>3. ASSUME NEW a \in Actors, ActorStep(a)
      PROVE  TypeOK'
  BY <1>3, StopOneType, UpdateType DEF ActorStep
<1>4. CASE OtherService
  BY <1>4 DEF OtherService, TypeOK, callerVars, threadVars, history
<1>5. CASE UNCHANGED vars
  BY <1>5 DEF vars, TypeOK, callerVars, threadVars, history
<1> QED
  BY <1>1, <1>2, <1>3, <1>4, <1>5 DEF Next

\* Every variable of the reports has its type whatever is requested, cancelled and left:
\* every slot a thread waits on is one of the array cv_report, every row is one that a
\* request made, and reportthread is an integer, negative when it is decremented twice.
THEOREM TypeCorrect == Spec => []TypeOK
<1> QED
  BY InitTypeOK, NextTypeOK, PTL DEF Spec

-----------------------------------------------------------------------------
(* The effects of the steps                                                *)
(*                                                                         *)
(* What the invariants below need of a step: which threads go on, what the *)
(* activation of an actor does, which rows stay where they are.            *)

\* A notification lets threads that are blocked test their predicate, and no more.
Stirred ==
  \A t \in Threads : \/ pc'[t] = pc[t]
                     \/ pc[t] = "blocked" /\ pc'[t] = "check"

\* The threads that have not deleted their row.
Alive == {t \in Threads : t \in GoingOn \/ pc[t] = "end"}

\* A task keeps what tells it from others: only the waits it has left change.
SameTasks ==
  \A t \in Threads : /\ task'[t].id = task[t].id
                     /\ task'[t].slot = task[t].slot
                     /\ task'[t].meta = task[t].meta

Others(a) == \A b \in Actors \ {a} : act'[b] = act[b]

LEMMA NotifyStirs ==
  ASSUME NEW slot, NotifySlot(slot)
  PROVE  Stirred
BY DEF NotifySlot, Stirred

LEMMA StirredThreads ==
  ASSUME Stirred
  PROVE  /\ GoingOn' = GoingOn /\ Alive' = Alive
         /\ \A t \in Threads : /\ pc'[t] = "cancel" <=> pc[t] = "cancel"
                               /\ pc'[t] = "end" <=> pc[t] = "end"
                               /\ pc'[t] = "none" <=> pc[t] = "none"
<1>1. \A t \in Threads : /\ pc'[t] = "cancel" <=> pc[t] = "cancel"
                         /\ pc'[t] = "end" <=> pc[t] = "end"
                         /\ pc'[t] = "none" <=> pc[t] = "none"
                         /\ pc'[t] \in {"check", "blocked", "busy", "cancel"}
                              <=> pc[t] \in {"check", "blocked", "busy", "cancel"}
  BY DEF Stirred
<1> QED
  BY <1>1 DEF GoingOn, Alive

\* A thread ends, by what it read or after its last wait, or goes on, or stops another.
LEMMA ThreadEffect ==
  ASSUME TypeOK, NEW t \in Threads, ThreadStep(t),
         act[t].at # "idle" => pc[t] \in {"cancel", "end"}
  PROVE  /\ UNCHANGED <<notifier, count, file, callerVars, history>>
         /\ SameTasks
         /\ Others(t)
         /\ \A u \in Threads \ {t} : pc'[u] = pc[u]
         /\ pc[t] \in {"check", "blocked", "busy", "cancel"}
         /\ act[t].at = "idle"
         /\ \/ pc'[t] = "end" /\ act'[t].at = "read" /\ act'[t].id = task[t].id
            \/ pc'[t] \in {"check", "blocked", "busy", "cancel"} /\ act'[t] = act[t]
            \/ pc[t] = "cancel" /\ pc'[t] = "cancel" /\ act'[t].at = "before"
<1>1. /\ act \in [Actors -> Activations] /\ t \in Actors
      /\ pc \in [Threads -> Places] /\ task \in [Threads -> Tasks]
  BY ConstantSets DEF TypeOK
<1>2. \A id : Ending(id).at = "read" /\ Ending(id).id = id
  BY DEF Ending, Idle
<1>3. \A id, slot : Stopping(id, slot).at = "before"
  BY DEF Stopping, Idle
<1>4. ASSUME NEW otherwise \in {"blocked", "busy"}, Tested(t, otherwise), task' = task,
             pc[t] \in {"check", "blocked"}
      PROVE  /\ SameTasks
             /\ Others(t)
             /\ \A u \in Threads \ {t} : pc'[u] = pc[u]
             /\ act[t].at = "idle"
             /\ \/ pc'[t] = "end" /\ act'[t].at = "read" /\ act'[t].id = task[t].id
                \/ pc'[t] \in {"check", "blocked", "busy", "cancel"} /\ act'[t] = act[t]
  BY <1>1, <1>2, <1>4 DEF Tested, SameTasks, Others
<1>5. ASSUME NextWait(t)
      PROVE  /\ SameTasks
             /\ Others(t)
             /\ \A u \in Threads \ {t} : pc'[u] = pc[u]
             /\ \/ pc'[t] = "end" /\ act'[t].at = "read" /\ act'[t].id = task[t].id
                \/ pc'[t] = "check" /\ act'[t] = act[t]
  BY <1>1, <1>2, <1>5 DEF NextWait, SameTasks, Others, Tasks
<1>6. CASE ReportWait(t) \/ ReportTimeout(t)
  BY <1>4, <1>6 DEF ReportWait, ReportTimeout, threadLocal
<1>7. CASE SendUpdate(t) \/ RegisterReports(t)
  BY <1>5, <1>7 DEF SendUpdate, RegisterReports, threadLocal
<1>8. CASE ReadPending(t)
  BY <1>1, <1>8 DEF ReadPending, threadLocal, SameTasks, Others
<1>9. CASE StopPending(t)
  BY <1>1, <1>3, <1>9 DEF StopPending, threadLocal, SameTasks, Others
<1> QED
  BY <1>6, <1>7, <1>8, <1>9 DEF ThreadStep

\* A stop goes on to its end: then the row is still to be updated, and a thread with its
\* id that goes on has been missed.
LEMMA StopEffect ==
  ASSUME TypeOK, NEW a \in Actors, StopOne(a)
  PROVE  /\ UNCHANGED <<count, file, callerVars, task, doubled>>
         /\ Others(a)
         /\ Stirred
         /\ act[a].at \in {"before", "first", "after", "loop"}
         /\ act'[a].id = act[a].id
         /\ \/ act'[a].at \in {"first", "after", "loop"} /\ missed' = missed
            \/ /\ act'[a].at = "read"
               /\ missed' = (missed \/ \E t \in GoingOn : task[t].id = act[a].id)
<1>1. act \in [Actors -> Activations]
  BY DEF TypeOK
<1>2. CASE ReadBefore(a)
  BY <1>1, <1>2 DEF ReadBefore, callerVars, threadVars, history, Others, Stirred, Activations
<1>3. CASE NotifyFirst(a)
  BY <1>1, <1>3, NotifyStirs DEF NotifyFirst, callerVars, history, Others, Activations
<1>4. CASE ReadAfter(a)
  BY <1>1, <1>4 DEF ReadAfter, callerVars, threadVars, history, Others, Stirred, Activations
<1>5. CASE NotifyAgain(a)
  BY <1>1, <1>5, NotifyStirs DEF NotifyAgain, callerVars, history, Others, Activations
<1>6. CASE StopReturns(a)
  BY <1>1, <1>6 DEF StopReturns, callerVars, threadVars, Others, Stirred, Activations
<1> QED
  BY <1>2, <1>3, <1>4, <1>5, <1>6 DEF StopOne

\* All the caller does to the threads, unless it starts one or stops one.
LEMMA CallerEffect ==
  ASSUME CallerStep,
         ~\E r \in Ids, meta \in Metadata, length \in Lengths : Accept(r, meta, length),
         ~\E r \in Ids : CancelOne(r)
  PROVE  UNCHANGED <<act, task, doubled>> /\ Stirred
<1>1. CASE LeaveNotify
  BY <1>1, NotifyStirs DEF LeaveNotify, history
<1>2. CASE ~LeaveNotify
  BY <1>2 DEF CallerStep, CreateReport, Refuse, AcceptInVain, RecordSize, RemoveFile,
     InsertRow, Scheduled, CancelReport, Canceled, Leave, LeaveStatus, LeavePassed,
     LeaveAgain, LeaveReset, LeaveFails, LeaveSucceeds, callerLocal, threadVars, history,
     Stirred
<1> QED
  BY <1>1, <1>2

\* A new thread: all the others are as they were.
LEMMA AcceptEffect ==
  ASSUME TypeOK, NEW r \in Ids, NEW meta \in Metadata, NEW length \in Lengths,
         Accept(r, meta, length)
  PROVE  \E t \in Threads, s \in Slots :
           /\ pc[t] = "none" /\ pc'[t] = "check"
           /\ \A u \in Threads \ {t} : pc'[u] = pc[u] /\ task'[u] = task[u]
           /\ task'[t].id = r /\ task'[t].slot = s /\ task'[t].meta = meta
           /\ maps' = [maps EXCEPT ![r] = [slot |-> s, meta |-> meta]]
           /\ \A q \in Listed(maps) : maps[q].slot # s
<1> DEFINE s == First(FreeSlots(maps))
<1>1. s \in Slots /\ \A q \in Listed(maps) : maps[q].slot # s
  BY FirstFreeSlot DEF Accept
<1> HIDE DEF s
<1>2. PICK t \in Threads :
        /\ \A u \in Threads : pc[u] = "none" <=> u >= t
        /\ pc' = [pc EXCEPT ![t] = "check"]
        /\ task' = [task EXCEPT ![t] = [id |-> r, slot |-> s, meta |-> meta,
                                        left |-> length]]
        /\ maps' = [maps EXCEPT ![r] = [slot |-> s, meta |-> meta]]
  BY DEF Accept, s
<1>3. pc[t] = "none"
  BY <1>2 DEF Threads
<1>4. /\ pc'[t] = "check"
      /\ \A u \in Threads \ {t} : pc'[u] = pc[u] /\ task'[u] = task[u]
      /\ task'[t].id = r /\ task'[t].slot = s /\ task'[t].meta = meta
  BY <1>2 DEF TypeOK
<1> QED
  BY <1>1, <1>2, <1>3, <1>4

-----------------------------------------------------------------------------
(* SlotsDistinct                                                           *)

\* While the file is written anew its rows are those of the maps.
PartOf(f, m) == \A r \in Ids : f[r] # NoRow => f[r] = m[r]

SlotInv ==
  /\ SlotsDistinct
  /\ caller.at = "insert" => PartOf(file, maps)

LEMMA DistinctPart ==
  ASSUME NEW f, NEW m, PartOf(f, m), Distinct(m)
  PROVE  Distinct(f)
BY DEF PartOf, Distinct, Listed

LEMMA DistinctEmpty == Distinct(Empty) /\ \A m : PartOf(Empty, m)
BY DEF Distinct, Listed, PartOf, Empty

LEMMA OthersSlots ==
  ASSUME TypeOK, SlotInv, \/ \E t \in Threads : ThreadStep(t)
                          \/ \E a \in Actors : ActorStep(a)
                          \/ OtherService
                          \/ UNCHANGED vars
  PROVE  SlotInv'
<1>1. ASSUME UNCHANGED <<file, callerVars>>
      PROVE  SlotInv'
  BY <1>1 DEF SlotInv, SlotsDistinct, Distinct, Listed, PartOf, callerVars
<1>2. ASSUME NEW a \in Actors, DeleteRow(a)
      PROVE  SlotInv'
  <2>1. UNCHANGED <<maps, caller>> /\ file' = [file EXCEPT ![act[a].id] = NoRow]
    BY <1>2 DEF DeleteRow, callerVars
  <2>2. PartOf(file', file) /\ (PartOf(file, maps) => PartOf(file', maps))
    BY <2>1 DEF PartOf, TypeOK
  <2>3. Distinct(file')
    BY <2>2, DistinctPart DEF SlotInv, SlotsDistinct
  <2> QED
    BY <2>1, <2>2, <2>3 DEF SlotInv, SlotsDistinct
<1>3. ASSUME NEW a \in Actors, ActorStep(a), ~DeleteRow(a)
      PROVE  UNCHANGED <<file, callerVars>>
  BY <1>3, StopEffect DEF ActorStep, UpdateDataFile, ReadCount, WriteCount
<1>4. ASSUME NEW t \in Threads, ThreadStep(t)
      PROVE  UNCHANGED <<file, callerVars>>
  BY <1>4 DEF ThreadStep, ReportWait, ReportTimeout, SendUpdate, ReadPending, StopPending,
              RegisterReports, threadLocal
<1>5. ASSUME OtherService \/ UNCHANGED vars
      PROVE  UNCHANGED <<file, callerVars>>
  BY <1>5 DEF OtherService, vars
<1> QED
  BY <1>1, <1>2, <1>3, <1>4, <1>5

LEMMA CallerSlots ==
  ASSUME TypeOK, SlotInv, CallerStep
  PROVE  SlotInv'
<1>1. Distinct(file) /\ Distinct(maps) /\ Distinct(Empty)
  BY DistinctEmpty DEF SlotInv, SlotsDistinct
<1>2. ASSUME file' = file, maps' \in {maps, file, Empty}, caller'.at # "insert"
      PROVE  SlotInv'
  BY <1>1, <1>2 DEF SlotInv, SlotsDistinct
<1>3. caller \in CallerStates
  BY DEF TypeOK
<1>4. ASSUME \/ CreateReport \/ Refuse \/ (\E r \in Ids : AcceptInVain(r)) \/ RecordSize
             \/ Scheduled \/ CancelReport \/ (\E r \in Ids : CancelOne(r)) \/ Canceled
      PROVE  SlotInv'
  BY <1>2, <1>3, <1>4 DEF CreateReport, Refuse, AcceptInVain, RecordSize, Scheduled,
     CancelReport, CancelOne, Canceled, Receive, Resting, Goto, CallerStates
<1>5. ASSUME \/ Leave \/ LeaveStatus \/ LeaveNotify \/ LeavePassed \/ LeaveAgain
             \/ LeaveReset \/ LeaveFails
      PROVE  SlotInv'
  BY <1>2, <1>3, <1>5 DEF Leave, LeaveStatus, LeaveNotify, LeavePassed, LeaveAgain,
     LeaveReset, LeaveFails, Receive, Resting, Goto, BeginPass, CallerStates
<1>6. CASE LeaveSucceeds
  <2>1. file' = Empty /\ maps' = Empty /\ caller'.at # "insert"
    BY <1>3, <1>6 DEF LeaveSucceeds, CallerStates
  <2> QED
    BY <1>1, <2>1 DEF SlotInv, SlotsDistinct
<1>7. ASSUME NEW r \in Ids, NEW meta \in Metadata, NEW length \in Lengths,
             Accept(r, meta, length)
      PROVE  SlotInv'
  <2>1. PICK s \in Slots : /\ maps' = [maps EXCEPT ![r] = [slot |-> s, meta |-> meta]]
                           /\ \A q \in Listed(maps) : maps[q].slot # s
    BY <1>7, AcceptEffect
  <2>2. \A p, q \in Listed(maps') : maps'[p].slot = maps'[q].slot => p = q
    BY <1>1, <2>1 DEF Distinct, Listed, TypeOK
  <2>3. file' = file /\ caller'.at # "insert"
    BY <1>3, <1>7 DEF Accept, CallerStates
  <2> QED
    BY <1>1, <2>2, <2>3 DEF SlotInv, SlotsDistinct, Distinct
<1>8. CASE RemoveFile
  BY <1>1, <1>8, DistinctEmpty DEF RemoveFile, SlotInv, SlotsDistinct
<1>9. CASE InsertRow
  <2> DEFINE r == First(caller.left)
  <2>1. r \in Ids
    BY <1>9, CallerRest, FirstId DEF InsertRow
  <2> HIDE DEF r
  <2>2. file' = [file EXCEPT ![r] = maps[r]] /\ maps' = maps /\ caller.at = "insert"
    BY <1>9 DEF InsertRow, r
  <2>3. PartOf(file', maps)
    BY <2>1, <2>2 DEF SlotInv, PartOf, TypeOK
  <2> QED
    BY <1>1, <2>2, <2>3, DistinctPart DEF SlotInv, SlotsDistinct
<1> QED
  BY <1>4, <1>5, <1>6, <1>7, <1>8, <1>9 DEF CallerStep

LEMMA InitSlots == Init => SlotInv
BY DistinctEmpty DEF Init, SlotInv, SlotsDistinct, Resting

LEMMA NextSlots == TypeOK /\ SlotInv /\ [Next]_vars => SlotInv'
BY CallerSlots, OthersSlots DEF Next

\* No two reports that are listed, in the file or in the maps of the caller, share a
\* condition variable, whatever ends and is deleted while reportScheduler works: it
\* gives slots by the maps it read, and the file never holds more than they do.
THEOREM SlotsAreDistinct == Spec => []SlotsDistinct
<1>1. TypeOK /\ SlotInv /\ [Next]_vars => (TypeOK /\ SlotInv)'
  BY NextTypeOK, NextSlots
<1>2. SlotInv => SlotsDistinct
  BY DEF SlotInv
<1> QED
  BY <1>1, <1>2, InitTypeOK, InitSlots, PTL DEF Spec

-----------------------------------------------------------------------------
(* Where an activation may be                                              *)

\* Between the decision that a row is to go and its deletion.
Removing == {"read", "write", "row"}

\* The caller stops only in cancelReport; a thread stops others or ends itself, and the
\* one that ends takes itself out of the file.
ActsInPlace ==
  /\ act[Caller].at # "idle" => caller.at = "cancels"
  /\ \A t \in Threads :
       /\ act[t].at # "idle" => pc[t] \in {"cancel", "end"}
       /\ pc[t] = "end" => act[t].at \in Removing /\ act[t].id = task[t].id

\* What an update of reportthread and of the file does.
LEMMA UpdateEffect ==
  ASSUME TypeOK, NEW a \in Actors, UpdateDataFile(a)
  PROVE  /\ UNCHANGED <<callerVars, task, missed>>
         /\ Others(a)
         /\ act[a].at \in Removing
         /\ \/ /\ act[a].at = "read" /\ act'[a].at = "write" /\ CountFree(a)
               /\ act'[a].id = act[a].id /\ act'[a].val = count
               /\ UNCHANGED <<pc, file, count, doubled>>
            \/ /\ act[a].at = "write" /\ act'[a].at = "row"
               /\ act'[a].id = act[a].id /\ count' = act[a].val - 1
               /\ doubled' = (doubled \/ ~Own(a))
               /\ UNCHANGED <<pc, file>>
            \/ /\ act[a].at = "row" /\ act'[a].at = "idle"
               /\ file' = [file EXCEPT ![act[a].id] = NoRow]
               /\ pc' = (IF Own(a) THEN [pc EXCEPT ![a] = "done"] ELSE pc)
               /\ UNCHANGED <<count, doubled>>
<1>1. act \in [Actors -> Activations]
  BY DEF TypeOK
<1>2. CASE ReadCount(a)
  BY <1>1, <1>2 DEF ReadCount, callerVars, threadVars, history, Others, Activations, Removing
<1>3. CASE WriteCount(a)
  BY <1>1, <1>3 DEF WriteCount, callerVars, threadVars, Others, Activations, Removing
<1>4. CASE DeleteRow(a)
  <2>1. Idle.at = "idle"
    BY DEF Idle
  <2> QED
    BY <1>1, <1>4, <2>1 DEF DeleteRow, callerVars, history, Others, Removing
<1> QED
  BY <1>2, <1>3, <1>4 DEF UpdateDataFile

LEMMA InitActs == Init => ActsInPlace
BY ConstantSets DEF Init, ActsInPlace, Idle

LEMMA NextActs == TypeOK /\ ActsInPlace /\ [Next]_vars => ActsInPlace'
<1> SUFFICES ASSUME TypeOK, ActsInPlace, [Next]_vars
             PROVE  ActsInPlace'
  OBVIOUS
<1> USE DEF ActsInPlace
<1>1. /\ act \in [Actors -> Activations]
      /\ pc \in [Threads -> Places] /\ caller \in CallerStates
  BY DEF TypeOK
<1>2. \A t \in Threads : t \in Actors /\ t # Caller
  BY ConstantSets
<1>3. ASSUME UNCHANGED <<act, task>>, Stirred,
             act[Caller].at # "idle" => caller'.at = "cancels"
      PROVE  ActsInPlace'
  BY <1>3, StirredThreads
<1>4. ASSUME CallerStep,
             ~\E r \in Ids, meta \in Metadata, length \in Lengths : Accept(r, meta, length),
             ~\E r \in Ids : CancelOne(r)
      PROVE  ActsInPlace'
  <2>1. act[Caller].at # "idle" => caller'.at = "cancels"
    BY <1>4 DEF CallerStep, CreateReport, Refuse, AcceptInVain, RecordSize, RemoveFile,
       InsertRow, Scheduled, CancelReport, Canceled, Leave, LeaveStatus, LeaveNotify,
       LeavePassed, LeaveAgain, LeaveReset, LeaveFails, LeaveSucceeds, Receive
  <2> QED
    BY <1>3, <1>4, <2>1, CallerEffect
<1>5. ASSUME NEW r \in Ids, NEW meta \in Metadata, NEW length \in Lengths,
             Accept(r, meta, length)
      PROVE  ActsInPlace'
  <2>1. PICK t \in Threads : /\ pc[t] = "none" /\ pc'[t] = "check"
                             /\ \A u \in Threads \ {t} : pc'[u] = pc[u] /\ task'[u] = task[u]
    BY <1>5, AcceptEffect
  <2>2. act' = act /\ act[Caller].at = "idle" /\ act[t].at = "idle"
    BY <1>5, <2>1 DEF Accept
  <2> QED
    BY <2>1, <2>2
<1>6. ASSUME NEW r \in Ids, CancelOne(r)
      PROVE  ActsInPlace'
  <2>1. caller'.at = "cancels"
    BY <1>1, <1>6 DEF CancelOne, CallerStates
  <2>2. \A t \in Threads : act'[t] = act[t] /\ pc'[t] = pc[t] /\ task'[t] = task[t]
    BY <1>1, <1>2, <1>6 DEF CancelOne, threadVars
  <2> QED
    BY <2>1, <2>2
<1>7. ASSUME NEW t \in Threads, ThreadStep(t)
      PROVE  ActsInPlace'
  <2>1. /\ SameTasks /\ Others(t) /\ UNCHANGED caller
        /\ \A u \in Threads \ {t} : pc'[u] = pc[u]
        /\ act[t].at = "idle" /\ pc[t] # "end"
        /\ \/ pc'[t] = "end" /\ act'[t].at = "read" /\ act'[t].id = task[t].id
           \/ pc'[t] \in {"check", "blocked", "busy", "cancel"} /\ act'[t] = act[t]
           \/ pc[t] = "cancel" /\ pc'[t] = "cancel" /\ act'[t].at = "before"
    BY <1>7, ThreadEffect DEF callerVars
  <2>2. \A a \in Actors \ {t} : act'[a] = act[a]
    BY <2>1 DEF Others
  <2>3. act'[Caller] = act[Caller]
    BY <1>2, <2>2, ConstantSets
  <2>4. \A u \in Threads : task'[u].id = task[u].id
    BY <2>1 DEF SameTasks
  <2>5. ASSUME NEW u \in Threads
        PROVE  /\ act'[u].at # "idle" => pc'[u] \in {"cancel", "end"}
               /\ pc'[u] = "end" => act'[u].at \in Removing /\ act'[u].id = task'[u].id
    <3>1. CASE u = t
      BY <2>1, <2>4, <3>1 DEF Removing
    <3>2. CASE u # t
      BY <1>2, <2>1, <2>2, <2>4, <3>2
    <3> QED
      BY <3>1, <3>2
  <2> QED
    BY <2>1, <2>3, <2>5
<1>8. ASSUME NEW a \in Actors, StopOne(a)
      PROVE  ActsInPlace'
  <2>1. /\ UNCHANGED <<caller, task>> /\ Stirred
        /\ \A b \in Actors \ {a} : act'[b] = act[b]
        /\ act[a].at \notin Removing /\ act[a].at # "idle"
    BY <1>8, StopEffect DEF callerVars, Others, Removing
  <2>2. \A t \in Threads : /\ pc'[t] = "cancel" <=> pc[t] = "cancel"
                           /\ pc'[t] = "end" <=> pc[t] = "end"
    BY <2>1, StirredThreads
  <2> QED
    BY <1>2, <2>1, <2>2, ConstantSets
<1>9. ASSUME NEW a \in Actors, UpdateDataFile(a)
      PROVE  ActsInPlace'
  <2>1. UNCHANGED <<caller, task>> /\ \A b \in Actors \ {a} : act'[b] = act[b]
    BY <1>9, UpdateEffect DEF callerVars, Others
  <2>2. CASE pc' = pc /\ act'[a].at \in Removing /\ act[a].at # "idle" /\ act'[a].id = act[a].id
    BY <1>2, <2>1, <2>2, ConstantSets
  <2>3. CASE /\ act[a].at = "row" /\ act'[a].at = "idle"
             /\ pc' = (IF Own(a) THEN [pc EXCEPT ![a] = "done"] ELSE pc)
    BY <1>1, <1>2, <2>1, <2>3, ConstantSets DEF Own
  <2> QED
    BY <1>9, <2>2, <2>3, UpdateEffect DEF Removing
<1>10. CASE OtherService \/ UNCHANGED vars
  BY <1>3, <1>10 DEF OtherService, vars, callerVars, threadVars, Stirred
<1> QED
  BY <1>4, <1>5, <1>6, <1>7, <1>8, <1>9, <1>10 DEF Next, ActorStep, CallerStep

-----------------------------------------------------------------------------
(* Rows that stay listed                                                   *)

\* A row that the caller and the readers of the file find: while reportScheduler writes
\* the file, it is still to be inserted or has been.
KeptRow(r, row) ==
  /\ Reachable[r] = row
  /\ caller.at = "insert" => r \in caller.left \/ file[r] = row

TaskRow(t) == [slot |-> task[t].slot, meta |-> task[t].meta]

LEMMA TaskRowType ==
  ASSUME TypeOK, NEW t \in Threads
  PROVE  task[t].id \in Ids /\ TaskRow(t) \in Row /\ TaskRow(t) # NoRow
BY RowTypes DEF TypeOK, Tasks, TaskRow

\* The caller loses no row, unless it leaves.
LEMMA CallerKeepsRow ==
  ASSUME TypeOK, CallerStep, ~LeaveSucceeds, NEW r \in Ids, NEW row, row # NoRow,
         KeptRow(r, row)
  PROVE  KeptRow(r, row)'
<1>1. caller \in CallerStates /\ maps \in [Ids -> Row] /\ file \in [Ids -> Row]
  BY DEF TypeOK
<1> DEFINE AtWork(at) == at \in {"requests", "reply", "insert"}
<1>2. ASSUME maps' = maps, file' = file, AtWork(caller.at), AtWork(caller'.at),
             caller.at # "insert", caller'.at # "insert"
      PROVE  KeptRow(r, row)'
  BY <1>2 DEF KeptRow, Reachable
<1>3. ASSUME file' = file, ~AtWork(caller.at), ~AtWork(caller'.at)
      PROVE  KeptRow(r, row)'
  BY <1>3 DEF KeptRow, Reachable
<1>4. CASE CreateReport
  BY <1>1, <1>4 DEF CreateReport, Receive, Resting, CallerStates, KeptRow, Reachable
<1>5. CASE Refuse \/ (\E q \in Ids : AcceptInVain(q)) \/ RecordSize
  BY <1>1, <1>2, <1>5 DEF Refuse, AcceptInVain, RecordSize, Goto, CallerStates
<1>6. ASSUME NEW q \in Ids, NEW meta \in Metadata, NEW length \in Lengths,
             Accept(q, meta, length)
      PROVE  KeptRow(r, row)'
  <2>1. caller.at = "requests" /\ caller'.at = "requests" /\ q \notin Listed(maps)
    BY <1>1, <1>6 DEF Accept, CallerStates
  <2>2. maps[r] = row
    BY <2>1 DEF KeptRow, Reachable
  <2>3. PICK s \in Slots : maps' = [maps EXCEPT ![q] = [slot |-> s, meta |-> meta]]
    BY <1>6, AcceptEffect
  <2>4. maps'[r] = row
    BY <1>1, <2>1, <2>2, <2>3 DEF Listed
  <2> QED
    BY <2>1, <2>4 DEF KeptRow, Reachable
<1>7. CASE RemoveFile
  BY <1>1, <1>7 DEF RemoveFile, CallerStates, KeptRow, Reachable, Listed
<1>8. CASE InsertRow
  <2> DEFINE q == First(caller.left)
  <2>1. q \in Ids
    BY <1>8, CallerRest, FirstId DEF InsertRow
  <2> HIDE DEF q
  <2>2. /\ file' = [file EXCEPT ![q] = maps[q]] /\ maps' = maps
        /\ caller' = [caller EXCEPT !.left = caller.left \ {q}] /\ caller.at = "insert"
    BY <1>8 DEF InsertRow, q
  <2>3. caller'.at = "insert" /\ caller'.left = caller.left \ {q}
    BY <1>1, <2>2 DEF CallerStates
  <2>4. maps[r] = row /\ (r \in caller.left \/ file[r] = row)
    BY <2>2 DEF KeptRow, Reachable
  <2>5. r \in caller'.left \/ file'[r] = row
    BY <1>1, <2>1, <2>2, <2>3, <2>4
  <2> QED
    BY <2>2, <2>3, <2>4, <2>5 DEF KeptRow, Reachable
<1>9. CASE Scheduled
  BY <1>1, <1>9 DEF Scheduled, Goto, CallerStates, KeptRow, Reachable
<1>10. CASE CancelReport \/ (\E q \in Ids : CancelOne(q)) \/ Canceled
  BY <1>1, <1>3, <1>10
     DEF CancelReport, CancelOne, Canceled, Receive, Resting, Goto, CallerStates
<1>11. CASE Leave \/ LeaveStatus \/ LeaveNotify \/ LeavePassed \/ LeaveAgain \/ LeaveReset
            \/ LeaveFails
  BY <1>1, <1>3, <1>11 DEF Leave, LeaveStatus, LeaveNotify, LeavePassed, LeaveAgain,
     LeaveReset, LeaveFails, Receive, Resting, Goto, BeginPass, CallerStates
<1> QED
  BY <1>4, <1>5, <1>6, <1>7, <1>8, <1>9, <1>10, <1>11 DEF CallerStep

\* Deleting another row leaves it too.
LEMMA DeleteKeepsRow ==
  ASSUME TypeOK, NEW r \in Ids, NEW row, KeptRow(r, row), NEW q \in Ids, q # r,
         file' = [file EXCEPT ![q] = NoRow], UNCHANGED callerVars
  PROVE  KeptRow(r, row)'
BY DEF TypeOK, KeptRow, Reachable, callerVars

LEMMA SameRows ==
  ASSUME UNCHANGED <<file, callerVars>>, NEW r \in Ids, NEW row
  PROVE  KeptRow(r, row)' <=> KeptRow(r, row)
BY DEF KeptRow, Reachable, callerVars

\* The row of a thread is kept under its id.
OwnRow(t) == KeptRow(task[t].id, TaskRow(t))

LEMMA CallerKeepsOwn ==
  ASSUME TypeOK, CallerStep, ~LeaveSucceeds, NEW t \in Threads, OwnRow(t), task'[t] = task[t]
  PROVE  OwnRow(t)'
<1> DEFINE r == task[t].id
           row == TaskRow(t)
<1>1. r \in Ids /\ row # NoRow /\ KeptRow(r, row)
  BY TaskRowType DEF OwnRow
<1>2. task'[t].id = r /\ TaskRow(t)' = row
  BY DEF TaskRow
<1> HIDE DEF r, row
<1>3. /\ Reachable'[r] = row
      /\ caller'.at = "insert" => r \in caller'.left \/ file'[r] = row
  BY <1>1, CallerKeepsRow DEF KeptRow
<1> QED
  BY <1>2, <1>3 DEF OwnRow, KeptRow

LEMMA SameOwn ==
  ASSUME UNCHANGED <<file, callerVars>>, NEW t \in Threads, OwnRow(t),
         /\ task'[t].id = task[t].id
         /\ task'[t].slot = task[t].slot
         /\ task'[t].meta = task[t].meta
  PROVE  OwnRow(t)'
BY DEF OwnRow, KeptRow, TaskRow, Reachable, callerVars

LEMMA DeleteKeepsOwn ==
  ASSUME TypeOK, NEW t \in Threads, OwnRow(t), NEW q \in Ids, q # task[t].id,
         file' = [file EXCEPT ![q] = NoRow], UNCHANGED <<callerVars, task>>
  PROVE  OwnRow(t)'
<1> DEFINE r == task[t].id
           row == TaskRow(t)
<1>1. r \in Ids /\ KeptRow(r, row) /\ q # r
  BY TaskRowType DEF OwnRow
<1>2. task'[t].id = r /\ TaskRow(t)' = row
  BY DEF TaskRow
<1> HIDE DEF r, row
<1>3. /\ Reachable'[r] = row
      /\ caller'.at = "insert" => r \in caller'.left \/ file'[r] = row
  BY <1>1, DeleteKeepsRow DEF KeptRow
<1> QED
  BY <1>2, <1>3 DEF OwnRow, KeptRow

\* A new thread is listed: reportScheduler enters it into the maps it will write.
LEMMA NewOwn ==
  ASSUME TypeOK, NEW r \in Ids, NEW meta \in Metadata, NEW length \in Lengths,
         Accept(r, meta, length), NEW t \in Threads, pc[t] = "none", pc'[t] = "check"
  PROVE  OwnRow(t)'
<1>1. PICK u \in Threads, s \in Slots :
        /\ pc[u] = "none" /\ pc'[u] = "check"
        /\ \A v \in Threads \ {u} : pc'[v] = pc[v] /\ task'[v] = task[v]
        /\ task'[u].id = r /\ task'[u].slot = s /\ task'[u].meta = meta
        /\ maps' = [maps EXCEPT ![r] = [slot |-> s, meta |-> meta]]
  BY AcceptEffect
<1>2. u = t /\ caller'.at = "requests" /\ maps'[r] = [slot |-> s, meta |-> meta]
  BY <1>1 DEF Accept, TypeOK, CallerStates
<1> QED
  BY <1>1, <1>2 DEF OwnRow, KeptRow, TaskRow, Reachable

-----------------------------------------------------------------------------
(* Cancellable                                                             *)

\* Until a stop misses its thread, the threads that go on have ids of their own, none of
\* them is having its row deleted, and their rows are kept.
CancelInv ==
  ~missed =>
    /\ \A t, u \in GoingOn : task[t].id = task[u].id => t = u
    /\ \A t \in GoingOn, a \in Actors : act[a].at \in Removing => act[a].id # task[t].id
    /\ \A t \in GoingOn : OwnRow(t)

\* What was missed, or counted twice, is never forgotten.
LEMMA HistoryStays ==
  ASSUME TypeOK, [Next]_vars
  PROVE  (missed => missed') /\ (doubled => doubled')
<1>1. missed \in BOOLEAN /\ doubled \in BOOLEAN
  BY DEF TypeOK
<1>2. CASE LeaveSucceeds
  BY <1>1, <1>2 DEF LeaveSucceeds
<1>3. CASE CallerStep /\ ~LeaveSucceeds
  BY <1>3 DEF CallerStep, CreateReport, Refuse, AcceptInVain, Accept, RecordSize,
     RemoveFile, InsertRow, Scheduled, CancelReport, CancelOne, Canceled, Leave,
     LeaveStatus, LeaveNotify, LeavePassed, LeaveAgain, LeaveReset, LeaveFails,
     callerLocal, history
<1>4. ASSUME NEW t \in Threads, ThreadStep(t)
      PROVE  UNCHANGED history
  BY <1>4 DEF ThreadStep, ReportWait, ReportTimeout, SendUpdate, ReadPending, StopPending,
              RegisterReports, threadLocal
<1>5. ASSUME NEW a \in Actors, ActorStep(a)
      PROVE  (missed => missed') /\ (doubled => doubled')
  BY <1>1, <1>5, StopEffect, UpdateEffect DEF ActorStep
<1>6. CASE OtherService \/ UNCHANGED vars
  BY <1>6 DEF OtherService, vars, history
<1> QED
  BY <1>2, <1>3, <1>4, <1>5, <1>6 DEF Next, history

LEMMA InitCancel == Init => CancelInv
BY DEF Init, CancelInv, GoingOn

LEMMA CallerCancel ==
  ASSUME ~Reuse, TypeOK, ActsInPlace, CancelInv, CallerStep, ~missed, ~missed'
  PROVE  CancelInv'
<1> USE DEF CancelInv
<1>1. GoingOn \subseteq Threads /\ act \in [Actors -> Activations]
  BY DEF GoingOn, TypeOK
<1>2. CASE LeaveSucceeds
  <2>1. GoingOn = {}
    BY <1>2 DEF LeaveSucceeds, TypeOK
  <2>2. GoingOn' = {}
    BY <1>2, <2>1 DEF LeaveSucceeds, threadVars, GoingOn
  <2> QED
    BY <2>2
<1>3. CASE /\ ~LeaveSucceeds
           /\ ~\E r \in Ids, meta \in Metadata, length \in Lengths : Accept(r, meta, length)
           /\ ~\E r \in Ids : CancelOne(r)
  <2>1. UNCHANGED <<act, task>> /\ GoingOn' = GoingOn
    BY <1>3, CallerEffect, StirredThreads
  <2>2. \A t \in GoingOn : OwnRow(t)'
    BY <1>1, <1>3, <2>1, CallerKeepsOwn
  <2> QED
    BY <2>1, <2>2
<1>4. ASSUME NEW r \in Ids, NEW meta \in Metadata, NEW length \in Lengths,
             Accept(r, meta, length)
      PROVE  CancelInv'
  <2>1. PICK t \in Threads :
          /\ pc[t] = "none" /\ pc'[t] = "check" /\ task'[t].id = r
          /\ \A u \in Threads \ {t} : pc'[u] = pc[u] /\ task'[u] = task[u]
    BY <1>4, AcceptEffect
  <2>2. act' = act /\ ~LeaveSucceeds /\ r \notin Listed(maps) /\ caller.at = "requests"
    BY <1>4 DEF Accept, LeaveSucceeds
  <2>3. GoingOn' = GoingOn \cup {t} /\ t \notin GoingOn
    BY <2>1 DEF GoingOn
  <2>4. \A u \in GoingOn : task'[u].id = task[u].id /\ task[u].id # r
    <3>1. \A u \in GoingOn : maps[task[u].id] # NoRow /\ task[u].id \in Ids
      BY <1>1, <2>2, TaskRowType DEF OwnRow, KeptRow, Reachable
    <3> QED
      BY <1>1, <2>1, <2>2, <2>3, <3>1 DEF Listed
  <2>5. \A a \in Actors : act[a].at \in Removing => act[a].id # r
    BY <1>4 DEF Accept, BeingDeleted, Removing
  <2>6. \A u \in GoingOn : OwnRow(u)'
    BY <1>1, <2>1, <2>2, <2>3, CallerKeepsOwn
  <2>7. OwnRow(t)'
    BY <1>4, <2>1, NewOwn
  <2> QED
    BY <2>1, <2>2, <2>3, <2>4, <2>5, <2>6, <2>7
<1>5. ASSUME NEW r \in Ids, CancelOne(r)
      PROVE  CancelInv'
  <2>1. UNCHANGED <<pc, task, file>> /\ ~LeaveSucceeds
    BY <1>5 DEF CancelOne, threadVars, LeaveSucceeds
  <2>2. \A a \in Actors : act'[a].at \in Removing => act'[a] = act[a]
    BY <1>1, <1>5 DEF CancelOne, Stopping, Idle, Removing
  <2>3. GoingOn' = GoingOn
    BY <2>1 DEF GoingOn
  <2>4. \A t \in GoingOn : OwnRow(t)'
    BY <1>1, <2>1, CallerKeepsOwn
  <2> QED
    BY <2>1, <2>2, <2>3, <2>4
<1> QED
  BY <1>2, <1>3, <1>4, <1>5

LEMMA ThreadCancel ==
  ASSUME TypeOK, ActsInPlace, CancelInv, ~missed, NEW t \in Threads, ThreadStep(t)
  PROVE  CancelInv'
<1> USE DEF CancelInv
<1>1. /\ SameTasks /\ Others(t) /\ UNCHANGED <<file, callerVars>>
      /\ \A u \in Threads \ {t} : pc'[u] = pc[u]
      /\ pc[t] \in {"check", "blocked", "busy", "cancel"} /\ act[t].at = "idle"
      /\ \/ pc'[t] = "end" /\ act'[t].at = "read" /\ act'[t].id = task[t].id
         \/ /\ pc'[t] \in {"check", "blocked", "busy", "cancel"}
            /\ act'[t] = act[t] \/ act'[t].at = "before"
  BY ThreadEffect DEF ActsInPlace
<1>2. GoingOn' = (IF pc'[t] = "end" THEN GoingOn \ {t} ELSE GoingOn)
      /\ t \in GoingOn /\ GoingOn \subseteq Threads
  BY <1>1 DEF GoingOn
<1>3. \A u \in Threads : task'[u].id = task[u].id
  BY <1>1 DEF SameTasks
<1>4. \A u \in GoingOn : OwnRow(u)'
  BY <1>1, <1>2, SameOwn DEF SameTasks
<1>5. \A u \in GoingOn', a \in Actors : act'[a].at \in Removing => act'[a].id # task'[u].id
  <2> TAKE u \in GoingOn', a \in Actors
  <2>1. u \in GoingOn /\ task'[u].id = task[u].id
    BY <1>2, <1>3
  <2>2. CASE a # t
    BY <1>1, <2>1, <2>2 DEF Others
  <2>3. CASE a = t
    BY <1>1, <1>2, <2>1, <2>3 DEF Removing
  <2> QED
    BY <2>2, <2>3
<1> QED
  BY <1>2, <1>3, <1>4, <1>5

LEMMA ActorCancel ==
  ASSUME TypeOK, CancelInv, ~missed, ~missed', NEW a \in Actors, ActorStep(a)
  PROVE  CancelInv'
<1> USE DEF CancelInv
<1>1. GoingOn \subseteq Threads /\ act \in [Actors -> Activations]
  BY DEF GoingOn, TypeOK
<1>2. CASE StopOne(a)
  <2>1. /\ UNCHANGED <<file, callerVars, task>> /\ Others(a) /\ GoingOn' = GoingOn
        /\ act'[a].id = act[a].id
        /\ \/ act'[a].at \in {"first", "after", "loop"}
           \/ missed' = (missed \/ \E t \in GoingOn : task[t].id = act[a].id)
    BY <1>2, StopEffect, StirredThreads
  <2>2. \A t \in GoingOn : OwnRow(t)'
    BY <1>1, <2>1, SameOwn
  <2>3. act'[a].at \in Removing => \A t \in GoingOn : act[a].id # task[t].id
    BY <2>1 DEF Removing, TypeOK
  <2> QED
    BY <2>1, <2>2, <2>3 DEF Others
<1>3. CASE UpdateDataFile(a)
  <2>1. /\ UNCHANGED <<callerVars, task>> /\ Others(a) /\ act[a].at \in Removing
        /\ act[a].id \in Ids
    BY <1>3, UpdateEffect DEF TypeOK, Activations
  <2>2. CASE act'[a].id = act[a].id /\ UNCHANGED <<pc, file>>
    <3>1. GoingOn' = GoingOn
      BY <2>2 DEF GoingOn
    <3>2. \A t \in GoingOn : OwnRow(t)'
      BY <1>1, <2>1, <2>2, SameOwn
    <3> QED
      BY <2>1, <2>2, <3>1, <3>2 DEF Others
  <2>3. CASE /\ act'[a].at = "idle" /\ file' = [file EXCEPT ![act[a].id] = NoRow]
             /\ pc' = (IF Own(a) THEN [pc EXCEPT ![a] = "done"] ELSE pc)
    <3>1. GoingOn' = GoingOn
      BY <2>3 DEF GoingOn, Own, TypeOK
    <3>2. \A t \in GoingOn : OwnRow(t)'
      BY <1>1, <2>1, <2>3, DeleteKeepsOwn
    <3> QED
      BY <2>1, <2>3, <3>1, <3>2 DEF Others, Removing
  <2> QED
    BY <1>3, <2>2, <2>3, UpdateEffect
<1> QED
  BY <1>2, <1>3 DEF ActorStep

LEMMA NextCancel ==
  ASSUME ~Reuse
  PROVE  TypeOK /\ ActsInPlace /\ CancelInv /\ [Next]_vars => CancelInv'
<1> SUFFICES ASSUME TypeOK, ActsInPlace, CancelInv, [Next]_vars, ~missed'
             PROVE  CancelInv'
  BY DEF CancelInv
<1>1. ~missed
  BY HistoryStays
<1>2. CASE OtherService \/ UNCHANGED vars
  <2>1. UNCHANGED <<file, callerVars, task, act, pc>>
    BY <1>2 DEF OtherService, vars, threadVars
  <2>2. GoingOn' = GoingOn /\ GoingOn \subseteq Threads
    BY <2>1 DEF GoingOn
  <2>3. \A t \in GoingOn : OwnRow(t)'
    BY <1>1, <2>1, <2>2, SameOwn DEF CancelInv
  <2> QED
    BY <1>1, <2>1, <2>2, <2>3 DEF CancelInv
<1> QED
  BY <1>1, <1>2, CallerCancel, ThreadCancel, ActorCancel DEF Next

\* Whatever is created, cancelled, left and ended by itself, and however the threads and
\* the stops interleave: until a stop misses its thread, every running report is listed
\* under its id with its own slot and kind, so that the VTN can cancel it.  No sleep has
\* to be long enough and no decrement atomic: what is needed is that an id is not used
\* again while the end of its report is still being recorded.
THEOREM ReportsAreCancellable ==
  ASSUME ~Reuse
  PROVE  Spec => []Cancellable
<1>1. TypeOK /\ ActsInPlace /\ CancelInv /\ [Next]_vars => (TypeOK /\ ActsInPlace /\ CancelInv)'
  BY NextTypeOK, NextActs, NextCancel
<1>2. CancelInv => Cancellable
  BY DEF CancelInv, Cancellable, OwnRow, KeptRow, TaskRow
<1> QED
  BY <1>1, <1>2, InitTypeOK, InitActs, InitCancel, PTL DEF Spec

-----------------------------------------------------------------------------
(* CountNotLow and LeaveIsComplete                                         *)

\* Between its read and its write a decrement has the row for itself, so what it read is
\* still there.
WriterInv ==
  \A a \in Actors : act[a].at = "write" =>
    /\ act[a].val = count
    /\ \A b \in Actors : act[b].at = "write" => b = a

\* As long as each thread counts itself down alone: only its own deletion follows a
\* decrement, the threads whose row is there have ids of their own, and what is counted
\* is listed.
CountInv ==
  ~doubled =>
    /\ \A a \in Actors : act[a].at = "row" => Own(a)
    /\ \A t, u \in Alive : task[t].id = task[u].id => t = u
    /\ \A t \in Counted : OwnRow(t)

LEMMA SetsOfThreads ==
  /\ GoingOn \subseteq Threads /\ Alive \subseteq Threads /\ Counted \subseteq Threads
  /\ GoingOn \subseteq Counted
  /\ IsFiniteSet(Threads) /\ IsFiniteSet(Counted) /\ Cardinality(Counted) \in Nat
<1>1. GoingOn \subseteq Threads /\ Alive \subseteq Threads /\ Counted \subseteq Threads
      /\ GoingOn \subseteq Counted
  BY DEF GoingOn, Alive, Counted
<1>2. IsFiniteSet(Threads)
  BY FS_Interval, ConstantTypes DEF Threads
<1> QED
  BY <1>1, <1>2, FS_Subset, FS_CardinalityType

\* The threads that are counted still have their row.
LEMMA CountedAlive ==
  ASSUME TypeOK, ActsInPlace
  PROVE  /\ Counted \subseteq Alive
         /\ \A t \in Alive \ Counted : pc[t] = "end" /\ act[t].at = "row"
BY DEF ActsInPlace, Counted, Alive, GoingOn, Removing

LEMMA InitCount == Init => WriterInv /\ CountInv /\ CountNotLow
<1> SUFFICES ASSUME Init
             PROVE  WriterInv /\ CountInv /\ CountNotLow
  OBVIOUS
<1>1. act = [a \in Actors |-> Idle] /\ pc = [t \in Threads |-> "none"] /\ count = 0
  BY DEF Init
<1>2. \A a \in Actors : act[a].at = "idle"
  BY <1>1 DEF Idle
<1>3. Counted = {} /\ Alive = {}
  BY <1>1, <1>2, ConstantSets DEF Counted, Alive, GoingOn
<1>4. Cardinality(Counted) = 0
  BY <1>3, FS_EmptySet
<1> QED
  BY <1>1, <1>2, <1>3, <1>4 DEF WriterInv, CountInv, CountNotLow

\* What the caller does to reportthread: it records the number of listed reports.
LEMMA CallerCounts ==
  ASSUME CallerStep
  PROVE  IF RecordSize THEN CountFree(Caller) /\ caller.at = "requests" ELSE count' = count
BY DEF CallerStep, CreateReport, Refuse, AcceptInVain, Accept, RecordSize,
   RemoveFile, InsertRow, Scheduled, CancelReport, CancelOne, Canceled, Leave,
   LeaveStatus, LeaveNotify, LeavePassed, LeaveAgain, LeaveReset, LeaveFails,
   LeaveSucceeds, callerLocal

LEMMA NextWriter ==
  ASSUME AtomicCount
  PROVE  TypeOK /\ ActsInPlace /\ WriterInv /\ [Next]_vars => WriterInv'
<1> SUFFICES ASSUME TypeOK, ActsInPlace, WriterInv, [Next]_vars
             PROVE  WriterInv'
  OBVIOUS
<1> USE DEF WriterInv
<1>1. act \in [Actors -> Activations]
  BY DEF TypeOK
<1>2. ASSUME NEW a \in Actors, count' = count, act'[a].at # "write",
             \A b \in Actors \ {a} : act'[b] = act[b]
      PROVE  WriterInv'
  BY <1>2
<1>3. CASE RecordSize
  <2>1. \A a \in Actors : act[a].at # "write"
    BY <1>3 DEF RecordSize, CountFree, ActsInPlace
  <2>2. act' = act
    BY <1>3 DEF RecordSize, callerLocal
  <2> QED
    BY <2>1, <2>2
<1>4. CASE CallerStep /\ ~RecordSize
  <2>1. count' = count
    BY <1>4, CallerCounts
  <2>2. CASE \E r \in Ids : CancelOne(r)
    <3>1. /\ \A b \in Actors \ {Caller} : act'[b] = act[b]
          /\ act'[Caller].at # "write"
      BY <1>1, <2>2, ConstantSets DEF CancelOne, Stopping, Idle
    <3> QED
      BY <1>2, <2>1, <3>1, ConstantSets
  <2>3. CASE ~\E r \in Ids : CancelOne(r)
    <3>1. act' = act
      BY <1>4, <2>3, CallerEffect DEF Accept
    <3> QED
      BY <2>1, <3>1
  <2> QED
    BY <2>2, <2>3
<1>5. ASSUME NEW t \in Threads, ThreadStep(t)
      PROVE  WriterInv'
  <2>1. count' = count /\ act'[t].at # "write" /\ t \in Actors
        /\ \A b \in Actors \ {t} : act'[b] = act[b]
    BY <1>5, ThreadEffect, ConstantSets DEF ActsInPlace, Others
  <2> QED
    BY <1>2, <2>1
<1>6. ASSUME NEW a \in Actors, StopOne(a)
      PROVE  WriterInv'
  <2>1. count' = count /\ act'[a].at # "write" /\ \A b \in Actors \ {a} : act'[b] = act[b]
    BY <1>6, StopEffect DEF Others
  <2> QED
    BY <1>2, <2>1
<1>7. ASSUME NEW a \in Actors, UpdateDataFile(a)
      PROVE  WriterInv'
  <2>1. \A b \in Actors \ {a} : act'[b] = act[b]
    BY <1>7, UpdateEffect DEF Others
  <2>2. CASE CountFree(a) /\ act'[a].val = count /\ count' = count
    BY <2>1, <2>2 DEF CountFree
  <2>3. CASE act[a].at = "write" /\ act'[a].at = "row"
    BY <2>1, <2>3
  <2>4. CASE act'[a].at = "idle" /\ count' = count
    BY <1>2, <2>1, <2>4
  <2> QED
    BY <1>7, <2>2, <2>3, <2>4, UpdateEffect
<1>8. CASE OtherService \/ UNCHANGED vars
  BY <1>8 DEF OtherService, vars
<1> QED
  BY <1>3, <1>4, <1>5, <1>6, <1>7, <1>8 DEF Next, ActorStep

\* A step that leaves the activations as they are, or takes one outside an update, and
\* lets no thread end or begin, keeps what is counted.
LEMMA SameCounted ==
  ASSUME GoingOn' = GoingOn,
         \A t \in Threads : act'[t].at \in {"read", "write"} <=> act[t].at \in {"read", "write"}
  PROVE  Counted' = Counted
BY DEF Counted

LEMMA CallerCounted ==
  ASSUME ~Reuse, TypeOK, ActsInPlace, CountInv, CallerStep, ~doubled, ~LeaveSucceeds
  PROVE  CountInv'
<1> USE DEF CountInv
<1>1. act \in [Actors -> Activations] /\ \A t \in Threads : t \in Actors /\ t # Caller
  BY ConstantSets DEF TypeOK
<1>2. CASE /\ ~\E r \in Ids, meta \in Metadata, length \in Lengths : Accept(r, meta, length)
           /\ ~\E r \in Ids : CancelOne(r)
  <2>1. UNCHANGED <<act, task>> /\ GoingOn' = GoingOn /\ Alive' = Alive
        /\ \A t \in Threads : pc'[t] = "end" <=> pc[t] = "end"
    BY <1>2, CallerEffect, StirredThreads
  <2>2. Counted' = Counted
    BY <2>1, SameCounted
  <2>3. \A t \in Counted : OwnRow(t)'
    BY <2>1, SetsOfThreads, CallerKeepsOwn
  <2> QED
    BY <2>1, <2>2, <2>3 DEF Own
<1>3. ASSUME NEW r \in Ids, NEW meta \in Metadata, NEW length \in Lengths,
             Accept(r, meta, length)
      PROVE  CountInv'
  <2>1. PICK t \in Threads :
          /\ pc[t] = "none" /\ pc'[t] = "check" /\ task'[t].id = r
          /\ \A u \in Threads \ {t} : pc'[u] = pc[u] /\ task'[u] = task[u]
    BY <1>3, AcceptEffect
  <2>2. act' = act /\ r \notin Listed(maps) /\ caller.at = "requests"
    BY <1>3 DEF Accept
  <2>3. act[t].at = "idle"
    BY <2>1 DEF ActsInPlace
  <2>4. /\ Alive' = Alive \cup {t} /\ t \notin Alive
        /\ Counted' = Counted \cup {t} /\ t \notin Counted
    BY <2>1, <2>2, <2>3 DEF Alive, Counted, GoingOn
  <2>5. \A u \in Counted : task[u].id # r
    <3>1. \A u \in Counted : maps[task[u].id] # NoRow /\ task[u].id \in Ids
      BY <2>2, SetsOfThreads, TaskRowType DEF OwnRow, KeptRow, Reachable
    <3> QED
      BY <2>2, <3>1 DEF Listed
  <2>6. \A u \in Alive \ Counted : task[u].id # r
    BY <1>1, <1>3, CountedAlive, SetsOfThreads DEF Accept, BeingDeleted, ActsInPlace
  <2>7. \A u \in Alive : task'[u].id = task[u].id /\ task[u].id # r
    BY <2>1, <2>4, <2>5, <2>6, SetsOfThreads
  <2>8. \A u \in Counted : OwnRow(u)'
    BY <2>1, <2>4, SetsOfThreads, CallerKeepsOwn
  <2>9. OwnRow(t)'
    BY <1>3, <2>1, NewOwn
  <2>10. \A a \in Actors : act'[a].at = "row" => Own(a)'
    BY <2>1, <2>2 DEF Own
  <2> QED
    BY <2>1, <2>4, <2>7, <2>8, <2>9, <2>10
<1>4. ASSUME NEW r \in Ids, CancelOne(r)
      PROVE  CountInv'
  <2>1. UNCHANGED <<pc, task, file>> /\ \A t \in Threads : act'[t] = act[t]
    BY <1>1, <1>4 DEF CancelOne, threadVars
  <2>2. \A a \in Actors : act'[a].at = "row" => act[a].at = "row"
    BY <1>1, <1>4 DEF CancelOne, Stopping, Idle
  <2>3. GoingOn' = GoingOn /\ Alive' = Alive
    BY <2>1 DEF GoingOn, Alive
  <2>4. Counted' = Counted
    BY <2>1, <2>3, SameCounted
  <2>5. \A t \in Counted : OwnRow(t)'
    BY <2>1, SetsOfThreads, CallerKeepsOwn
  <2> QED
    BY <2>1, <2>2, <2>3, <2>4, <2>5 DEF Own
<1> QED
  BY <1>2, <1>3, <1>4

LEMMA ThreadCounted ==
  ASSUME TypeOK, ActsInPlace, CountInv, ~doubled, NEW t \in Threads, ThreadStep(t)
  PROVE  CountInv' /\ Counted' = Counted /\ UNCHANGED count
<1> USE DEF CountInv
<1>1. /\ SameTasks /\ UNCHANGED <<count, file, callerVars>>
      /\ \A b \in Actors \ {t} : act'[b] = act[b]
      /\ \A u \in Threads \ {t} : pc'[u] = pc[u]
      /\ pc[t] \in {"check", "blocked", "busy", "cancel"} /\ act[t].at = "idle"
      /\ \/ pc'[t] = "end" /\ act'[t].at = "read"
         \/ /\ pc'[t] \in {"check", "blocked", "busy", "cancel"}
            /\ act'[t].at \in {"idle", "before"}
  BY ThreadEffect DEF ActsInPlace, Others
<1>2. \A u \in Threads : u \in Actors
  BY ConstantSets
<1>3. Alive' = Alive /\ Counted' = Counted
  BY <1>1, <1>2 DEF Alive, Counted, GoingOn
<1>4. \A u \in Threads : task'[u].id = task[u].id
  BY <1>1 DEF SameTasks
<1>5. \A u \in Counted : OwnRow(u)'
  BY <1>1, SetsOfThreads, SameOwn DEF SameTasks
<1>6. \A a \in Actors : act'[a].at = "row" => Own(a)'
  BY <1>1 DEF Own
<1> QED
  BY <1>1, <1>3, <1>4, <1>5, <1>6, SetsOfThreads

LEMMA StopCounted ==
  ASSUME TypeOK, ActsInPlace, CountInv, ~doubled, NEW a \in Actors, StopOne(a)
  PROVE  CountInv' /\ Counted' = Counted /\ UNCHANGED count
<1> USE DEF CountInv
<1>1. /\ UNCHANGED <<count, file, callerVars, task>>
      /\ \A b \in Actors \ {a} : act'[b] = act[b]
      /\ act[a].at \in {"before", "first", "after", "loop"}
      /\ act'[a].at \in {"first", "after", "loop", "read"}
      /\ GoingOn' = GoingOn /\ Alive' = Alive
      /\ \A u \in Threads : pc'[u] = "end" <=> pc[u] = "end"
  BY StopEffect, StirredThreads DEF Others
<1>2. a \in Threads => a \in GoingOn
  BY <1>1 DEF ActsInPlace, Removing, GoingOn
<1>3. \A u \in Threads : u \in Actors
  BY ConstantSets
<1>4. Counted' = Counted
  BY <1>1, <1>2, <1>3 DEF Counted
<1>5. \A u \in Counted : OwnRow(u)'
  BY <1>1, SetsOfThreads, SameOwn
<1>6. \A b \in Actors : act'[b].at = "row" => Own(b)'
  BY <1>1 DEF Own
<1> QED
  BY <1>1, <1>4, <1>5, <1>6

\* An update that is not done twice: the thread that ends counts itself down and then
\* deletes its row, which no other thread has.
LEMMA UpdateCounted ==
  ASSUME TypeOK, ActsInPlace, WriterInv, CountInv, ~doubled, ~doubled',
         NEW a \in Actors, UpdateDataFile(a)
  PROVE  /\ CountInv'
         /\ \/ Counted' = Counted /\ UNCHANGED count
            \/ a \in Counted /\ Counted' = Counted \ {a} /\ count' = count - 1
<1> USE DEF CountInv
<1>1. /\ UNCHANGED <<callerVars, task>>
      /\ \A b \in Actors \ {a} : act'[b] = act[b]
      /\ act[a].at \in Removing /\ act[a].id \in Ids
  BY UpdateEffect DEF Others, TypeOK, Activations
<1>2. \A u \in Threads : u \in Actors
  BY ConstantSets
<1>3. CASE /\ act[a].at = "read" /\ act'[a].at = "write" /\ UNCHANGED <<pc, file, count>>
  <2>1. GoingOn' = GoingOn /\ Alive' = Alive
    BY <1>3 DEF GoingOn, Alive
  <2>2. Counted' = Counted
    BY <1>1, <1>2, <1>3, <2>1 DEF Counted
  <2>3. \A u \in Counted : OwnRow(u)'
    BY <1>1, <1>3, SetsOfThreads, SameOwn
  <2>4. \A b \in Actors : act'[b].at = "row" => Own(b)'
    BY <1>1, <1>3 DEF Own
  <2> QED
    BY <1>1, <1>3, <2>1, <2>2, <2>3, <2>4
<1>4. CASE /\ act[a].at = "write" /\ act'[a].at = "row" /\ count' = act[a].val - 1
           /\ doubled' = (doubled \/ ~Own(a)) /\ UNCHANGED <<pc, file>>
  <2>1. Own(a) /\ a \in Threads /\ pc[a] = "end"
    BY <1>4 DEF Own, TypeOK
  <2>2. GoingOn' = GoingOn /\ Alive' = Alive
    BY <1>4 DEF GoingOn, Alive
  <2>3. a \in Counted /\ Counted' = Counted \ {a}
    BY <1>1, <1>2, <1>4, <2>1, <2>2 DEF Counted, GoingOn
  <2>4. \A u \in Counted : OwnRow(u)'
    BY <1>1, <1>4, SetsOfThreads, SameOwn
  <2>5. \A b \in Actors : act'[b].at = "row" => Own(b)'
    BY <1>1, <1>4, <2>1 DEF Own
  <2>6. count' = count - 1
    BY <1>4 DEF WriterInv
  <2> QED
    BY <1>1, <2>2, <2>3, <2>4, <2>5, <2>6
<1>5. CASE /\ act[a].at = "row" /\ act'[a].at = "idle"
           /\ file' = [file EXCEPT ![act[a].id] = NoRow]
           /\ pc' = (IF Own(a) THEN [pc EXCEPT ![a] = "done"] ELSE pc)
           /\ UNCHANGED count
  <2>1. Own(a) /\ a \in Threads /\ pc[a] = "end" /\ act[a].id = task[a].id
    BY <1>5 DEF Own, ActsInPlace
  <2>2. pc' = [pc EXCEPT ![a] = "done"] /\ a \in Alive /\ a \notin Counted
    BY <1>5, <2>1 DEF Alive, Counted, GoingOn
  <2>3. GoingOn' = GoingOn /\ Alive' \subseteq Alive
    BY <2>1, <2>2 DEF GoingOn, Alive, TypeOK
  <2>4. Counted' = Counted
    BY <1>1, <1>2, <1>5, <2>3 DEF Counted
  <2>5. \A u \in Counted : task[u].id # act[a].id
    BY <2>1, <2>2, CountedAlive
  <2>6. \A u \in Counted : OwnRow(u)'
    BY <1>1, <1>5, <2>5, SetsOfThreads, DeleteKeepsOwn
  <2>7. \A b \in Actors : act'[b].at = "row" => Own(b)'
    BY <1>1, <1>5, <2>1, <2>2 DEF Own, TypeOK
  <2> QED
    BY <1>1, <1>5, <2>3, <2>4, <2>6, <2>7
<1> QED
  BY <1>3, <1>4, <1>5, UpdateEffect

\* What reportScheduler records covers all threads: their ids are different and listed.
LEMMA RecordedSize ==
  ASSUME TypeOK, ActsInPlace, CountInv, ~doubled, RecordSize
  PROVE  count' >= Cardinality(Counted)
<1> DEFINE f == [t \in Counted |-> task[t].id]
<1>1. \A t \in Counted : task[t].id \in Listed(maps)
  BY SetsOfThreads, TaskRowType DEF RecordSize, CountInv, OwnRow, KeptRow, Reachable, Listed
<1>2. \A t, u \in Counted : task[t].id = task[u].id => t = u
  BY CountedAlive DEF CountInv
<1>3. f \in Injection(Counted, Listed(maps))
  BY <1>1, <1>2 DEF Injection, IsInjective
<1>4. Cardinality(Counted) <= Cardinality(Listed(maps))
  BY <1>3, ListedType, FS_Injection
<1> QED
  BY <1>4, ListedType, SetsOfThreads DEF RecordSize

\* Nothing is counted when a leave succeeds.
LEMMA LeaveCountsNone ==
  ASSUME CountNotLow, ~doubled, LeaveSucceeds
  PROVE  Counted = {} /\ GoingOn = {}
<1>1. count = 0 /\ caller.at = "left"
  BY DEF LeaveSucceeds
<1>2. Cardinality(Counted) = 0
  BY <1>1, SetsOfThreads DEF CountNotLow
<1>3. Counted = {}
  BY <1>2, SetsOfThreads, FS_EmptySet
<1> QED
  BY <1>3, SetsOfThreads

LEMMA NextCount ==
  ASSUME AtomicCount, ~Reuse
  PROVE  /\ TypeOK /\ ActsInPlace /\ WriterInv /\ CountInv /\ CountNotLow
         /\ [Next]_vars
         => CountInv' /\ CountNotLow'
<1> SUFFICES ASSUME TypeOK, ActsInPlace, WriterInv, CountInv, CountNotLow, [Next]_vars,
                    ~doubled'
             PROVE  CountInv' /\ CountNotLow'
  BY DEF CountInv, CountNotLow
<1>1. ~doubled
  BY HistoryStays
<1>2. count \in Int /\ Cardinality(Counted) \in Nat
  BY SetsOfThreads DEF TypeOK
<1>3. ASSUME Counted' = Counted, count' = count, caller.at # "requests"
      PROVE  CountNotLow'
  BY <1>1, <1>3 DEF CountNotLow
<1>4. CASE RecordSize
  <2>1. CountInv'
    BY <1>1, <1>4, CallerCounted DEF CallerStep, LeaveSucceeds, RecordSize
  <2>2. Counted' = Counted
    BY <1>4 DEF RecordSize, callerLocal, threadVars, Counted, GoingOn
  <2>3. CountNotLow'
    BY <1>1, <1>4, <2>2, RecordedSize DEF CountNotLow
  <2> QED
    BY <2>1, <2>3
<1>5. CASE LeaveSucceeds
  <2>1. Counted = {} /\ GoingOn = {} /\ caller.at # "requests"
    BY <1>1, <1>5, LeaveCountsNone DEF LeaveSucceeds
  <2>2. UNCHANGED <<act, pc, task, count>>
    BY <1>5 DEF LeaveSucceeds, threadVars
  <2>3. Counted' = {} /\ Alive' = Alive
    BY <2>1, <2>2 DEF Counted, GoingOn, Alive
  <2>4. CountInv'
    BY <1>1, <2>2, <2>3 DEF CountInv, Own
  <2> QED
    BY <1>3, <2>1, <2>2, <2>3, <2>4
<1>6. CASE CallerStep /\ ~RecordSize /\ ~LeaveSucceeds
  <2>1. CountInv'
    BY <1>1, <1>6, CallerCounted
  <2>2. count' = count
    BY <1>6, CallerCounts
  <2>3. CASE \E r \in Ids, meta \in Metadata, length \in Lengths : Accept(r, meta, length)
    BY <2>1, <2>3 DEF Accept, CountNotLow, TypeOK, CallerStates
  <2>4. CASE \E r \in Ids : CancelOne(r)
    <3>1. Counted' = Counted
      BY <2>4, ConstantSets DEF CancelOne, threadVars, Counted, GoingOn, TypeOK
    <3>2. caller.at # "requests"
      BY <2>4 DEF CancelOne
    <3> QED
      BY <1>3, <2>1, <2>2, <3>1, <3>2
  <2>5. CASE /\ ~\E r \in Ids, meta \in Metadata, length \in Lengths : Accept(r, meta, length)
             /\ ~\E r \in Ids : CancelOne(r)
    <3>1. Counted' = Counted
      BY <1>6, <2>5, CallerEffect, StirredThreads, SameCounted
    <3>2. caller.at = "requests" => caller'.at = "requests"
      BY <1>6, <2>5 DEF CallerStep, CreateReport, Refuse, AcceptInVain, RemoveFile,
         InsertRow, Scheduled, CancelReport, Canceled, Leave, LeaveStatus, LeaveNotify,
         LeavePassed, LeaveAgain, LeaveReset, LeaveFails, Receive, TypeOK, CallerStates
    <3> QED
      BY <1>3, <2>1, <2>2, <3>1, <3>2 DEF CountNotLow
  <2> QED
    BY <2>1, <2>3, <2>4, <2>5
<1>7. ASSUME NEW t \in Threads, ThreadStep(t)
      PROVE  CountInv' /\ CountNotLow'
  BY <1>1, <1>7, ThreadCounted, ThreadEffect DEF CountNotLow, callerVars, ActsInPlace
<1>8. ASSUME NEW a \in Actors, StopOne(a)
      PROVE  CountInv' /\ CountNotLow'
  BY <1>1, <1>8, StopCounted, StopEffect DEF CountNotLow, callerVars
<1>9. ASSUME NEW a \in Actors, UpdateDataFile(a)
      PROVE  CountInv' /\ CountNotLow'
  <2>1. caller' = caller
    BY <1>9, UpdateEffect DEF callerVars
  <2>2. CASE Counted' = Counted /\ UNCHANGED count
    BY <1>1, <1>9, <2>1, <2>2, UpdateCounted DEF CountNotLow
  <2>3. CASE a \in Counted /\ Counted' = Counted \ {a} /\ count' = count - 1
    <3>1. Cardinality(Counted') = Cardinality(Counted) - 1
      BY <2>3, SetsOfThreads, FS_RemoveElement
    <3>2. CountNotLow'
      BY <1>1, <1>2, <2>1, <2>3, <3>1 DEF CountNotLow
    <3> QED
      BY <1>1, <1>9, <3>2, UpdateCounted
  <2> QED
    BY <1>1, <1>9, <2>2, <2>3, UpdateCounted
<1>10. CASE OtherService \/ UNCHANGED vars
  <2>1. UNCHANGED <<count, file, callerVars, task, act, pc>>
    BY <1>10 DEF OtherService, vars, threadVars
  <2>2. Counted' = Counted /\ Alive' = Alive
    BY <2>1 DEF Counted, GoingOn, Alive
  <2>3. \A t \in Counted : OwnRow(t)'
    BY <1>1, <2>1, SetsOfThreads, SameOwn DEF CountInv
  <2> QED
    BY <1>1, <2>1, <2>2, <2>3 DEF CountInv, CountNotLow, Own, callerVars
<1> QED
  BY <1>4, <1>5, <1>6, <1>7, <1>8, <1>9, <1>10 DEF Next, ActorStep

CountedInv == TypeOK /\ ActsInPlace /\ WriterInv /\ CountInv /\ CountNotLow

LEMMA AlwaysCounted ==
  ASSUME AtomicCount, ~Reuse
  PROVE  Spec => []CountedInv
<1>1. Init => CountedInv
  BY InitTypeOK, InitActs, InitCount DEF CountedInv
<1>2. CountedInv /\ [Next]_vars => CountedInv'
  BY NextTypeOK, NextActs, NextWriter, NextCount DEF CountedInv
<1> QED
  BY <1>1, <1>2, PTL DEF Spec

\* reportthread never says less than there are threads, whatever comes and goes between
\* reportScheduler's reading of the file and its recording of the size, as long as
\* decrements are not interleaved, no id is used again while its report is ending, and
\* each thread alone counts itself down.
THEOREM CountIsNotLow ==
  ASSUME AtomicCount, ~Reuse
  PROVE  Spec => []CountNotLow
<1>1. CountedInv => CountNotLow
  BY DEF CountedInv
<1> QED
  BY <1>1, AlwaysCounted, PTL

\* With the same provisos a leave that succeeds leaves no report running: the row that
\* CancelRegistration tests last (VENManager.cpp:935-947) is 0 only when no thread is left.
THEOREM LeavingIsComplete ==
  ASSUME AtomicCount, ~Reuse
  PROVE  Spec => LeaveIsComplete
<1>1. ASSUME CountedInv, [Next]_vars, caller.outcome # "ok", caller'.outcome = "ok", ~doubled
      PROVE  GoingOn' = {}
  <2>1. LeaveSucceeds
    <3>1. CASE CallerStep
      BY <1>1, <3>1 DEF CountedInv, TypeOK, CallerStates, CallerStep, CreateReport, Refuse,
         AcceptInVain, Accept, RecordSize, RemoveFile, InsertRow, Scheduled, CancelReport,
         CancelOne, Canceled, Leave, LeaveStatus, LeaveNotify, LeavePassed, LeaveAgain,
         LeaveReset, LeaveFails, Receive, Resting, Goto, BeginPass
    <3>2. CASE \E t \in Threads : ThreadStep(t)
      BY <1>1, <3>2, ThreadEffect DEF CountedInv, ActsInPlace, callerVars
    <3>3. CASE \E a \in Actors : ActorStep(a)
      BY <1>1, <3>3, StopEffect, UpdateEffect DEF CountedInv, ActorStep, callerVars
    <3>4. CASE OtherService \/ UNCHANGED vars
      BY <1>1, <3>4 DEF OtherService, vars, callerVars
    <3> QED
      BY <1>1, <3>1, <3>2, <3>3, <3>4 DEF Next
  <2>2. GoingOn = {}
    BY <1>1, <2>1, LeaveCountsNone DEF CountedInv
  <2> QED
    BY <2>1, <2>2 DEF LeaveSucceeds, threadVars, GoingOn
<1>2. CountedInv /\ [Next]_vars =>
        [caller.outcome # "ok" /\ caller'.outcome = "ok" /\ ~doubled => GoingOn' = {}]_vars
  BY <1>1
<1> QED
  BY <1>2, AlwaysCounted, PTL DEF Spec, LeaveIsComplete

=============================================================================
