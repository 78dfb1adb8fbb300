-------------------------- MODULE VenThreadsProofs --------------------------
(***************************************************************************)
(* Machine-checked proofs about VenThreads, for every number of threads,   *)
(* of retries and of intervals.                                            *)
(***************************************************************************)
EXTENDS VenThreads, FiniteSetTheorems, TLAPS

\* What keeps the counters of the manager natural numbers: the signals of an event
\* are consecutive thread numbers, and a thread sends only while an interval is left.
CountersOK ==
  /\ \A e \in Event :
       /\ batch[e].first > 0
       /\ batch[e].first <= batch[e].next
       /\ batch[e].first + batch[e].size <= NumSignals + 1
  /\ \A s \in Signal : spc[s] = "send" => ivl[s] > 0

TypeInv == TypeOK /\ CountersOK

LEMMA RoundsType ==
  ASSUME NEW v \in Int
  PROVE  Rounds(v) \in Nat \cup {Forever}
<1>1. Retries \in Nat
  BY ConstantsAssumption
<1>2. CASE v >= 0
  <2>1. v \in Nat
    BY <1>2
  <2> QED
    BY <1>1, <2>1 DEF Rounds
<1>3. CASE ~(v >= 0)
  BY <1>3 DEF Rounds
<1> QED
  BY <1>2, <1>3

LEMMA InitTypeInv == Init => TypeInv
<1> SUFFICES ASSUME Init PROVE TypeInv
  OBVIOUS
<1>1. ThreadsOK
  BY DEF Init, ThreadsOK, ThreadStates
<1>2. BatchesOK /\ CountersOK
  BY ConstantsAssumption DEF Init, BatchesOK, CountersOK, Event, Signal
<1>3. SignalsOK
  BY DEF Init, SignalsOK, MessageKinds
<1>4. CallsOK
  BY DEF Init, CallsOK, StopRecords, Idle, Services, StopStates
<1>5. SharedOK
  <2>1. overlap \in [Services -> BOOLEAN]
    BY Zenon DEF Init
  <2>2. override \in BOOLEAN
    BY Zenon DEF Init
  <2> QED
    BY <2>1, <2>2 DEF Init, SharedOK, Services
<1> QED
  BY <1>1, <1>2, <1>3, <1>4, <1>5 DEF TypeInv, TypeOK

StopOK == stop \in [Callers -> StopRecords]

LEMMA AdvanceType ==
  ASSUME StopOK, NEW c \in Callers, NEW at \in StopStates, Advance(c, at)
  PROVE  StopOK'
BY DEF StopOK, StopRecords, Advance

LEMMA PassType ==
  ASSUME StopOK, SignalsOK, NEW c \in Callers, NEW at \in {"first", "again"},
         NEW v \in Int, NEW r \in Nat \cup {Forever}, Pass(c, at, v, r)
  PROVE  StopOK'
<1>1. DEFINE new == [stop[c] EXCEPT !.at = at, !.left = rows, !.budget = v, !.rounds = r]
<1>2. new \in StopRecords
  BY DEF StopOK, StopRecords, SignalsOK, StopStates
<1> QED
  BY <1>2 DEF StopOK, Pass

LEMMA IdleIsStop == Idle \in StopRecords
BY DEF StopRecords, Idle, StopStates, Services

LEMMA BeginStopType ==
  ASSUME StopOK, NEW c \in Callers, NEW topic \in Services, BeginStop(c, topic)
  PROVE  StopOK'
<1>1. [Idle EXCEPT !.topic = topic, !.at = "begin"] \in StopRecords
  BY IdleIsStop DEF StopRecords, StopStates
<1> QED
  BY <1>1 DEF StopOK, BeginStop

LEMMA EndStopType ==
  ASSUME StopOK, NEW c \in Callers, stop' = [stop EXCEPT ![c] = Idle]
  PROVE  StopOK'
BY IdleIsStop DEF StopOK

LEMMA StatusReadsType ==
  ASSUME SharedOK, NEW svc \in Services
  PROVE  StatusReads(svc) \subseteq Int
BY DEF StatusReads, SharedOK

LEMMA WaitNotifierTypeInv ==
  ASSUME TypeInv, NEW c \in Callers, WaitNotifier(c)
  PROVE  TypeInv'
<1> USE DEF TypeInv, TypeOK
<1>1. CASE FirstStatus(c)
  <2>1. CallsOK'
    <3>1. PICK v \in StatusReads(stop[c].topic) :
            IF v = 0 THEN Advance(c, "reset") ELSE Pass(c, "first", v, 0)
      BY <1>1 DEF FirstStatus
    <3>2. v \in Int
      BY StatusReadsType DEF CallsOK, StopRecords
    <3>3. StopOK'
      BY <3>1, <3>2, AdvanceType, PassType DEF CallsOK, StopOK, StopStates
    <3> QED
      BY <1>1, <3>3 DEF FirstStatus, CallsOK, StopOK
  <2>2. ThreadsOK' /\ BatchesOK' /\ SignalsOK' /\ SharedOK' /\ CountersOK'
    BY <1>1 DEF FirstStatus, ThreadsOK, BatchesOK, SignalsOK, SharedOK, CountersOK,
                threadVars, signalVars, batchVars
  <2> QED
    BY <2>1, <2>2
<1>2. CASE NotifyThread(c)
  <2>1. CallsOK'
    BY <1>2 DEF NotifyThread, CallsOK, StopRecords, Advance, AfterPass, StopStates
  <2>2. ThreadsOK'
    BY <1>2 DEF NotifyThread, ThreadsOK, ThreadStates
  <2>3. BatchesOK' /\ SignalsOK' /\ SharedOK' /\ CountersOK'
    BY <1>2 DEF NotifyThread, BatchesOK, SignalsOK, SharedOK, CountersOK, CallsOK,
                StopRecords, signalVars, batchVars
  <2> QED
    BY <2>1, <2>2, <2>3
<1>3. CASE NotifySignal(c)
  <2>1. PICK s \in stop[c].left :
          /\ notifier' = "SIGNAL"
          /\ spc' = [t \in Signal |-> IF spc[t] = "blocked" /\ slot[t] = slot[s]
                                        THEN "check" ELSE spc[t]]
          /\ stop' = [stop EXCEPT ![c].left = @ \ {s}, ![c].budget = @ - 1]
    BY <1>3 DEF NotifySignal
  <2>2. CallsOK'
    <3>1. stop[c].left \ {s} \in SUBSET Signal /\ stop[c].budget - 1 \in Int
      BY DEF CallsOK, StopRecords
    <3>2. [stop[c] EXCEPT !.left = stop[c].left \ {s}, !.budget = stop[c].budget - 1]
            \in StopRecords
      BY <3>1 DEF CallsOK, StopRecords
    <3>3. stop' = [stop EXCEPT ![c] = [stop[c] EXCEPT !.left = stop[c].left \ {s},
                                                     !.budget = stop[c].budget - 1]]
      BY <2>1 DEF CallsOK, StopRecords
    <3> QED
      BY <1>3, <3>2, <3>3 DEF NotifySignal, CallsOK
  <2>3. ThreadsOK' /\ CountersOK'
    BY <1>3, <2>1 DEF NotifySignal, ThreadsOK, CountersOK, signalVars, batchVars
  <2>4. BatchesOK' /\ SignalsOK' /\ SharedOK'
    BY <1>3, <2>1 DEF NotifySignal, BatchesOK, SignalsOK, SharedOK, signalVars, batchVars,
                      Services
  <2> QED
    BY <2>2, <2>3, <2>4
<1>4. CASE SignalsNotified(c)
  <2>1. AfterPass(c) \in StopStates
    BY DEF AfterPass, StopStates
  <2>2. CallsOK'
    BY <1>4, <2>1, AdvanceType DEF SignalsNotified, CallsOK, StopOK
  <2>3. ThreadsOK' /\ BatchesOK' /\ SignalsOK' /\ SharedOK' /\ CountersOK'
    BY <1>4 DEF SignalsNotified, ThreadsOK, BatchesOK, SignalsOK, SharedOK, CountersOK,
                threadVars, signalVars, batchVars
  <2> QED
    BY <2>2, <2>3
<1>5. CASE StopEndShed(c)
  <2>1. CallsOK'
    BY <1>5, AdvanceType DEF StopEndShed, CallsOK, StopOK, StopStates
  <2>2. ThreadsOK' /\ BatchesOK' /\ SignalsOK' /\ SharedOK' /\ CountersOK'
    BY <1>5 DEF StopEndShed, ThreadsOK, BatchesOK, SignalsOK, SharedOK, CountersOK,
                threadVars, batchVars
  <2> QED
    BY <2>1, <2>2
<1>6. CASE NextRound(c)
  <2> DEFINE Left(v) == IF stop[c].at = "status" THEN Rounds(v) ELSE stop[c].rounds
  <2>1. PICK v \in StatusReads(stop[c].topic) :
          IF v = 0 \/ Left(v) = 0
            THEN Advance(c, "reset")
            ELSE Pass(c, "again", v, IF Left(v) = Forever THEN Forever ELSE Left(v) - 1)
    BY <1>6 DEF NextRound
  <2>2. v \in Int
    BY StatusReadsType DEF CallsOK, StopRecords
  <2>3. Left(v) \in Nat \cup {Forever}
    BY <2>2, RoundsType DEF CallsOK, StopRecords
  <2> HIDE DEF Left
  <2>6. ThreadsOK' /\ BatchesOK' /\ SignalsOK' /\ SharedOK' /\ CountersOK'
    BY <1>6 DEF NextRound, ThreadsOK, BatchesOK, SignalsOK, SharedOK, CountersOK,
                threadVars, signalVars, batchVars
  <2>4. CASE v = 0 \/ Left(v) = 0
    <3>1. StopOK'
      BY <2>1, <2>4, AdvanceType DEF CallsOK, StopOK, StopStates
    <3> QED
      BY <1>6, <2>6, <3>1 DEF NextRound, CallsOK, StopOK
  <2>5. CASE ~(v = 0 \/ Left(v) = 0)
    <3>1. (IF Left(v) = Forever THEN Forever ELSE Left(v) - 1) \in Nat \cup {Forever}
      BY <2>3, <2>5 DEF Forever
    <3>2. StopOK'
      BY <2>1, <2>2, <2>5, <3>1, PassType DEF CallsOK, StopOK
    <3> QED
      BY <1>6, <2>6, <3>2 DEF NextRound, CallsOK, StopOK
  <2> QED
    BY <2>4, <2>5
<1>7. CASE ResetNotifier(c)
  <2>1. CallsOK'
    BY <1>7, AdvanceType DEF ResetNotifier, CallsOK, StopOK, StopStates
  <2>2. ThreadsOK' /\ BatchesOK' /\ SignalsOK' /\ SharedOK' /\ CountersOK'
    BY <1>7 DEF ResetNotifier, ThreadsOK, BatchesOK, SignalsOK, SharedOK, CountersOK,
                threadVars, signalVars, batchVars
  <2> QED
    BY <2>1, <2>2
<1> QED
  BY <1>1, <1>2, <1>3, <1>4, <1>5, <1>6, <1>7 DEF WaitNotifier

LEMMA SetStatusIsRow ==
  ASSUME SharedOK, NEW svc \in Services, NEW v \in Int, SetStatus(svc, v)
  PROVE  status' \in [Services -> Int]
BY DEF SharedOK, SetStatus

LEMMA SetStatusType ==
  ASSUME SharedOK, NEW svc \in Services, NEW v \in Int, SetStatus(svc, v),
         UNCHANGED <<notifier, flag, override, overlap>>
  PROVE  SharedOK'
BY SetStatusIsRow DEF SharedOK

-----------------------------------------------------------------------------

LEMMA PollTypeInv ==
  ASSUME TypeInv, NEW p \in Poll, PollStep(p)
  PROVE  TypeInv'
<1> USE DEF TypeInv, TypeOK
<1>0. p \in Callers
  BY DEF Callers
<1>1. ASSUME pollLocal' = pollLocal
      PROVE  BatchesOK' /\ SignalsOK' /\ CountersOK'
  BY <1>1 DEF pollLocal, BatchesOK, SignalsOK, CountersOK, signalVars, batchVars
<1>2. ASSUME pollLocal' = pollLocal, NEW at \in ThreadStates \cup {"polling", "busy", "validate"},
             PollGoto(p, at)
      PROVE  ThreadsOK'
  BY <1>2 DEF pollLocal, ThreadsOK, PollGoto
<1>3. ASSUME pollLocal' = pollLocal, UNCHANGED <<notifier, status>>
      PROVE  SharedOK'
  BY <1>3 DEF pollLocal, SharedOK
<1>4. CASE PollRegister(p)
  <2>1. SharedOK'
    BY <1>4, SetStatusType DEF PollRegister, Services, pollLocal
  <2>2. CallsOK'
    BY <1>4 DEF PollRegister, CallsOK, callVars
  <2> QED
    BY <1>1, <1>2, <1>4, <2>1, <2>2 DEF PollRegister, ThreadStates
<1>5. CASE PollWait(p) \/ PollTimeout(p) \/ PollNothing(p)
  <2>1. CallsOK'
    BY <1>5 DEF PollWait, PollTimeout, PollNothing, CallsOK, callVars
  <2> QED
    BY <1>1, <1>2, <1>3, <1>5, <2>1 DEF PollWait, PollTimeout, PollNothing, ThreadStates
<1>6. CASE PollDistribute(p) \/ PollLeave(p) \/ PollStopSignals(p)
  <2>1. StopOK'
    BY <1>0, <1>6, BeginStopType
    DEF PollDistribute, PollLeave, PollStopSignals, CallsOK, StopOK, Services
  <2>2. \E m \in {"distribute", "reschedule", "leave"} : job' = [job EXCEPT ![p] = m]
    BY <1>6 DEF PollDistribute, PollLeave, PollStopSignals
  <2>3. CallsOK'
    BY <2>1, <2>2 DEF CallsOK, StopOK
  <2> QED
    BY <1>1, <1>2, <1>3, <1>6, <2>3 DEF PollDistribute, PollLeave, PollStopSignals
<1>7. CASE PollStopReturned(p)
  <2>1. CallsOK'
    BY <1>0, <1>7, EndStopType DEF PollStopReturned, CallsOK, StopOK
  <2> QED
    BY <1>1, <1>2, <1>3, <1>7, <2>1 DEF PollStopReturned
<1>8. CASE PollSchedule(p)
  <2>1. ThreadsOK'
    BY <1>8 DEF PollSchedule, ThreadsOK, PollGoto, ThreadStates, FirstUnused
  <2>2. overlap' \in [Services -> BOOLEAN]
    <3>1. CASE UNCHANGED overlap
      BY <3>1, Zenon DEF SharedOK
    <3>2. CASE MarkOverlap("EVENT", EventAlive)
      BY <3>2, Zenon DEF SharedOK, MarkOverlap
    <3> QED
      BY <1>8, <3>1, <3>2 DEF PollSchedule
  <2>3. SharedOK'
    BY <1>8, <2>2 DEF PollSchedule, SharedOK
  <2>4. CallsOK'
    BY <1>8 DEF PollSchedule, CallsOK
  <2>5. BatchesOK' /\ SignalsOK' /\ CountersOK'
    BY <1>8 DEF PollSchedule, BatchesOK, SignalsOK, CountersOK, signalVars, batchVars
  <2> QED
    BY <2>1, <2>3, <2>4, <2>5
<1>9. CASE PollLeaveCheck(p)
  <2>1. ThreadsOK' /\ BatchesOK' /\ CountersOK' /\ SharedOK'
    BY <1>9 DEF PollLeaveCheck, ThreadsOK, BatchesOK, CountersOK, SharedOK, PollGoto,
                ThreadStates, batchVars
  <2>2. SignalsOK'
    BY <1>9 DEF PollLeaveCheck, SignalsOK
  <2>3. StopOK' /\ (job' = job \/ job' = [job EXCEPT ![p] = "none"])
    BY <1>0, <1>9, BeginStopType, EndStopType
    DEF PollLeaveCheck, CallsOK, StopOK, Services
  <2>4. CallsOK'
    BY <2>3 DEF CallsOK, StopOK
  <2> QED
    BY <2>1, <2>2, <2>4
<1>10. CASE PollFin(p)
  <2>1. SharedOK'
    BY <1>10, SetStatusType DEF PollFin, Services, pollLocal
  <2>2. CallsOK'
    BY <1>10 DEF PollFin, CallsOK, callVars
  <2> QED
    BY <1>1, <1>2, <1>10, <2>1, <2>2 DEF PollFin, ThreadStates
<1> QED
  BY <1>4, <1>5, <1>6, <1>7, <1>8, <1>9, <1>10 DEF PollStep

-----------------------------------------------------------------------------

LEMMA EventTypeInv ==
  ASSUME TypeInv, NEW e \in Event, EventStep(e)
  PROVE  TypeInv'
<1> USE DEF TypeInv, TypeOK
<1>1. ASSUME UNCHANGED <<spc, signalVars, batchVars>>
      PROVE  BatchesOK' /\ SignalsOK' /\ CountersOK'
  BY <1>1 DEF BatchesOK, SignalsOK, CountersOK, signalVars, batchVars
<1>2. ASSUME UNCHANGED <<ppc, spc>>, NEW at \in ThreadStates \cup {"due", "go", "launch"},
             EventGoto(e, at)
      PROVE  ThreadsOK'
  BY <1>2 DEF ThreadsOK, EventGoto
<1>3. ASSUME UNCHANGED <<eventLocal, status, overlap>>
      PROVE  SharedOK' /\ CallsOK'
  BY <1>3 DEF SharedOK, CallsOK, eventLocal, callVars
<1>4. ASSUME UNCHANGED <<eventLocal, overlap>>, NEW v \in Int, SetStatus("EVENT", v)
      PROVE  SharedOK' /\ CallsOK'
  BY <1>4, SetStatusType DEF CallsOK, eventLocal, callVars, Services
<1>5. CASE EventRegister(e) \/ EventFin(e)
  <2>1. SharedOK' /\ CallsOK'
    BY <1>4, <1>5 DEF EventRegister, EventFin
  <2> QED
    BY <1>1, <1>2, <1>5, <2>1 DEF EventRegister, EventFin, ThreadStates, eventLocal
<1>6. CASE EventWait(e) \/ EventTimeout(e) \/ EventSkip(e) \/ EventGo(e) \/ Launched(e)
  <2>1. PICK at \in ThreadStates \cup {"due", "go", "launch"} : EventGoto(e, at)
    BY <1>6 DEF EventWait, EventTimeout, EventSkip, EventGo, Launched, ThreadStates
  <2>2. UNCHANGED <<eventLocal, status, spc, signalVars, batchVars, overlap>>
    BY <1>6 DEF EventWait, EventTimeout, EventSkip, EventGo, Launched
  <2> QED
    BY <1>1, <1>2, <1>3, <2>1, <2>2 DEF eventLocal
<1>7. CASE LaunchSignals(e)
  <2>2. PICK first \in Signal, n \in 1..MaxBatch :
          /\ first + n - 1 <= NumSignals
          /\ SetStatus("SIGNAL", n)
          /\ batch' = [batch EXCEPT ![e] = [first |-> first, next |-> first, size |-> n]]
          /\ spc' = [s \in Signal |-> IF s \in first..(first + n - 1)
                                        THEN "queued" ELSE spc[s]]
    BY <1>7 DEF LaunchSignals, FirstUnused
  <2>1. first \in Nat \ {0}
    BY DEF Signal
  <2>3. ThreadsOK'
    BY <1>7, <2>2 DEF LaunchSignals, ThreadsOK, EventGoto, eventLocal
  <2>4. n \in Nat
    BY <2>2, ConstantsAssumption
  <2>5. BatchesOK'
    BY <1>7, <2>1, <2>2, <2>4 DEF LaunchSignals, BatchesOK
  <2>6. SignalsOK'
    BY <1>7 DEF LaunchSignals, SignalsOK
  <2>7. CountersOK'
    <3>1. \A f \in Event : /\ batch'[f].first > 0
                           /\ batch'[f].first <= batch'[f].next
                           /\ batch'[f].first + batch'[f].size <= NumSignals + 1
      BY <2>1, <2>2, <2>4, ConstantsAssumption DEF BatchesOK, CountersOK
    <3>2. \A s \in Signal : spc'[s] = "send" => ivl'[s] > 0
      BY <1>7, <2>2 DEF LaunchSignals, CountersOK
    <3> QED
      BY <3>1, <3>2 DEF CountersOK
  <2>8. SharedOK'
    <3>1. overlap' \in [Services -> BOOLEAN]
      BY <1>7, Zenon DEF LaunchSignals, MarkOverlap, SharedOK
    <3>2. status' \in [Services -> Int]
      BY <2>2, <2>4, SetStatusIsRow DEF Services
    <3> QED
      BY <1>7, <3>1, <3>2 DEF LaunchSignals, SharedOK, eventLocal
  <2>9. CallsOK'
    BY <1>7 DEF LaunchSignals, CallsOK, eventLocal, callVars
  <2> QED
    BY <2>3, <2>5, <2>6, <2>7, <2>8, <2>9
<1>8. CASE SpawnSignal(e)
  <2> DEFINE s == batch[e].next
  <2>1. s \in Signal
    BY <1>8, ConstantsAssumption DEF SpawnSignal, MoreToSpawn, BatchesOK, CountersOK, Signal
  <2>2. s - batch[e].first \in Nat
    BY DEF BatchesOK, CountersOK
  <2>3. PICK n \in 1..MaxIntervals : ivl' = [ivl EXCEPT ![s] = n]
    BY <1>8 DEF SpawnSignal
  <2>4. n \in Nat
    BY <2>3, ConstantsAssumption
  <2>5. ThreadsOK'
    BY <1>8, <2>1 DEF SpawnSignal, ThreadsOK, eventLocal
  <2>6. BatchesOK'
    <3>1. [batch[e] EXCEPT !.next = batch[e].next + 1] \in [first : Nat, next : Nat, size : Nat]
      BY DEF BatchesOK
    <3>2. batch' = [batch EXCEPT ![e] = [batch[e] EXCEPT !.next = batch[e].next + 1]]
      BY <1>8 DEF SpawnSignal, BatchesOK
    <3>3. rowDue' \in [Event -> {0} \cup Signal]
      BY <1>8, <2>1 DEF SpawnSignal, BatchesOK
    <3> QED
      BY <3>1, <3>2, <3>3 DEF BatchesOK
  <2>7. SignalsOK'
    BY <1>8, <2>1, <2>2, <2>3, <2>4 DEF SpawnSignal, SignalsOK
  <2>8. CountersOK'
    <3>1. \A f \in Event : /\ batch'[f].first > 0
                           /\ batch'[f].first <= batch'[f].next
                           /\ batch'[f].first + batch'[f].size <= NumSignals + 1
      BY <1>8 DEF SpawnSignal, BatchesOK, CountersOK
    <3>2. spc' = [spc EXCEPT ![s] = "check"]
      BY <1>8 DEF SpawnSignal
    <3>3. \A t \in Signal : spc'[t] = "send" => ivl'[t] > 0
      BY <2>3, <3>2 DEF CountersOK, ThreadsOK, SignalsOK
    <3> QED
      BY <3>1, <3>3 DEF CountersOK
  <2>9. SharedOK' /\ CallsOK'
    BY <1>3, <1>8 DEF SpawnSignal
  <2> QED
    BY <2>5, <2>6, <2>7, <2>8, <2>9
<1>9. CASE RecordSignal(e)
  <2>1. ThreadsOK' /\ BatchesOK' /\ CountersOK'
    BY <1>9 DEF RecordSignal, ThreadsOK, BatchesOK, CountersOK, eventLocal
  <2>2. SignalsOK'
    BY <1>9 DEF RecordSignal, SignalsOK, BatchesOK
  <2>3. SharedOK' /\ CallsOK'
    BY <1>3, <1>9 DEF RecordSignal
  <2> QED
    BY <2>1, <2>2, <2>3
<1> QED
  BY <1>5, <1>6, <1>7, <1>8, <1>9 DEF EventStep

-----------------------------------------------------------------------------

LEMMA SignalTypeInv ==
  ASSUME TypeInv, NEW s \in Signal, SignalStep(s)
  PROVE  TypeInv'
<1> USE DEF TypeInv, TypeOK
<1>1. ASSUME signalLocal' = signalLocal
      PROVE  /\ BatchesOK' /\ CallsOK'
             /\ UNCHANGED <<ppc, epc, batch, notifier, flag, override, overlap>>
  BY <1>1 DEF signalLocal, BatchesOK, CallsOK, batchVars, callVars
<1>2. signalLocal' = signalLocal
  BY DEF SignalStep, SignalWait, SignalTimeout, SignalSend, SignalRelease, SignalReadCount,
         SignalWriteCount
<1>3. ASSUME NEW at \in {"check", "blocked", "send", "release", "leave", "counting", "done"},
             SignalGoto(s, at),
             ivl' \in [Signal -> Nat],
             at = "send" => ivl'[s] > 0,
             \A t \in Signal \ {s} : ivl'[t] = ivl[t]
      PROVE  ThreadsOK' /\ CountersOK'
  BY <1>1, <1>2, <1>3 DEF SignalGoto, ThreadsOK, CountersOK
<1>4. ASSUME status' = status
      PROVE  SharedOK'
  BY <1>1, <1>2, <1>4 DEF SharedOK
<1>5. CASE SignalWait(s)
  <2>1. SignalsOK'
    BY <1>5 DEF SignalWait, SignalsOK, signalVars
  <2> QED
    BY <1>1, <1>2, <1>3, <1>4, <1>5, <2>1 DEF SignalWait, SignalsOK, signalVars
<1>6. CASE SignalTimeout(s)
  <2>1. SignalsOK'
    BY <1>6 DEF SignalTimeout, SignalsOK, signalVars
  <2>2. PICK at \in {"leave", "send", "release"} :
          SignalGoto(s, at) /\ (at = "send" => ivl[s] > 0)
    BY <1>6 DEF SignalTimeout
  <2> QED
    BY <1>1, <1>2, <1>3, <1>4, <1>6, <2>1, <2>2 DEF SignalTimeout, SignalsOK, signalVars
<1>7. CASE SignalSend(s)
  <2>1. ivl[s] - 1 \in Nat
    BY <1>7 DEF SignalSend, SignalsOK, CountersOK
  <2>2. SignalsOK'
    BY <1>7, <2>1, ConstantsAssumption DEF SignalSend, SignalsOK
  <2>3. \A t \in Signal \ {s} : ivl'[t] = ivl[t]
    BY <1>7 DEF SignalSend, SignalsOK
  <2>4. SignalGoto(s, "check") /\ status' = status
    BY <1>7 DEF SignalSend
  <2>5. ThreadsOK' /\ CountersOK'
    BY <1>3, <2>2, <2>3, <2>4 DEF SignalsOK
  <2> QED
    BY <1>1, <1>2, <1>4, <2>2, <2>4, <2>5
<1>8. CASE SignalRelease(s)
  <2>1. SignalsOK'
    BY <1>8 DEF SignalRelease, SignalsOK
  <2> QED
    BY <1>1, <1>2, <1>3, <1>4, <1>8, <2>1 DEF SignalRelease, SignalsOK
<1>9. CASE SignalReadCount(s)
  <2>1. SignalsOK'
    BY <1>9, StatusReadsType DEF SignalReadCount, SignalsOK, Services
  <2> QED
    BY <1>1, <1>2, <1>3, <1>4, <1>9, <2>1 DEF SignalReadCount, SignalsOK
<1>10. CASE SignalWriteCount(s)
  <2>1. SignalsOK'
    BY <1>10 DEF SignalWriteCount, SignalsOK, MessageKinds
  <2>2. SharedOK'
    BY <1>1, <1>2, <1>10, SetStatusType DEF SignalWriteCount, SignalsOK, Services
  <2>3. ThreadsOK' /\ CountersOK'
    BY <1>3, <1>10, <2>1 DEF SignalWriteCount, SignalsOK
  <2> QED
    BY <1>1, <1>2, <2>1, <2>2, <2>3
<1> QED
  BY <1>5, <1>6, <1>7, <1>8, <1>9, <1>10 DEF SignalStep

-----------------------------------------------------------------------------

LEMMA CommandTypeInv ==
  ASSUME TypeInv, (\E cmd \in Commands : HmiRequest(cmd)) \/ MainStep
  PROVE  TypeInv'
<1> USE DEF TypeInv, TypeOK
<1>0. Main \in Callers
  BY DEF Callers
<1>1. ASSUME UNCHANGED mainLocal
      PROVE  BatchesOK' /\ CountersOK'
  BY <1>1 DEF mainLocal, batchVars, BatchesOK, CountersOK
<1>2. ASSUME UNCHANGED <<mainLocal, rows>>
      PROVE  SignalsOK'
  BY <1>2 DEF mainLocal, batchVars, SignalsOK
<1>3. ASSUME UNCHANGED <<mainLocal, ppc>>
      PROVE  ThreadsOK'
  BY <1>3 DEF mainLocal, ThreadsOK
<1>4. ASSUME UNCHANGED <<mainLocal, overlap>>, flag' \in HmiCommands \cup {"ok", "error"}
      PROVE  SharedOK'
  BY <1>4 DEF mainLocal, SharedOK
<1>5. CASE \E cmd \in Commands : HmiRequest(cmd)
  <2>1. UNCHANGED <<mainLocal, callVars, ppc, rows, overlap>> /\ flag' \in HmiCommands
    BY <1>5, ConstantsAssumption DEF HmiRequest
  <2>2. CallsOK'
    BY <2>1 DEF callVars, CallsOK
  <2> QED
    BY <1>1, <1>2, <1>3, <1>4, <2>1, <2>2
<1>6. CASE StartPolling
  <2>1. ThreadsOK'
    BY <1>6 DEF StartPolling, ThreadsOK, ThreadStates, mainLocal, FirstUnused
  <2>2. overlap' \in [Services -> BOOLEAN]
    BY <1>6, Zenon DEF StartPolling, MarkOverlap, SharedOK
  <2>3. SharedOK'
    BY <1>6, <2>2 DEF StartPolling, SharedOK, mainLocal
  <2>4. CallsOK'
    BY <1>6 DEF StartPolling, CallsOK, callVars
  <2> QED
    BY <1>1, <1>2, <1>6, <2>1, <2>3, <2>4 DEF StartPolling
<1>7. ASSUME NEW cmd \in {"stoppolling", "cancelreg", "rereg"}, StopCommand(cmd)
      PROVE  TypeInv'
  <2>1. CallsOK'
    <3>1. CASE UNCHANGED callVars
      BY <3>1 DEF callVars, CallsOK
    <3>2. CASE job' = [job EXCEPT ![Main] = cmd] /\ BeginStop(Main, "POLL")
      <4>1. StopOK'
        BY <1>0, <3>2, BeginStopType DEF CallsOK, StopOK, Services
      <4> QED
        BY <3>2, <4>1 DEF CallsOK, StopOK, HmiCommands
    <3> QED
      BY <1>7, <3>1, <3>2 DEF StopCommand
  <2>2. flag' \in HmiCommands \cup {"ok", "error"}
    BY <1>7 DEF StopCommand, SharedOK
  <2> QED
    BY <1>1, <1>2, <1>3, <1>4, <1>7, <2>1, <2>2 DEF StopCommand
<1>8. CASE OptEvent
  <2>1. CallsOK'
    <3>1. CASE UNCHANGED callVars
      BY <3>1 DEF callVars, CallsOK
    <3>2. CASE job' = [job EXCEPT ![Main] = "optevent"] /\ BeginStop(Main, "SIGNAL")
      <4>1. StopOK'
        BY <1>0, <3>2, BeginStopType DEF CallsOK, StopOK, Services
      <4> QED
        BY <3>2, <4>1 DEF CallsOK, StopOK, HmiCommands
    <3> QED
      BY <1>8, <3>1, <3>2 DEF OptEvent
  <2>2. flag' \in HmiCommands \cup {"ok", "error"}
    BY <1>8 DEF OptEvent, SharedOK
  <2> QED
    BY <1>1, <1>2, <1>3, <1>4, <1>8, <2>1, <2>2 DEF OptEvent
<1>9. CASE MainStopCheck
  <2>1. PICK v \in StatusReads(stop[Main].topic) :
          IF v = 0 /\ job[Main] \in Leaving /\ stop[Main].topic \in DOMAIN StopOrder
            THEN /\ BeginStop(Main, StopOrder[stop[Main].topic])
                 /\ UNCHANGED <<job, flag, rows>>
            ELSE /\ stop' = [stop EXCEPT ![Main] = Idle]
                 /\ Finish(IF v = 0 THEN "ok" ELSE "error")
                 /\ rows' = IF v = 0 /\ job[Main] \in Leaving THEN {} ELSE rows
    BY <1>9 DEF MainStopCheck
  <2>2. StopOK'
    <3>1. \A topic \in DOMAIN StopOrder : StopOrder[topic] \in Services
      BY DEF StopOrder, Services
    <3> QED
      BY <1>0, <2>1, <3>1, BeginStopType, EndStopType DEF CallsOK, StopOK
  <2>3. job' = job \/ job' = [job EXCEPT ![Main] = "none"]
    BY <2>1 DEF Finish
  <2>4. CallsOK'
    BY <2>2, <2>3 DEF CallsOK, StopOK
  <2>5. flag' \in HmiCommands \cup {"ok", "error"}
    BY <2>1 DEF Finish, SharedOK
  <2>6. UNCHANGED <<mainLocal, ppc, overlap>>
    BY <1>9 DEF MainStopCheck
  <2>7. SignalsOK'
    BY <2>1, <2>6 DEF mainLocal, SignalsOK
  <2> QED
    BY <1>1, <1>3, <1>4, <2>4, <2>5, <2>6, <2>7
<1> QED
  BY <1>5, <1>6, <1>7, <1>8, <1>9
  DEF MainStep, StopPolling, CancelRegistration, ReRegistration

LEMMA OverrideTypeInv ==
  ASSUME TypeInv, OverrideStep
  PROVE  TypeInv'
<1> USE DEF TypeInv, TypeOK
<1>0. Override \in Callers
  BY DEF Callers
<1>1. UNCHANGED overrideLocal
  BY DEF OverrideStep, OverrideOn, OverrideOff, OverrideStopCheck
<1>2. ThreadsOK' /\ BatchesOK' /\ SignalsOK' /\ CountersOK'
  BY <1>1 DEF overrideLocal, ThreadsOK, BatchesOK, SignalsOK, CountersOK, threadVars,
              signalVars, batchVars
<1>3. CallsOK'
  <2>1. CASE UNCHANGED callVars
    BY <2>1 DEF callVars, CallsOK
  <2>2. CASE job' = [job EXCEPT ![Override] = "override"] /\ BeginStop(Override, "SIGNAL")
    <3>1. StopOK'
      BY <1>0, <2>2, BeginStopType DEF CallsOK, StopOK, Services
    <3> QED
      BY <2>2, <3>1 DEF CallsOK, StopOK
  <2>3. CASE OverrideStopCheck
    <3>1. StopOK'
      BY <1>0, <2>3, EndStopType DEF OverrideStopCheck, CallsOK, StopOK
    <3> QED
      BY <2>3, <3>1 DEF OverrideStopCheck, CallsOK, StopOK
  <2> QED
    BY <2>1, <2>2, <2>3 DEF OverrideStep, OverrideOn, OverrideOff
<1>4. flag' \in HmiCommands \cup {"ok", "error"}
  BY DEF OverrideStep, OverrideOn, OverrideOff, OverrideStopCheck, SharedOK
<1>5. override' \in BOOLEAN
  BY Zenon DEF OverrideStep, OverrideOn, OverrideOff, OverrideStopCheck, SharedOK
<1>6. SharedOK'
  BY <1>1, <1>4, <1>5 DEF overrideLocal, SharedOK
<1> QED
  BY <1>2, <1>3, <1>6

\* TypeInv is inductive.
LEMMA StepTypeInv == TypeInv /\ [Next]_vars => TypeInv'
<1> SUFFICES ASSUME TypeInv, [Next]_vars PROVE TypeInv'
  OBVIOUS
<1>1. CASE UNCHANGED vars
  BY <1>1 DEF TypeInv, TypeOK, CountersOK, ThreadsOK, BatchesOK, SignalsOK, CallsOK,
              SharedOK, vars, threadVars, signalVars, batchVars, callVars
<1>2. CASE Next
  BY <1>2, WaitNotifierTypeInv, PollTypeInv, EventTypeInv, SignalTypeInv, CommandTypeInv,
     OverrideTypeInv
  DEF Next
<1> QED
  BY <1>1, <1>2

\* The manager's state keeps its types, and no thread sends past its last interval
\* or spawns past the signals of its event.
THEOREM TypeCorrect == Spec => [](TypeOK /\ CountersOK)
<1>1. Init => TypeInv
  BY InitTypeInv
<1>2. TypeInv /\ [Next]_vars => TypeInv'
  BY StepTypeInv
<1> QED
  BY <1>1, <1>2, PTL DEF Spec, TypeInv

=============================================================================
