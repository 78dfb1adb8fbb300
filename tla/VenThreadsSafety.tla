-------------------------- MODULE VenThreadsSafety --------------------------
(***************************************************************************)
(* Proofs of the safety properties of VenThreads: the notifier is owned,   *)
(* the row of threadstatus.db is never too low, and a cancelled            *)
(* registration leaves no thread behind.                                   *)
(***************************************************************************)
EXTENDS VenThreadsProofs

-----------------------------------------------------------------------------
(* The notifier is owned                                                   *)

\* A caller inside waitNotifier is in the handler that called it: no handler calls
\* waitNotifier while an earlier call of the same thread is under way.
CallsMatch ==
  /\ \A c \in {Main, Override} : job[c] = "none" <=> stop[c].at = "idle"
  /\ \A p \in Poll : stop[p].at # "idle" => ppc[p] = "busy"

NotifyInv == CallsMatch /\ NotifierOwned

Working(c) == stop[c].at \notin {"idle", "begin", "returned"}

LEMMA CallerNames ==
  /\ Main \in Callers /\ Override \in Callers /\ Poll \subseteq Callers
  /\ Main \notin Poll /\ Override \notin Poll /\ Main # Override
BY DEF Callers, Main, Override, Poll

\* A thread number handed out was not used before, nor is any later one.
LEMMA FirstUnusedIsUnused ==
  ASSUME NEW n \in Nat, NEW pc, NEW t \in FirstUnused(pc, 1..n)
  PROVE  /\ t \in 1..n
         /\ \A u \in 1..n : pc[u] = "none" <=> u >= t
         /\ pc[t] = "none"
<1>1. t \in 1..n /\ \A u \in 1..n : pc[u] = "none" <=> u >= t
  BY DEF FirstUnused
<1>2. t >= t
  BY <1>1
<1> QED
  BY <1>1, <1>2

LEMMA InitNotifyInv == Init => NotifyInv
BY CallerNames DEF Init, NotifyInv, CallsMatch, NotifierOwned, Idle, Callers

LEMMA QuietStep ==
  ASSUME NotifyInv, UNCHANGED <<notifier, stop, job>>,
         \A p \in Poll : ppc[p] = "busy" => ppc'[p] = "busy"
  PROVE  NotifyInv'
BY DEF NotifyInv, CallsMatch, NotifierOwned

LEMMA BeginStopOwned ==
  ASSUME TypeInv, NotifierOwned, NEW c \in Callers, NEW topic \in Services,
         stop[c].at \in {"idle", "returned"}, BeginStop(c, topic), notifier' = notifier
  PROVE  /\ NotifierOwned'
         /\ stop'[c].at = "begin"
         /\ \A d \in Callers \ {c} : stop'[d] = stop[d]
<1>1. \A d \in Callers \ {c} : stop'[d] = stop[d]
  BY DEF BeginStop, TypeInv, TypeOK, CallsOK
<1>2. stop'[c].at = "begin"
  BY DEF BeginStop, TypeInv, TypeOK, CallsOK, Idle
<1>3. CASE notifier # "RESET"
  <2>1. PICK d \in Callers : stop[d].topic = notifier /\ Working(d)
    BY <1>3 DEF NotifierOwned, Working
  <2>2. d # c
    BY <2>1 DEF Working
  <2> QED
    BY <1>1, <2>1, <2>2, <1>2 DEF NotifierOwned, Working
<1>4. CASE notifier = "RESET"
  BY <1>4, <1>1, <1>2 DEF NotifierOwned
<1> QED
  BY <1>1, <1>2, <1>3, <1>4

LEMMA EndStopOwned ==
  ASSUME TypeInv, NotifierOwned, NEW c \in Callers, stop[c].at = "returned",
         stop' = [stop EXCEPT ![c] = Idle], notifier' = notifier
  PROVE  /\ NotifierOwned'
         /\ stop'[c].at = "idle"
         /\ \A d \in Callers \ {c} : stop'[d] = stop[d]
<1>1. \A d \in Callers \ {c} : stop'[d] = stop[d]
  BY DEF TypeInv, TypeOK, CallsOK
<1>2. stop'[c].at = "idle"
  BY DEF TypeInv, TypeOK, CallsOK, Idle
<1>3. CASE notifier # "RESET"
  <2>1. PICK d \in Callers : stop[d].topic = notifier /\ Working(d)
    BY <1>3 DEF NotifierOwned, Working
  <2>2. d # c
    BY <2>1 DEF Working
  <2> QED
    BY <1>1, <1>2, <2>1, <2>2 DEF NotifierOwned, Working
<1>4. CASE notifier = "RESET"
  BY <1>1, <1>2, <1>4 DEF NotifierOwned
<1> QED
  BY <1>1, <1>2, <1>3, <1>4

\* A step of waitNotifier stays within the activation and its topic.
LEMMA WaitNotifierStays ==
  ASSUME TypeInv, NEW c \in Callers, WaitNotifier(c)
  PROVE  /\ stop[c].at \notin {"idle", "returned"}
         /\ stop'[c].at \notin {"idle", "begin"}
         /\ stop'[c].topic = stop[c].topic
         /\ \A d \in Callers \ {c} : stop'[d] = stop[d]
         /\ job' = job
         /\ \A p \in Poll : ppc[p] = "busy" => ppc'[p] = "busy"
<1> USE DEF TypeInv, TypeOK
<1>1. ASSUME NEW at, Advance(c, at)
      PROVE  /\ stop'[c].at = at
             /\ stop'[c].topic = stop[c].topic
             /\ \A d \in Callers \ {c} : stop'[d] = stop[d]
  BY <1>1 DEF Advance, CallsOK, StopRecords
<1>2. ASSUME NEW at, NEW v, NEW r, Pass(c, at, v, r)
      PROVE  /\ stop'[c].at = at
             /\ stop'[c].topic = stop[c].topic
             /\ \A d \in Callers \ {c} : stop'[d] = stop[d]
  BY <1>2 DEF Pass, CallsOK, StopRecords
<1>3. CASE FirstStatus(c)
  BY <1>1, <1>2, <1>3 DEF FirstStatus, threadVars
<1>4. CASE NotifyThread(c)
  BY <1>1, <1>4 DEF NotifyThread, AfterPass
<1>5. CASE NotifySignal(c)
  <2>1. PICK s \in stop[c].left :
          stop' = [stop EXCEPT ![c].left = @ \ {s}, ![c].budget = @ - 1]
    BY <1>5 DEF NotifySignal
  <2>2. /\ stop'[c].at = stop[c].at
        /\ stop'[c].topic = stop[c].topic
        /\ \A d \in Callers \ {c} : stop'[d] = stop[d]
    BY <2>1 DEF CallsOK, StopRecords
  <2> QED
    BY <1>5, <2>2 DEF NotifySignal
<1>6. CASE SignalsNotified(c)
  BY <1>1, <1>6 DEF SignalsNotified, AfterPass, threadVars
<1>7. CASE StopEndShed(c)
  BY <1>1, <1>7 DEF StopEndShed, threadVars
<1>8. CASE NextRound(c)
  BY <1>1, <1>2, <1>8 DEF NextRound, threadVars
<1>9. CASE ResetNotifier(c)
  BY <1>1, <1>9 DEF ResetNotifier, threadVars
<1> QED
  BY <1>3, <1>4, <1>5, <1>6, <1>7, <1>8, <1>9 DEF WaitNotifier

LEMMA WaitNotifierOwned ==
  ASSUME TypeInv, NotifyInv, NEW c \in Callers, WaitNotifier(c)
  PROVE  NotifyInv'
<1>1. CallsMatch'
  BY WaitNotifierStays, CallerNames DEF NotifyInv, CallsMatch
<1>2. CASE NotifyThread(c) \/ NotifySignal(c)
  <2>1. notifier' = stop[c].topic
    BY <1>2 DEF NotifyThread, NotifySignal
  <2>2. stop'[c].at # "returned"
    <3>1. CASE NotifyThread(c)
      BY <3>1 DEF NotifyThread, Advance, AfterPass, TypeInv, TypeOK, CallsOK
    <3>2. CASE NotifySignal(c)
      BY <3>2 DEF NotifySignal, TypeInv, TypeOK, CallsOK, StopRecords
    <3> QED
      BY <1>2, <3>1, <3>2
  <2> QED
    BY <1>1, <2>1, <2>2, WaitNotifierStays DEF NotifyInv, NotifierOwned
<1>3. CASE ResetNotifier(c)
  BY <1>1, <1>3 DEF ResetNotifier, NotifyInv, NotifierOwned
<1>4. CASE FirstStatus(c) \/ SignalsNotified(c) \/ StopEndShed(c) \/ NextRound(c)
  <2>1. notifier' = notifier
    BY <1>4 DEF FirstStatus, SignalsNotified, StopEndShed, NextRound
  <2>2. stop'[c].at # "returned"
    <3>1. ASSUME NEW at, at # "returned", Advance(c, at) PROVE stop'[c].at # "returned"
      BY <3>1 DEF Advance, TypeInv, TypeOK, CallsOK, StopRecords
    <3>2. ASSUME NEW at, at # "returned", NEW v, NEW r, Pass(c, at, v, r)
          PROVE  stop'[c].at # "returned"
      BY <3>2 DEF Pass, TypeInv, TypeOK, CallsOK, StopRecords
    <3>3. CASE FirstStatus(c)
      BY <3>1, <3>2, <3>3 DEF FirstStatus
    <3>4. CASE SignalsNotified(c) \/ StopEndShed(c)
      BY <3>1, <3>4 DEF SignalsNotified, StopEndShed, AfterPass
    <3>5. CASE NextRound(c)
      BY <3>1, <3>2, <3>5 DEF NextRound
    <3> QED
      BY <1>4, <3>3, <3>4, <3>5
  <2> QED
    BY <1>1, <2>1, <2>2, WaitNotifierStays DEF NotifyInv, NotifierOwned
<1> QED
  BY <1>2, <1>3, <1>4 DEF WaitNotifier

LEMMA PollOwned ==
  ASSUME TypeInv, NotifyInv, NEW p \in Poll, PollStep(p)
  PROVE  NotifyInv'
<1> USE DEF NotifyInv
<1>1. \A q \in Poll \ {p} : ppc'[q] = ppc[q]
  BY DEF PollStep, PollRegister, PollWait, PollTimeout, PollNothing, PollDistribute, PollLeave,
         PollStopReturned, PollStopSignals, PollSchedule, PollLeaveCheck, PollFin, PollGoto,
         TypeInv, TypeOK, ThreadsOK
<1>2. CASE \/ PollRegister(p) \/ PollWait(p) \/ PollTimeout(p) \/ PollNothing(p) \/ PollFin(p)
           \/ PollSchedule(p)
  <2>1. ppc[p] # "busy" /\ UNCHANGED <<notifier, stop>>
    BY <1>2 DEF PollRegister, PollWait, PollTimeout, PollNothing, PollFin, PollSchedule, callVars
  <2>2. job'[Main] = job[Main] /\ job'[Override] = job[Override]
    BY <1>2, CallerNames DEF PollRegister, PollWait, PollTimeout, PollNothing, PollFin,
                             PollSchedule, callVars, TypeInv, TypeOK, CallsOK
  <2> QED
    BY <1>1, <2>1, <2>2 DEF CallsMatch, NotifierOwned
<1>3. CASE PollDistribute(p) \/ PollLeave(p) \/ PollStopSignals(p)
  <2>1. PICK topic \in Services : BeginStop(p, topic)
    BY <1>3 DEF PollDistribute, PollLeave, PollStopSignals, Services
  <2>2. stop[p].at = "idle"
    BY <1>3 DEF PollDistribute, PollLeave, PollStopSignals, CallsMatch
  <2>3. ppc'[p] = "busy" /\ notifier' = notifier
    BY <1>3 DEF PollDistribute, PollLeave, PollStopSignals, PollGoto, TypeInv, TypeOK, ThreadsOK
  <2>4. job'[Main] = job[Main] /\ job'[Override] = job[Override]
    BY <1>3, CallerNames DEF PollDistribute, PollLeave, PollStopSignals, TypeInv, TypeOK, CallsOK
  <2> QED
    BY <1>1, <2>1, <2>2, <2>3, <2>4, BeginStopOwned, CallerNames DEF CallsMatch
<1>4. CASE PollStopReturned(p)
  <2>1. /\ stop[p].at = "returned" /\ stop' = [stop EXCEPT ![p] = Idle]
        /\ UNCHANGED <<notifier, job>>
    BY <1>4 DEF PollStopReturned
  <2>2. /\ NotifierOwned'
        /\ stop'[p].at = "idle"
        /\ \A d \in Callers \ {p} : stop'[d] = stop[d]
    BY <2>1, EndStopOwned, CallerNames
  <2>3. CallsMatch'
    BY <1>1, <2>1, <2>2, CallerNames DEF CallsMatch
  <2> QED
    BY <2>2, <2>3
<1>5. CASE PollLeaveCheck(p)
  <2>1. notifier' = notifier /\ stop[p].at = "returned"
    BY <1>5 DEF PollLeaveCheck
  <2>2. job'[Main] = job[Main] /\ job'[Override] = job[Override]
    BY <1>5, CallerNames DEF PollLeaveCheck, TypeInv, TypeOK, CallsOK
  <2>3. CASE BeginStop(p, "SIGNAL") /\ UNCHANGED ppc
    <3>1. ppc'[p] = "busy"
      BY <2>1, <2>3 DEF CallsMatch
    <3> QED
      BY <1>1, <2>1, <2>2, <2>3, <3>1, BeginStopOwned, CallerNames DEF CallsMatch, Services
  <2>4. CASE stop' = [stop EXCEPT ![p] = Idle]
    <3>1. /\ NotifierOwned'
          /\ stop'[p].at = "idle"
          /\ \A d \in Callers \ {p} : stop'[d] = stop[d]
      BY <2>1, <2>4, EndStopOwned, CallerNames
    <3>2. CallsMatch'
      BY <1>1, <2>2, <3>1, CallerNames DEF CallsMatch
    <3> QED
      BY <3>1, <3>2
  <2> QED
    BY <1>5, <2>3, <2>4 DEF PollLeaveCheck
<1> QED
  BY <1>2, <1>3, <1>4, <1>5 DEF PollStep

LEMMA CommandOwned ==
  ASSUME TypeInv, NotifyInv, (\E cmd \in Commands : HmiRequest(cmd)) \/ MainStep
  PROVE  NotifyInv'
<1> USE DEF NotifyInv
<1>1. CASE (\E cmd \in Commands : HmiRequest(cmd)) \/ StartPolling
  <2>1. UNCHANGED <<notifier, stop, job>>
    BY <1>1 DEF HmiRequest, StartPolling, mainLocal, callVars
  <2>2. \A p \in Poll : ppc[p] = "busy" => ppc'[p] = "busy"
    <3>1. CASE UNCHANGED ppc
      BY <3>1
    <3>2. CASE \E q \in FirstUnused(ppc, Poll) : ppc' = [ppc EXCEPT ![q] = "spawned"]
      <4>1. PICK q \in Poll : ppc[q] = "none" /\ ppc' = [ppc EXCEPT ![q] = "spawned"]
        BY <3>2, FirstUnusedIsUnused, ConstantsAssumption DEF Poll
      <4> QED
        BY <4>1 DEF TypeInv, TypeOK, ThreadsOK
    <3> QED
      BY <1>1, <3>1, <3>2 DEF HmiRequest, StartPolling
  <2> QED
    BY <2>1, <2>2, QuietStep
<1>2. CASE StopPolling \/ CancelRegistration \/ ReRegistration \/ OptEvent
  <2>1. /\ job[Main] = "none"
        /\ UNCHANGED <<notifier, ppc>>
    BY <1>2 DEF StopPolling, CancelRegistration, ReRegistration, OptEvent, StopCommand, mainLocal
  <2>2. CASE UNCHANGED callVars
    BY <2>1, <2>2, QuietStep DEF callVars
  <2>3. CASE \E cmd \in HmiCommands, topic \in Services :
               job' = [job EXCEPT ![Main] = cmd] /\ BeginStop(Main, topic)
    <3>1. job'[Main] # "none" /\ job'[Override] = job[Override]
      BY <2>3, CallerNames DEF HmiCommands, TypeInv, TypeOK, CallsOK
    <3> QED
      BY <2>1, <2>3, <3>1, BeginStopOwned, CallerNames DEF CallsMatch
  <2> QED
    BY <1>2, <2>2, <2>3
    DEF StopPolling, CancelRegistration, ReRegistration, OptEvent, StopCommand, HmiCommands,
        Services
<1>3. CASE MainStopCheck
  <2>1. stop[Main].at = "returned" /\ UNCHANGED <<notifier, ppc>>
    BY <1>3 DEF MainStopCheck, mainLocal
  <2>2. CASE /\ stop[Main].topic \in DOMAIN StopOrder
             /\ BeginStop(Main, StopOrder[stop[Main].topic])
             /\ job' = job
    <3>1. StopOrder[stop[Main].topic] \in Services
      BY <2>2 DEF StopOrder, Services
    <3> QED
      BY <2>1, <2>2, <3>1, BeginStopOwned, CallerNames DEF CallsMatch
  <2>3. CASE stop' = [stop EXCEPT ![Main] = Idle] /\ job' = [job EXCEPT ![Main] = "none"]
    <3>1. job'[Main] = "none" /\ job'[Override] = job[Override]
      BY <2>3, CallerNames DEF TypeInv, TypeOK, CallsOK
    <3> QED
      BY <2>1, <2>3, <3>1, EndStopOwned, CallerNames DEF CallsMatch
  <2> QED
    BY <1>3, <2>2, <2>3 DEF MainStopCheck, Finish
<1> QED
  BY <1>1, <1>2, <1>3 DEF MainStep

LEMMA OverrideOwned ==
  ASSUME TypeInv, NotifyInv, OverrideStep
  PROVE  NotifyInv'
<1> USE DEF NotifyInv
<1>1. UNCHANGED <<notifier, ppc>>
  BY DEF OverrideStep, OverrideOn, OverrideOff, OverrideStopCheck, overrideLocal, threadVars
<1>2. CASE UNCHANGED callVars
  BY <1>1, <1>2, QuietStep DEF callVars
<1>3. CASE /\ job[Override] = "none"
           /\ job' = [job EXCEPT ![Override] = "override"]
           /\ BeginStop(Override, "SIGNAL")
  <2>1. job'[Override] # "none" /\ job'[Main] = job[Main]
    BY <1>3, CallerNames DEF TypeInv, TypeOK, CallsOK
  <2> QED
    BY <1>1, <1>3, <2>1, BeginStopOwned, CallerNames DEF CallsMatch, Services
<1>4. CASE OverrideStopCheck
  <2>1. job'[Override] = "none" /\ job'[Main] = job[Main]
    BY <1>4, CallerNames DEF OverrideStopCheck, TypeInv, TypeOK, CallsOK
  <2> QED
    BY <1>1, <1>4, <2>1, EndStopOwned, CallerNames DEF CallsMatch, OverrideStopCheck
<1> QED
  BY <1>2, <1>3, <1>4 DEF OverrideStep, OverrideOn, OverrideOff

LEMMA StepNotifyInv == TypeInv /\ NotifyInv /\ [Next]_vars => NotifyInv'
<1> SUFFICES ASSUME TypeInv, NotifyInv, [Next]_vars PROVE NotifyInv'
  OBVIOUS
<1>1. CASE UNCHANGED vars
  BY <1>1, QuietStep DEF vars, threadVars, callVars
<1>2. ASSUME NEW e \in Event, EventStep(e) PROVE NotifyInv'
  <2>1. UNCHANGED eventLocal
    BY <1>2 DEF EventStep, EventRegister, EventWait, EventTimeout, EventSkip, EventGo,
                LaunchSignals, SpawnSignal, RecordSignal, Launched, EventFin
  <2> QED
    BY <2>1, QuietStep DEF eventLocal, callVars
<1>3. ASSUME NEW s \in Signal, SignalStep(s) PROVE NotifyInv'
  <2>1. UNCHANGED signalLocal
    BY <1>3 DEF SignalStep, SignalWait, SignalTimeout, SignalSend, SignalRelease,
                SignalReadCount, SignalWriteCount
  <2> QED
    BY <2>1, QuietStep DEF signalLocal, callVars
<1> QED
  BY <1>1, <1>2, <1>3, WaitNotifierOwned, PollOwned, CommandOwned, OverrideOwned DEF Next

\* The notifier names a service only while somebody stops that service.
THEOREM NotifierIsOwned == Spec => []NotifierOwned
<1>1. Init => TypeInv /\ NotifyInv
  BY InitTypeInv, InitNotifyInv
<1>2. (TypeInv /\ NotifyInv) /\ [Next]_vars => (TypeInv /\ NotifyInv)'
  BY StepTypeInv, StepNotifyInv
<1> QED
  BY <1>1, <1>2, PTL DEF Spec, NotifyInv

-----------------------------------------------------------------------------
(* The row of threadstatus.db is not too low: the poll and the event thread *)

RegisteredPolls == Registered(ppc, Poll)
RegisteredEvents == Registered(epc, Event)

PollOne ==
  ~overlap["POLL"] =>
    /\ \A p, q \in PollAlive : p = q
    /\ status["POLL"] = IF RegisteredPolls = {} THEN 0 ELSE 1

EventOne ==
  ~overlap["EVENT"] =>
    /\ \A d, e \in EventAlive : d = e
    /\ status["EVENT"] = IF RegisteredEvents = {} THEN 0 ELSE 1

\* What a step may do to a row that is not its own.
LEMMA StatusFrame ==
  ASSUME TypeInv, NEW svc \in Services, NEW v \in Int, SetStatus(svc, v)
  PROVE  /\ status'[svc] = v
         /\ \A other \in Services \ {svc} : status'[other] = status[other]
BY DEF SetStatus, TypeInv, TypeOK, SharedOK

LEMMA OverlapFrame ==
  ASSUME TypeInv, NEW svc \in Services, NEW alive, MarkOverlap(svc, alive)
  PROVE  /\ overlap'[svc] = (overlap[svc] \/ alive # {})
         /\ \A other \in Services \ {svc} : overlap'[other] = overlap[other]
BY Zenon DEF MarkOverlap, TypeInv, TypeOK, SharedOK

\* A notified thread goes from "blocked" to "check": it stays registered.
LEMMA NotifyKeepsThreads ==
  ASSUME TypeInv, NEW c \in Callers, WaitNotifier(c)
  PROVE  /\ PollAlive' = PollAlive /\ RegisteredPolls' = RegisteredPolls
         /\ EventAlive' = EventAlive /\ RegisteredEvents' = RegisteredEvents
         /\ SignalAlive' = SignalAlive
         /\ \A s \in Signal : spc'[s] = "counting" <=> spc[s] = "counting"
         /\ \A s \in Signal : spc'[s] = "queued" <=> spc[s] = "queued"
         /\ UNCHANGED <<status, overlap, batch, val>>
<1> USE DEF PollAlive, EventAlive, SignalAlive, RegisteredPolls, RegisteredEvents, Registered,
            Unstarted
<1>1. CASE NotifyThread(c)
  BY <1>1 DEF NotifyThread, signalVars, batchVars
<1>2. CASE NotifySignal(c)
  BY <1>2 DEF NotifySignal, signalVars, batchVars
<1>3. CASE \/ FirstStatus(c) \/ SignalsNotified(c) \/ StopEndShed(c) \/ NextRound(c)
           \/ ResetNotifier(c)
  BY <1>3 DEF FirstStatus, SignalsNotified, StopEndShed, NextRound, ResetNotifier,
              threadVars, signalVars, batchVars
<1> QED
  BY <1>1, <1>2, <1>3 DEF WaitNotifier

LEMMA PollOneFrame ==
  ASSUME PollOne, PollAlive' = PollAlive, RegisteredPolls' = RegisteredPolls,
         status'["POLL"] = status["POLL"], overlap'["POLL"] = overlap["POLL"]
  PROVE  PollOne'
BY DEF PollOne

LEMMA EventOneFrame ==
  ASSUME EventOne, EventAlive' = EventAlive, RegisteredEvents' = RegisteredEvents,
         status'["EVENT"] = status["EVENT"], overlap'["EVENT"] = overlap["EVENT"]
  PROVE  EventOne'
BY DEF EventOne

LEMMA StepPollOne == TypeInv /\ CallsMatch /\ PollOne /\ [Next]_vars => PollOne'
<1> SUFFICES ASSUME TypeInv, CallsMatch, PollOne, [Next]_vars PROVE PollOne'
  OBVIOUS
<1>1. ASSUME UNCHANGED ppc, status'["POLL"] = status["POLL"], overlap'["POLL"] = overlap["POLL"]
      PROVE  PollOne'
  BY <1>1, PollOneFrame DEF PollAlive, RegisteredPolls, Registered
<1>2. CASE UNCHANGED vars
  BY <1>1, <1>2 DEF vars, threadVars
<1>3. ASSUME NEW c \in Callers, WaitNotifier(c) PROVE PollOne'
  BY <1>3, NotifyKeepsThreads, PollOneFrame
<1>4. ASSUME NEW p \in Poll, PollStep(p) PROVE PollOne'
  <2> USE DEF PollAlive, RegisteredPolls, Registered, Unstarted
  <2>1. CASE PollRegister(p)
    <3>1. ppc[p] = "spawned" /\ ppc' = [ppc EXCEPT ![p] = "check"] /\ overlap' = overlap
      BY <2>1 DEF PollRegister, PollGoto, pollLocal
    <3>2. status'["POLL"] = 1
      BY <2>1, StatusFrame DEF PollRegister, Services
    <3> QED
      BY <3>1, <3>2 DEF PollOne, TypeInv, TypeOK, ThreadsOK
  <2>2. CASE PollFin(p)
    <3>1. ppc[p] = "fin" /\ ppc' = [ppc EXCEPT ![p] = "done"] /\ overlap' = overlap
      BY <2>2 DEF PollFin, PollGoto, pollLocal
    <3>2. status'["POLL"] = 0
      BY <2>2, StatusFrame DEF PollFin, Services
    <3> QED
      BY <3>1, <3>2 DEF PollOne, TypeInv, TypeOK, ThreadsOK
  <2>3. CASE \/ PollWait(p) \/ PollTimeout(p) \/ PollNothing(p) \/ PollDistribute(p)
             \/ PollLeave(p) \/ PollStopReturned(p) \/ PollStopSignals(p) \/ PollSchedule(p)
             \/ PollLeaveCheck(p)
    <3>1. \E at \in {"check", "fin", "blocked", "polling", "busy", "validate"} :
            ppc' = [ppc EXCEPT ![p] = at]
      <4>1. CASE PollLeaveCheck(p) /\ UNCHANGED ppc
        BY <4>1 DEF PollLeaveCheck, CallsMatch, TypeInv, TypeOK, ThreadsOK
      <4>2. CASE PollLeaveCheck(p) /\ PollGoto(p, "fin")
        BY <4>2 DEF PollGoto
      <4> QED
        BY <2>3, <4>1, <4>2
        DEF PollWait, PollTimeout, PollNothing, PollDistribute, PollLeave, PollStopReturned,
            PollStopSignals, PollSchedule, PollLeaveCheck, PollGoto
    <3>2. ppc[p] \notin {"none", "done", "spawned"}
      BY <2>3
      DEF PollWait, PollTimeout, PollNothing, PollDistribute, PollLeave, PollStopReturned,
          PollStopSignals, PollSchedule, PollLeaveCheck, CallsMatch
    <3>3. status' = status
      BY <2>3
      DEF PollWait, PollTimeout, PollNothing, PollDistribute, PollLeave, PollStopReturned,
          PollStopSignals, PollSchedule, PollLeaveCheck
    <3>4. overlap'["POLL"] = overlap["POLL"]
      <4>1. CASE PollSchedule(p)
        BY <4>1, OverlapFrame DEF PollSchedule, Services
      <4> QED
        BY <2>3, <4>1
        DEF PollWait, PollTimeout, PollNothing, PollDistribute, PollLeave, PollStopReturned,
            PollStopSignals, PollLeaveCheck, pollLocal
    <3>5. PollAlive' = PollAlive /\ RegisteredPolls' = RegisteredPolls
      BY <3>1, <3>2 DEF TypeInv, TypeOK, ThreadsOK
    <3> QED
      BY <3>3, <3>4, <3>5, PollOneFrame
  <2> QED
    BY <1>4, <2>1, <2>2, <2>3 DEF PollStep
<1>5. ASSUME NEW e \in Event, EventStep(e) PROVE PollOne'
  <2>1. UNCHANGED ppc
    BY <1>5 DEF EventStep, EventRegister, EventWait, EventTimeout, EventSkip, EventGo,
                LaunchSignals, SpawnSignal, RecordSignal, Launched, EventFin, eventLocal
  <2>2. status'["POLL"] = status["POLL"]
    BY <1>5, StatusFrame, ConstantsAssumption
    DEF EventStep, EventRegister, EventWait, EventTimeout, EventSkip, EventGo,
        LaunchSignals, SpawnSignal, RecordSignal, Launched, EventFin, Services
  <2>3. overlap'["POLL"] = overlap["POLL"]
    BY <1>5, OverlapFrame
    DEF EventStep, EventRegister, EventWait, EventTimeout, EventSkip, EventGo,
        LaunchSignals, SpawnSignal, RecordSignal, Launched, EventFin, Services
  <2> QED
    BY <1>1, <2>1, <2>2, <2>3
<1>6. ASSUME NEW s \in Signal, SignalStep(s) PROVE PollOne'
  <2>1. UNCHANGED <<ppc, overlap>>
    BY <1>6 DEF SignalStep, SignalWait, SignalTimeout, SignalSend, SignalRelease,
                SignalReadCount, SignalWriteCount, signalLocal
  <2>2. status'["POLL"] = status["POLL"]
    BY <1>6, StatusFrame
    DEF SignalStep, SignalWait, SignalTimeout, SignalSend, SignalRelease, SignalReadCount,
        SignalWriteCount, Services, TypeInv, TypeOK, SignalsOK
  <2> QED
    BY <1>1, <2>1, <2>2
<1>7. CASE StartPolling
  <2>1. status' = status
    BY <1>7 DEF StartPolling, mainLocal
  <2>2. CASE UNCHANGED <<ppc, overlap>>
    BY <1>1, <2>1, <2>2
  <2>3. CASE \E v \in StatusReads("POLL"), p \in FirstUnused(ppc, Poll) :
               /\ v = 0
               /\ ppc' = [ppc EXCEPT ![p] = "spawned"]
               /\ MarkOverlap("POLL", PollAlive)
    <3>1. PICK p \in Poll : ppc[p] = "none" /\ ppc' = [ppc EXCEPT ![p] = "spawned"]
      BY <2>3, FirstUnusedIsUnused, ConstantsAssumption DEF Poll
    <3>2. overlap'["POLL"] = (overlap["POLL"] \/ PollAlive # {})
      BY <2>3, OverlapFrame DEF Services
    <3> QED
      BY <2>1, <3>1, <3>2
      DEF PollOne, PollAlive, RegisteredPolls, Registered, Unstarted, TypeInv, TypeOK, ThreadsOK
  <2> QED
    BY <1>7, <2>2, <2>3 DEF StartPolling
<1>8. CASE \/ \E cmd \in Commands : HmiRequest(cmd)
           \/ StopPolling \/ CancelRegistration \/ ReRegistration \/ OptEvent \/ MainStopCheck
           \/ OverrideStep
  BY <1>1, <1>8
  DEF HmiRequest, StopPolling, CancelRegistration, ReRegistration, StopCommand, OptEvent,
      MainStopCheck, OverrideStep, OverrideOn, OverrideOff, OverrideStopCheck, mainLocal,
      overrideLocal, threadVars
<1> QED
  BY <1>2, <1>3, <1>4, <1>5, <1>6, <1>7, <1>8 DEF Next, MainStep

LEMMA StepEventOne == TypeInv /\ EventOne /\ [Next]_vars => EventOne'
<1> SUFFICES ASSUME TypeInv, EventOne, [Next]_vars PROVE EventOne'
  OBVIOUS
<1>1. ASSUME UNCHANGED epc, status'["EVENT"] = status["EVENT"],
             overlap'["EVENT"] = overlap["EVENT"]
      PROVE  EventOne'
  BY <1>1, EventOneFrame DEF EventAlive, RegisteredEvents, Registered
<1>2. CASE UNCHANGED vars
  BY <1>1, <1>2 DEF vars, threadVars
<1>3. ASSUME NEW c \in Callers, WaitNotifier(c) PROVE EventOne'
  BY <1>3, NotifyKeepsThreads, EventOneFrame
<1>4. ASSUME NEW p \in Poll, PollStep(p) PROVE EventOne'
  <2>1. status'["EVENT"] = status["EVENT"]
    BY <1>4, StatusFrame
    DEF PollStep, PollRegister, PollWait, PollTimeout, PollNothing, PollDistribute, PollLeave,
        PollStopReturned, PollStopSignals, PollSchedule, PollLeaveCheck, PollFin, Services
  <2>2. CASE UNCHANGED <<epc, overlap>>
    BY <1>1, <2>1, <2>2
  <2>3. CASE \E e \in FirstUnused(epc, Event) : /\ epc' = [epc EXCEPT ![e] = "spawned"]
                                               /\ MarkOverlap("EVENT", EventAlive)
    <3>1. PICK e \in Event : epc[e] = "none" /\ epc' = [epc EXCEPT ![e] = "spawned"]
      BY <2>3, FirstUnusedIsUnused, ConstantsAssumption DEF Event
    <3>2. overlap'["EVENT"] = (overlap["EVENT"] \/ EventAlive # {})
      BY <2>3, OverlapFrame DEF Services
    <3>3. CASE EventAlive # {}
      BY <3>2, <3>3, Zenon DEF EventOne
    <3>4. CASE EventAlive = {}
      <4>1. EventAlive' = {e} /\ RegisteredEvents' = RegisteredEvents
        BY <3>1, <3>4
        DEF EventAlive, RegisteredEvents, Registered, Unstarted, TypeInv, TypeOK, ThreadsOK
      <4>2. overlap'["EVENT"] => overlap["EVENT"]
        BY <3>2, <3>4, Zenon
      <4>3. overlap["EVENT"] => overlap'["EVENT"]
        BY <3>2, <3>4, Zenon
      <4> QED
        BY <2>1, <4>1, <4>2, <4>3 DEF EventOne
    <3> QED
      BY <3>3, <3>4
  <2> QED
    BY <1>4, <2>2, <2>3
    DEF PollStep, PollRegister, PollWait, PollTimeout, PollNothing, PollDistribute, PollLeave,
        PollStopReturned, PollStopSignals, PollSchedule, PollLeaveCheck, PollFin, pollLocal
<1>5. ASSUME NEW e \in Event, EventStep(e) PROVE EventOne'
  <2> USE DEF EventAlive, RegisteredEvents, Registered, Unstarted
  <2>1. overlap'["EVENT"] = overlap["EVENT"]
    BY <1>5, OverlapFrame
    DEF EventStep, EventRegister, EventWait, EventTimeout, EventSkip, EventGo,
        LaunchSignals, SpawnSignal, RecordSignal, Launched, EventFin, Services
  <2>2. CASE EventRegister(e)
    <3>1. status'["EVENT"] = 1
      BY <2>2, StatusFrame DEF EventRegister, Services
    <3> QED
      <4>1. PICK at \in {"check", "fin"} : epc' = [epc EXCEPT ![e] = at]
        BY <2>2 DEF EventRegister, EventGoto
      <4>2. epc[e] = "spawned" /\ e \in EventAlive
        BY <2>2 DEF EventRegister
      <4>3. EventAlive' = EventAlive /\ RegisteredEvents' = RegisteredEvents \cup {e}
        BY <4>1, <4>2 DEF TypeInv, TypeOK, ThreadsOK
      <4> HIDE DEF EventAlive, RegisteredEvents
      <4>4. RegisteredEvents' # {}
        BY <4>3
      <4> QED
        BY <2>1, <3>1, <4>3, <4>4 DEF EventOne
  <2>3. CASE EventFin(e)
    <3>1. status'["EVENT"] = 0
      BY <2>3, StatusFrame DEF EventFin, Services
    <3> QED
      BY <2>1, <2>3, <3>1 DEF EventFin, EventGoto, EventOne, TypeInv, TypeOK, ThreadsOK
  <2>4. CASE \/ EventWait(e) \/ EventTimeout(e) \/ EventSkip(e) \/ EventGo(e)
             \/ LaunchSignals(e) \/ SpawnSignal(e) \/ RecordSignal(e) \/ Launched(e)
    <3>1. epc' = epc \/ \E at \in {"check", "fin", "blocked", "due", "go", "launch"} :
                          epc' = [epc EXCEPT ![e] = at]
      BY <2>4 DEF EventWait, EventTimeout, EventSkip, EventGo, LaunchSignals, SpawnSignal,
                  RecordSignal, Launched, EventGoto
    <3>2. epc[e] \notin {"none", "done", "spawned"}
      BY <2>4 DEF EventWait, EventTimeout, EventSkip, EventGo, LaunchSignals, SpawnSignal,
                  RecordSignal, Launched
    <3>3. status'["EVENT"] = status["EVENT"]
      BY <2>4, StatusFrame, ConstantsAssumption
      DEF EventWait, EventTimeout, EventSkip, EventGo, LaunchSignals, SpawnSignal,
          RecordSignal, Launched, Services
    <3>4. EventAlive' = EventAlive /\ RegisteredEvents' = RegisteredEvents
      BY <3>1, <3>2 DEF TypeInv, TypeOK, ThreadsOK
    <3> QED
      BY <2>1, <3>3, <3>4, EventOneFrame
  <2> QED
    BY <1>5, <2>2, <2>3, <2>4 DEF EventStep
<1>6. ASSUME NEW s \in Signal, SignalStep(s) PROVE EventOne'
  <2>1. UNCHANGED <<epc, overlap>>
    BY <1>6 DEF SignalStep, SignalWait, SignalTimeout, SignalSend, SignalRelease,
                SignalReadCount, SignalWriteCount, signalLocal
  <2>2. status'["EVENT"] = status["EVENT"]
    BY <1>6, StatusFrame
    DEF SignalStep, SignalWait, SignalTimeout, SignalSend, SignalRelease, SignalReadCount,
        SignalWriteCount, Services, TypeInv, TypeOK, SignalsOK
  <2> QED
    BY <1>1, <2>1, <2>2
<1>7. CASE StartPolling
  <2>1. overlap'["EVENT"] = overlap["EVENT"]
    BY <1>7, OverlapFrame DEF StartPolling, Services
  <2> QED
    BY <1>1, <1>7, <2>1 DEF StartPolling, mainLocal
<1>8. CASE \/ \E cmd \in Commands : HmiRequest(cmd)
           \/ StopPolling \/ CancelRegistration \/ ReRegistration \/ OptEvent \/ MainStopCheck
           \/ OverrideStep
  BY <1>1, <1>8
  DEF HmiRequest, StopPolling, CancelRegistration, ReRegistration, StopCommand, OptEvent,
      MainStopCheck, OverrideStep, OverrideOn, OverrideOff, OverrideStopCheck, mainLocal,
      overrideLocal, threadVars
<1> QED
  BY <1>2, <1>3, <1>4, <1>5, <1>6, <1>7, <1>8 DEF Next, MainStep

-----------------------------------------------------------------------------
(* The row of threadstatus.db is not too low: the signal threads            *)

\* The signals an event thread has still to spawn.
Remaining(e) == {s \in Signal : batch[e].next <= s /\ s < batch[e].first + batch[e].size}

\* They are counted and not started, and no two event threads spawn the same ones.
QueuedInv ==
  /\ \A e \in Event : \A s \in Remaining(e) : spc[s] = "queued"
  /\ \A d, e \in Event : d # e => Remaining(d) \cap Remaining(e) = {}

\* signalthread, and every value of it about to be decremented, counts every signal
\* thread that has not decremented it.
SignalInv ==
  (~overlap["SIGNAL"] /\ ~ReadRace) =>
    /\ status["SIGNAL"] >= Cardinality(SignalAlive)
    /\ \A s \in Signal : spc[s] = "counting" => val[s] >= Cardinality(SignalAlive)

LEMMA SignalAliveFinite == IsFiniteSet(SignalAlive) /\ Cardinality(SignalAlive) \in Nat
<1>1. IsFiniteSet(Signal)
  BY FS_Interval, ConstantsAssumption DEF Signal
<1>2. IsFiniteSet(SignalAlive)
  BY <1>1, FS_Subset DEF SignalAlive
<1> QED
  BY <1>2, FS_CardinalityType

LEMMA SignalFrame ==
  ASSUME QueuedInv, SignalInv, SignalAlive' = SignalAlive,
         \A s \in Signal : spc'[s] = "counting" => (spc[s] = "counting" /\ val'[s] = val[s]),
         \A s \in Signal : spc[s] = "queued" => spc'[s] = "queued",
         batch' = batch, status'["SIGNAL"] = status["SIGNAL"],
         overlap'["SIGNAL"] = overlap["SIGNAL"]
  PROVE  QueuedInv' /\ SignalInv'
<1>1. \A e \in Event : Remaining(e)' = Remaining(e)
  BY DEF Remaining
<1>2. QueuedInv'
  BY <1>1 DEF QueuedInv, Remaining
<1>3. SignalInv'
  BY DEF SignalInv
<1> QED
  BY <1>2, <1>3

LEMMA LaunchCounts ==
  ASSUME TypeInv, QueuedInv, SignalInv, NEW e \in Event, LaunchSignals(e)
  PROVE  QueuedInv' /\ SignalInv'
<1>1. PICK first \in FirstUnused(spc, Signal), n \in 1..MaxBatch :
        /\ first + n - 1 <= NumSignals
        /\ SetStatus("SIGNAL", n)
        /\ batch' = [batch EXCEPT ![e] = [first |-> first, next |-> first, size |-> n]]
        /\ spc' = [s \in Signal |-> IF s \in first..(first + n - 1) THEN "queued" ELSE spc[s]]
  BY DEF LaunchSignals
<1>2. first \in Signal /\ \A u \in Signal : spc[u] = "none" <=> u >= first
  BY FirstUnusedIsUnused, ConstantsAssumption DEF Signal
<1>3. n \in Nat \ {0}
  BY ConstantsAssumption
<1> DEFINE new == first..(first + n - 1)
<1>4. new \subseteq Signal /\ \A s \in new : spc[s] = "none"
  BY <1>1, <1>2, <1>3, ConstantsAssumption DEF Signal
<1>5. Remaining(e)' = new
  <2>1. batch'[e] = [first |-> first, next |-> first, size |-> n]
    BY <1>1 DEF TypeInv, TypeOK, BatchesOK
  <2> QED
    BY <1>2, <1>3, <1>4, <2>1 DEF Remaining, Signal
<1>6. \A d \in Event \ {e} : Remaining(d)' = Remaining(d)
  BY <1>1 DEF Remaining, TypeInv, TypeOK, BatchesOK
<1>7. \A s \in Signal : s \in new => spc'[s] = "queued"
  BY <1>1
<1>8. \A s \in Signal : s \notin new => spc'[s] = spc[s]
  BY <1>1
<1> HIDE DEF new
<1>9. QueuedInv'
  <2>1. \A d \in Event : Remaining(d) \subseteq Signal
    BY DEF Remaining
  <2>2. \A d \in Event : Remaining(d) \cap new = {}
    BY <1>4 DEF QueuedInv
  <2> QED
    BY <1>4, <1>5, <1>6, <1>7, <1>8, <2>1, <2>2 DEF QueuedInv
<1>10. SignalInv'
  <2>1. overlap'["SIGNAL"] = (overlap["SIGNAL"] \/ SignalAlive # {})
    BY OverlapFrame DEF LaunchSignals, Services
  <2> SUFFICES ASSUME ~overlap'["SIGNAL"] PROVE
               /\ status'["SIGNAL"] >= Cardinality(SignalAlive')
               /\ \A s \in Signal : spc'[s] # "counting"
    BY DEF SignalInv
  <2>2. SignalAlive = {}
    BY <2>1
  <2>3. SignalAlive' = new
    BY <1>4, <1>7, <1>8, <2>2 DEF SignalAlive, Unstarted
  <2>4. Cardinality(new) = n
    BY <1>2, <1>3, FS_Interval DEF new, Signal
  <2>5. status'["SIGNAL"] = n
    BY <1>1, <1>3, StatusFrame DEF Services
  <2>6. \A s \in Signal : spc'[s] # "counting"
    BY <1>7, <1>8, <2>2 DEF SignalAlive, Unstarted
  <2> QED
    BY <1>3, <2>3, <2>4, <2>5, <2>6
<1> QED
  BY <1>9, <1>10

LEMMA SpawnCounts ==
  ASSUME TypeInv, QueuedInv, SignalInv, NEW e \in Event, SpawnSignal(e)
  PROVE  QueuedInv' /\ SignalInv'
<1> DEFINE s == batch[e].next
<1>1. s \in Remaining(e) /\ s \in Signal
  BY ConstantsAssumption
  DEF SpawnSignal, MoreToSpawn, Remaining, TypeInv, TypeOK, BatchesOK, CountersOK, Signal
<1>2. spc[s] = "queued"
  BY <1>1 DEF QueuedInv
<1>3. spc' = [spc EXCEPT ![s] = "check"]
  BY DEF SpawnSignal
<1>4. \A d \in Event : Remaining(d)' \subseteq Remaining(d) \ {s}
  <2>1. \A d \in Event \ {e} : batch'[d] = batch[d]
    BY DEF SpawnSignal, TypeInv, TypeOK, BatchesOK
  <2>2. /\ batch'[e].next = s + 1
        /\ batch'[e].first = batch[e].first
        /\ batch'[e].size = batch[e].size
    BY DEF SpawnSignal, TypeInv, TypeOK, BatchesOK
  <2>3. s \in Nat
    BY DEF TypeInv, TypeOK, BatchesOK
  <2>4. Remaining(e)' \subseteq Remaining(e) \ {s}
    BY <2>2, <2>3 DEF Remaining, Signal
  <2>5. \A d \in Event \ {e} : Remaining(d)' = Remaining(d)
    BY <2>1 DEF Remaining
  <2>6. \A d \in Event \ {e} : s \notin Remaining(d)
    BY <1>1 DEF QueuedInv
  <2> QED
    BY <2>4, <2>5, <2>6
<1>5. QueuedInv'
  <2>1. \A d \in Event : Remaining(d) \subseteq Signal
    BY DEF Remaining
  <2>2. \A t \in Signal \ {s} : spc'[t] = spc[t]
    BY <1>3 DEF TypeInv, TypeOK, ThreadsOK
  <2>3. \A d \in Event : \A t \in Remaining(d)' : spc'[t] = "queued"
    BY <1>4, <2>1, <2>2 DEF QueuedInv
  <2> QED
    BY <1>4, <2>3 DEF QueuedInv
<1>6. SignalInv'
  <2>1. SignalAlive' = SignalAlive
    BY <1>1, <1>2, <1>3 DEF SignalAlive, Unstarted, TypeInv, TypeOK, ThreadsOK
  <2>2. UNCHANGED <<status, overlap, val>>
    BY DEF SpawnSignal
  <2>3. \A t \in Signal : spc'[t] = "counting" => spc[t] = "counting"
    BY <1>3 DEF TypeInv, TypeOK, ThreadsOK
  <2> QED
    BY <2>1, <2>2, <2>3 DEF SignalInv
<1> QED
  BY <1>5, <1>6

LEMMA SignalCounts ==
  ASSUME TypeInv, QueuedInv, SignalInv, NEW s \in Signal, SignalStep(s)
  PROVE  QueuedInv' /\ SignalInv'
<1>0. UNCHANGED <<batch, overlap>>
  BY DEF SignalStep, SignalWait, SignalTimeout, SignalSend, SignalRelease, SignalReadCount,
         SignalWriteCount, signalLocal, batchVars
<1>1. CASE SignalWait(s) \/ SignalTimeout(s) \/ SignalSend(s) \/ SignalRelease(s)
  <2>1. \E at \in {"leave", "blocked", "send", "release", "check"} :
          spc' = [spc EXCEPT ![s] = at]
    BY <1>1 DEF SignalWait, SignalTimeout, SignalSend, SignalRelease, SignalGoto
  <2>2. spc[s] \in {"check", "blocked", "send", "release"}
    BY <1>1 DEF SignalWait, SignalTimeout, SignalSend, SignalRelease
  <2>3. UNCHANGED <<status, val>>
    BY <1>1 DEF SignalWait, SignalTimeout, SignalSend, SignalRelease, signalVars
  <2>4. SignalAlive' = SignalAlive
    BY <2>1, <2>2 DEF SignalAlive, Unstarted, TypeInv, TypeOK, ThreadsOK
  <2>5. \A t \in Signal : /\ spc'[t] = "counting" => spc[t] = "counting"
                          /\ spc[t] = "queued" => spc'[t] = "queued"
    BY <2>1, <2>2 DEF TypeInv, TypeOK, ThreadsOK
  <2> QED
    BY <1>0, <2>3, <2>4, <2>5, SignalFrame
<1>2. ASSUME NEW at \in {"counting", "done"}, SignalGoto(s, at), spc[s] \in {"leave", "counting"}
      PROVE  QueuedInv'
  <2>1. \A d \in Event : Remaining(d)' = Remaining(d)
    BY <1>0 DEF Remaining
  <2>2. \A t \in Signal : spc[t] = "queued" => spc'[t] = "queued"
    BY <1>2 DEF SignalGoto, TypeInv, TypeOK, ThreadsOK
  <2> QED
    BY <2>1, <2>2 DEF QueuedInv, Remaining
<1>3. CASE SignalReadCount(s)
  <2>1. spc[s] = "leave" /\ spc' = [spc EXCEPT ![s] = "counting"] /\ status' = status
    BY <1>3 DEF SignalReadCount, SignalGoto
  <2>2. SignalAlive' = SignalAlive
    BY <2>1 DEF SignalAlive, Unstarted, TypeInv, TypeOK, ThreadsOK
  <2>3. ~ReadRace => val' = [val EXCEPT ![s] = status["SIGNAL"]]
    BY <1>3 DEF SignalReadCount, StatusReads
  <2>4. SignalInv'
    BY <1>0, <2>1, <2>2, <2>3
    DEF SignalInv, TypeInv, TypeOK, ThreadsOK, SignalsOK
  <2>5. QueuedInv'
    BY <1>2, <1>3, <2>1 DEF SignalReadCount
  <2> QED
    BY <2>4, <2>5
<1>4. CASE SignalWriteCount(s)
  <2>1. /\ spc[s] = "counting"
        /\ spc' = [spc EXCEPT ![s] = "done"]
        /\ val' = [val EXCEPT ![s] = 0]
    BY <1>4 DEF SignalWriteCount, SignalGoto
  <2>2. status'["SIGNAL"] = val[s] - 1
    BY <1>4, StatusFrame DEF SignalWriteCount, Services, TypeInv, TypeOK, SignalsOK
  <2>3. s \in SignalAlive /\ SignalAlive' = SignalAlive \ {s}
    BY <2>1 DEF SignalAlive, Unstarted, TypeInv, TypeOK, ThreadsOK
  <2>4. Cardinality(SignalAlive') = Cardinality(SignalAlive) - 1
    BY <2>3, SignalAliveFinite, FS_RemoveElement
  <2>5. Cardinality(SignalAlive) \in Nat /\ \A t \in Signal : val[t] \in Int
    BY SignalAliveFinite DEF TypeInv, TypeOK, SignalsOK
  <2>6. \A t \in Signal : spc'[t] = "counting" => spc[t] = "counting" /\ val'[t] = val[t]
    BY <2>1 DEF TypeInv, TypeOK, ThreadsOK, SignalsOK
  <2>7. SignalInv'
    BY <1>0, <2>1, <2>2, <2>4, <2>5, <2>6 DEF SignalInv
  <2>8. QueuedInv'
    BY <1>2, <1>4, <2>1 DEF SignalWriteCount
  <2> QED
    BY <2>7, <2>8
<1> QED
  BY <1>1, <1>3, <1>4 DEF SignalStep

LEMMA StepSignalInv ==
  TypeInv /\ QueuedInv /\ SignalInv /\ [Next]_vars => QueuedInv' /\ SignalInv'
<1> SUFFICES ASSUME TypeInv, QueuedInv, SignalInv, [Next]_vars
             PROVE  QueuedInv' /\ SignalInv'
  OBVIOUS
<1>1. ASSUME UNCHANGED <<spc, batch, val>>, status'["SIGNAL"] = status["SIGNAL"],
             overlap'["SIGNAL"] = overlap["SIGNAL"]
      PROVE  QueuedInv' /\ SignalInv'
  BY <1>1, SignalFrame DEF SignalAlive
<1>2. CASE UNCHANGED vars
  BY <1>1, <1>2 DEF vars, threadVars, batchVars, signalVars
<1>3. ASSUME NEW c \in Callers, WaitNotifier(c) PROVE QueuedInv' /\ SignalInv'
  BY <1>3, NotifyKeepsThreads, SignalFrame
<1>4. ASSUME NEW p \in Poll, PollStep(p) PROVE QueuedInv' /\ SignalInv'
  <2>1. UNCHANGED <<spc, batch, val>>
    BY <1>4
    DEF PollStep, PollRegister, PollWait, PollTimeout, PollNothing, PollDistribute, PollLeave,
        PollStopReturned, PollStopSignals, PollSchedule, PollLeaveCheck, PollFin, pollLocal,
        batchVars, signalVars
  <2>2. status'["SIGNAL"] = status["SIGNAL"]
    BY <1>4, StatusFrame
    DEF PollStep, PollRegister, PollWait, PollTimeout, PollNothing, PollDistribute, PollLeave,
        PollStopReturned, PollStopSignals, PollSchedule, PollLeaveCheck, PollFin, Services
  <2>3. overlap'["SIGNAL"] = overlap["SIGNAL"]
    BY <1>4, OverlapFrame
    DEF PollStep, PollRegister, PollWait, PollTimeout, PollNothing, PollDistribute, PollLeave,
        PollStopReturned, PollStopSignals, PollSchedule, PollLeaveCheck, PollFin, pollLocal,
        Services
  <2> QED
    BY <1>1, <2>1, <2>2, <2>3
<1>5. ASSUME NEW e \in Event, EventStep(e) PROVE QueuedInv' /\ SignalInv'
  <2>1. CASE LaunchSignals(e)
    BY <2>1, LaunchCounts
  <2>2. CASE SpawnSignal(e)
    BY <2>2, SpawnCounts
  <2>3. CASE \/ EventRegister(e) \/ EventWait(e) \/ EventTimeout(e) \/ EventSkip(e)
             \/ EventGo(e) \/ RecordSignal(e) \/ Launched(e) \/ EventFin(e)
    <3>1. UNCHANGED <<spc, batch, val, overlap>>
      BY <2>3
      DEF EventRegister, EventWait, EventTimeout, EventSkip, EventGo, RecordSignal, Launched,
          EventFin, batchVars, signalVars
    <3>2. status'["SIGNAL"] = status["SIGNAL"]
      BY <2>3, StatusFrame
      DEF EventRegister, EventWait, EventTimeout, EventSkip, EventGo, RecordSignal, Launched,
          EventFin, Services
    <3> QED
      BY <1>1, <3>1, <3>2
  <2> QED
    BY <1>5, <2>1, <2>2, <2>3 DEF EventStep
<1>6. CASE StartPolling
  <2>1. overlap'["SIGNAL"] = overlap["SIGNAL"]
    BY <1>6, OverlapFrame DEF StartPolling, Services
  <2> QED
    BY <1>1, <1>6, <2>1 DEF StartPolling, mainLocal, batchVars
<1>7. CASE \/ \E cmd \in Commands : HmiRequest(cmd)
           \/ StopPolling \/ CancelRegistration \/ ReRegistration \/ OptEvent \/ MainStopCheck
           \/ OverrideStep
  BY <1>1, <1>7
  DEF HmiRequest, StopPolling, CancelRegistration, ReRegistration, StopCommand, OptEvent,
      MainStopCheck, OverrideStep, OverrideOn, OverrideOff, OverrideStopCheck, mainLocal,
      overrideLocal, threadVars, batchVars, signalVars
<1> QED
  BY <1>2, <1>3, <1>4, <1>5, <1>6, <1>7, SignalCounts DEF Next, MainStep

RowInv == TypeInv /\ NotifyInv /\ PollOne /\ EventOne /\ QueuedInv /\ SignalInv

LEMMA InitRowInv == Init => RowInv
<1> SUFFICES ASSUME Init PROVE RowInv
  OBVIOUS
<1>1. TypeInv /\ NotifyInv
  BY InitTypeInv, InitNotifyInv
<1>2. PollOne /\ EventOne
  BY DEF Init, PollOne, EventOne, PollAlive, EventAlive, RegisteredPolls, RegisteredEvents,
         Registered, Unstarted, Services
<1>3. \A e \in Event : Remaining(e) = {}
  BY ConstantsAssumption DEF Init, Remaining, Signal
<1>4. SignalAlive = {} /\ Cardinality(SignalAlive) = 0
  BY FS_EmptySet DEF Init, SignalAlive, Unstarted
<1>5. QueuedInv /\ SignalInv
  BY <1>3, <1>4 DEF Init, QueuedInv, SignalInv, Services
<1> QED
  BY <1>1, <1>2, <1>5 DEF RowInv

LEMMA StepRowInv == RowInv /\ [Next]_vars => RowInv'
BY StepTypeInv, StepNotifyInv, StepPollOne, StepEventOne, StepSignalInv DEF RowInv, NotifyInv

LEMMA RowIsNotLow == RowInv => StatusNotLow
<1> SUFFICES ASSUME RowInv PROVE StatusNotLow
  OBVIOUS
<1>1. ASSUME NEW S, NEW alive, S \subseteq alive, \A x, y \in alive : x = y
      PROVE  Cardinality(S) = IF S = {} THEN 0 ELSE 1
  <2>1. CASE S = {}
    BY <2>1, FS_EmptySet
  <2>2. CASE S # {}
    <3>1. PICK x \in S : TRUE
      BY <2>2
    <3>2. S = {x}
      BY <1>1, <3>1
    <3> QED
      BY <2>2, <3>2, FS_Singleton
  <2> QED
    BY <2>1, <2>2
<1>2. RegisteredPolls \subseteq PollAlive /\ RegisteredEvents \subseteq EventAlive
  BY DEF RegisteredPolls, RegisteredEvents, Registered, PollAlive, EventAlive
<1>3. ~overlap["POLL"] => status["POLL"] = Cardinality(Registered(ppc, Poll))
  BY <1>1, <1>2 DEF RowInv, PollOne, RegisteredPolls
<1>4. ~overlap["EVENT"] => status["EVENT"] = Cardinality(Registered(epc, Event))
  BY <1>1, <1>2 DEF RowInv, EventOne, RegisteredEvents
<1>5. ~overlap["SIGNAL"] /\ ~ReadRace => status["SIGNAL"] >= Cardinality(SignalAlive)
  BY DEF RowInv, SignalInv
<1> QED
  BY <1>3, <1>4, <1>5 DEF StatusNotLow

\* Without a second thread of a service and without disturbed reads, the row of
\* threadstatus.db never reports fewer threads than run.
THEOREM StatusIsNotLow == Spec => []StatusNotLow
<1>1. Init => RowInv
  BY InitRowInv
<1>2. RowInv /\ [Next]_vars => RowInv'
  BY StepRowInv
<1>3. RowInv => StatusNotLow
  BY RowIsNotLow
<1> QED
  BY <1>1, <1>2, <1>3, PTL DEF Spec

-----------------------------------------------------------------------------
(* A cancelled registration leaves no thread behind                        *)

Clean == PromptStart /\ ~ReadRace /\ \A svc \in Services : ~overlap[svc]

\* A handler that ends the registration has stopped the services before its topic.
CancelInv ==
  (Clean /\ job[Main] \in Leaving) =>
    /\ stop[Main].topic # "POLL" => PollAlive = {}
    /\ stop[Main].topic = "SIGNAL" => EventAlive = {}

LEMMA OverlapStays == TypeInv /\ [Next]_vars => \A svc \in Services : overlap[svc] => overlap'[svc]
<1> SUFFICES ASSUME TypeInv, [Next]_vars, NEW svc \in Services, overlap[svc]
             PROVE  overlap'[svc]
  OBVIOUS
<1>1. ASSUME NEW other \in Services, NEW alive, MarkOverlap(other, alive)
      PROVE  overlap'[svc]
  BY <1>1, OverlapFrame, Zenon
<1>2. CASE UNCHANGED overlap
  BY <1>2
<1>3. \/ UNCHANGED overlap
      \/ \E other \in Services : \E alive \in {PollAlive, EventAlive, SignalAlive} :
                              MarkOverlap(other, alive)
  <2>1. ASSUME NEW c \in Callers, WaitNotifier(c) PROVE UNCHANGED overlap
    BY <2>1, NotifyKeepsThreads
  <2>2. ASSUME NEW p \in Poll, PollStep(p)
        PROVE  UNCHANGED overlap \/ MarkOverlap("EVENT", EventAlive)
    BY <2>2
    DEF PollStep, PollRegister, PollWait, PollTimeout, PollNothing, PollDistribute, PollLeave,
        PollStopReturned, PollStopSignals, PollSchedule, PollLeaveCheck, PollFin, pollLocal
  <2>3. ASSUME NEW e \in Event, EventStep(e)
        PROVE  UNCHANGED overlap \/ MarkOverlap("SIGNAL", SignalAlive)
    BY <2>3 DEF EventStep, EventRegister, EventWait, EventTimeout, EventSkip, EventGo,
                LaunchSignals, SpawnSignal, RecordSignal, Launched, EventFin
  <2>4. ASSUME NEW s \in Signal, SignalStep(s) PROVE UNCHANGED overlap
    BY <2>4 DEF SignalStep, SignalWait, SignalTimeout, SignalSend, SignalRelease,
                SignalReadCount, SignalWriteCount, signalLocal
  <2>5. CASE StartPolling
    BY <2>5 DEF StartPolling, Services
  <2>6. CASE \/ \E cmd \in Commands : HmiRequest(cmd)
             \/ StopPolling \/ CancelRegistration \/ ReRegistration \/ OptEvent \/ MainStopCheck
             \/ OverrideStep \/ UNCHANGED vars
    BY <2>6
    DEF HmiRequest, StopPolling, CancelRegistration, ReRegistration, StopCommand, OptEvent,
        MainStopCheck, OverrideStep, OverrideOn, OverrideOff, OverrideStopCheck,
        overrideLocal, vars
  <2> QED
    BY <2>1, <2>2, <2>3, <2>4, <2>5, <2>6 DEF Next, MainStep, Services
<1> QED
  BY <1>1, <1>2, <1>3

\* What an undisturbed read of 0 means to the caller that reads it.
LEMMA StoppedMeansGone ==
  ASSUME RowInv, Clean
  PROVE  /\ 0 \in StatusReads("POLL") => PollAlive = {}
         /\ 0 \in StatusReads("EVENT") => EventAlive = {}
         /\ 0 \in StatusReads("SIGNAL") => SignalAlive = {}
<1>1. 0 \in StatusReads("POLL") => PollAlive = {}
  BY DEF RowInv, PollOne, Clean, StatusReads, AllStarted, RegisteredPolls, Registered, PollAlive,
         Services
<1>2. 0 \in StatusReads("EVENT") => EventAlive = {}
  BY DEF RowInv, EventOne, Clean, StatusReads, AllStarted, RegisteredEvents, Registered,
         EventAlive, Services
<1>3. 0 \in StatusReads("SIGNAL") => SignalAlive = {}
  <2> SUFFICES ASSUME 0 \in StatusReads("SIGNAL") PROVE SignalAlive = {}
    OBVIOUS
  <2>1. status["SIGNAL"] = 0
    BY DEF Clean, StatusReads
  <2>2. Cardinality(SignalAlive) = 0
    BY <2>1, SignalAliveFinite DEF RowInv, SignalInv, Clean, Services
  <2> QED
    BY <2>2, SignalAliveFinite, FS_EmptySet
<1> QED
  BY <1>1, <1>2, <1>3

LEMMA InitCancelInv == Init => CancelInv
BY CallerNames DEF Init, CancelInv, Leaving

\* Only the main thread changes the handler it is in and the service it stops.
LEMMA MainCallFrame ==
  ASSUME TypeInv, NotifyInv, [Next]_vars, ~MainStep
  PROVE  /\ job'[Main] = job[Main]
         /\ stop'[Main].topic = stop[Main].topic
<1>2. CASE UNCHANGED callVars
  BY <1>2 DEF callVars
<1>3. ASSUME NEW c \in Callers, WaitNotifier(c)
      PROVE  job'[Main] = job[Main] /\ stop'[Main].topic = stop[Main].topic
  BY <1>3, WaitNotifierStays, CallerNames
<1>4. ASSUME NEW p \in Poll, PollStep(p)
      PROVE  job'[Main] = job[Main] /\ stop'[Main].topic = stop[Main].topic
  <2>1. job'[Main] = job[Main]
    BY <1>4, CallerNames
    DEF PollStep, PollRegister, PollWait, PollTimeout, PollNothing, PollDistribute, PollLeave,
        PollStopReturned, PollStopSignals, PollSchedule, PollLeaveCheck, PollFin, callVars,
        TypeInv, TypeOK, CallsOK
  <2>2. stop' = stop \/ \E r : stop' = [stop EXCEPT ![p] = r]
    BY <1>4
    DEF PollStep, PollRegister, PollWait, PollTimeout, PollNothing, PollDistribute, PollLeave,
        PollStopReturned, PollStopSignals, PollSchedule, PollLeaveCheck, PollFin, callVars,
        BeginStop
  <2> QED
    BY <2>1, <2>2, CallerNames DEF TypeInv, TypeOK, CallsOK
<1>5. CASE \/ \E e \in Event : EventStep(e)
           \/ \E s \in Signal : SignalStep(s)
           \/ \E cmd \in Commands : HmiRequest(cmd)
           \/ UNCHANGED vars
  <2>1. UNCHANGED callVars
    BY <1>5
    DEF EventStep, EventRegister, EventWait, EventTimeout, EventSkip, EventGo, LaunchSignals,
        SpawnSignal, RecordSignal, Launched, EventFin, eventLocal, SignalStep, SignalWait,
        SignalTimeout, SignalSend, SignalRelease, SignalReadCount, SignalWriteCount, signalLocal,
        HmiRequest, vars
  <2> QED
    BY <1>2, <2>1
<1>6. CASE OverrideStep
  BY <1>6, CallerNames
  DEF OverrideStep, OverrideOn, OverrideOff, OverrideStopCheck, BeginStop, callVars, TypeInv,
      TypeOK, CallsOK
<1> QED
  BY <1>3, <1>4, <1>5, <1>6 DEF Next

\* While nobody polls no event thread starts, and no poll thread while the main
\* thread is in a handler that calls waitNotifier.
LEMMA NothingStarts ==
  ASSUME TypeInv, NotifyInv, [Next]_vars, job[Main] # "none", PollAlive = {}
  PROVE  /\ PollAlive' = {}
         /\ EventAlive = {} => EventAlive' = {}
<1> USE DEF PollAlive, EventAlive, Unstarted
<1>1. CASE UNCHANGED <<ppc, epc>>
  BY <1>1
<1>2. ASSUME NEW c \in Callers, WaitNotifier(c)
      PROVE  PollAlive' = PollAlive /\ EventAlive' = EventAlive
  BY <1>2, NotifyKeepsThreads
<1>3. ASSUME NEW p \in Poll, PollStep(p) PROVE FALSE
  BY <1>3
  DEF PollStep, PollRegister, PollWait, PollTimeout, PollNothing, PollDistribute, PollLeave,
      PollStopReturned, PollStopSignals, PollSchedule, PollLeaveCheck, PollFin, NotifyInv,
      CallsMatch
<1>4. ASSUME NEW e \in Event, EventStep(e)
      PROVE  UNCHANGED ppc /\ e \in EventAlive
  BY <1>4 DEF EventStep, EventRegister, EventWait, EventTimeout, EventSkip, EventGo,
              LaunchSignals, SpawnSignal, RecordSignal, Launched, EventFin, eventLocal
<1>5. CASE \/ \E s \in Signal : SignalStep(s)
           \/ \E cmd \in Commands : HmiRequest(cmd)
           \/ MainStep \/ OverrideStep \/ UNCHANGED vars
  <2>1. UNCHANGED <<ppc, epc>>
    BY <1>5
    DEF SignalStep, SignalWait, SignalTimeout, SignalSend, SignalRelease, SignalReadCount,
        SignalWriteCount, signalLocal, HmiRequest, MainStep, StartPolling, StopPolling,
        CancelRegistration, ReRegistration, StopCommand, OptEvent, MainStopCheck, mainLocal,
        OverrideStep, OverrideOn, OverrideOff, OverrideStopCheck, overrideLocal, vars, threadVars
  <2> QED
    BY <1>1, <2>1
<1> QED
  BY <1>2, <1>3, <1>4, <1>5 DEF Next

LEMMA MainCheckCancel ==
  ASSUME RowInv, CancelInv, MainStopCheck, job[Main] \in Leaving, Clean
  PROVE  /\ job'[Main] \in Leaving =>
              /\ PollAlive' = {}
              /\ stop'[Main].topic = "SIGNAL" => EventAlive' = {}
         /\ job'[Main] = "none" /\ flag' = "ok" =>
              PollAlive = {} /\ EventAlive = {} /\ SignalAlive = {}
<1> USE DEF RowInv
<1>1. PICK v \in StatusReads(stop[Main].topic) :
        IF v = 0 /\ job[Main] \in Leaving /\ stop[Main].topic \in DOMAIN StopOrder
          THEN /\ BeginStop(Main, StopOrder[stop[Main].topic])
               /\ UNCHANGED <<job, flag, rows>>
          ELSE /\ stop' = [stop EXCEPT ![Main] = Idle]
               /\ Finish(IF v = 0 THEN "ok" ELSE "error")
               /\ rows' = IF v = 0 /\ job[Main] \in Leaving THEN {} ELSE rows
  BY DEF MainStopCheck
<1>2. stop[Main].topic \in Services
  BY CallerNames DEF TypeInv, TypeOK, CallsOK, StopRecords
<1>3. PollAlive' = PollAlive /\ EventAlive' = EventAlive
  BY DEF MainStopCheck, mainLocal, PollAlive, EventAlive
<1>4. CASE v = 0 /\ stop[Main].topic \in DOMAIN StopOrder
  <2>1. /\ stop'[Main].topic = StopOrder[stop[Main].topic]
        /\ job' = job
    BY <1>1, <1>4, CallerNames DEF BeginStop, Idle, TypeInv, TypeOK, CallsOK
  <2>2. CASE stop[Main].topic = "POLL"
    <3>1. PollAlive = {}
      BY <1>1, <1>4, <2>2, StoppedMeansGone
    <3>2. stop'[Main].topic = "EVENT"
      BY <2>1, <2>2 DEF StopOrder
    <3> QED
      BY <1>3, <2>1, <3>1, <3>2 DEF Leaving
  <2>3. CASE stop[Main].topic = "EVENT"
    <3>1. EventAlive = {}
      BY <1>1, <1>4, <2>3, StoppedMeansGone
    <3>2. PollAlive = {}
      BY <2>3 DEF CancelInv
    <3> QED
      BY <1>3, <2>1, <3>1, <3>2 DEF Leaving
  <2> QED
    BY <1>4, <2>2, <2>3 DEF StopOrder
<1>5. CASE ~(v = 0 /\ stop[Main].topic \in DOMAIN StopOrder)
  <2>1. job'[Main] = "none"
    BY <1>1, <1>5, CallerNames DEF Finish, TypeInv, TypeOK, CallsOK
  <2>2. ASSUME flag' = "ok" PROVE PollAlive = {} /\ EventAlive = {} /\ SignalAlive = {}
    <3>1. v = 0
      BY <1>1, <1>5, <2>2 DEF Finish
    <3>2. stop[Main].topic = "SIGNAL"
      BY <1>2, <1>5, <3>1 DEF StopOrder, Services
    <3>3. SignalAlive = {}
      BY <1>1, <3>1, <3>2, StoppedMeansGone
    <3> QED
      BY <3>2, <3>3 DEF CancelInv
  <2> QED
    BY <2>1, <2>2 DEF Leaving
<1> QED
  BY <1>4, <1>5

LEMMA StepCancelInv == RowInv /\ CancelInv /\ [Next]_vars => CancelInv' /\ CancelStep
<1> SUFFICES ASSUME RowInv, CancelInv, [Next]_vars PROVE CancelInv' /\ CancelStep
  OBVIOUS
<1>1. Clean' => Clean
  BY OverlapStays DEF Clean, RowInv
<1>2. CASE job[Main] \in Leaving /\ MainStopCheck
  BY <1>1, <1>2, MainCheckCancel DEF CancelInv, CancelStep, Clean
<1>3. CASE job[Main] \in Leaving /\ ~MainStopCheck
  <2>0. ~MainStep
    BY <1>3
    DEF MainStep, StartPolling, StopPolling, CancelRegistration, ReRegistration, StopCommand,
        OptEvent, Leaving
  <2>1. job'[Main] = job[Main] /\ stop'[Main].topic = stop[Main].topic
    BY <2>0, MainCallFrame DEF RowInv
  <2>2. CASE Clean /\ PollAlive = {}
    <3>1. PollAlive' = {} /\ (EventAlive = {} => EventAlive' = {})
      BY <1>3, <2>2, NothingStarts DEF RowInv, Leaving
    <3> QED
      BY <1>1, <1>3, <2>1, <2>2, <3>1 DEF CancelInv, CancelStep, Leaving
  <2>3. CASE ~(Clean /\ PollAlive = {})
    BY <1>1, <1>3, <2>1, <2>3 DEF CancelInv, CancelStep, Leaving
  <2> QED
    BY <2>2, <2>3
<1>4. CASE job[Main] \notin Leaving
  <2>1. ASSUME job'[Main] \in Leaving PROVE stop'[Main].topic = "POLL"
    <3>1. MainStep
      BY <1>4, <2>1, MainCallFrame DEF RowInv
    <3>2. CASE UNCHANGED job
      BY <1>4, <2>1, <3>2
    <3>3. CASE job' = [job EXCEPT ![Main] = "none"] \/ job' = [job EXCEPT ![Main] = "optevent"]
      BY <2>1, <3>3, CallerNames DEF RowInv, TypeInv, TypeOK, CallsOK, Leaving
    <3>4. CASE BeginStop(Main, "POLL")
      BY <3>4, CallerNames DEF BeginStop, Idle, RowInv, TypeInv, TypeOK, CallsOK
    <3> QED
      BY <3>1, <3>2, <3>3, <3>4
      DEF MainStep, StartPolling, StopPolling, CancelRegistration, ReRegistration, StopCommand,
          OptEvent, MainStopCheck, Finish, callVars
  <2> QED
    BY <1>4, <2>1 DEF CancelInv, CancelStep
<1> QED
  BY <1>2, <1>3, <1>4

\* A CancelRegistration or ReRegistration that answers "ok" leaves no poll, event or
\* signal thread running.
THEOREM CancelIsComplete == Spec => CancelLeavesNothing
<1>1. Init => RowInv /\ CancelInv
  BY InitRowInv, InitCancelInv
<1>2. (RowInv /\ CancelInv) /\ [Next]_vars => (RowInv /\ CancelInv)'
  BY StepRowInv, StepCancelInv
<1>3. RowInv /\ CancelInv /\ [Next]_vars => CancelStep
  BY StepCancelInv
<1>4. Spec => [][CancelStep]_vars
  BY <1>1, <1>2, <1>3, PTL DEF Spec
<1> QED
  BY <1>4 DEF CancelLeavesNothing


-----------------------------------------------------------------------------
(* While nobody stops signals, a shed is owned                             *)

\* No command, no message and no override stops the signals, and every shed has an end.
NobodyStopsSignals ==
  /\ Commands \subseteq {"startpolling", "stoppolling"}
  /\ Messages \subseteq {"distribute"}
  /\ ~UseOverride
  /\ "openshed" \notin Kinds

CallsQuiet ==
  /\ flag \in {"ok", "error", "startpolling", "stoppolling"}
  /\ job[Main] \in {"none", "stoppolling"}
  /\ job[Override] = "none"
  /\ \A p \in Poll : job[p] \in {"none", "distribute"}
  /\ \A c \in Callers : stop[c].topic # "SIGNAL"

\* A thread that has shed last and still has its release before it.
Shedding(s) == spc[s] \in {"check", "blocked", "send", "release"} /\ last[s] = "shed"

ShedInv == sgd = "shed" => \E s \in Signal : Shedding(s)

LEMMA InitShed == Init => CallsQuiet /\ ShedInv
BY CallerNames DEF Init, CallsQuiet, ShedInv, Idle

LEMMA PollQuiet ==
  ASSUME NobodyStopsSignals, TypeInv, CallsQuiet, NEW p \in Poll, PollStep(p)
  PROVE  CallsQuiet' /\ UNCHANGED <<spc, last, sgd>>
<1> USE DEF CallsQuiet, TypeInv, TypeOK, CallsOK
<1>1. p \in Callers /\ p # Main /\ p # Override /\ job[p] \in {"none", "distribute"}
  BY CallerNames
<1>2. \A topic : BeginStop(p, topic) => /\ stop'[p].topic = topic
                                        /\ \A c \in Callers \ {p} : stop'[c] = stop[c]
  BY <1>1 DEF BeginStop, Idle
<1>3. CASE PollRegister(p) \/ PollWait(p) \/ PollTimeout(p) \/ PollNothing(p) \/ PollFin(p)
  BY <1>3 DEF PollRegister, PollWait, PollTimeout, PollNothing, PollFin, pollLocal,
              callVars, signalVars
<1>4. CASE PollDistribute(p)
  <2>1. job' = [job EXCEPT ![p] = "distribute"] /\ BeginStop(p, "EVENT")
        /\ UNCHANGED <<flag, spc, last, sgd>>
    BY <1>4 DEF PollDistribute, NobodyStopsSignals, pollLocal, signalVars
  <2> QED
    BY <1>1, <1>2, <2>1
<1>5. CASE PollStopReturned(p)
  BY <1>1, <1>5 DEF PollStopReturned, pollLocal, signalVars, Idle
<1>6. CASE PollSchedule(p)
  BY <1>1, <1>6 DEF PollSchedule, signalVars
<1>7. ~PollLeave(p) /\ ~PollStopSignals(p) /\ ~PollLeaveCheck(p)
  BY <1>1 DEF PollLeave, PollStopSignals, PollLeaveCheck, NobodyStopsSignals
<1> QED
  BY <1>3, <1>4, <1>5, <1>6, <1>7 DEF PollStep

LEMMA CommandQuiet ==
  ASSUME NobodyStopsSignals, TypeInv, CallsQuiet,
         MainStep \/ OverrideStep \/ \E cmd \in Commands : HmiRequest(cmd),
         stop[Override].at = "idle"
  PROVE  CallsQuiet' /\ UNCHANGED <<spc, last, sgd>>
<1> USE DEF CallsQuiet, TypeInv, TypeOK, CallsOK
<1>1. Main \in Callers /\ Main \notin Poll /\ Main # Override
  BY CallerNames
<1>2. ASSUME NEW cmd \in Commands, HmiRequest(cmd)
      PROVE  CallsQuiet' /\ UNCHANGED <<spc, last, sgd>>
  BY <1>2 DEF HmiRequest, NobodyStopsSignals, mainLocal, callVars
<1>3. CASE StartPolling
  BY <1>3 DEF StartPolling, mainLocal, callVars
<1>4. CASE StopPolling
  <2>1. UNCHANGED <<spc, last, sgd>>
    BY <1>4 DEF StopPolling, StopCommand, mainLocal
  <2>2. CASE job' = [job EXCEPT ![Main] = "stoppolling"] /\ BeginStop(Main, "POLL")
             /\ UNCHANGED flag
    <3>1. stop'[Main].topic = "POLL" /\ \A c \in Callers \ {Main} : stop'[c] = stop[c]
      BY <1>1, <2>2 DEF BeginStop, Idle
    <3>2. job'[Main] = "stoppolling" /\ \A c \in Callers \ {Main} : job'[c] = job[c]
      BY <1>1, <2>2
    <3> QED
      BY <1>1, <2>1, <2>2, <3>1, <3>2, CallerNames
  <2>3. CASE flag' = "error" /\ UNCHANGED callVars
    BY <2>1, <2>3 DEF callVars
  <2> QED
    BY <1>4, <2>2, <2>3 DEF StopPolling, StopCommand
<1>5. ~CancelRegistration /\ ~ReRegistration /\ ~OptEvent
  BY DEF CancelRegistration, ReRegistration, OptEvent, StopCommand
<1>6. CASE MainStopCheck
  <2>1. job[Main] \notin Leaving
    BY DEF Leaving
  <2>2. /\ stop' = [stop EXCEPT ![Main] = Idle]
        /\ job' = [job EXCEPT ![Main] = "none"] /\ flag' \in {"ok", "error"}
        /\ UNCHANGED <<spc, last, sgd>>
    BY <1>6, <2>1 DEF MainStopCheck, Finish, mainLocal
  <2> QED
    BY <1>1, <2>2 DEF Idle
<1>7. ~OverrideStep
  BY DEF OverrideStep, OverrideOn, OverrideOff, OverrideStopCheck, NobodyStopsSignals
<1> QED
  BY <1>2, <1>3, <1>4, <1>5, <1>6, <1>7 DEF MainStep

\* What the threads of the signals send: a kind that sheds becomes the last one, and any
\* other one, after a shed, ends it.
LEMMA SignalShed ==
  ASSUME NobodyStopsSignals, TypeInv, ShedInv, notifier # "SIGNAL",
         NEW s \in Signal, SignalStep(s)
  PROVE  ShedInv'
<1> USE DEF TypeInv, TypeOK, ThreadsOK, SignalsOK
<1>1. ASSUME UNCHANGED <<sgd, last>>, spc[s] \notin {"check", "blocked", "send", "release"},
             NEW at, SignalGoto(s, at)
      PROVE  ShedInv'
  BY <1>1 DEF ShedInv, Shedding, SignalGoto
<1>2. ASSUME UNCHANGED <<sgd, last>>, NEW at \in {"check", "blocked", "send", "release"},
             SignalGoto(s, at)
      PROVE  ShedInv'
  BY <1>2 DEF ShedInv, Shedding, SignalGoto
<1>3. CASE SignalWait(s)
  BY <1>2, <1>3 DEF SignalWait, signalVars
<1>4. CASE SignalTimeout(s)
  <2>1. PICK at \in {"send", "release"} : SignalGoto(s, at)
    BY <1>4 DEF SignalTimeout
  <2> QED
    BY <1>2, <1>4, <2>1 DEF SignalTimeout, signalVars
<1>5. CASE SignalSend(s)
  <2>1. PICK kind \in Kinds :
          /\ last' = [last EXCEPT ![s] = kind]
          /\ sgd' = CASE kind # "other"                       -> "shed"
                      [] kind = "other" /\ last[s] = "shed" -> "normal"
                      [] OTHER                                -> sgd
    BY <1>5 DEF SignalSend
  <2>2. kind \in {"shed", "other"}
    BY ConstantsAssumption DEF NobodyStopsSignals, MessageKinds
  <2>3. spc' = [spc EXCEPT ![s] = "check"]
    BY <1>5 DEF SignalSend, SignalGoto
  <2>4. CASE kind = "shed"
    <3>1. last'[s] = "shed" /\ spc'[s] = "check"
      BY <2>1, <2>3, <2>4
    <3> QED
      BY <3>1 DEF ShedInv, Shedding
  <2>5. CASE kind = "other" /\ last[s] = "shed"
    <3>1. sgd' = "normal"
      BY <2>1, <2>5
    <3> QED
      BY <3>1 DEF ShedInv
  <2>6. CASE kind = "other" /\ last[s] # "shed"
    <3>1. sgd' = sgd
      BY <2>1, <2>6
    <3>2. \A t \in Signal : Shedding(t) => t # s /\ Shedding(t)'
      BY <2>1, <2>3, <2>6 DEF Shedding
    <3> QED
      BY <3>1, <3>2 DEF ShedInv
  <2> QED
    BY <2>2, <2>4, <2>5, <2>6
<1>6. CASE SignalRelease(s)
  <2>1. /\ sgd' = (IF last[s] = "shed" THEN "normal" ELSE sgd) /\ last' = last
        /\ spc' = [spc EXCEPT ![s] = "leave"]
    BY <1>6 DEF SignalRelease, SignalGoto
  <2> QED
    BY <2>1 DEF ShedInv, Shedding
<1>7. CASE SignalReadCount(s)
  BY <1>1, <1>7 DEF SignalReadCount
<1>8. CASE SignalWriteCount(s)
  <2>1. /\ spc[s] = "counting" /\ spc' = [spc EXCEPT ![s] = "done"] /\ sgd' = sgd
        /\ last' = [last EXCEPT ![s] = "other"]
    BY <1>8 DEF SignalWriteCount, SignalGoto
  <2> QED
    BY <2>1 DEF ShedInv, Shedding
<1> QED
  BY <1>3, <1>4, <1>5, <1>6, <1>7, <1>8 DEF SignalStep

\* New signals are threads that were not used before, and none of them has shed.
LEMMA EventShed ==
  ASSUME TypeInv, ShedInv, NEW e \in Event, EventStep(e)
  PROVE  ShedInv'
<1> USE DEF TypeInv, TypeOK, ThreadsOK, SignalsOK
<1>1. UNCHANGED <<sgd, last>>
  BY DEF EventStep, EventRegister, EventWait, EventTimeout, EventSkip, EventGo,
         LaunchSignals, SpawnSignal, RecordSignal, Launched, EventFin, signalVars
<1>2. ASSUME \A s \in Signal : Shedding(s) => Shedding(s)'
      PROVE  ShedInv'
  BY <1>1, <1>2 DEF ShedInv
<1>3. CASE LaunchSignals(e)
  <2>1. PICK first \in FirstUnused(spc, Signal), n \in 1..MaxBatch :
          spc' = [s \in Signal |-> IF s \in first..(first + n - 1) THEN "queued" ELSE spc[s]]
    BY <1>3 DEF LaunchSignals
  <2>2. \A s \in Signal : spc[s] = "none" <=> s >= first
    BY DEF FirstUnused
  <2>3. \A s \in Signal : s \in first..(first + n - 1) => s >= first
    BY <2>1 DEF FirstUnused, Signal
  <2>4. \A s \in Signal : Shedding(s) => Shedding(s)'
    BY <1>1, <2>1, <2>2, <2>3 DEF Shedding
  <2> QED
    BY <1>2, <2>4
<1>4. CASE SpawnSignal(e)
  <2>1. \E s : spc' = [spc EXCEPT ![s] = "check"]
    BY <1>4 DEF SpawnSignal
  <2>2. \A s \in Signal : Shedding(s) => Shedding(s)'
    BY <1>1, <2>1 DEF Shedding
  <2> QED
    BY <1>2, <2>2
<1>5. CASE UNCHANGED spc
  BY <1>1, <1>2, <1>5 DEF Shedding
<1> QED
  BY <1>3, <1>4, <1>5 DEF EventStep, EventRegister, EventWait, EventTimeout, EventSkip,
     EventGo, RecordSignal, Launched, EventFin

LEMMA WaitNotifierShed ==
  ASSUME TypeInv, CallsQuiet, ShedInv, NEW c \in Callers, WaitNotifier(c)
  PROVE  CallsQuiet' /\ ShedInv'
<1>1. stop[c].topic # "SIGNAL"
  BY DEF CallsQuiet
<1>2. CallsQuiet'
  <2>1. stop'[c].topic = stop[c].topic /\ job' = job
        /\ \A d \in Callers \ {c} : stop'[d] = stop[d]
    BY WaitNotifierStays
  <2>2. flag' = flag
    BY DEF WaitNotifier, FirstStatus, NotifyThread, NotifySignal, SignalsNotified,
           StopEndShed, NextRound, ResetNotifier
  <2> QED
    BY <2>1, <2>2 DEF CallsQuiet
<1>3. CASE ~StopEndShed(c)
  <2>1. UNCHANGED <<spc, sgd, last>>
    BY <1>1, <1>3 DEF WaitNotifier, FirstStatus, NotifyThread, NotifySignal,
       SignalsNotified, NextRound, ResetNotifier, threadVars, signalVars
  <2> QED
    BY <1>2, <2>1 DEF ShedInv, Shedding
<1>4. CASE StopEndShed(c)
  BY <1>2, <1>4 DEF StopEndShed, ShedInv
<1> QED
  BY <1>3, <1>4

LEMMA StepShed ==
  ASSUME NobodyStopsSignals
  PROVE  TypeInv /\ NotifyInv /\ CallsQuiet /\ ShedInv /\ [Next]_vars => CallsQuiet' /\ ShedInv'
<1> SUFFICES ASSUME TypeInv, NotifyInv, CallsQuiet, ShedInv, [Next]_vars
             PROVE  CallsQuiet' /\ ShedInv'
  OBVIOUS
<1>1. notifier # "SIGNAL"
  BY DEF NotifyInv, NotifierOwned, CallsQuiet
<1>2. stop[Override].at = "idle"
  BY DEF NotifyInv, CallsMatch, CallsQuiet
<1>3. ASSUME UNCHANGED <<spc, last, sgd>>
      PROVE  ShedInv'
  BY <1>3 DEF ShedInv, Shedding
<1>4. ASSUME UNCHANGED <<stop, job, flag>>
      PROVE  CallsQuiet'
  BY <1>4 DEF CallsQuiet
<1>5. CASE UNCHANGED vars
  BY <1>3, <1>4, <1>5 DEF vars, threadVars, signalVars, callVars
<1>6. ASSUME NEW e \in Event, EventStep(e)
      PROVE  CallsQuiet' /\ ShedInv'
  <2>1. UNCHANGED <<stop, job, flag>>
    BY <1>6 DEF EventStep, EventRegister, EventWait, EventTimeout, EventSkip, EventGo,
       LaunchSignals, SpawnSignal, RecordSignal, Launched, EventFin, eventLocal, callVars
  <2> QED
    BY <1>4, <1>6, <2>1, EventShed
<1>7. ASSUME NEW s \in Signal, SignalStep(s)
      PROVE  CallsQuiet' /\ ShedInv'
  <2>1. UNCHANGED <<stop, job, flag>>
    BY <1>7 DEF SignalStep, SignalWait, SignalTimeout, SignalSend, SignalRelease,
       SignalReadCount, SignalWriteCount, signalLocal, callVars
  <2> QED
    BY <1>1, <1>4, <1>7, <2>1, SignalShed
<1>8. ASSUME NEW p \in Poll, PollStep(p)
      PROVE  CallsQuiet' /\ ShedInv'
  BY <1>3, <1>8, PollQuiet
<1>9. ASSUME MainStep \/ OverrideStep \/ \E cmd \in Commands : HmiRequest(cmd)
      PROVE  CallsQuiet' /\ ShedInv'
  BY <1>2, <1>3, <1>9, CommandQuiet
<1> QED
  BY <1>5, <1>6, <1>7, <1>8, <1>9, WaitNotifierShed DEF Next

\* While nobody stops signals, an appliance that sheds has a signal thread that shed last
\* and that will release it after its last interval (SignalHandler.cpp:90), however many
\* events and signals overlap, polling is stopped and reads are disturbed.
THEOREM ShedIsOwned ==
  ASSUME NobodyStopsSignals
  PROVE  Spec => []ShedOwned
<1> DEFINE Inv == TypeInv /\ NotifyInv /\ CallsQuiet /\ ShedInv
<1>1. Init => Inv
  BY InitTypeInv, InitNotifyInv, InitShed
<1>2. Inv /\ [Next]_vars => Inv'
  BY StepTypeInv, StepNotifyInv, StepShed
<1>3. Inv => ShedOwned
  BY DEF ShedInv, Shedding, ShedOwned, SignalAlive, Unstarted
<1> QED
  BY <1>1, <1>2, <1>3, PTL DEF Spec

=============================================================================
