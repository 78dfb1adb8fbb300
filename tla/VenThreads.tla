----------------------------- MODULE VenThreads -----------------------------
(***************************************************************************)
(* The worker threads of the VEN manager and the protocol that stops them. *)
(*                                                                         *)
(* A worker (poll, event, signal) waits on a condition variable with the   *)
(* predicate "notifier names my service".  VENManager::waitNotifier stops  *)
(* a service: it writes the service into the one global notifier string,   *)
(* notifies, re-reads the service's row of threadstatus.db and retries a   *)
(* bounded number of times, then writes "RESET".  It is called, with no    *)
(* lock, by the main thread (HMI commands), by the poll thread (messages   *)
(* of the VTN) and by the customer override thread.                        *)
(*                                                                         *)
(* Time is abstract: a sleep is no step, a timed wait may time out         *)
(* whenever it is blocked.  The report and log threads follow the same     *)
(* protocol and are not part of this module.                               *)
(***************************************************************************)
EXTENDS Integers, FiniteSets

CONSTANTS
  Commands,      \* the HMI commands issued, a subset of HmiCommands
  Messages,      \* the messages of the VTN, a subset of VtnMessages
  UseOverride,   \* whether the customer override thread sees overrides
  NumPolls,      \* bound: poll threads a behaviour starts
  NumEvents,     \* bound: event threads a behaviour starts
  NumSignals,    \* bound: signal threads a behaviour starts
  MaxBatch,      \* bound: signals of one event
  MaxIntervals,  \* bound: intervals of one signal
  MaxSignal,     \* maxsignal, the size of the array cv_signal
  Retries,       \* count in waitNotifier, 3
  Kinds,         \* the kinds of message the intervals carry
  PromptStart,   \* a spawned thread registers before anybody reads its row
  ReadRace       \* a read of threadstatus.db may be emptied by a concurrent one

HmiCommands == {"startpolling", "stoppolling", "cancelreg", "rereg", "optevent"}

\* oadrDistributeEvent, one that drops or moves an active event, and the two that
\* end the registration.
VtnMessages == {"distribute", "reschedule", "leave"}

\* "shed": SIMPLE 1..3 or LOAD_DISPATCH, followed by END_SHED when it is over;
\* "openshed": the same with a zero duration, which no END_SHED follows.
MessageKinds == {"shed", "openshed", "other"}

ASSUME ConstantsAssumption ==
  /\ Commands \subseteq HmiCommands
  /\ Messages \subseteq VtnMessages
  /\ Kinds \subseteq MessageKinds
  /\ {UseOverride, PromptStart, ReadRace} \subseteq BOOLEAN
  /\ {NumPolls, NumEvents, NumSignals} \subseteq Nat
  /\ {MaxBatch, MaxIntervals, MaxSignal, Retries} \subseteq Nat \ {0}

VARIABLES
  notifier,   \* the global string every waiting thread compares with its service
  status,     \* the row of threadstatus.db
  ppc,        \* program counters of the poll threads,
  epc,        \*   of the event threads,
  spc,        \*   and of the signal threads
  batch,      \* per event thread: the signals it launched and those still to spawn
  rowDue,     \* per event thread: the spawned signal not yet in signaldetails, or 0
  slot,       \* per signal thread: the index of its condition variable
  ivl,        \* per signal thread: the intervals still to send
  last,       \* per signal thread: the kind of the last message it sent
  val,        \* per signal thread: the counter it read before decrementing it
  rows,       \* the signal threads recorded in signaldetails.db
  sgd,        \* what the appliance was last told: "shed" or "normal"
  stop,       \* per caller: its activation of waitNotifier
  job,        \* per caller: the handler that called waitNotifier
  flag,       \* the flag of hmivenflag: a command, "ok" (0) or "error" (9)
  override,   \* customeroverride of hmiparam
  overlap     \* history: the service had a thread started while another one lived

threadVars == <<ppc, epc, spc>>
signalVars == <<slot, ivl, last, val, rows, sgd>>
batchVars  == <<batch, rowDue>>
callVars   == <<stop, job>>
vars == <<notifier, status, threadVars, signalVars, batchVars, callVars,
          flag, override, overlap>>

Services == {"POLL", "EVENT", "SIGNAL"}
Poll   == 1..NumPolls
Event  == 1..NumEvents
Signal == 1..NumSignals

Main     == 0
Override == -1
Callers  == {Main, Override} \cup Poll

Forever == -1   \* count * threadVal as an unsigned int when threadVal is negative

-----------------------------------------------------------------------------
(* Threads of a service                                                    *)

Unstarted == {"none", "done"}
PollAlive   == {p \in Poll : ppc[p] \notin Unstarted}
EventAlive  == {e \in Event : epc[e] \notin Unstarted}
\* Signals that are counted in signalthread and have not decremented it.
SignalAlive == {s \in Signal : spc[s] \notin Unstarted}

Registered(pc, ids) == {t \in ids : pc[t] \notin Unstarted \cup {"spawned"}}

\* The first thread number not used yet; none when the bound is reached.
FirstUnused(pc, ids) == {t \in ids : \A u \in ids : pc[u] = "none" <=> u >= t}

AllStarted ==
  /\ \A p \in Poll : ppc[p] # "spawned"
  /\ \A e \in Event : epc[e] # "spawned"

(* VENManager::getThreadStatus over sqliteDBreadInt: the values it may     *)
(* return.  0 is also what it returns when another read of any table       *)
(* clears the shared result map.                                           *)
StatusReads(svc) ==
  {v \in {0, status[svc]} :
      /\ PromptStart => AllStarted
      /\ ReadRace \/ v = status[svc]}

-----------------------------------------------------------------------------
(* VENManager::waitNotifier, one activation per caller                     *)

Idle == [topic |-> "POLL", at |-> "idle", left |-> {}, budget |-> 0, rounds |-> 0]

BeginStop(c, topic) ==
  stop' = [stop EXCEPT ![c] = [Idle EXCEPT !.topic = topic, !.at = "begin"]]

Advance(c, at) == stop' = [stop EXCEPT ![c] = [@ EXCEPT !.at = at]]

\* One pass over the threads of the topic, threadVal of which are to be notified.
Pass(c, at, threadVal, rounds) ==
  stop' = [stop EXCEPT ![c] = [@ EXCEPT !.at = at, !.left = rows,
                                        !.budget = threadVal, !.rounds = rounds]]

\* count = count * threadVal in an unsigned int: a negative threadVal wraps around
\* to more rounds than the program can live through.
Rounds(threadVal) == IF threadVal >= 0 THEN Retries * threadVal ELSE Forever

\* if(threadVal): a stopped service is not notified, only RESET is written.
FirstStatus(c) ==
  /\ stop[c].at = "begin"
  /\ \E v \in StatusReads(stop[c].topic) :
        IF v = 0 THEN Advance(c, "reset") ELSE Pass(c, "first", v, 0)
  /\ UNCHANGED <<notifier, status, threadVars, signalVars, batchVars, job,
                 flag, override, overlap>>

\* What follows the notifications: END_SHED after the first pass over signals only.
AfterPass(c) ==
  CASE stop[c].at = "again"                           -> "retried"
    [] stop[c].at = "first" /\ stop[c].topic = "SIGNAL" -> "endshed"
    [] OTHER                                           -> "status"

\* strcpy(notifier, ...) and notify_all on the one waiting thread of a service.
NotifyThread(c) ==
  /\ stop[c].at \in {"first", "again"}
  /\ stop[c].topic # "SIGNAL"
  /\ notifier' = stop[c].topic
  /\ ppc' = [p \in Poll |-> IF stop[c].topic = "POLL" /\ ppc[p] = "blocked"
                              THEN "check" ELSE ppc[p]]
  /\ epc' = [e \in Event |-> IF stop[c].topic = "EVENT" /\ epc[e] = "blocked"
                               THEN "check" ELSE epc[e]]
  /\ Advance(c, AfterPass(c))
  /\ UNCHANGED <<status, spc, signalVars, batchVars, job, flag, override, overlap>>

\* while(threadVal-- && iItr != end()): the recorded signals, one by one.
NotifySignal(c) ==
  /\ stop[c].at \in {"first", "again"}
  /\ stop[c].topic = "SIGNAL"
  /\ stop[c].budget # 0
  /\ \E s \in stop[c].left :
        /\ notifier' = "SIGNAL"
        /\ spc' = [t \in Signal |-> IF spc[t] = "blocked" /\ slot[t] = slot[s]
                                      THEN "check" ELSE spc[t]]
        /\ stop' = [stop EXCEPT ![c].left = @ \ {s}, ![c].budget = @ - 1]
  /\ UNCHANGED <<status, ppc, epc, signalVars, batchVars, job, flag, override,
                 overlap>>

SignalsNotified(c) ==
  /\ stop[c].at \in {"first", "again"}
  /\ stop[c].topic = "SIGNAL"
  /\ stop[c].budget = 0 \/ stop[c].left = {}
  /\ Advance(c, AfterPass(c))
  /\ UNCHANGED <<notifier, status, threadVars, signalVars, batchVars, job, flag,
                 override, overlap>>

StopEndShed(c) ==
  /\ stop[c].at = "endshed"
  /\ sgd' = "normal"
  /\ Advance(c, "status")
  /\ UNCHANGED <<notifier, status, threadVars, slot, ivl, last, val, rows,
                 batchVars, job, flag, override, overlap>>

\* Mutant: while(threadVal) without the count of rounds.
NextRoundForever(c) ==
  /\ stop[c].at \in {"status", "retried"}
  /\ \E v \in StatusReads(stop[c].topic) :
       IF v = 0 THEN Advance(c, "reset") ELSE Pass(c, "again", v, Forever)
  /\ UNCHANGED <<notifier, status, threadVars, signalVars, batchVars, job, flag,
                 override, overlap>>

\* The status is read again after every pass; count is set after the first one.
NextRound(c) ==
  /\ stop[c].at \in {"status", "retried"}
  /\ \E v \in StatusReads(stop[c].topic) :
       LET rounds == IF stop[c].at = "status" THEN Rounds(v) ELSE stop[c].rounds
       IN IF v = 0 \/ rounds = 0
            THEN Advance(c, "reset")
            ELSE Pass(c, "again", v, IF rounds = Forever THEN Forever ELSE rounds - 1)
  /\ UNCHANGED <<notifier, status, threadVars, signalVars, batchVars, job, flag,
                 override, overlap>>

\* Mutant: returns without strcpy(notifier, "RESET").
ReturnWithoutReset(c) ==
  /\ stop[c].at = "reset"
  /\ Advance(c, "returned")
  /\ UNCHANGED <<notifier, status, threadVars, signalVars, batchVars, job, flag,
                 override, overlap>>

ResetNotifier(c) ==
  /\ stop[c].at = "reset"
  /\ notifier' = "RESET"
  /\ Advance(c, "returned")
  /\ UNCHANGED <<status, threadVars, signalVars, batchVars, job, flag, override,
                 overlap>>

WaitNotifier(c) ==
  \/ FirstStatus(c)
  \/ NotifyThread(c)
  \/ NotifySignal(c)
  \/ SignalsNotified(c)
  \/ StopEndShed(c)
  \/ NextRound(c)
  \/ ResetNotifier(c)

-----------------------------------------------------------------------------
(* Init: Main.cpp up to its loop, sqliteInitialise sets every row to 0     *)

Init ==
  /\ notifier = "RESET"
  /\ status = [svc \in Services |-> 0]
  /\ ppc = [p \in Poll |-> "none"]
  /\ epc = [e \in Event |-> "none"]
  /\ spc = [s \in Signal |-> "none"]
  /\ batch = [e \in Event |-> [first |-> 1, next |-> 1, size |-> 0]]
  /\ rowDue = [e \in Event |-> 0]
  /\ slot = [s \in Signal |-> 0]
  /\ ivl = [s \in Signal |-> 0]
  /\ last = [s \in Signal |-> "other"]
  /\ val = [s \in Signal |-> 0]
  /\ rows = {}
  /\ sgd = "normal"
  /\ stop = [c \in Callers |-> Idle]
  /\ job = [c \in Callers |-> "none"]
  /\ flag = "ok"
  /\ override = FALSE
  /\ overlap = [svc \in Services |-> FALSE]

SetStatus(svc, v) == status' = [status EXCEPT ![svc] = v]
MarkOverlap(svc, alive) == overlap' = [overlap EXCEPT ![svc] = @ \/ alive # {}]

-----------------------------------------------------------------------------
(* The poll thread: pollHandler::startPolling                              *)

PollGoto(p, at) == ppc' = [ppc EXCEPT ![p] = at]

pollLocal == <<epc, spc, signalVars, batchVars, flag, override, overlap>>

PollRegister(p) ==
  /\ ppc[p] = "spawned"
  /\ PollGoto(p, "check")
  /\ SetStatus("POLL", 1)
  /\ UNCHANGED <<notifier, callVars, pollLocal>>

\* wait_until tests the predicate, blocks, and tests it again when it times out.
PollWait(p) ==
  /\ ppc[p] = "check"
  /\ PollGoto(p, IF notifier = "POLL" THEN "fin" ELSE "blocked")
  /\ UNCHANGED <<notifier, status, callVars, pollLocal>>

PollTimeout(p) ==
  /\ ppc[p] = "blocked"
  /\ PollGoto(p, IF notifier = "POLL" THEN "fin" ELSE "polling")
  /\ UNCHANGED <<notifier, status, callVars, pollLocal>>

\* No message, an oadrResponse, a message without effect on threads, CurlException.
PollNothing(p) ==
  /\ ppc[p] = "polling"
  /\ PollGoto(p, "check")
  /\ UNCHANGED <<notifier, status, callVars, pollLocal>>

\* oadrDistributeEvent: stop the event thread before rescheduling.
PollDistribute(p) ==
  /\ ppc[p] = "polling"
  /\ PollGoto(p, "busy")
  /\ BeginStop(p, "EVENT")
  /\ \E m \in Messages \cap {"distribute", "reschedule"} : job' = [job EXCEPT ![p] = m]
  /\ UNCHANGED <<notifier, status, pollLocal>>

\* oadrRequestReregistration and oadrCancelPartyRegistration.
PollLeave(p) ==
  /\ ppc[p] = "polling"
  /\ "leave" \in Messages
  /\ PollGoto(p, "busy")
  /\ BeginStop(p, "EVENT")
  /\ job' = [job EXCEPT ![p] = "leave"]
  /\ UNCHANGED <<notifier, status, pollLocal>>

\* The status is not looked at after waitNotifier: scheduling goes on regardless.
PollStopReturned(p) ==
  /\ stop[p].at = "returned"
  /\ job[p] \in {"distribute", "reschedule"}
  /\ stop' = [stop EXCEPT ![p] = Idle]
  /\ PollGoto(p, "validate")
  /\ UNCHANGED <<notifier, status, job, pollLocal>>

\* validateEvent or the implied cancel drops or moves an active event: its signals
\* are stopped (once per message here).
PollStopSignals(p) ==
  /\ ppc[p] = "validate"
  /\ job[p] = "reschedule"
  /\ PollGoto(p, "busy")
  /\ BeginStop(p, "SIGNAL")
  /\ job' = [job EXCEPT ![p] = "distribute"]
  /\ UNCHANGED <<notifier, status, pollLocal>>

\* The end of eventSchedular: a new event thread if any event is valid.
PollSchedule(p) ==
  /\ ppc[p] = "validate"
  /\ job[p] = "distribute"
  /\ PollGoto(p, "check")
  /\ job' = [job EXCEPT ![p] = "none"]
  /\ \/ UNCHANGED <<epc, overlap>>
     \/ \E e \in FirstUnused(epc, Event) :
          /\ epc' = [epc EXCEPT ![e] = "spawned"]
          /\ MarkOverlap("EVENT", EventAlive)
  /\ UNCHANGED <<notifier, status, spc, signalVars, batchVars, stop, flag, override>>

\* Between the stops of a leave the status decides; both outcomes end the thread.
PollLeaveCheck(p) ==
  /\ stop[p].at = "returned"
  /\ job[p] = "leave"
  /\ \E v \in StatusReads(stop[p].topic) :
       IF v = 0 /\ stop[p].topic = "EVENT"
         THEN BeginStop(p, "SIGNAL") /\ UNCHANGED <<ppc, job, rows>>
         ELSE /\ stop' = [stop EXCEPT ![p] = Idle]
              /\ job' = [job EXCEPT ![p] = "none"]
              /\ PollGoto(p, "fin")
              /\ rows' = IF v = 0 THEN {} ELSE rows
  /\ UNCHANGED <<notifier, status, epc, spc, slot, ivl, last, val, sgd, batchVars,
                 flag, override, overlap>>

PollFin(p) ==
  /\ ppc[p] = "fin"
  /\ PollGoto(p, "done")
  /\ SetStatus("POLL", 0)
  /\ UNCHANGED <<notifier, callVars, pollLocal>>

PollStep(p) ==
  \/ PollRegister(p)
  \/ PollWait(p)
  \/ PollTimeout(p)
  \/ PollNothing(p)
  \/ PollDistribute(p)
  \/ PollLeave(p)
  \/ PollStopReturned(p)
  \/ PollStopSignals(p)
  \/ PollSchedule(p)
  \/ PollLeaveCheck(p)
  \/ PollFin(p)

-----------------------------------------------------------------------------
(* The event thread: EventHandler::eventThread                             *)

EventGoto(e, at) == epc' = [epc EXCEPT ![e] = at]

eventLocal == <<notifier, ppc, callVars, flag, override>>

\* An event that is active already is passed over.
EventRegister(e) ==
  /\ epc[e] = "spawned"
  /\ \E at \in {"check", "fin"} : EventGoto(e, at)
  /\ SetStatus("EVENT", 1)
  /\ UNCHANGED <<eventLocal, spc, signalVars, batchVars, overlap>>

EventWait(e) ==
  /\ epc[e] = "check"
  /\ EventGoto(e, IF notifier = "EVENT" THEN "fin" ELSE "blocked")
  /\ UNCHANGED <<eventLocal, status, spc, signalVars, batchVars, overlap>>

EventTimeout(e) ==
  /\ epc[e] = "blocked"
  /\ EventGoto(e, IF notifier = "EVENT" THEN "fin" ELSE "due")
  /\ UNCHANGED <<eventLocal, status, spc, signalVars, batchVars, overlap>>

\* Customer override or opt-out: the event is dropped, the loop goes on or ends.
EventSkip(e) ==
  /\ epc[e] = "due"
  /\ \E at \in {"check", "fin"} : EventGoto(e, at)
  /\ UNCHANGED <<eventLocal, status, spc, signalVars, batchVars, overlap>>

\* The override was off when it was read.
EventGo(e) ==
  /\ epc[e] = "due"
  /\ ~override \/ ReadRace
  /\ EventGoto(e, "go")
  /\ UNCHANGED <<eventLocal, status, spc, signalVars, batchVars, overlap>>

\* Mutant: signalthread is set to signalCount - 1.
LaunchOneLess(e) ==
  /\ epc[e] = "go"
  /\ \E first \in FirstUnused(spc, Signal), n \in 1..MaxBatch :
       /\ first + n - 1 <= NumSignals
       /\ SetStatus("SIGNAL", n - 1)
       /\ batch' = [batch EXCEPT ![e] = [first |-> first, next |-> first, size |-> n]]
       /\ spc' = [s \in Signal |-> IF s \in first..(first + n - 1)
                                     THEN "queued" ELSE spc[s]]
  /\ MarkOverlap("SIGNAL", SignalAlive)
  /\ rows' = {}
  /\ EventGoto(e, "launch")
  /\ UNCHANGED <<eventLocal, rowDue, slot, ivl, last, val, sgd>>

\* signalthread := number of signals, whatever it was; signaldetails starts afresh.
LaunchSignals(e) ==
  /\ epc[e] = "go"
  /\ \E first \in FirstUnused(spc, Signal), n \in 1..MaxBatch :
       /\ first + n - 1 <= NumSignals
       /\ SetStatus("SIGNAL", n)
       /\ batch' = [batch EXCEPT ![e] = [first |-> first, next |-> first, size |-> n]]
       /\ spc' = [s \in Signal |-> IF s \in first..(first + n - 1)
                                     THEN "queued" ELSE spc[s]]
  /\ MarkOverlap("SIGNAL", SignalAlive)
  /\ rows' = {}
  /\ EventGoto(e, "launch")
  /\ UNCHANGED <<eventLocal, rowDue, slot, ivl, last, val, sgd>>

\* (signalCount <= size) && (signalCount - 1 <= maxsignal)
MoreToSpawn(e) ==
  /\ batch[e].next - batch[e].first < batch[e].size
  /\ batch[e].next - batch[e].first <= MaxSignal

SpawnSignal(e) ==
  /\ epc[e] = "launch"
  /\ rowDue[e] = 0
  /\ MoreToSpawn(e)
  /\ LET s == batch[e].next IN
       /\ spc' = [spc EXCEPT ![s] = "check"]
       /\ slot' = [slot EXCEPT ![s] = s - batch[e].first]
       /\ \E n \in 1..MaxIntervals : ivl' = [ivl EXCEPT ![s] = n]
       /\ rowDue' = [rowDue EXCEPT ![e] = s]
  /\ batch' = [batch EXCEPT ![e].next = @ + 1]
  /\ UNCHANGED <<eventLocal, status, epc, last, val, rows, sgd, overlap>>

RecordSignal(e) ==
  /\ epc[e] = "launch"
  /\ rowDue[e] # 0
  /\ rows' = rows \cup {rowDue[e]}
  /\ rowDue' = [rowDue EXCEPT ![e] = 0]
  /\ UNCHANGED <<eventLocal, status, epc, spc, slot, ivl, last, val, sgd, batch,
                 overlap>>

Launched(e) ==
  /\ epc[e] = "launch"
  /\ rowDue[e] = 0
  /\ ~MoreToSpawn(e)
  /\ \E at \in {"check", "fin"} : EventGoto(e, at)
  /\ UNCHANGED <<eventLocal, status, spc, signalVars, batchVars, overlap>>

\* Mutant: the row is cleared before the thread leaves its loop for good.
EventFinStays(e) ==
  /\ epc[e] = "fin"
  /\ \E at \in {"check", "done"} : EventGoto(e, at)
  /\ SetStatus("EVENT", 0)
  /\ UNCHANGED <<eventLocal, spc, signalVars, batchVars, overlap>>

EventFin(e) ==
  /\ epc[e] = "fin"
  /\ EventGoto(e, "done")
  /\ SetStatus("EVENT", 0)
  /\ UNCHANGED <<eventLocal, spc, signalVars, batchVars, overlap>>

EventStep(e) ==
  \/ EventRegister(e)
  \/ EventWait(e)
  \/ EventTimeout(e)
  \/ EventSkip(e)
  \/ EventGo(e)
  \/ LaunchSignals(e)
  \/ SpawnSignal(e)
  \/ RecordSignal(e)
  \/ Launched(e)
  \/ EventFin(e)

-----------------------------------------------------------------------------
(* A signal thread: SignalHandler::eventSignalThread                       *)

SignalGoto(s, at) == spc' = [spc EXCEPT ![s] = at]

signalLocal == <<notifier, ppc, epc, batchVars, callVars, flag, override, overlap>>

SignalWait(s) ==
  /\ spc[s] = "check"
  /\ SignalGoto(s, IF notifier = "SIGNAL" THEN "leave" ELSE "blocked")
  /\ UNCHANGED <<signalLocal, status, signalVars>>

\* Mutant: one interval too many.
SignalOneMore(s) ==
  /\ spc[s] = "blocked"
  /\ SignalGoto(s, IF notifier = "SIGNAL" THEN "leave" ELSE "send")
  /\ UNCHANGED <<signalLocal, status, signalVars>>

\* The wait after the last interval is the one that releases the appliance.
SignalTimeout(s) ==
  /\ spc[s] = "blocked"
  /\ SignalGoto(s, CASE notifier = "SIGNAL" -> "leave"
                     [] notifier # "SIGNAL" /\ ivl[s] > 0 -> "send"
                     [] OTHER -> "release")
  /\ UNCHANGED <<signalLocal, status, signalVars>>

\* END_SHED if the previous interval shed, then the message of this interval.
SignalSend(s) ==
  /\ spc[s] = "send"
  /\ \E kind \in Kinds :
       /\ last' = [last EXCEPT ![s] = kind]
       /\ sgd' = CASE kind # "other"                       -> "shed"
                   [] kind = "other" /\ last[s] = "shed" -> "normal"
                   [] OTHER                                -> sgd
  /\ ivl' = [ivl EXCEPT ![s] = @ - 1]
  /\ SignalGoto(s, "check")
  /\ UNCHANGED <<signalLocal, status, slot, val, rows>>

\* Mutant: no END_SHED after the last interval.
SignalForgetsRelease(s) ==
  /\ spc[s] = "release"
  /\ SignalGoto(s, "leave")
  /\ UNCHANGED <<signalLocal, status, signalVars>>

SignalRelease(s) ==
  /\ spc[s] = "release"
  /\ sgd' = IF last[s] = "shed" THEN "normal" ELSE sgd
  /\ SignalGoto(s, "leave")
  /\ UNCHANGED <<signalLocal, status, slot, ivl, last, val, rows>>

\* signalthread is decremented by a read and a write that nothing ties together;
\* the thread's own variables end with it.
SignalReadCount(s) ==
  /\ spc[s] = "leave"
  /\ \E v \in StatusReads("SIGNAL") : val' = [val EXCEPT ![s] = v]
  /\ SignalGoto(s, "counting")
  /\ UNCHANGED <<signalLocal, status, slot, ivl, last, rows, sgd>>

SignalWriteCount(s) ==
  /\ spc[s] = "counting"
  /\ SetStatus("SIGNAL", val[s] - 1)
  /\ rows' = rows \ {s}
  /\ SignalGoto(s, "done")
  /\ ivl' = [ivl EXCEPT ![s] = 0]
  /\ last' = [last EXCEPT ![s] = "other"]
  /\ val' = [val EXCEPT ![s] = 0]
  /\ UNCHANGED <<signalLocal, slot, sgd>>

SignalStep(s) ==
  \/ SignalWait(s)
  \/ SignalTimeout(s)
  \/ SignalSend(s)
  \/ SignalRelease(s)
  \/ SignalReadCount(s)
  \/ SignalWriteCount(s)

-----------------------------------------------------------------------------
(* The main thread: the loop of Main.cpp and the handlers of the commands  *)

mainLocal == <<notifier, status, epc, spc, slot, ivl, last, val, sgd, batchVars,
               override>>

Finish(answer) ==
  /\ job' = [job EXCEPT ![Main] = "none"]
  /\ flag' = answer

\* The HMI writes a command once the previous one was answered (external).
HmiRequest(cmd) ==
  /\ flag \in {"ok", "error"}
  /\ cmd = "startpolling" => FirstUnused(ppc, Poll) # {}
  /\ flag' = cmd
  /\ UNCHANGED <<mainLocal, callVars, ppc, rows, overlap>>

\* Registration, when it is needed, may fail; the row decides whether to spawn.
StartPolling ==
  /\ flag = "startpolling" /\ job[Main] = "none"
  /\ \/ flag' = "error" /\ UNCHANGED <<ppc, overlap>>
     \/ \E v \in StatusReads("POLL"), p \in FirstUnused(ppc, Poll) :
          /\ v = 0
          /\ flag' = "ok"
          /\ ppc' = [ppc EXCEPT ![p] = "spawned"]
          /\ MarkOverlap("POLL", PollAlive)
  /\ UNCHANGED <<mainLocal, callVars, rows>>

\* StopPolling, and CancelRegistration and ReRegistration after the exchange with
\* the VTN, begin with the poll thread; the exchange may fail.
StopCommand(cmd) ==
  /\ flag = cmd /\ job[Main] = "none"
  /\ \/ /\ job' = [job EXCEPT ![Main] = cmd]
        /\ BeginStop(Main, "POLL")
        /\ UNCHANGED flag
     \/ /\ cmd # "stoppolling"
        /\ flag' = "error"
        /\ UNCHANGED callVars
  /\ UNCHANGED <<mainLocal, ppc, rows, overlap>>

StopPolling == StopCommand("stoppolling")
CancelRegistration == StopCommand("cancelreg")
ReRegistration == StopCommand("rereg")

\* OptEvent, and CreateOpt through updateEventsOptout: an active event is opted out
\* under a customer override only, by stopping its signals; otherwise an answer.
OptEvent ==
  /\ flag = "optevent" /\ job[Main] = "none"
  /\ \/ /\ override \/ ReadRace
        /\ job' = [job EXCEPT ![Main] = "optevent"]
        /\ BeginStop(Main, "SIGNAL")
        /\ UNCHANGED flag
     \/ /\ flag' \in {"ok", "error"}
        /\ UNCHANGED callVars
  /\ UNCHANGED <<mainLocal, ppc, rows, overlap>>

Leaving == {"cancelreg", "rereg"}

StopOrder == [POLL |-> "EVENT", EVENT |-> "SIGNAL"]

\* Mutant: the row is not read again after waitNotifier.
MainGoesOn ==
  /\ stop[Main].at = "returned"
  /\ IF job[Main] \in Leaving /\ stop[Main].topic \in DOMAIN StopOrder
       THEN BeginStop(Main, StopOrder[stop[Main].topic]) /\ UNCHANGED <<job, flag, rows>>
       ELSE /\ stop' = [stop EXCEPT ![Main] = Idle]
            /\ Finish("ok")
            /\ rows' = IF job[Main] \in Leaving THEN {} ELSE rows
  /\ UNCHANGED <<mainLocal, ppc, overlap>>

\* After each waitNotifier the row is read once more: a running service fails the
\* command; otherwise the next service is stopped, or the files are removed.
MainStopCheck ==
  /\ stop[Main].at = "returned"
  /\ \E v \in StatusReads(stop[Main].topic) :
       IF v = 0 /\ job[Main] \in Leaving /\ stop[Main].topic \in DOMAIN StopOrder
         THEN BeginStop(Main, StopOrder[stop[Main].topic]) /\ UNCHANGED <<job, flag, rows>>
         ELSE /\ stop' = [stop EXCEPT ![Main] = Idle]
              /\ Finish(IF v = 0 THEN "ok" ELSE "error")
              /\ rows' = IF v = 0 /\ job[Main] \in Leaving THEN {} ELSE rows
  /\ UNCHANGED <<mainLocal, ppc, overlap>>

MainStep ==
  \/ StartPolling
  \/ StopPolling
  \/ CancelRegistration
  \/ ReRegistration
  \/ OptEvent
  \/ MainStopCheck

-----------------------------------------------------------------------------
(* The customer override thread: CustomerOverride::getOverrideStatus       *)

overrideLocal == <<notifier, status, threadVars, signalVars, batchVars, overlap>>

OverrideOn ==
  /\ UseOverride
  /\ job[Override] = "none"
  /\ override' = TRUE
  /\ \E v \in StatusReads("SIGNAL") :
       IF v = 0
         THEN UNCHANGED callVars
         ELSE /\ job' = [job EXCEPT ![Override] = "override"]
              /\ BeginStop(Override, "SIGNAL")
  /\ UNCHANGED <<overrideLocal, flag>>

OverrideOff ==
  /\ UseOverride
  /\ job[Override] = "none"
  /\ override' = FALSE
  /\ UNCHANGED <<overrideLocal, callVars, flag>>

\* It answers on the flag of the HMI, whatever command that flag holds; deleting
\* the event from eventdetails.db may fail.
OverrideStopCheck ==
  /\ stop[Override].at = "returned"
  /\ \E v \in StatusReads("SIGNAL") :
        flag' \in IF v = 0 THEN {"ok", "error"} ELSE {"error"}
  /\ stop' = [stop EXCEPT ![Override] = Idle]
  /\ job' = [job EXCEPT ![Override] = "none"]
  /\ UNCHANGED <<overrideLocal, override>>

OverrideStep == OverrideOn \/ OverrideOff \/ OverrideStopCheck

-----------------------------------------------------------------------------

Next ==
  \/ \E cmd \in Commands : HmiRequest(cmd)
  \/ MainStep
  \/ OverrideStep
  \/ \E c \in Callers : WaitNotifier(c)
  \/ \E p \in Poll : PollStep(p)
  \/ \E e \in Event : EventStep(e)
  \/ \E s \in Signal : SignalStep(s)

Spec == Init /\ [][Next]_vars

\* Every thread that can take a step eventually does; what the HMI asks, what the
\* appliance's user does and when a wait times out is left open.
Fairness ==
  /\ WF_vars(MainStep)
  /\ WF_vars(OverrideStopCheck)
  /\ \A c \in Callers : WF_vars(WaitNotifier(c))
  /\ \A p \in Poll : WF_vars(PollRegister(p) \/ PollWait(p) \/ PollFin(p))
  /\ \A e \in Event : WF_vars(EventRegister(e) \/ EventWait(e) \/ EventFin(e))

FairSpec == Spec /\ Fairness

-----------------------------------------------------------------------------
(* Properties                                                              *)

ThreadStates == {"none", "spawned", "check", "blocked", "fin", "done"}

StopStates == {"idle", "begin", "first", "endshed", "status", "again", "retried",
               "reset", "returned"}

ThreadsOK ==
  /\ ppc \in [Poll -> ThreadStates \cup {"polling", "busy", "validate"}]
  /\ epc \in [Event -> ThreadStates \cup {"due", "go", "launch"}]
  /\ spc \in [Signal -> {"none", "queued", "check", "blocked", "send", "release",
                         "leave", "counting", "done"}]

BatchesOK ==
  /\ batch \in [Event -> [first : Nat, next : Nat, size : Nat]]
  /\ rowDue \in [Event -> {0} \cup Signal]

SignalsOK ==
  /\ slot \in [Signal -> Nat]
  /\ ivl \in [Signal -> Nat]
  /\ last \in [Signal -> MessageKinds]
  /\ val \in [Signal -> Int]
  /\ rows \subseteq Signal
  /\ sgd \in {"shed", "normal"}

StopRecords == [topic : Services, at : StopStates, left : SUBSET Signal,
                budget : Int, rounds : Nat \cup {Forever}]

CallsOK ==
  /\ stop \in [Callers -> StopRecords]
  /\ job \in [Callers -> HmiCommands \cup {"none", "distribute", "reschedule",
                                           "leave", "override"}]

SharedOK ==
  /\ notifier \in Services \cup {"RESET"}
  /\ status \in [Services -> Int]
  /\ flag \in HmiCommands \cup {"ok", "error"}
  /\ override \in BOOLEAN
  /\ overlap \in [Services -> BOOLEAN]

\* The type invariant of the manager's thread state.
TypeOK ==
  /\ ThreadsOK
  /\ BatchesOK
  /\ SignalsOK
  /\ CallsOK
  /\ SharedOK

\* A service's name stands in the notifier only while somebody is stopping that
\* service (waitNotifier, VENManager.cpp:581): a name that outlived its caller
\* would make the next thread of the service leave as soon as it waits.
NotifierOwned ==
  notifier # "RESET" =>
    \E c \in Callers : /\ stop[c].topic = notifier
                       /\ stop[c].at \notin {"idle", "begin", "returned"}

\* The row of threadstatus.db never reports a service as stopped that runs, unless
\* a second thread of the service was started while the first one lived, or a read
\* of the row was disturbed: 0 means that every registered thread has left.
StatusNotLow ==
  /\ ~overlap["POLL"] => status["POLL"] = Cardinality(Registered(ppc, Poll))
  /\ ~overlap["EVENT"] => status["EVENT"] = Cardinality(Registered(epc, Event))
  /\ ~overlap["SIGNAL"] /\ ~ReadRace => status["SIGNAL"] >= Cardinality(SignalAlive)

\* What CancelLeavesNothing says of one step.
CancelStep ==
  (job[Main] \in Leaving /\ job'[Main] = "none" /\ flag' = "ok"
     /\ PromptStart /\ ~ReadRace /\ \A svc \in Services : ~overlap[svc])
   => PollAlive = {} /\ EventAlive = {} /\ SignalAlive = {}

\* A CancelRegistration or ReRegistration that answers "ok" leaves no thread that
\* could still act for the old registration, given the same reservations.
CancelLeavesNothing == [][CancelStep]_vars

\* Every command of the HMI is answered: no stop waits for ever (VENManager.cpp:656).
HmiAnswered == \A cmd \in Commands : flag = cmd ~> flag \in {"ok", "error"}

\* While nobody stops signals, an appliance that sheds has a signal thread that will
\* end the shed (SignalHandler.cpp:90).
ShedOwned == sgd = "shed" => \E s \in SignalAlive : last[s] = "shed"

\* Nobody waits on a condition variable outside of cv_signal (Main.h: at most
\* maxsignal signal threads run at a time).
SlotInRange == \A s \in SignalAlive : slot[s] < MaxSignal

\* getThreadStatus returns the number of threads of the service
\* (VENManager.cpp:545): none when the last signal thread has left.
SignalsCounted == SignalAlive = {} => status["SIGNAL"] = 0

\* The number of threads getThreadStatus returns (VENManager.cpp:545) is a natural
\* number, whatever the events that follow each other; a negative one never becomes
\* 0 again and makes count in waitNotifier wrap around.
SignalsNotNegative == status["SIGNAL"] >= 0

\* A shed is ended (SignalHandler.cpp:90): once every signal thread has left and
\* nobody is stopping signals any more, the appliance does not shed.
ShedReleased ==
  (SignalAlive = {} /\ \A c \in Callers : stop[c].topic # "SIGNAL" \/ stop[c].at = "idle")
    => sgd = "normal"

=============================================================================
