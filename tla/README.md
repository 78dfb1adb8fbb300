# A TLA+ model of the VEN manager

The program is the VEN manager of a CEA-2045 communication module
(`src/ucm/package/venmanager/src/VENManager`, called `VENManager/` below): an OpenADR 2.0b
end node. It polls a server (the VTN) for demand-response events, starts the signals of each
event at its time, translates them to CEA-2045 messages for an appliance (the SGD) on a serial
line, reports measurements, and obeys a web page (the HMI). Everything else of the repository
is an OpenWrt tree, a message library and generated or vendored code.

The program is a handful of detached threads that share global variables and small SQLite
files, without a lock. It has no tests. Most of what can go wrong in it is an interleaving, a
stale copy of a file, or a boundary of time, and that is what the modules are about.

## Inventory

| Part | State it keeps | Operations | Talks to |
|---|---|---|---|
| Main loop and HMI commands (`Main.cpp`, `VENManager.cpp`) | `hmivenflag.flag` (a command, 0 = done, 9 = error), VEN and registration ids | one handler per command: StartPolling, StopPolling, Register, Cancel, Clear, ReRegister, OptEvent, CreateOpt, CancelOpt, log and CEA-2045 commands | all threads, by `waitNotifier`; the VTN |
| Stopping services (`VENManager::waitNotifier`, `getThreadStatus`) | global `notifier`, condition variables `cv_poll`, `cv_event`, `cv_signal[]`, `cv_report[]`, `cv_log`; `threadstatus.db` | notify, re-read the count, retry, reset | called by the main, poll and override threads |
| Poll thread (`PollHandler.cpp`) | its loop flag, the row `pollthread` | poll the VTN, dispatch its messages | events, reports, registration |
| Event scheduling (`EventHandler.cpp`) | `eventdetails.db` and seven maps read from it | `eventSchedular`, `validateEvent`, `updateEventDetails` | the VTN (createdEvent), event thread, signals |
| Event thread (`EventHandler::eventThread`) | a copy of the maps, the row `eventthread` | wait for the next start, start its signals | signal threads |
| Signal threads (`SignalHandler.cpp`) | the row `signalthread` (a count), `signaldetails.db` | send each interval, END_SHED at the end | CEA-2045 |
| Customer override thread (`CustomerOverride.cpp`) | `hmiparam.customeroverride` | reads the last log line each minute, stops the signals | `waitNotifier`, `hmivenflag` |
| Opt schedules (`VENManager.cpp`, `Opt/`) | `optoutschedules.db` | CreateOpt, CancelOpt | `eventdetails.db`, the VTN |
| Report threads (`Report/`) | `reportdetails.db`, the row `reportthread`, `cv_report[]` | create, cancel, update reports; METADATA reports stop all others | the VTN, the shared `notifier` |
| Registration (`Registration/`, `VEN2b`, `HttpCurl`) | ids in `venparam`, in the VENManager and in VEN2b; one buffer each way | register, register reports, query, cancel, clear | the VTN; main and poll thread |
| CEA-2045 (`CEA2045/cea2045lib.c`) | `txBuffer`, `rxBuffer`, pending acks, deadlines | `linkLayer`, message builders, `checkCustOverride` | the serial line; signal, log and main threads |
| Log thread (`LogThread/`) | `dplogging.csv`, the row `logthread` | asks the appliance for its state | CEA-2045 |
| SqliteDB (`SqliteDB/sqliteDB.cpp`) | the global `DBVariablemap` and map pointers | read, write, scan a table | every thread |

What makes each part correct:

* Stopping: a service that is reported as stopped has stopped; a stop reaches its own service
  only; it ends and its caller is answered; what is started later is not stopped by it.
* Events: at most one event at a time; an event is never replaced by an older version; what the
  VTN was told is what will be done; every accepted event starts; a withdrawn one ends.
* Signals: whoever makes the appliance shed releases it; the count is the number of threads.
* CEA-2045: a message is sent as built, an answer belongs to its request, an override is heard.
* Reports: each has a condition variable of its own and can be found by its id as long as it runs;
  a leave leaves none running.
* Registration: what a command reports as done is true of the VTN, of the VEN and of the rows.
* Database reads return what the row holds.

Hard to test: the order in which three callers of `waitNotifier` write one string; the
read-modify-write of the signal count; the file that is rewritten from a copy while the HMI
updates rows; the second in which an event starts; late threads; retries. `PROJECT.json` lists
each hazard with its line and the properties that would show it.

## Plan

| # | Module | Subject | State |
|---|---|---|---|
| 1 | `VenThreads` | threads of the manager and their stop protocol | checked, proved |
| 2 | `Calendar`, `EventSchedule` | what `eventdetails.db` promises; events, opt states and how the file keeps that promise | checked, refinement proved |
| 3 | `Cea2045Link` | link layer, application acks, override, the calls that wait for an answer | checked, proved |
| 4 | `RowReads`, `DbRead` | what a database read promises; the shared map and pointers of SqliteDB, which keep that promise for reads nobody overlaps | checked, refinement proved |
| 5 | `Reports` | report threads, their own `waitNotifier`, slots, cancellation, leave | checked, proved |
| 6 | `Registration` | the commands on the registration, the ids in four places, the shared HTTP handle | checked, proved |
| 7 | log thread, commands of the HMI that run one function | their place in the stop and flag protocols | left out |
| 8 | pure algorithms | checksum, price byte, power level, durations, time differences | left out |

Every safety property of the passing runs is the subject of a theorem. Worth proving next: what holds
of `Cea2045Link` with two callers, for which a weaker promise than `TrueMeansTaken` has to be found
first (Departures), and a refinement of `VenThreads` to services that start and stop at one moment.

`VenThreads` and `EventSchedule` look at the same threads from two sides and are not composed:
the first has no times and no files, the second stops a service in one step. They meet in
`waitNotifier("EVENT")`, which `VenThreads` shows may fail, and which `EventSchedule` takes to
succeed. `VenThreads` and `Cea2045Link` meet in `oadr_cea_EventMap`: a call is one step for the
first, which takes it that the message reaches the appliance; the second shows when it does. `DbRead` is
the reason for `ReadRace` in `VenThreads` and `ScanRace` in `EventSchedule`: with a thread beside it
a read may return the default, and a scan the rows of somebody else. `Reports` and `Registration`
each look at one more thing the poll and the main thread do; the poll thread's stop is one step
of `Registration`, since `VenThreads` has its steps, and the notifier of `Reports` may be overwritten
at any moment (`OthersStop`).

## Module VenThreads

State and code:

| Variable | Code |
|---|---|
| `notifier` | the global string of `VENManager.cpp`, to which every waiting thread has a pointer |
| `status` | the rows of `threadstatus.db` |
| `ppc`, `epc`, `spc` | where each poll, event and signal thread is |
| `batch`, `rowDue` | the loop of `eventThread` that starts signals (`signalCount`) |
| `slot`, `ivl`, `last`, `val` | the locals of a signal thread: condition variable, intervals left, last message, count it read |
| `rows` | `signaldetails.db` |
| `sgd` | what the appliance was last told |
| `stop`, `job` | per caller, its activation of `waitNotifier` and the handler that called it |
| `flag`, `override` | `hmivenflag.flag`, `hmiparam.customeroverride` |
| `overlap` | history: a thread of the service was started over a living one |

A condition variable is two program counter values: a thread at `"check"` tests its predicate,
one at `"blocked"` waits; a notification moves it from `"blocked"` to `"check"`, a timeout tests
the predicate once more, as `wait_until` with a predicate does. `waitNotifier` is one action per
step between two accesses of shared state (`FirstStatus`, `NotifyThread` or `NotifySignal` and
`SignalsNotified`, `StopEndShed`, `NextRound`, `ResetNotifier`), run by each of its callers. The
decrement of the signal count is two actions, `SignalReadCount` and `SignalWriteCount`.

What is abstract: sleeps are not steps and a blocked wait may time out at any moment, so every
order of events that some timing allows is covered, and some that would take very unlucky
delays. A message of an interval is `"shed"` (SIMPLE 1 to 3, LOAD_DISPATCH), `"openshed"` (the
same with zero duration) or `"other"`. Which signal of `signaldetails.db` is notified first is
left open. `strcpy` to `notifier` is one step. One message of the VTN stops signals at most
once. The report threads are in `Reports`; the log thread follows the protocol of the poll thread and
is left out, as are messages of the VTN and commands of the HMI that touch no thread here.

Two constants name what the code relies on and does not ensure. `PromptStart`: a thread that was
just spawned writes its row before anybody reads it. `ReadRace`: a read of `threadstatus.db` may
return 0 because a concurrent read of any table has emptied the shared map. `CancelLeavesNothing`
is stated under `PromptStart`, without `ReadRace` and while no thread was started over a living
one; without these reservations it is false.

## Module EventSchedule

| Variable | Code |
|---|---|
| `now` | `time(0)` in steps of one second or minute alike |
| `file`, `sched` | `eventdetails.db`, `optoutschedules.db` |
| `pc`, `known`, `optMap`, `seen`, `prev`, `open`, `answers`, `left` | the locals of `eventSchedular` and `validateEvent`: its maps, `*previousEvent`, `*previousDuration`, the EventResponses |
| `timer`, `waiting` | the maps of `eventThread` and the event whose start it waits for |
| `running`, `until`, `refresh` | the event whose signals run, its end, the pending `updateEventDetails` |
| `hmi` | the opt command under way, between its exchange with the VTN and its updates |
| `base`, `told`, `skipped` | history: the file when the message came, what the VTN was last told, an event passed over |

An oadrDistributeEvent is `Distribute` (stop the event thread, read the file into the maps), one
`Validate` per event of the payload (a new payload element is chosen each time, which is the
same as choosing the payload first), `ImpliedCancel`, `CreatedEvent`, `RemoveFile`, one
`InsertRow` per row in the order of the map, `StartEventThread`. The event thread is `TakeEvent`
and `EventDue`, the HMI `OptEvent` or `CreateOpt` then `ApplyOpt`, `CancelOpt` then
`ApplyCancelOpt`.

What is abstract: event ids are numbers in the order of the map; the validity of target and
signals is an input (`Kinds`); one event's signals run at a time, so signals of a former event
that are still leaving belong to `VenThreads`; the updates of one opt command are one step
(`ApplyOpt`), the exchange before them another, so what happens between reading the file and
updating it is covered and what happens between two updates is not; the `sleep(1)` before
`updateEventDetails` is `refresh`. Left out: two events with one id in a payload,
`oadrResponseRequired` other than `always`, the column of the event's status, the row the
customer override thread deletes.

`Calendar` is the abstract specification of the file: a table of events that a message is received
for (`Receive`) and then replaces at one moment (`Replace`), by events that do not overlap and are not
older; otherwise opt states change and events leave whose start is reached (`Change`). The refinement
(`KeepsCalendar`) maps the table to `stored`: a row that is still to be inserted counts as stored, so
that the message takes effect when the file is removed and the insertions are stutters. It holds
while messages and commands take turns and scans are undisturbed.

`ScanRace` lets a scan of `eventdetails.db` miss rows (another scan redirected the pointers);
`ExchangeFails` lets an exchange with the VTN fail; `TakeTurns` keeps HMI commands and messages
apart, to tell a wrong algorithm from a wrong interleaving.

## Module Cea2045Link

| Variable | Code |
|---|---|
| `pc`, `call`, `todo` | where each thread is, the function a caller runs, the messages it has still to send (`event`, `datapoint`, `stat` and their like) |
| `txBuffer` | the buffer in two halves, so that a message in it may be torn, and what the checksum of the one being sent covers |
| `link` | `linkData` (`txBlock`, `txCount`, `rxCount`) and `pendingLinkAck`, `pendingTxLinkAck`, `expectedMsgSize`, the characters in `rxBuffer`, `rxStartTime`, `LinkAckSent` |
| `basic` | `struct basic`: `appAckRtn`, `pendingOpState`, `timeoutTime` (and whose call set it), `overRide`, the pending acknowledgements; `AppAckstate` |
| `inter` | `struct inter` and which `respcode` variables are 0 |
| `line` | the characters from the appliance: link acks, first parts of messages, their rests with a right or a wrong checksum |
| `result`, `taken`, `shown` | history: what a call returned, whether the appliance acknowledged its message, the last override received |

`linkLayer` is two steps at most: one that reads (`ReadLinkAck`, `ReadMessage`, `ReadNothing`,
`MessageTimeout`, `LinkAckTimeout`), sends a due link ack and ends the transmit block
(`Proceed`), and `Transmit`, which writes the buffer; a builder may change the buffer between the
two. The thread `Link` is `checkCustOverride`. The other threads are callers: `Call` (the
call's reset of its flag), one round of `linkLayer`, `Try`, `CheckBlock` and `BuildHead` and
`BuildTail` (a builder, step by step, since nothing locks the buffer), `Expect` (what is awaited and
until when), the two timeouts, which any call notices on behalf of all, and `EventAnswered`,
`NextMessage` or `Finish`.

What is abstract. A delay or a timeout may be over at any moment, as an operating system that is
late can make it; one thing is kept of the clock: ten (five) seconds after its message a call goes
on, when its own deadline of four seconds is over and the line has delivered what answers it, unless
the Link thread reads nothing because a message it does not give back is in its buffer (`Stuck`,
`Settled`). `Spaced` says the same of the time between two calls of one thread; signals are
minutes apart. `CEA2045basicRx` and its closing reset are one step, and so is `Expect`. A read returns
the two characters of a link ack, or a part of one message: characters of two messages are not
mixed in one read. `expectedMsgSize` of 2, 3, 7 or 11, which the builders leave behind, is `"two"`, a size
at which a message looks complete too early and fails its checksum. Kinds of signals that differ
only in the opcode are one (`"shed"` for all basic ones). Left out: sleep and wake, which are handled as
the override is, the operational state and `online` and `nakVal` (so what `sendCommstatus` and
`getOperationalState` return), values in messages, a signal name nobody knows, which returns at
once, and a SIMPLE signal above 3, which waits ten seconds and sends nothing.

The appliance is not in the repository. It may not hear a message, acknowledge or refuse it on the
link, answer it rightly or wrongly, with a right or a wrong checksum, late, and say something
unasked at any time (`Offers`).

## Modules RowReads and DbRead

`RowReads` is the abstract specification: a read of one variable, or a scan of a table, begins, sees
every value the row (every state the table) has while it is under way, and ends with one of them.
A read that another one of its kind overlaps may end with the default (0 or the empty string)
instead, an overlapped scan with any rows, and SQLite may refuse. `DbRead` is the code:

| Variable | Code |
|---|---|
| `row`, `table` | a one-row table such as `threadstatus`, a scanned table such as `eventdetails` |
| `map` | `DBVariablemap`, filled by the callback `DBRead` |
| `pointer`, `own` | the file-wide map pointers, the maps of each reader they point to |
| `at`, `col`, `todo`, `answer` | per reader: the step, the variable, the rows still to come, what was returned |
| `seen`, `shared` | history: the values there were during the read, whether another one overlapped it |

`StartRead`, `ClearMap`, `ExecRead` or `FailRead`, `FindValue` are `sqliteDBreadInt` and
`sqliteDBreadString`; `StartScan`, `SetPointer`, `ClearMaps`, `Select` or `FailScan`, `GetRow`,
`EndScan` are the scans. `map::insert` does not overwrite; this is why a stale value would survive if
the map were not cleared, and why `MapFresh` is not obvious. The refinement (`KeepsPromise`) maps what
a reader is at to the kind of its read and hides the map, the pointer and the steps.

What is abstract: the pointers of one scan are one pointer; the tables of all scans are one, so two
scans of different tables overlap here and do not in the code; an operation on a map is atomic. Two
threads in one `std::map` at the same time are undefined behaviour: that the program crashes is not
a state of the model.

## Module Reports

| Variable | Code |
|---|---|
| `notifier`, `count` | the global string, the row `reportthread` |
| `file`, `maps` | `reportdetails.db`, the caller's `rrid_cvMap` and `rrid_reportTypeMap` |
| `caller` | where `reportScheduler`, `cancelReport` or `waitNotifier("REPORT")` is, and its locals |
| `pc`, `task`, `todo` | per report thread: where it is, its id, slot, kind and timed waits left, the reports a METADATA report has still to stop |
| `act` | per actor: its activation of `reportWaitNotifier` and `updateDataFile` |
| `missed`, `doubled` | history: a stop was given up while its thread went on; the row was decremented by somebody else than the thread |

A request is `CreateReport` (read the file), one `Refuse`, `AcceptInVain` or `Accept` per report of the
message, `RecordSize`, `RemoveFile`, one `InsertRow` per row and `Scheduled`; a cancellation is
`CancelReport`, one `CancelOne` per id, each of which starts a stop (`ReadBefore`, `NotifyFirst`,
`ReadAfter`, `NotifyAgain`, `StopReturns`, then `ReadCount`, `WriteCount`, `DeleteRow`), and
`Canceled`. A METADATA thread runs the same stop for every other report. A leave is `LeaveStatus`,
passes of `LeaveNotify`, `LeaveAgain`, `LeaveReset` and its outcome.

What is abstract: what is measured and sent; times, of which the number of timed waits is left;
the caller does one message after another, as the poll thread does, and a leave of the main
thread comes after the poll thread was stopped. Three constants name what the code relies on and does
not ensure. `Prompt`: a thread that can act on the name has done so when the stopper's sleep is over.
`Reuse` (FALSE): the VTN does not use an id again while the end of its report is being recorded.
`AtomicCount`: nobody touches `reportthread` between the read and the write of a decrement; it is
FALSE where the count is not asked about. Left out: an oadrCreateReport without requests, which the
schema forbids, and the objects whose methods detached threads run (`RptItr`, `RH`), a matter of
lifetimes.

## Module Registration

| Variable | Code |
|---|---|
| `vtn`, `granted`, `order` | the VTN: the registration it has, how many it granted, what it will answer to the next poll |
| `rows` | the rows `venid` and `registrationid` of `venparam` |
| `par`, `obj` | `m_venID` and `m_registrationID` of the VENManager; of VEN2b |
| `outgoing`, `body` | `m_sendBuffer` and `m_responseBody` of HttpCurl |
| `flag`, `cmd` | `hmivenflag.flag`, the command the main thread is at |
| `at`, `op`, `ans` | per thread (main, poll): the step, the exchange, the answer it took |
| `disturbed`, `told` | history: the poll thread or the VTN acted during the command; the VTN ended the registration for a cancel of it |

An exchange is `Post` (fill the buffer), `Perform` (`curl_easy_perform`; `AnswerLost` and `RequestLost`
are its exceptions), `Take` (read the body, set the ids of VEN2b) and `Judge` (the payload that was
expected, with code 200?). The rows are written and read one at a time (`RowVen`, `RowReg`,
`ClearVen`, `ClearReg`, `ReadVen`, `ReadReg`). A command is `MainSees`, the two reads, `Begin`, its
exchange and its end (`MainDone`, `MainFailed`, `PollStopped`, `PollNotStopped`, `Launch`). The poll
thread polls and obeys (`PollTurn`, `PollAnswered`). `Restart` is a crash and a new start at any
moment: the main program clears the rows and registers, or does nothing while URL and name are not
set (`BootPlaces`).

What is abstract: a registration is one number, which stands for its venID and its registrationID;
an answer keeps what its taker looks at. The VTN answers as the schema lets it, may refuse anything,
serves a request to register for who it knows already or anew, refuses a query of a VEN it does not
know, and may end the registration or ask for another one by itself. Two `curl_easy_perform` on one
handle at the same time are undefined behaviour; the model has the outcomes of two buffers that are
shared. Left out: the row `vtnid`, the XML files, the log thread's stop in a leave, and an HMI that
writes a command over another one.

## Runs

Bounds: at most two threads of a service, two intervals, one or three retries, two events, two
messages, five instants; three messages to the appliance and one unasked; three reports on two slots
and three messages of the VTN about them; three commands on the registration, one order of the VTN and
one restart; two readers. Two threads are the least that can lose a decrement, two generations the
least that can overlap, two events the least that can overlap or bound one another, two messages on
the line the least of which one may be taken for the other, three ids the least that can outnumber
two slots, three commands the least with which one may register, another end and a third meet what
they left; a further one repeats the pattern, and the proofs, where there are some, cover every number.
Where threads, messages or calls are bounded the system stops when they are used up, so deadlock
is not checked; `DbRead_promise` is not bounded and checks it.

| Run | Question | Result |
|---|---|---|
| `VenThreads_leave` | does a CancelRegistration that answers ok leave nothing, while the VTN reschedules and the user overrides? May three callers of `waitNotifier` confuse the notifier or the rows? | it leaves nothing, the notifier always belongs to somebody, and the rows are not too low |
| `VenThreads_events` | with two generations of event threads and disturbed reads, are the rows honest, and has a shedding appliance a thread that releases it, if nobody stops signals? | yes |
| `VenThreads_answer` | is every command answered? | yes, for one generation of signals |
| `EventSchedule_turns` | overlap and modification numbers with all kinds of events and overrides; does the VTN know the opt states, and does the file implement `Calendar`, if commands and messages take turns? | all hold |
| `EventSchedule_races` | overlap, with the HMI and disturbed scans at any moment | holds |
| `EventSchedule_lostopt` | does the VTN know the opt states if they do not take turns? | no: the rewrite takes an opt-out back |
| `Cea2045Link_answers` | is true returned only for what the appliance took, and is no wait left behind, with overrides, losses and late replies? | yes, with one caller at a time |
| `Cea2045Link_ends` | does every call come back, and does its message get onto the line? | yes |
| `Reports_stops` | do reports get condition variables of their own, and can each be found by its id, while METADATA reports and other services stop threads too? | yes, until a stop misses its thread |
| `Reports_leave` | does a leave end, and leave no report running? | yes, if only threads count themselves down |
| `DbRead_promise` | do the reads through one map and one pointer keep the promise of `RowReads`? | yes, for reads that no other one overlaps |
| `Registration_commands` | is what a command answers as ok true, with losses, refusals, a VTN that ends registrations and a restart? | yes, unless the poll thread or the VTN acts in between |

`EventSchedule_turns` leaves CancelOpt out: `updateEventDetailsOptstatus` reads the file again
after the exchange, and may opt in an event the VTN was not told of. `VenThreads_answer` covers
one generation of signals: after two events the count may be negative, and then a stop does not
end in any time that matters. `Cea2045Link_answers` has one caller, whose calls the log thread and
the signals make by turns; Departures says why.

The reservations of a property are part of it: `disturbed` of `Registration` is set when the poll
thread is at something else than waiting when a command begins, or starts a turn, or the VTN acts,
until the command is answered. `CancelTold` has no such reservation. `doubled` of `Reports` is set by
the first cancellation or METADATA stop, each of which counts a thread down a second time.

Every passing property has a mutant of the code in the module it is about (`PROJECT.json`,
"mutants"; in the modules they are marked `Mutant:`), under which the same run finds it violated.

Fairness of `VenThreads` (`FairSpec`, used by `VenThreads_answer`): the operating system runs every
thread that can run, hence weak fairness of the main thread's handlers, of each activation of
`waitNotifier`, of the override's check, and of the steps in which a poll or event thread
registers, tests its predicate and leaves. No fairness for what the code does not control: that
the HMI asks, that the user overrides, that the VTN sends, that a wait times out, that a signal
thread comes back from the appliance.

Fairness of `Reports` (`Fairness`, used by `Reports_leave`): weak fairness of the caller once it is at
work, of each report thread and of each activation of `reportWaitNotifier`: they are threads the
operating system runs, and every `wait_until` of a report has a time at which it ends. No fairness for
what the VTN asks, nor for a leave to begin.

Fairness of `Cea2045Link` (`FairSpec`, used by `Cea2045Link_ends`): weak fairness of the Link thread,
of each caller's next step and of each timeout, since they run in loops that look at the clock in
every turn. Strong fairness of what one turn of `linkLayer` may find and the next one not yet: that
characters have come, that a message or a link ack is overdue, that the transmit delay is over. A
delay of 40 to 150 ms does not last for ever in a loop that never stops. No fairness for the
appliance, nor for a caller's wish to call.

## Departures

What a comment of the repository says, or a thread of it relies on, and the code does not do, besides
the violation run. Each one with a name is a definition in its module, refuted by TLC within a minute
under the constants named here; `EventSchedule_lostopt` is in the findings of `PROJECT.json`.

`VenThreads`, with `JustPoll`, one poll and one event thread, two signal threads, one interval,
`Sheds`, three retries, `PromptStart`:

* `SignalsCounted` (batch 2, `MaxSignal` 2): two signal threads read the count and then write it
  (`SignalHandler.cpp:183`); a decrement is lost, and `getThreadStatus` ("This will return the
  number of threads for any service", `VENManager.cpp:546`) counts a thread that is gone.
* `SlotInRange` (batch 2, `MaxSignal` 1): `maxsignal+1` signals are started, the last one on a
  condition variable past the end of the array (`EventHandler.cpp:1129`; `Main.h:78`).
* `SignalsNotNegative` (batch 1, `MaxSignal` 2): a second event sets the count anew
  (`EventHandler.cpp:1126`) and the threads of the first decrement it too; a negative count makes
  `count` of `waitNotifier` (`VENManager.cpp:656`) wrap around, and the stop does not end.

* `ShedReleased` (one batch, `MaxSignal` 2, one retry, commands `Leave`, messages `{"distribute"}`): a
  signal thread whose wait timed out may send its shed after `waitNotifier` sent END_SHED; when it waits
  it sees the notification and leaves without END_SHED (`SignalHandler.cpp:71-86`), and `waitNotifier`
  sends it only after its first pass (`VENManager.cpp:623`). The appliance sheds with no thread left
  to end it, while `SignalHandler.cpp:90` says "Issue END_SHED command after SHED, CPP, GRID EMERGENCY,
  POWER LEVEL, GRID GUIDANCE".

`EventSchedule`, with `Mods = {0}`, no overrides, failures or scan races, `TakeTurns`, `MaxTime` 3:

* `PreviousIsValid` (two events, starts 1 and 3, duration 1, `Withdrawn`, two messages of two): the
  end of a cancelled or refused event bounds the next one (`EventHandler.cpp:756`, comment at 658).
* `SignalsFollow` (one event, starts 1 and 5, duration 3, `Refused`, two messages): signals run on
  for an event that was moved and refused, or withdrawn in the second of its start
  (`EventHandler.cpp:972` and 231, comment at 968).
* `ScheduleRespected` (one event at 3, two schedules, `Schedules`, three commands): cancelling one
  schedule opts in an event another one covers (`EventHandler.cpp:143`, comment at 627).
* `RunningOptedIn` (one event at 1 of duration 3, one schedule, `Schedules`, one command): in the
  second of its start an event runs and is not yet active (`VENManager.cpp:439`, comment at 400).
* `KeepsCalendar` without `TakeTurns` (one event, starts 1 and 5, duration 3, override on, `JustValid`,
  `OptOuts`, two messages, one command): an opt-out of an active event crosses the message that moves the
  event. The command found the event active, and after the message has rewritten the file it deletes
  the row by its id (`VENManager.cpp:1124`), though the event now starts later; it is still in the
  event thread's map, so that its signals start, and unknown to everybody else.
* `NoneSkipped` (one event at 1 of duration 3, no commands, two messages): an event thread passes over
  an event that is active, taking it that its signals run (`EventHandler.cpp:1090`). If its start falls
  between the old thread and the new one, or into the message that brings the event, its signals never
  start, while line 1050 says "event handler thread - wait until the event start time and spawns signal
  thread."

`Cea2045Link`, with one caller:

* `SentAsBuilt` (`Calls = {"devinfo"}`, no offers): the builders of intermediate messages set `txCount`
  first (`cea2045lib.c:1146`), while `cea2045lib.h:83` says "App layer writes a value to this after
  filling the txBuffer". What is sent may be half a message, or the previous one.
* `BufferGivenBack` (the same, or `{"shed"}` and the offer `"pass"`): a response nobody waits for and
  a pass-through message keep `rxCount` (`cea2045lib.c:1119`, 592), and nothing is read until some
  call times out; `cea2045lib.h:86` says "App layer clears this value after processing characters".
* `OverrideKnown` (`{"shed"}`, offer `"on"`): while an acknowledgement is awaited, an override is taken
  for it and dropped (`cea2045lib.c:809`), though `checkCustOverride` is there "to check for customer
  overide/sleep/wake infinitely" (566).
* `TrueMeansTaken` with `Calls = {"price", "setpoint"}`, two messages: a response code an earlier message left
  behind makes the next call return true before it has sent anything (`cea2045lib.c:304`).
* `TrueMeansTaken` with two callers (`Callers = {c1, c2}`, `ShedAndEnd`, no offers, two messages):
  `AppAckstate` is one flag for all threads, read in every turn of a call's loop, also before its
  message is sent (`cea2045lib.c:297`). A signal thread's SHED and the END_SHED of a stop at the same
  time: the second returns true on the acknowledgement of the first, and was never sent; a log thread as the second caller (`SignalAndLog`) does
  the same, whose acknowledged questions make a signal count as delivered that was not sent;
  `cea2045lib.c:57` says "@return boolean value - true if expected response recieved on time."
* `CallEnds` with `Calls = {"unknown"}`: a price or load control signal of a type the loop does not
  know takes no branch, and the thread never leaves the loop (`cea2045lib.c:88`).

`Reports`:

* `ReportsCounted` (as `Reports_leave`, one id, `CreateAndCancel`): `getThreadStatus` does not return the
  number of threads ("This will return the number of threads for any service", `VENManager.cpp:546`).
  A thread that is cancelled counts itself down, and `cancelReport` does it once more
  (`ReportHandler.cpp:1489`); one that ends before the size of the map is recorded is counted for ever
  (1405). A negative count makes the rounds of a leave wrap around; one that is too high makes it fail.
* `Refuse` and `AcceptInVain`: with no slot free the VTN is told that a report is pending, and no thread
  is started (1351-1367).
* A stop may miss its thread (`missed`): the thread is busy when it is notified and another stop, of a
  report or of another service, takes the name away before it looks (244). Its row is deleted all the
  same, so that it runs on and nobody can cancel it. The reverse happens too: the name REPORT ends any
  report whose wait times out while it stands there.
* A thread that ends between `RemoveFile` and `InsertRow` leaves a row behind, which keeps its id and its
  slot from being used (1434-1457). With `Reuse` the row of a new report is deleted by the end of the old.

`Registration`:

* `AnswerIsOwn` (`JustRegister`, orders `{"rereg"}`, two registrations and commands, one order, no
  restart): the main and the poll thread share one HttpCurl, and one may take the other's answer
  (`VEN2b.cpp:93`), while line 152 says "the response should be a oadrCreatedPartyRegistration".
* When a register of the HMI crosses a re-registration of the poll thread, the rows may hold the venID of
  one registration and the registrationID of the other (`Registerparty.cpp:129-134`).
* The request to register carries no id (`CreatePartyRegistration.cpp:54-73`), so that a
  re-registration looks to the VTN like a new VEN.
* `cancelPartyRegistration` looks for an oadrCreatedPartyRegistration in the answer to a cancel
  (`VEN2b.cpp:175`), so VEN2b never forgets its ids and code 453 never counts as success: a cancel after
  the VTN ended the registration fails. A cancel without ids in the rows answers ok and tells the VTN
  nothing.
* The poll thread ends after an order to register again although its stops or the exchange failed
  (`PollHandler.cpp:214-227`).

## Proofs

Checked by TLAPS for every value of the constants that meets their assumptions.

| Theorem | Says |
|---|---|
| `VenThreadsProofs!TypeCorrect` | the type invariant, with the counters in range |
| `VenThreadsSafety!NotifierIsOwned` | a service's name in the notifier belongs to somebody who is stopping that service |
| `VenThreadsSafety!StatusIsNotLow` | the row never reports fewer threads than run, unless threads were started over living ones |
| `VenThreadsSafety!CancelIsComplete` | a leave that answers ok leaves no thread, under the reservations named above |
| `VenThreadsSafety!ShedIsOwned` | an appliance that sheds has a thread that will release it, if nobody stops signals |
| `EventScheduleProofs!TypeCorrect` | the type invariant |
| `EventScheduleProofs!EventsNeverOverlap` | the events of the file never overlap |
| `EventScheduleProofs!ModificationsGoUp` | a message never lowers a modification number |
| `EventScheduleProofs!OptStatesAreKnown` | the VTN knows the opt states of the file, if messages and commands take turns and no schedule is cancelled |
| `EventScheduleProofs!ImplementsCalendar` | `EventSchedule` implements `Calendar`, if they take turns and no scan is disturbed |
| `Cea2045LinkProofs!TypeCorrect` | the type invariant |
| `Cea2045LinkSafety!QuietIsFree` | one caller leaves no wait behind, whatever it asks and whatever the appliance does |
| `Cea2045LinkSafety!TrueIsTaken` | a signal sent by one caller as a basic message is reported as delivered only if the appliance took it |
| `DbReadProofs!TypeCorrect` | the type invariant: the shared map never holds two values of a variable |
| `DbReadProofs!FreshReads` | what a read may find was put there during that read |
| `DbReadProofs!Implements` | `DbRead` implements `RowReads`, for any number of threads, variables, values and rows |
| `RegistrationProofs!TypeCorrect` | the type invariant; a thread writes only ids the VTN has granted |
| `RegistrationProofs!CancelIsTold` | a cancel answered ok was carried out by the VTN during this command |
| `RegistrationProofs!RegistersTruly` | a register answered ok leaves the VTN, VEN2b and both rows with one registration |
| `RegistrationProofs!ClearsTruly` | a cancel or clear answered ok leaves nothing in the rows |
| `RegistrationProofs!PollsForRegistered` | polling starts only with a whole registration in the rows |
| `ReportsProofs!TypeCorrect` | the type invariant |
| `ReportsProofs!SlotsAreDistinct` | listed reports have condition variables of their own |
| `ReportsProofs!ReportsAreCancellable` | until a stop misses its thread, a running report is found by its id, without `Reuse` |
| `ReportsProofs!CountIsNotLow` | `reportthread` is not too low, with `AtomicCount` and without `Reuse` |
| `ReportsProofs!LeavingIsComplete` | a leave that succeeds leaves no report running, with the same |

* `NotifierIsOwned`: `NotifierOwned` says too little to be inductive. It is strengthened by what
  each caller's program counter implies; the step that matters is `ResetNotifier` of one caller
  while another one waits, which writes `RESET` and so only ever takes a name away.
* `StatusIsNotLow`: the rows of poll and event threads are 0 or 1 and equal the number of
  registered threads as long as at most one is alive, which is what `overlap` records. For the
  signals the invariant (`SignalInv`) says that the row is at least the number of living threads,
  and so is every value a thread has read and is about to write less one: a lost decrement makes
  the row too high, never too low.
* `CancelIsComplete`: when the main thread is at stage n of a leave, the services of the stages
  before are without threads and nobody is left who could start one: a poll thread starts event
  threads, an event thread signals. The order POLL, EVENT, SIGNAL of the stops is what makes this
  inductive.
* `ShedIsOwned`: a thread that sheds stays in its loop until `SignalRelease` (`ShedInv`): it has shed
  last and is before its release. Another thread's END_SHED may end its shed early, which
  leaves less to be released. The hypothesis `NobodyStopsSignals` names
  the commands and messages that stop none (`CallsQuiet`: no activation of `waitNotifier` is at
  SIGNAL); with a stop the property is false (`ShedReleased`, Departures).
* `EventsNeverOverlap`: the file is not rewritten in one step and the HMI updates it meanwhile. The
  invariant (`OverlapInv`) says of each stage of a message what is disjoint: the file until it is
  removed; while events are validated, the valid ones seen so far, all of which end before `prev`, or
  the last one is open; from the reply to the VTN on, the maps, since known events that were not seen
  are dropped there; while rows are inserted, the file is part of the maps. Updates of the HMI and of
  the event thread change opt states and delete rows, never times.
* `ModificationsGoUp`: as long as an event has not been seen in the message, the maps hold the row
  the file had when the message came, and what is known of an event has at least that modification
  number, unless the scan was disturbed (`NewerInv`).
* `OptStatesAreKnown`: `VtnKnowsOpt` speaks of quiet moments only. Between messages the invariant
  (`ToldInv`) says of each row what it will say when the command under way is applied, since a command
  tells the VTN first; while a message is processed, nothing of the file matters, but what is known of
  a seen event is what will be answered, then what the VTN was told, then what is written
  (`AnswersInv`). `TurnsInv` keeps the two apart. Cancelling a schedule is excluded because
  `updateEventDetailsOptstatus` reads the file again after the exchange; without turns
  `EventSchedule_lostopt` refutes the property. Overrides may end events, refreshes may delete rows
  and scans may miss rows at any moment: what is not known is not answered and not written.
* `ImplementsCalendar`: each step of the poll thread maps to `Receive`, `Replace` or a stutter, every
  other step to `Tick` or `Change`. `RemoveFile` is `Replace`: that its events do not overlap is
  `OverlapInv`, that none is older needs `NewerInv` and that what is replaced is part of what was read
  when the message came. That an event leaves only when its start is reached needs `DatesInv`: the event
  thread and a command act on copies, and the copy's start must still be the file's. It is, since only a
  message moves events, stops the event thread first and waits for a command under way; without turns
  the command's copy is outdated and `KeepsCalendar` is false (Departures). `InsertRow` is a stutter
  because the least id left is one of those left (`LeastElement`, a fact about finite sets of numbers
  proved from the library's well-founded induction, as `GreatestElement` is).

* `Cea2045LinkProofs!TypeCorrect`: `TypeOK` needs that a caller in a call has a message to send, and that
  a builder gets only messages it knows (`HasMessage`).
* `QuietIsFree`: what is awaited has a deadline, the deadline is that of a call that is waiting, and a
  signal is not answered before the answer has ended its wait (`OneWait`). Each of the three fails with a
  second caller, whose timeout or answer ends the first one's wait, so the theorem is about one caller.
* `TrueIsTaken`: while a signal is unanswered, no acknowledgement that would do for it is on its way
  unless the appliance has taken the message, or nothing is read until the call gives up (`NoOldAck`).
  This is true when the call starts because late replies have come (`Spaced`), is kept by everything
  that reaches the line, since only the message in the buffer is acknowledged and the Link thread
  builds no message that is (`MineOnly`), and it makes the step in which `CEA2045basicRx` sets
  `AppAckstate` safe, because what is awaited is what was sent last (`Awaits`). The theorem is about one
  caller and signals that are not intermediate messages; without either hypothesis it is false
  (Departures).

* `Implements`: a step of a read maps to the start, the end or a stutter of the read in `RowReads`.
  What the end may return needs `IInv`: after the clear the map holds only values seen since the read
  began (`MapFresh`); a read that nobody overlapped is the only one at work (`Alone`) and finds what it
  put there (`FoundAlone`); an undisturbed scan has the pointer, and what it has got and what is still to
  come are one state of the table, because a writer waits for it (`SeenNow`, `FilledAlone`).
* `CancelIsTold`: the answer `canceled` exists only in the buffer or with a thread. `Trail` follows it: if
  the main thread is at a cancel and the body, its answer or its way to the flag says `canceled`, the VTN has
  ended the registration during this command, since the command began with its own exchange still to be
  performed and no other thread cancels. `Sound` adds that every answer carries an id the VTN granted.
  The poll thread's exchanges overlap freely; they may spoil the cancel, never forge its success.

* `RegistersTruly`, `ClearsTruly`, `PollsForRegistered`: one invariant, `Undisturbed`, follows a command
  from its reads to its answer. `Course` says which exchange it can be at and holds always; the rest
  holds while nobody disturbs it: the request in the buffer is its own, the answer to it carries the
  registration the VTN has now, VEN2b has it once it was taken, the row `venid` before the row
  `registrationid` (`Creating`), a cleared row stays cleared (`Clearing`), what was read is what the
  rows hold (`Reading`). It needs `Sound`, by which an answer that registers carries a granted id.
* `SlotsAreDistinct`: while rows are inserted the file is part of the maps (`SlotInv`); a slot is free
  by the maps, and everybody else only deletes rows.
* `ReportsAreCancellable`: `Cancellable` is not inductive, since a row may be deleted for another report.
  `CancelInv` adds that the running threads have ids of their own, that nobody is removing the row of
  one that goes on, and that its row is kept: while the file is written anew, it is among those left
  or already inserted (`KeptRow`). `ActsInPlace` says who may be removing rows at all. Without the
  hypothesis `~Reuse` the end of an old report deletes the row of the new one with its id.
* `CountIsNotLow`, `LeavingIsComplete`: the threads that count are fewer than the rows, since each has a
  row of its own (`CountInv`), so that recording the size of the map sets a row that is high enough, and a
  thread that decrements it leaves the number of those counted at the same moment (`WriterInv`: with
  `AtomicCount` what it read is still there). Both hypotheses name what the code relies on and does not
  ensure; without `AtomicCount` two threads that end while a size is recorded may leave a row that is
  too low.

The assumptions are those the modules name: `ConstantsAssumption` (types of the bounds),
`ScheduleAssumption`, `RegistrationAssumption` and `ReportsAssumption` (the same), `LinkAssumption`
(the callers are not the Link thread, and what is asked, offered and replied are kinds the code
knows). TLC evaluates all of them on every run. What a theorem assumes besides is in its statement, and
the runs that check its property have constants that satisfy it.

Only model-checked: liveness (`HmiAnswered`, `CallEnds`, `QueuedIsSent`, `LeaveAnswers`) and everything
that needs ENABLED, which the prover does not do. Induction over data and RECURSIVE operators are out of
its reach as well; the modules use neither.

## Not modelled

* The log thread's place in the stop protocol: it waits and leaves as the poll thread does, with its
  own name in the notifier.
* Login and the log and CEA-2045 commands of the HMI, which run one function and answer; commands the HMI
  loses by writing one over another.
* What is pure: durations, prices, power levels, checksums, and every conversion of XML, which a unit
  test reaches better.
* Logging, XML files and the configuration generator, which write text and keep no state.
* Memory: objects whose methods run on in detached threads, two threads in one `std::map`, one curl
  handle used twice at once. They are undefined behaviour with any outcome.
* The OpenADR message library besides the ids of VEN2b and the buffers of HttpCurl; the classes that are
  generated from its schema, the USB driver and the OpenWrt tree, which are not this program. They are more than
  nine tenths of the repository's 813 000 lines, so the lines the models stand for, though they are the
  larger part of the control of the VEN manager, are a small share of the whole.
