--------------------------- MODULE EventSchedule ---------------------------
(***************************************************************************)
(* The events of the VTN: how an oadrDistributeEvent is validated and      *)
(* turned into the rows of eventdetails.db (EventHandler::eventSchedular), *)
(* how the event thread starts their signals, and how the HMI opts in and  *)
(* out of them at the same time.                                           *)
(*                                                                         *)
(* The poll thread reads eventdetails.db into its maps, validates the      *)
(* payload event by event, answers the VTN and then writes the file anew   *)
(* from its maps; the HMI's thread and the event thread update single rows *)
(* of the file meanwhile.  No lock ties any of these together.             *)
(*                                                                         *)
(* Time is a number that grows by itself.  Starting and stopping threads   *)
(* is the subject of VenThreads; here a stop succeeds at once.             *)
(***************************************************************************)
EXTENDS Integers, FiniteSets, FiniteSetsExt

CONSTANTS
  EventIds,     \* event ids, numbers in the order of the std::map
  OptIds,       \* ids of opt-out schedules, likewise
  ScheduleFrom, \* per schedule: its start and
  ScheduleTo,   \*   its stop
  Mods,         \* modification numbers the VTN sends
  Starts,       \* dtstart of the events it sends
  Durations,    \* and their duration, 0: without end
  Kinds,        \* what is special about an event of the payload, see EventKinds
  HmiCommands,  \* the HMI's commands: "optevent", "createopt", "cancelopt"
  Overrides,    \* values customeroverride may have
  ExchangeFails,\* whether createdEvent may fail (CurlException)
  ScanRace,     \* whether getdata may miss rows because another thread scans too
  TakeTurns,    \* whether the HMI waits for the poll thread and vice versa
  MaxPayload,   \* bound: events of one message
  MaxTime,      \* bound: the last instant
  MaxMessages,  \* bound: messages of the VTN
  MaxCommands,  \* bound: commands of the HMI
  NoRow         \* no row of that id

\* "badtarget": not for this VEN, or without duration; "badsignals": validateSignals
\* refuses it; "cancelled": its eventStatus.
EventKinds == {"valid", "cancelled", "badtarget", "badsignals"}

Opts == {"opt-in", "opt-out_hmi", "opt-out_sch"}

\* A row of eventdetails.db; opt id 0 is the empty string.
Rows == [mod : Mods, start : Starts, dur : Durations, opt : Opts, optId : OptIds \cup {0}]

ASSUME ScheduleAssumption ==
  /\ EventIds \subseteq Nat \ {0} /\ IsFiniteSet(EventIds)
  /\ OptIds \subseteq Nat \ {0} /\ IsFiniteSet(OptIds)
  /\ ScheduleFrom \in [OptIds -> Int]
  /\ ScheduleTo \in [OptIds -> Int]
  /\ Mods \subseteq Nat
  /\ Starts \subseteq Nat \ {0}
  /\ Durations \subseteq Nat
  /\ Kinds \subseteq EventKinds
  /\ Overrides \subseteq BOOLEAN
  /\ {ExchangeFails, ScanRace, TakeTurns} \subseteq BOOLEAN
  /\ {MaxPayload, MaxTime, MaxMessages, MaxCommands} \subseteq Nat
  /\ NoRow \notin Rows

VARIABLES
  now,        \* time(0)
  file,       \* eventdetails.db: a row or NoRow per event id
  sched,      \* optoutschedules.db: the ids in it
  pc,         \* where the poll thread is in eventSchedular
  known,      \* its maps: eventidmodmap, eventiddtstartmap, ...
  optMap,     \* its map of the schedules
  seen,       \* ids of the payload's events already validated
  prev,       \* *previousEvent
  open,       \* *previousDuration
  answers,    \* the EventResponses collected for createdEvent
  left,       \* the rows still to be inserted
  timer,      \* the event thread's events still to come: start and duration, or NoRow
  waiting,    \* the event whose start it waits for, or 0
  running,    \* the event whose signals run, or 0
  until,      \* and its end
  refresh,    \* when a thread that slept a second calls updateEventDetails, or 0
  hmi,        \* the HMI command under way: what it read and will apply
  messages, commands, \* how many there were
  base,       \* history: the file when the message was received
  told,       \* history: per event, the opt state the VTN was last told
  skipped     \* history: an event whose signals do not run was passed over as active

pollVars  == <<pc, known, optMap, seen, prev, open, answers, left, messages, base>>
eventVars == <<timer, waiting, skipped>>
signalVars == <<running, until, refresh>>
hmiVars   == <<hmi, sched, commands>>
vars == <<now, file, pollVars, eventVars, signalVars, hmiVars, told>>

None == 0
Nobody == [id \in EventIds |-> NoRow]
Listed(f) == {id \in EventIds : f[id] # NoRow}
Without(f, id) == [f EXCEPT ![id] = NoRow]

-----------------------------------------------------------------------------
(* Predicates of EventHandler on times                                     *)

\* EventHandler::eventActiveSignalCheck, both comparisons strict
Active(start, dur) == start < now /\ now < start + dur
ActiveRow(f, id) == Active(f[id].start, f[id].dur)

\* EventHandler::optOutStatus: the schedules an event's run time falls in; its opt id
\* is the last of them in the order of the map.
Covering(schedules, start, dur) ==
  {o \in schedules : start < ScheduleTo[o] /\ ScheduleFrom[o] < start + dur}

\* Mutant: an event is dropped that has not started.
RefreshEarly(f) ==
  [id \in EventIds |->
    IF f[id] # NoRow /\ ~ActiveRow(f, id) /\ f[id].dur # 0 THEN NoRow ELSE f[id]]

\* EventHandler::updateEventDetails: what is past and not active is deleted, an event
\* without a duration stays.
Refresh(f) ==
  [id \in EventIds |->
    IF f[id] # NoRow /\ f[id].start <= now /\ ~ActiveRow(f, id) /\ f[id].dur # 0
      THEN NoRow ELSE f[id]]

\* sleep(1) before updateEventDetails; two of them at a time count as one
RefreshSoon == refresh' = now + 1

\* waitNotifier("SIGNAL") stops every signal, whichever event it belongs to; the first
\* of an event's signals refreshes the file after it left.
StopSignals ==
  /\ running' = None
  /\ until' = 0
  /\ IF running # None THEN RefreshSoon ELSE UNCHANGED refresh
StopSignalsIf(stop) == IF stop THEN StopSignals ELSE UNCHANGED signalVars

-----------------------------------------------------------------------------

\* The command under way: the events it changes, to which opt state and id, and which
\* of them it stops.
Quiet == [at |-> "idle", ids |-> {}, opt |-> "opt-in", stop |-> {},
          mark |-> [id \in EventIds |-> 0]]

Init ==
  /\ now = 0
  /\ file = Nobody
  /\ sched = {}
  /\ pc = "idle"
  /\ known = Nobody
  /\ optMap = {}
  /\ seen = {}
  /\ prev = 0
  /\ open = TRUE
  /\ answers = [id \in EventIds |-> "none"]
  /\ left = {}
  /\ timer = Nobody
  /\ waiting = None
  /\ running = None
  /\ until = 0
  /\ refresh = 0
  /\ hmi = Quiet
  /\ messages = 0
  /\ commands = 0
  /\ base = Nobody
  /\ told = [id \in EventIds |-> "none"]
  /\ skipped = FALSE

Tick ==
  /\ now < MaxTime
  /\ now' = now + 1
  /\ UNCHANGED <<file, pollVars, eventVars, signalVars, hmiVars, told>>

-----------------------------------------------------------------------------
(* The poll thread: eventSchedular                                         *)

\* Mutant: the event thread is not stopped before its events are replaced.
DistributeLate ==
  /\ pc = "idle"
  /\ messages < MaxMessages
  /\ TakeTurns => hmi = Quiet
  /\ timer' = Nobody
  /\ known' = file
  /\ optMap' = sched
  /\ seen' = {}
  /\ prev' = 0
  /\ open' = TRUE
  /\ answers' = [id \in EventIds |-> "none"]
  /\ base' = file
  /\ messages' = messages + 1
  /\ pc' = "validate"
  /\ UNCHANGED <<now, file, left, waiting, skipped, signalVars, hmiVars, told>>

\* PollHandler stops the event thread, then eventSchedular reads the file. The maps
\* are filled through pointers every scan of the program shares: under ScanRace rows
\* may end up in the maps of another thread.
Distribute ==
  /\ pc = "idle"
  /\ messages < MaxMessages
  /\ TakeTurns => hmi = Quiet
  /\ timer' = Nobody
  /\ waiting' = None
  /\ \E read \in SUBSET Listed(file) :
       /\ ScanRace \/ read = Listed(file)
       /\ known' = [id \in EventIds |-> IF id \in read THEN file[id] ELSE NoRow]
  /\ optMap' = sched
  /\ seen' = {}
  /\ prev' = 0
  /\ open' = TRUE
  /\ answers' = [id \in EventIds |-> "none"]
  /\ base' = file
  /\ messages' = messages + 1
  /\ pc' = "validate"
  /\ UNCHANGED <<now, file, left, skipped, signalVars, hmiVars, told>>

\* Mutant: without validatemodificationNo.
AdmittedAnyNumber(id, mod, start, kind) ==
  /\ known[id] = NoRow => kind # "cancelled" /\ start > now
  /\ kind # "badtarget"

\* The checks before the overlap check: unknown and cancelled, an old modification
\* number, a new event in the past, the target.
Admitted(id, mod, start, kind) ==
  /\ known[id] = NoRow => kind # "cancelled" /\ start > now
  /\ known[id] # NoRow => mod >= known[id].mod
  /\ kind # "badtarget"

\* Mutant: previousDuration is not looked at.
FollowsEndless(start) == start > prev

\* Events come in the order of their start; one without end closes the payload.
Follows(start) == open /\ start > prev

\* The opt state of an event nobody opted out of by itself.
Evaluated(start, dur) ==
  LET covering == Covering(optMap, start, dur) IN
  IF covering = {} THEN [opt |-> "opt-in", optId |-> 0]
                   ELSE [opt |-> "opt-out_sch", optId |-> Max(covering)]

\* A known event keeps its opt-out, the one of a schedule only while that schedule
\* exists; an opted-in or moved event is looked at afresh.
OptState(old, start, dur) ==
  CASE old = NoRow                             -> Evaluated(start, dur)
    [] old # NoRow /\ (old.opt = "opt-in" \/ old.start # start) -> Evaluated(start, dur)
    [] OTHER -> IF old.opt = "opt-out_hmi" \/ old.optId \in optMap
                  THEN [opt |-> old.opt, optId |-> old.optId]
                  ELSE [opt |-> "opt-in", optId |-> 0]

\* validateEvent: an event that is not valid is forgotten, and signals are stopped if
\* its new times say that it is active.
RejectEvent(id, start, dur) ==
  /\ known' = Without(known, id)
  /\ StopSignalsIf(known[id] # NoRow /\ Active(start, dur))
  /\ UNCHANGED answers

\* An active event that moved has its signals stopped, whether it is cancelled or not.
Moved(id, start) ==
  known[id] # NoRow /\ ActiveRow(known, id) /\ start # known[id].start

CancelEvent(id, start, dur) ==
  /\ known' = Without(known, id)
  /\ StopSignalsIf(Moved(id, start) \/ Active(start, dur))
  /\ UNCHANGED answers

\* Mutant: a known event is answered with the opt state it had.
AcceptWithOldAnswer(id, mod, start, dur) ==
  LET state == OptState(known[id], start, dur) IN
  /\ known' = [known EXCEPT ![id] = [mod |-> mod, start |-> start, dur |-> dur,
                                     opt |-> state.opt, optId |-> state.optId]]
  /\ answers' = [answers EXCEPT
                   ![id] = IF known[id] = NoRow THEN state.opt ELSE known[id].opt]
  /\ StopSignalsIf(Moved(id, start))

AcceptEvent(id, mod, start, dur) ==
  LET state == OptState(known[id], start, dur) IN
  /\ known' = [known EXCEPT ![id] = [mod |-> mod, start |-> start, dur |-> dur,
                                     opt |-> state.opt, optId |-> state.optId]]
  /\ answers' = [answers EXCEPT ![id] = state.opt]
  /\ StopSignalsIf(Moved(id, start))

\* The bounds of the overlap check move on whether validateSignals agrees or not, and
\* for a cancelled event as well.
Validate(id, mod, start, dur, kind) ==
  LET admitted == Admitted(id, mod, start, kind)
      valid    == admitted /\ Follows(start) /\ kind # "badsignals"
  IN /\ pc = "validate"
     /\ id \notin seen
     /\ Cardinality(seen) < MaxPayload
     /\ seen' = seen \cup {id}
     /\ IF admitted /\ Follows(start)
          THEN prev' = start + dur /\ open' = (dur # 0)
          ELSE UNCHANGED <<prev, open>>
     /\ \/ ~valid /\ RejectEvent(id, start, dur)
        \/ valid /\ kind = "cancelled" /\ CancelEvent(id, start, dur)
        \/ valid /\ kind # "cancelled" /\ AcceptEvent(id, mod, start, dur)
     /\ UNCHANGED <<now, file, pc, optMap, left, messages, base, eventVars, hmiVars, told>>

\* A known event the payload does not name is cancelled.
ImpliedCancel ==
  /\ pc = "validate"
  /\ pc' = "reply"
  /\ known' = [id \in EventIds |-> IF id \in seen THEN known[id] ELSE NoRow]
  /\ StopSignalsIf(\E id \in Listed(known) \ seen : ActiveRow(known, id))
  /\ UNCHANGED <<now, file, optMap, seen, prev, open, answers, left, messages, base,
                 eventVars, hmiVars, told>>

\* The exchange; whatever it brings, the file is removed.
CreatedEvent ==
  /\ pc = "reply"
  /\ pc' = "write"
  /\ \/ told' = [id \in EventIds |-> IF answers[id] # "none" THEN answers[id] ELSE told[id]]
     \/ ExchangeFails /\ UNCHANGED told
  /\ UNCHANGED <<now, file, known, optMap, seen, prev, open, answers, left, messages,
                 base, eventVars, signalVars, hmiVars>>

RemoveFile ==
  /\ pc = "write"
  /\ pc' = "insert"
  /\ file' = Nobody
  /\ left' = Listed(known)
  /\ UNCHANGED <<now, known, optMap, seen, prev, open, answers, messages, base,
                 eventVars, signalVars, hmiVars, told>>

InsertRow ==
  /\ pc = "insert"
  /\ left # {}
  /\ LET id == Min(left) IN
       /\ file' = [file EXCEPT ![id] = known[id]]
       /\ left' = left \ {id}
  /\ UNCHANGED <<now, pc, known, optMap, seen, prev, open, answers, messages, base,
                 eventVars, signalVars, hmiVars, told>>

\* The new event thread works on copies of the maps.
StartEventThread ==
  /\ pc = "insert"
  /\ left = {}
  /\ pc' = "idle"
  /\ timer' = known
  /\ UNCHANGED <<now, file, known, optMap, seen, prev, open, answers, left, messages,
                 base, waiting, skipped, signalVars, hmiVars, told>>

-----------------------------------------------------------------------------
(* The event thread: eventThread                                           *)

\* The next event of the payload; the valid ones are in the order of their start.
Upcoming ==
  {id \in Listed(timer) : \A e \in Listed(timer) : timer[id].start <= timer[e].start}

\* An event that is active is taken to have its signals running already.
TakeEvent ==
  /\ waiting = None
  /\ \E id \in Upcoming :
       IF ActiveRow(timer, id)
         THEN /\ timer' = Without(timer, id)
              /\ skipped' = (skipped \/ (running # id /\ timer[id].opt = "opt-in"))
              /\ UNCHANGED waiting
         ELSE waiting' = id /\ UNCHANGED <<timer, skipped>>
  /\ UNCHANGED <<now, file, pollVars, signalVars, hmiVars, told>>

\* The opt state is read from the file; an event without a row counts as opted in.
EventDue(customerOverride) ==
  LET id == waiting
      optedIn == file[id] = NoRow \/ file[id].opt = "opt-in"
  IN /\ waiting # None
     /\ timer[id].start <= now
     /\ timer' = Without(timer, id)
     /\ waiting' = None
     /\ IF ~customerOverride /\ optedIn
          THEN /\ running' = id
               /\ until' = timer[id].start + timer[id].dur
               /\ RefreshSoon
               /\ UNCHANGED <<file, told>>
          ELSE /\ file' = Without(file, id)
               /\ \/ customerOverride /\ told' = [told EXCEPT ![id] = "opt-out_hmi"]
                  \/ (~customerOverride \/ ExchangeFails) /\ UNCHANGED told
               /\ UNCHANGED signalVars
     /\ UNCHANGED <<now, pollVars, skipped, hmiVars>>

\* The last interval of the signals is over.
SignalsEnd ==
  /\ running # None
  /\ until <= now
  /\ StopSignals
  /\ UNCHANGED <<now, file, pollVars, eventVars, hmiVars, told>>

\* updateEventDetails, called by the event thread and by the thread of signal 1
RefreshFile ==
  /\ refresh \in 1..now
  /\ refresh' = 0
  /\ file' = Refresh(file)
  /\ UNCHANGED <<now, pollVars, eventVars, running, until, hmiVars, told>>

-----------------------------------------------------------------------------
(* The HMI's thread: VENManager. A command reads the file, tells the VTN   *)
(* and then updates rows of the file.                                      *)

HmiStarts(command) ==
  /\ hmi = Quiet
  /\ command \in HmiCommands
  /\ commands < MaxCommands
  /\ TakeTurns => pc = "idle"
  /\ commands' = commands + 1

\* The exchange with the VTN; a failure ends the command.
TellVtn(command) ==
  \/ /\ told' = [id \in EventIds |-> IF id \in command.ids THEN command.opt ELSE told[id]]
     /\ hmi' = command
  \/ /\ ExchangeFails
     /\ hmi' = Quiet
     /\ UNCHANGED told

SomeMark(o) == [id \in EventIds |-> o]

\* OptEvent toggles one event, an active one only under a customer override: opting
\* out of it stops it.
OptEvent(id, override) ==
  LET opt == IF file[id].opt = "opt-in" THEN "opt-out_hmi" ELSE "opt-in" IN
  /\ HmiStarts("optevent")
  /\ file[id] # NoRow
  /\ ActiveRow(file, id) => override
  /\ TellVtn([at |-> "optevent", ids |-> {id}, opt |-> opt, mark |-> SomeMark(0),
              stop |-> IF ActiveRow(file, id) /\ opt # "opt-in" THEN {id} ELSE {}])
  /\ UNCHANGED <<now, file, pollVars, eventVars, signalVars, sched>>

\* updateEventsOptout: the events that overlap a schedule and are not out by one.
ToOptOut(schedules, override) ==
  {id \in Listed(file) :
     /\ file[id].opt # "opt-out_sch"
     /\ Covering(schedules, file[id].start, file[id].dur) # {}
     /\ ActiveRow(file, id) => override}

\* CreateOpt inserts the schedule; updateEventsOptout reads both files.
CreateOpt(o, override) ==
  LET ids == ToOptOut(sched', override) IN
  /\ HmiStarts("createopt")
  /\ o \notin sched
  /\ sched' = sched \cup {o}
  /\ TellVtn([at |-> "createopt", ids |-> ids, opt |-> "opt-out_sch",
              mark |-> [id \in EventIds |->
                          IF id \in ids THEN Max(Covering(sched', file[id].start, file[id].dur))
                                        ELSE 0],
              stop |-> {id \in ids : ActiveRow(file, id)}])
  /\ UNCHANGED <<now, file, pollVars, eventVars, signalVars>>

\* What is active is stopped and its row deleted, the other rows are updated if they
\* are still there; OptEvent leaves the opt id alone.
ApplyOpt ==
  /\ hmi.at \in {"optevent", "createopt"}
  /\ StopSignalsIf(hmi.stop # {})
  /\ file' = [id \in EventIds |->
       CASE id \in hmi.stop -> NoRow
         [] id \in hmi.ids \ hmi.stop /\ file[id] # NoRow ->
              [file[id] EXCEPT !.opt = hmi.opt,
                               !.optId = IF hmi.at = "createopt" THEN hmi.mark[id] ELSE @]
         [] OTHER -> file[id]]
  /\ hmi' = Quiet
  /\ UNCHANGED <<now, pollVars, eventVars, sched, commands, told>>

\* The events whose row names the schedule, whatever their opt state is.
ToOptIn(mark, override) ==
  {id \in Listed(file) : file[id].optId = mark[id] /\ (ActiveRow(file, id) => override)}

\* CancelOpt deletes the schedule; updateEventsOptin reads the file and tells the VTN,
\* updateEventDetailsOptstatus reads it again before it writes.
CancelOpt(o, override) ==
  /\ HmiStarts("cancelopt")
  /\ o \in sched
  /\ sched' = sched \ {o}
  /\ TellVtn([at |-> "cancelopt", ids |-> ToOptIn(SomeMark(o), override),
              opt |-> "opt-in", mark |-> SomeMark(o), stop |-> {}])
  /\ UNCHANGED <<now, file, pollVars, eventVars, signalVars>>

ApplyCancelOpt(override) ==
  /\ hmi.at = "cancelopt"
  /\ file' = [id \in EventIds |->
       IF id \in ToOptIn(hmi.mark, override)
         THEN [file[id] EXCEPT !.opt = "opt-in", !.optId = 0] ELSE file[id]]
  /\ hmi' = Quiet
  /\ UNCHANGED <<now, pollVars, eventVars, signalVars, sched, commands, told>>

-----------------------------------------------------------------------------

PollStep ==
  \/ Distribute
  \/ \E id \in EventIds, mod \in Mods, start \in Starts, dur \in Durations, kind \in Kinds :
        Validate(id, mod, start, dur, kind)
  \/ ImpliedCancel
  \/ CreatedEvent
  \/ RemoveFile
  \/ InsertRow
  \/ StartEventThread

EventThreadStep == TakeEvent \/ \E override \in Overrides : EventDue(override)

SignalStep == SignalsEnd \/ RefreshFile

HmiStep ==
  \E override \in Overrides :
    \/ \E id \in EventIds : OptEvent(id, override)
    \/ \E o \in OptIds : CreateOpt(o, override) \/ CancelOpt(o, override)
    \/ ApplyOpt
    \/ ApplyCancelOpt(override)

Next == Tick \/ PollStep \/ EventThreadStep \/ SignalStep \/ HmiStep

Spec == Init /\ [][Next]_vars

-----------------------------------------------------------------------------
(* Properties                                                              *)

RowsOK ==
  /\ file \in [EventIds -> Rows \cup {NoRow}]
  /\ known \in [EventIds -> Rows \cup {NoRow}]
  /\ timer \in [EventIds -> Rows \cup {NoRow}]
  /\ base \in [EventIds -> Rows \cup {NoRow}]

PollOK ==
  /\ pc \in {"idle", "validate", "reply", "write", "insert"}
  /\ optMap \subseteq OptIds
  /\ seen \subseteq EventIds
  /\ left \subseteq Listed(known)
  /\ pc # "insert" => left = {}
  /\ prev \in Nat
  /\ open \in BOOLEAN
  /\ answers \in [EventIds -> Opts \cup {"none"}]

EventsOK ==
  /\ waiting \in EventIds \cup {None}
  /\ waiting # None => timer[waiting] # NoRow
  /\ pc # "idle" => timer = Nobody
  /\ running \in EventIds \cup {None}
  /\ until \in Nat
  /\ refresh \in Nat
  /\ skipped \in BOOLEAN

HmiOK ==
  /\ sched \subseteq OptIds
  /\ hmi \in [at : {"idle", "optevent", "createopt", "cancelopt"},
              ids : SUBSET EventIds, opt : Opts, stop : SUBSET EventIds,
              mark : [EventIds -> OptIds \cup {0}]]
  /\ told \in [EventIds -> Opts \cup {"none"}]
  /\ now \in Nat /\ messages \in Nat /\ commands \in Nat

\* The type invariant; the event thread waits only for an event it knows, and has none
\* while a message is processed.
TypeOK == RowsOK /\ PollOK /\ EventsOK /\ HmiOK

\* i is over before j starts; what has no duration is never over.
Before(f, i, j) == f[i].dur # 0 /\ f[i].start + f[i].dur < f[j].start

DisjointIn(f, ids) ==
  \A i, j \in Listed(f) \cap ids : i # j => Before(f, i, j) \/ Before(f, j, i)

\* The events of eventdetails.db never overlap, whatever the VTN sends and whoever
\* updates the file meanwhile (validateEvent, "check for overlapping events").
Disjoint == DisjointIn(file, EventIds)

\* A message never replaces an event by an older modification of it (EventHandler.cpp:288),
\* unless the scan of the file missed the event.
ModNotLower ==
  [][ ~ScanRace => \A id \in Listed(file') \ Listed(file) :
                      base[id] # NoRow => file'[id].mod >= base[id].mod ]_vars

OptOut(opt) == opt # "opt-in"

\* What the VTN was told of an event is what its row says (VENManager.cpp:404: payload
\* and file are updated together).
VtnKnowsOpt ==
  pc = "idle" /\ hmi = Quiet /\ ~ExchangeFails
    => \A id \in Listed(file) : OptOut(file[id].opt) = OptOut(told[id])

\* previousEvent is the end of a valid event (EventHandler.cpp:658).
PreviousIsValid ==
  pc = "validate" /\ prev # 0 =>
    \E id \in Listed(known) \cap seen : prev = known[id].start + known[id].dur

\* Signals run for an event that is known, or are over (EventHandler.cpp:968).
SignalsFollow ==
  pc = "idle" /\ running # None => file[running] # NoRow \/ until <= now

\* An event that is passed over because it is active has its signals running: the event
\* thread starts the signals of every event (EventHandler.cpp:1050).
NoneSkipped == ~skipped

\* Pending events in an opt-out schedule are opted out (EventHandler.cpp:627).
ScheduleRespected ==
  pc = "idle" /\ hmi = Quiet =>
    \A id \in Listed(file) :
      file[id].start > now /\ Covering(sched, file[id].start, file[id].dur) # {}
        => OptOut(file[id].opt)

\* An event whose signals run is not opted out (VENManager.cpp:400).
RunningOptedIn ==
  running # None /\ now < until /\ file[running] # NoRow => ~OptOut(file[running].opt)

\* What the file holds, or will hold once it is written from the maps.
stored == [id \in EventIds |-> IF id \in left THEN known[id] ELSE file[id]]

\* eventdetails.db keeps the promise of Calendar: as far as its rows and those still to
\* be written go, a message replaces it at one moment, and what was accepted is lost only
\* when its start is reached (EventHandler.cpp:207, 1001-1037, 1153; VENManager.cpp:451, 1124).
Promise == INSTANCE Calendar WITH events <- stored,
                                  pending <- pc \in {"validate", "reply", "write"}

KeepsCalendar == Promise!Spec

=============================================================================
