------------------------ MODULE EventScheduleProofs ------------------------
(***************************************************************************)
(* Machine-checked proofs about EventSchedule, for every set of events, of *)
(* schedules and of times: the type invariant, that the events of          *)
(* eventdetails.db never overlap, that a message never replaces an event   *)
(* by an older modification, that the VTN knows the opt states if messages *)
(* and commands take turns, and that the file implements Calendar.         *)
(***************************************************************************)
EXTENDS EventSchedule, FiniteSetTheorems, WellFoundedInduction, TLAPS

Maps == [EventIds -> Rows \cup {NoRow}]

\* A listed row is a row.
LEMMA ListedRow ==
  ASSUME NEW f \in Maps, NEW id \in EventIds, f[id] # NoRow
  PROVE  /\ f[id] \in Rows
         /\ f[id].start \in Nat /\ f[id].start > 0
         /\ f[id].dur \in Nat
         /\ f[id].mod \in Nat
<1>1. f[id] \in Rows
  BY DEF Maps
<1>2. Starts \subseteq Nat \ {0} /\ Durations \subseteq Nat /\ Mods \subseteq Nat
  BY ScheduleAssumption
<1>3. f[id].start \in Starts /\ f[id].dur \in Durations /\ f[id].mod \in Mods
  BY <1>1 DEF Rows
<1>4. f[id].start \in Nat \ {0}
  BY <1>2, <1>3
<1>5. f[id].dur \in Nat /\ f[id].mod \in Nat
  BY <1>2, <1>3
<1> QED
  BY <1>1, <1>4, <1>5

LEMMA NoneIsNoEvent == None \notin EventIds
BY ScheduleAssumption DEF None

LEMMA NobodyIsMap == Nobody \in Maps
BY DEF Nobody, Maps

LEMMA WithoutIsMap ==
  ASSUME NEW f \in Maps, NEW id \in EventIds
  PROVE  Without(f, id) \in Maps
BY DEF Without, Maps

LEMMA RefreshIsMap ==
  ASSUME NEW f \in Maps
  PROVE  Refresh(f) \in Maps
BY DEF Refresh, Maps

\* A finite set of numbers has an element that no other one follows in a given order: of
\* the sets of what follows an element of it, one contains no other.
LEMMA LastElement ==
  ASSUME NEW s \in SUBSET Nat, s # {}, IsFiniteSet(s), NEW order,
         \A x \in s : <<x, x>> \notin order,
         \A x, y, z \in s : <<x, y>> \in order /\ <<y, z>> \in order => <<x, z>> \in order
  PROVE  \E r \in s : \A q \in s : <<r, q>> \notin order
<1> DEFINE After(r) == {q \in s : <<r, q>> \in order}
           afters == {After(r) : r \in s}
<1>1. IsWellFoundedOn(StrictSubsetOrdering(Nat), FiniteSubsetsOf(Nat))
  BY FS_StrictSubsetOrderingWellFounded
<1>2. \A r \in s : After(r) \in FiniteSubsetsOf(Nat)
  BY FS_Subset DEF FiniteSubsetsOf
<1>3. afters \subseteq FiniteSubsetsOf(Nat) /\ afters # {}
  <2>1. \A u \in afters : u \in FiniteSubsetsOf(Nat)
    BY <1>2
  <2>2. PICK r \in s : TRUE
    OBVIOUS
  <2>3. After(r) \in afters
    BY <2>2
  <2> QED
    BY <2>1, <2>3, Zenon
<1> HIDE DEF afters
<1>4. PICK least \in afters : \A u \in afters : <<u, least>> \notin StrictSubsetOrdering(Nat)
  BY <1>1, <1>3, WFMin
<1>5. PICK r \in s : least = After(r)
  BY <1>4 DEF afters
<1>6. ASSUME NEW q \in s, <<r, q>> \in order
      PROVE  FALSE
  <2>1. After(q) \subseteq After(r)
    <3>1. \A y \in s : <<q, y>> \in order => <<r, y>> \in order
      BY <1>6
    <3> QED
      BY <3>1, Zenon
  <2>2. q \in After(r) /\ q \notin After(q)
    BY <1>6
  <2>3. After(q) \in afters
    BY DEF afters
  <2>4. <<After(q), After(r)>> \in StrictSubsetOrdering(Nat)
    BY <1>2, <2>1, <2>2 DEF StrictSubsetOrdering, FiniteSubsetsOf
  <2> QED
    BY <1>4, <1>5, <2>3, <2>4
<1> QED
  BY <1>6

LEMMA GreatestElement ==
  ASSUME NEW s \in SUBSET Nat, s # {}, IsFiniteSet(s)
  PROVE  Max(s) \in s
<1> DEFINE order == {p \in Nat \X Nat : p[1] < p[2]}
<1>1. \A x, y \in s : <<x, y>> \in order <=> x < y
  OBVIOUS
<1> HIDE DEF order
<1>2. \E r \in s : \A q \in s : <<r, q>> \notin order
  BY <1>1, LastElement
<1>3. PICK r \in s : \A q \in s : <<r, q>> \notin order
  BY <1>2
<1>4. \A q \in s : ~(r < q)
  BY <1>1, <1>3, Zenon
<1>5. \A q \in s : r >= q
  BY <1>4
<1> QED
  BY <1>5 DEF Max

LEMMA LeastElement ==
  ASSUME NEW s \in SUBSET Nat, s # {}, IsFiniteSet(s)
  PROVE  Min(s) \in s
<1> DEFINE order == {p \in Nat \X Nat : p[1] > p[2]}
<1>1. \A x, y \in s : <<x, y>> \in order <=> x > y
  OBVIOUS
<1> HIDE DEF order
<1>2. \E r \in s : \A q \in s : <<r, q>> \notin order
  BY <1>1, LastElement
<1>3. PICK r \in s : \A q \in s : <<r, q>> \notin order
  BY <1>2
<1>4. \A q \in s : ~(r > q)
  BY <1>1, <1>3, Zenon
<1>5. \A q \in s : r <= q
  BY <1>4
<1> QED
  BY <1>5 DEF Min

\* The opt id chosen among the covering schedules is one of them.
LEMMA CoveringMax ==
  ASSUME NEW schedules \in SUBSET OptIds, NEW start, NEW dur,
         Covering(schedules, start, dur) # {}
  PROVE  Max(Covering(schedules, start, dur)) \in OptIds
<1>1. Covering(schedules, start, dur) \in SUBSET OptIds
  BY DEF Covering
<1>2. /\ Covering(schedules, start, dur) \in SUBSET Nat
      /\ IsFiniteSet(Covering(schedules, start, dur))
  BY <1>1, FS_Subset, ScheduleAssumption
<1> QED
  BY <1>1, <1>2, GreatestElement

LEMMA EvaluatedType ==
  ASSUME PollOK, NEW start, NEW dur
  PROVE  /\ Evaluated(start, dur).opt \in Opts
         /\ Evaluated(start, dur).optId \in OptIds \cup {0}
<1>1. optMap \in SUBSET OptIds
  BY DEF PollOK
<1>2. CASE Covering(optMap, start, dur) = {}
  BY <1>2 DEF Evaluated, Opts
<1>3. CASE Covering(optMap, start, dur) # {}
  <2>1. Max(Covering(optMap, start, dur)) \in OptIds
    BY <1>1, <1>3, CoveringMax
  <2> QED
    BY <1>3, <2>1 DEF Evaluated, Opts
<1> QED
  BY <1>2, <1>3

LEMMA OptStateType ==
  ASSUME PollOK, NEW old \in Rows \cup {NoRow}, NEW start, NEW dur
  PROVE  /\ OptState(old, start, dur).opt \in Opts
         /\ OptState(old, start, dur).optId \in OptIds \cup {0}
<1>1. CASE old = NoRow
  BY <1>1, EvaluatedType DEF OptState
<1>2. CASE old # NoRow /\ (old.opt = "opt-in" \/ old.start # start)
  BY <1>2, EvaluatedType DEF OptState
<1>3. CASE old # NoRow /\ ~(old.opt = "opt-in" \/ old.start # start)
  <2>1. old.opt \in Opts /\ old.optId \in OptIds \cup {0}
    BY <1>3 DEF Rows
  <2> QED
    BY <1>3, <2>1 DEF OptState, Opts
<1> QED
  BY <1>1, <1>2, <1>3

LEMMA InitTypeOK == Init => TypeOK
<1> SUFFICES ASSUME Init PROVE TypeOK
  OBVIOUS
<1>1. RowsOK
  BY NobodyIsMap DEF Init, RowsOK, Maps
<1>2. PollOK
  BY DEF Init, PollOK
<1>3. EventsOK
  BY DEF Init, EventsOK, None
<1>4. HmiOK
  BY DEF Init, HmiOK, Quiet, Opts
<1> QED
  BY <1>1, <1>2, <1>3, <1>4 DEF TypeOK

-----------------------------------------------------------------------------
(* Type correctness, step by step                                          *)

LEMMA RowsAreMaps ==
  ASSUME RowsOK
  PROVE  file \in Maps /\ known \in Maps /\ timer \in Maps /\ base \in Maps
BY DEF RowsOK, Maps

LEMMA MapsAreRows ==
  ASSUME file' \in Maps, known' \in Maps, timer' \in Maps, base' \in Maps
  PROVE  RowsOK'
BY DEF RowsOK, Maps

\* Stopping signals leaves an instant to refresh the file at.
LEMMA StopSignalsType ==
  ASSUME EventsOK, now \in Nat, NEW stop, StopSignalsIf(stop)
  PROVE  /\ running' \in EventIds \cup {None}
         /\ until' \in Nat
         /\ refresh' \in Nat
BY DEF EventsOK, StopSignalsIf, StopSignals, RefreshSoon, signalVars, None

LEMMA DistributeType == TypeOK /\ Distribute => TypeOK'
<1> SUFFICES ASSUME TypeOK, Distribute PROVE TypeOK'
  OBVIOUS
<1> USE DEF TypeOK
<1>1. file \in Maps /\ base \in Maps
  BY RowsAreMaps
<1>2. known' \in Maps
  BY <1>1 DEF Distribute, Maps
<1>3. RowsOK'
  BY <1>1, <1>2, NobodyIsMap, MapsAreRows DEF Distribute
<1>4. PollOK'
  <2>1. optMap' \subseteq OptIds
    BY DEF Distribute, HmiOK
  <2>2. left' \subseteq Listed(known')
    BY DEF Distribute, PollOK
  <2> QED
    BY <2>1, <2>2 DEF Distribute, PollOK
<1>5. EventsOK'
  BY DEF Distribute, EventsOK, signalVars, None
<1>6. HmiOK'
  BY DEF Distribute, HmiOK, hmiVars
<1> QED
  BY <1>3, <1>4, <1>5, <1>6

LEMMA ValidateType ==
  ASSUME TypeOK,
         NEW id \in EventIds, NEW mod \in Mods, NEW start \in Starts,
         NEW dur \in Durations, NEW kind \in Kinds,
         Validate(id, mod, start, dur, kind)
  PROVE  TypeOK'
<1> USE DEF TypeOK
<1>1. start \in Nat /\ dur \in Nat
  <2>1. Starts \subseteq Nat \ {0} /\ Durations \subseteq Nat
    BY ScheduleAssumption
  <2> QED
    BY <2>1
<1>2. file \in Maps /\ known \in Maps /\ timer \in Maps /\ base \in Maps
  BY RowsAreMaps
<1>3. /\ known' \in Maps
      /\ answers' \in [EventIds -> Opts \cup {"none"}]
      /\ \E stop : StopSignalsIf(stop)
  <2>1. CASE RejectEvent(id, start, dur)
    BY <2>1, <1>2, WithoutIsMap DEF RejectEvent, PollOK
  <2>2. CASE CancelEvent(id, start, dur)
    BY <2>2, <1>2, WithoutIsMap DEF CancelEvent, PollOK
  <2>3. CASE AcceptEvent(id, mod, start, dur)
    <3> DEFINE state == OptState(known[id], start, dur)
               row == [mod |-> mod, start |-> start, dur |-> dur,
                       opt |-> state.opt, optId |-> state.optId]
    <3>1. known[id] \in Rows \cup {NoRow}
      BY <1>2 DEF Maps
    <3>2. state.opt \in Opts /\ state.optId \in OptIds \cup {0}
      BY <3>1, OptStateType
    <3>3. row \in Rows
      BY <3>2 DEF Rows
    <3>4. /\ known' = [known EXCEPT ![id] = row]
          /\ answers' = [answers EXCEPT ![id] = state.opt]
          /\ StopSignalsIf(Moved(id, start))
      BY <2>3 DEF AcceptEvent
    <3> HIDE DEF row, state
    <3>5. known' \in Maps
      BY <3>3, <3>4, <1>2 DEF Maps
    <3>6. answers' \in [EventIds -> Opts \cup {"none"}]
      BY <3>2, <3>4 DEF PollOK
    <3> QED
      BY <3>4, <3>5, <3>6
  <2> QED
    BY <2>1, <2>2, <2>3 DEF Validate
<1>4. RowsOK'
  BY <1>2, <1>3, MapsAreRows DEF Validate, eventVars
<1>5. PollOK'
  <2>1. left' = {}
    BY DEF Validate, PollOK
  <2>2. prev' \in Nat /\ open' \in BOOLEAN
    <3>1. \/ prev' = start + dur /\ open' = (dur # 0)
          \/ prev' = prev /\ open' = open
      BY Zenon DEF Validate
    <3>2. start + dur \in Nat /\ (dur # 0) \in BOOLEAN
      BY <1>1
    <3> QED
      BY <3>1, <3>2, Zenon DEF PollOK
  <2> QED
    BY <1>3, <2>1, <2>2 DEF Validate, PollOK
<1>6. EventsOK'
  <2>1. now \in Nat
    BY DEF HmiOK
  <2>2. running' \in EventIds \cup {None} /\ until' \in Nat /\ refresh' \in Nat
    BY <1>3, <2>1, StopSignalsType
  <2> QED
    BY <2>2 DEF Validate, EventsOK, eventVars
<1>7. HmiOK'
  BY DEF Validate, HmiOK, hmiVars
<1> QED
  BY <1>4, <1>5, <1>6, <1>7

LEMMA ImpliedCancelType == TypeOK /\ ImpliedCancel => TypeOK'
<1> SUFFICES ASSUME TypeOK, ImpliedCancel PROVE TypeOK'
  OBVIOUS
<1> USE DEF TypeOK
<1>1. file \in Maps /\ known \in Maps /\ timer \in Maps /\ base \in Maps
  BY RowsAreMaps
<1>2. known' \in Maps
  BY <1>1 DEF ImpliedCancel, Maps
<1>3. RowsOK'
  BY <1>1, <1>2, MapsAreRows DEF ImpliedCancel, eventVars
<1>4. PollOK'
  BY DEF ImpliedCancel, PollOK
<1>5. EventsOK'
  <2>1. now \in Nat
    BY DEF HmiOK
  <2>2. running' \in EventIds \cup {None} /\ until' \in Nat /\ refresh' \in Nat
    BY <2>1, StopSignalsType DEF ImpliedCancel
  <2> QED
    BY <2>2 DEF ImpliedCancel, EventsOK, eventVars
<1>6. HmiOK'
  BY DEF ImpliedCancel, HmiOK, hmiVars
<1> QED
  BY <1>3, <1>4, <1>5, <1>6

\* The exchange and writing the file.
LEMMA WriteType ==
  TypeOK /\ (CreatedEvent \/ RemoveFile \/ InsertRow \/ StartEventThread) => TypeOK'
<1> USE DEF TypeOK
<1>1. ASSUME TypeOK, CreatedEvent PROVE TypeOK'
  <2>1. RowsOK' /\ PollOK' /\ EventsOK'
    BY <1>1 DEF CreatedEvent, RowsOK, PollOK, EventsOK, eventVars, signalVars, Listed
  <2>2. told' \in [EventIds -> Opts \cup {"none"}]
    BY <1>1 DEF CreatedEvent, PollOK, HmiOK
  <2>3. HmiOK'
    BY <1>1, <2>2 DEF CreatedEvent, HmiOK, hmiVars
  <2> QED
    BY <2>1, <2>3
<1>2. ASSUME TypeOK, RemoveFile PROVE TypeOK'
  <2>1. RowsOK'
    BY <1>2, RowsAreMaps, NobodyIsMap, MapsAreRows DEF RemoveFile, eventVars
  <2>2. PollOK'
    BY <1>2 DEF RemoveFile, PollOK, Listed
  <2>3. EventsOK' /\ HmiOK'
    BY <1>2 DEF RemoveFile, EventsOK, HmiOK, eventVars, signalVars, hmiVars
  <2> QED
    BY <2>1, <2>2, <2>3
<1>3. ASSUME TypeOK, InsertRow PROVE TypeOK'
  <2>1. file \in Maps /\ known \in Maps /\ timer \in Maps /\ base \in Maps
    BY <1>3, RowsAreMaps
  <2>2. file' \in Maps
    BY <1>3, <2>1 DEF InsertRow, Maps
  <2>3. RowsOK'
    BY <1>3, <2>1, <2>2, MapsAreRows DEF InsertRow, eventVars
  <2>4. PollOK'
    BY <1>3 DEF InsertRow, PollOK, Listed
  <2>5. EventsOK' /\ HmiOK'
    BY <1>3 DEF InsertRow, EventsOK, HmiOK, eventVars, signalVars, hmiVars
  <2> QED
    BY <2>3, <2>4, <2>5
<1>4. ASSUME TypeOK, StartEventThread PROVE TypeOK'
  <2>1. RowsOK'
    BY <1>4, RowsAreMaps, MapsAreRows DEF StartEventThread
  <2>2. PollOK'
    BY <1>4 DEF StartEventThread, PollOK, Listed
  <2>3. HmiOK'
    BY <1>4 DEF StartEventThread, HmiOK, hmiVars
  <2>4. waiting = None
    <3>1. waiting \in EventIds => Nobody[waiting] = NoRow
      BY DEF Nobody
    <3> QED
      BY <1>4, <3>1 DEF StartEventThread, EventsOK
  <2>5. EventsOK'
    BY <1>4, <2>4 DEF StartEventThread, EventsOK, signalVars
  <2> QED
    BY <2>1, <2>2, <2>3, <2>5
<1> QED
  BY <1>1, <1>2, <1>3, <1>4

\* Updating a row leaves a map of rows.
LEMMA TimerWithout ==
  ASSUME TypeOK, NEW id \in EventIds, timer' = Without(timer, id)
  PROVE  timer' \in Maps /\ (pc # "idle" => timer' = Nobody)
<1>1. timer \in Maps
  BY RowsAreMaps DEF TypeOK
<1>2. timer' \in Maps
  BY <1>1, WithoutIsMap
<1>3. timer = Nobody => timer' = Nobody
  BY DEF Without, Nobody
<1> QED
  BY <1>2, <1>3 DEF TypeOK, EventsOK

LEMMA TakeEventType == TypeOK /\ TakeEvent => TypeOK'
<1> SUFFICES ASSUME TypeOK, TakeEvent PROVE TypeOK'
  OBVIOUS
<1> USE DEF TypeOK
<1>1. file \in Maps /\ known \in Maps /\ timer \in Maps /\ base \in Maps
  BY RowsAreMaps
<1>2. PICK id \in Upcoming :
        IF ActiveRow(timer, id)
          THEN /\ timer' = Without(timer, id)
               /\ skipped' = (skipped \/ (running # id /\ timer[id].opt = "opt-in"))
               /\ UNCHANGED waiting
          ELSE waiting' = id /\ UNCHANGED <<timer, skipped>>
  BY DEF TakeEvent
<1>3. id \in EventIds /\ timer[id] # NoRow
  BY <1>2 DEF Upcoming, Listed
<1>4. PollOK' /\ HmiOK'
  BY DEF TakeEvent, PollOK, HmiOK, pollVars, hmiVars, Listed
<1>5. RowsOK' /\ EventsOK'
  <2>1. CASE ActiveRow(timer, id)
    <3>1. timer' \in Maps /\ (pc # "idle" => timer' = Nobody)
      BY <1>2, <1>3, <2>1, TimerWithout
    <3>2. RowsOK'
      BY <1>1, <3>1, MapsAreRows DEF TakeEvent, pollVars
    <3>3. skipped' \in BOOLEAN /\ waiting' = None
      BY <1>2, <2>1 DEF TakeEvent, EventsOK
    <3> QED
      BY <3>1, <3>2, <3>3 DEF TakeEvent, EventsOK, pollVars, signalVars
  <2>2. CASE ~ActiveRow(timer, id)
    <3>1. waiting' = id /\ timer' = timer /\ skipped' = skipped
      BY <1>2, <2>2
    <3>2. RowsOK'
      BY <1>1, <3>1, MapsAreRows DEF TakeEvent, pollVars
    <3> QED
      BY <1>3, <3>1, <3>2 DEF TakeEvent, EventsOK, pollVars, signalVars
  <2> QED
    BY <2>1, <2>2
<1> QED
  BY <1>4, <1>5

LEMMA EventDueType ==
  ASSUME TypeOK, NEW override, EventDue(override)
  PROVE  TypeOK'
<1> USE DEF TypeOK
<1>1. file \in Maps /\ known \in Maps /\ timer \in Maps /\ base \in Maps
  BY RowsAreMaps
<1>2. /\ waiting \in EventIds
      /\ timer' = Without(timer, waiting) /\ waiting' = None
      /\ UNCHANGED <<now, pollVars, skipped, hmiVars>>
  BY DEF EventDue, EventsOK
<1>3. timer' \in Maps /\ (pc # "idle" => timer' = Nobody)
  BY <1>2, TimerWithout
<1>4. timer[waiting] # NoRow
  BY <1>2, NoneIsNoEvent DEF EventsOK
<1>5. timer[waiting].start + timer[waiting].dur \in Nat
  BY <1>1, <1>2, <1>4, ListedRow
<1>6. \/ /\ running' = waiting
         /\ until' = timer[waiting].start + timer[waiting].dur
         /\ RefreshSoon
         /\ UNCHANGED <<file, told>>
      \/ /\ file' = Without(file, waiting)
         /\ told' = [told EXCEPT ![waiting] = "opt-out_hmi"] \/ UNCHANGED told
         /\ UNCHANGED signalVars
  BY DEF EventDue
<1>7. file' \in Maps /\ told' \in [EventIds -> Opts \cup {"none"}]
  <2>1. told \in [EventIds -> Opts \cup {"none"}] /\ "opt-out_hmi" \in Opts
    BY DEF HmiOK, Opts
  <2>2. Without(file, waiting) \in Maps
    BY <1>1, <1>2, WithoutIsMap
  <2> QED
    BY <1>1, <1>6, <2>1, <2>2
<1>8. running' \in EventIds \cup {None} /\ until' \in Nat /\ refresh' \in Nat
  BY <1>2, <1>5, <1>6 DEF EventsOK, HmiOK, RefreshSoon, signalVars
<1>9. RowsOK' /\ PollOK'
  BY <1>1, <1>2, <1>3, <1>7, MapsAreRows DEF PollOK, pollVars, Listed
<1>10. EventsOK' /\ HmiOK'
  BY <1>2, <1>3, <1>7, <1>8 DEF EventsOK, HmiOK, pollVars, hmiVars
<1> QED
  BY <1>9, <1>10

LEMMA SignalType == TypeOK /\ SignalStep => TypeOK'
<1> USE DEF TypeOK
<1>1. ASSUME TypeOK, SignalsEnd PROVE TypeOK'
  <2>1. running' \in EventIds \cup {None} /\ until' \in Nat /\ refresh' \in Nat
    BY <1>1, StopSignalsType DEF SignalsEnd, StopSignalsIf, HmiOK
  <2>2. RowsOK' /\ PollOK'
    BY <1>1 DEF SignalsEnd, RowsOK, PollOK, pollVars, eventVars, Listed
  <2>3. EventsOK' /\ HmiOK'
    BY <1>1, <2>1 DEF SignalsEnd, EventsOK, HmiOK, pollVars, eventVars, hmiVars
  <2> QED
    BY <2>2, <2>3
<1>2. ASSUME TypeOK, RefreshFile PROVE TypeOK'
  <2>1. RowsOK'
    BY <1>2, RowsAreMaps, RefreshIsMap, MapsAreRows DEF RefreshFile, pollVars, eventVars
  <2>2. PollOK'
    BY <1>2 DEF RefreshFile, PollOK, pollVars, Listed
  <2>3. EventsOK' /\ HmiOK'
    BY <1>2 DEF RefreshFile, EventsOK, HmiOK, pollVars, eventVars, hmiVars
  <2> QED
    BY <2>1, <2>2, <2>3
<1> QED
  BY <1>1, <1>2 DEF SignalStep

Commands == [at : {"idle", "optevent", "createopt", "cancelopt"},
             ids : SUBSET EventIds, opt : Opts, stop : SUBSET EventIds,
             mark : [EventIds -> OptIds \cup {0}]]

LEMMA QuietIsCommand == Quiet \in Commands
BY DEF Quiet, Commands, Opts

\* Telling the VTN of a command keeps the types of both.
LEMMA TellVtnType ==
  ASSUME HmiOK, NEW command \in Commands, TellVtn(command)
  PROVE  hmi' \in Commands /\ told' \in [EventIds -> Opts \cup {"none"}]
<1>1. command.opt \in Opts
  BY DEF Commands
<1>2. CASE /\ told' = [id \in EventIds |-> IF id \in command.ids THEN command.opt
                                                               ELSE told[id]]
           /\ hmi' = command
  BY <1>1, <1>2 DEF HmiOK
<1>3. CASE hmi' = Quiet /\ UNCHANGED told
  BY <1>3, QuietIsCommand DEF HmiOK
<1> QED
  BY <1>2, <1>3 DEF TellVtn

\* A command that starts changes only what the VTN was told and the schedules.
LEMMA CommandType ==
  ASSUME TypeOK, NEW command, HmiStarts(command),
         sched' \subseteq OptIds, hmi' \in Commands,
         told' \in [EventIds -> Opts \cup {"none"}],
         UNCHANGED <<now, file, pollVars, eventVars, signalVars>>
  PROVE  TypeOK'
<1> USE DEF TypeOK
<1>1. RowsOK' /\ PollOK'
  BY DEF RowsOK, PollOK, pollVars, eventVars, Listed
<1>2. EventsOK'
  BY DEF EventsOK, pollVars, eventVars, signalVars
<1>3. HmiOK'
  BY DEF HmiOK, HmiStarts, Commands, pollVars
<1> QED
  BY <1>1, <1>2, <1>3

LEMMA OptEventType ==
  ASSUME TypeOK, NEW id \in EventIds, NEW override, OptEvent(id, override)
  PROVE  TypeOK'
<1> DEFINE opt == IF file[id].opt = "opt-in" THEN "opt-out_hmi" ELSE "opt-in"
           stop == IF ActiveRow(file, id) /\ opt # "opt-in" THEN {id} ELSE {}
           command == [at |-> "optevent", ids |-> {id}, opt |-> opt,
                       mark |-> SomeMark(0), stop |-> stop]
<1>1. HmiStarts("optevent") /\ TellVtn(command)
      /\ UNCHANGED <<now, file, pollVars, eventVars, signalVars, sched>>
  BY DEF OptEvent
<1>2. opt \in Opts /\ stop \in SUBSET EventIds
  BY DEF Opts
<1>3. SomeMark(0) \in [EventIds -> OptIds \cup {0}]
  BY DEF SomeMark
<1> HIDE DEF opt, stop
<1>4. command \in Commands
  BY <1>2, <1>3 DEF Commands
<1> HIDE DEF command
<1>5. HmiOK /\ sched' \subseteq OptIds
  BY <1>1 DEF TypeOK, HmiOK
<1> QED
  BY <1>1, <1>4, <1>5, TellVtnType, CommandType

LEMMA CreateOptType ==
  ASSUME TypeOK, NEW o \in OptIds, NEW override, CreateOpt(o, override)
  PROVE  TypeOK'
<1> DEFINE ids == ToOptOut(sched', override)
           mark == [id \in EventIds |->
                      IF id \in ids
                        THEN Max(Covering(sched', file[id].start, file[id].dur)) ELSE 0]
           stop == {id \in ids : ActiveRow(file, id)}
           command == [at |-> "createopt", ids |-> ids, opt |-> "opt-out_sch",
                       mark |-> mark, stop |-> stop]
<1>1. /\ HmiStarts("createopt") /\ TellVtn(command)
      /\ sched' = sched \cup {o}
      /\ UNCHANGED <<now, file, pollVars, eventVars, signalVars>>
  BY DEF CreateOpt
<1>2. HmiOK /\ sched' \in SUBSET OptIds
  BY <1>1 DEF TypeOK, HmiOK
<1>3. /\ ids \in SUBSET EventIds
      /\ \A id \in ids : Covering(sched', file[id].start, file[id].dur) # {}
  BY DEF ToOptOut, Listed
<1>4. mark \in [EventIds -> OptIds \cup {0}]
  <2>1. ASSUME NEW id \in EventIds, id \in ids
        PROVE  Max(Covering(sched', file[id].start, file[id].dur)) \in OptIds
    BY <1>2, <1>3, <2>1, CoveringMax
  <2> HIDE DEF ids
  <2> QED
    BY <2>1
<1>5. stop \in SUBSET EventIds
  BY <1>3
<1> HIDE DEF ids, mark, stop
<1>6. command \in Commands
  BY <1>3, <1>4, <1>5 DEF Commands, Opts
<1> HIDE DEF command
<1> QED
  BY <1>1, <1>2, <1>6, TellVtnType, CommandType

LEMMA CancelOptType ==
  ASSUME TypeOK, NEW o \in OptIds, NEW override, CancelOpt(o, override)
  PROVE  TypeOK'
<1> DEFINE ids == ToOptIn(SomeMark(o), override)
           command == [at |-> "cancelopt", ids |-> ids, opt |-> "opt-in",
                       mark |-> SomeMark(o), stop |-> {}]
<1>1. /\ HmiStarts("cancelopt") /\ TellVtn(command)
      /\ sched' = sched \ {o}
      /\ UNCHANGED <<now, file, pollVars, eventVars, signalVars>>
  BY DEF CancelOpt
<1>2. HmiOK /\ sched' \in SUBSET OptIds
  BY <1>1 DEF TypeOK, HmiOK
<1>3. ids \in SUBSET EventIds /\ SomeMark(o) \in [EventIds -> OptIds \cup {0}]
  BY DEF ToOptIn, Listed, SomeMark
<1> HIDE DEF ids
<1>4. command \in Commands
  BY <1>3 DEF Commands, Opts
<1> HIDE DEF command
<1> QED
  BY <1>1, <1>2, <1>4, TellVtnType, CommandType

LEMMA ApplyOptType == TypeOK /\ ApplyOpt => TypeOK'
<1> SUFFICES ASSUME TypeOK, ApplyOpt PROVE TypeOK'
  OBVIOUS
<1> USE DEF TypeOK
<1>1. file \in Maps /\ known \in Maps /\ timer \in Maps /\ base \in Maps
  BY RowsAreMaps
<1>2. hmi \in Commands
  BY DEF HmiOK, Commands
<1>3. hmi.opt \in Opts /\ hmi.mark \in [EventIds -> OptIds \cup {0}]
  BY <1>2 DEF Commands
<1> DEFINE changed(id) == [file[id] EXCEPT !.opt = hmi.opt,
                             !.optId = IF hmi.at = "createopt" THEN hmi.mark[id] ELSE @]
<1>4. ASSUME NEW id \in EventIds, file[id] # NoRow
      PROVE  changed(id) \in Rows
  <2>1. file[id] \in Rows
    BY <1>1, <1>4, ListedRow
  <2> DEFINE optId == IF hmi.at = "createopt" THEN hmi.mark[id] ELSE file[id].optId
  <2>2. optId \in OptIds \cup {0}
    BY <1>3, <2>1 DEF Rows
  <2>3. changed(id) = [file[id] EXCEPT !.opt = hmi.opt, !.optId = optId]
    OBVIOUS
  <2> HIDE DEF optId
  <2>4. [file[id] EXCEPT !.opt = hmi.opt, !.optId = optId] \in Rows
    BY <1>3, <2>1, <2>2 DEF Rows
  <2> QED
    BY <2>3, <2>4
<1>5. file' = [id \in EventIds |->
         CASE id \in hmi.stop -> NoRow
           [] id \in hmi.ids \ hmi.stop /\ file[id] # NoRow -> changed(id)
           [] OTHER -> file[id]]
  BY DEF ApplyOpt
<1> HIDE DEF changed
<1>6. file' \in Maps
  <2>1. \A id \in EventIds : file'[id] \in Rows \cup {NoRow}
    BY <1>1, <1>4, <1>5 DEF Maps
  <2> QED
    BY <1>5, <2>1 DEF Maps
<1>7. RowsOK' /\ PollOK'
  BY <1>1, <1>6, MapsAreRows DEF ApplyOpt, PollOK, pollVars, eventVars, Listed
<1>8. running' \in EventIds \cup {None} /\ until' \in Nat /\ refresh' \in Nat
  BY StopSignalsType DEF ApplyOpt, HmiOK
<1>9. EventsOK'
  BY <1>8 DEF ApplyOpt, EventsOK, pollVars, eventVars
<1>10. HmiOK'
  <2>1. hmi' \in Commands
    BY QuietIsCommand DEF ApplyOpt
  <2> QED
    BY <2>1 DEF ApplyOpt, HmiOK, Commands, pollVars
<1> QED
  BY <1>7, <1>9, <1>10

LEMMA ApplyCancelOptType ==
  ASSUME TypeOK, NEW override, ApplyCancelOpt(override)
  PROVE  TypeOK'
<1> USE DEF TypeOK
<1>1. file \in Maps /\ known \in Maps /\ timer \in Maps /\ base \in Maps
  BY RowsAreMaps
<1>2. file' \in Maps
  <2> DEFINE changed(id) == [file[id] EXCEPT !.opt = "opt-in", !.optId = 0]
             ids == ToOptIn(hmi.mark, override)
  <2>1. \A id \in ids : id \in EventIds /\ file[id] # NoRow
    BY DEF ToOptIn, Listed
  <2>2. ASSUME NEW id \in EventIds, file[id] # NoRow
        PROVE  changed(id) \in Rows
    BY <1>1, <2>2, ListedRow DEF Rows, Opts
  <2>3. file' = [id \in EventIds |-> IF id \in ids THEN changed(id) ELSE file[id]]
    BY DEF ApplyCancelOpt
  <2> HIDE DEF changed, ids
  <2> QED
    BY <1>1, <2>1, <2>2, <2>3 DEF Maps
<1>3. RowsOK' /\ PollOK'
  BY <1>1, <1>2, MapsAreRows DEF ApplyCancelOpt, PollOK, pollVars, eventVars, Listed
<1>4. EventsOK'
  BY DEF ApplyCancelOpt, EventsOK, pollVars, eventVars, signalVars
<1>5. HmiOK'
  <2>1. hmi' \in Commands
    BY QuietIsCommand DEF ApplyCancelOpt
  <2> QED
    BY <2>1 DEF ApplyCancelOpt, HmiOK, Commands, pollVars
<1> QED
  BY <1>3, <1>4, <1>5

LEMMA NextTypeOK == TypeOK /\ [Next]_vars => TypeOK'
<1> SUFFICES ASSUME TypeOK, [Next]_vars PROVE TypeOK'
  OBVIOUS
<1>1. CASE Tick
  BY <1>1 DEF Tick, TypeOK, RowsOK, PollOK, EventsOK, HmiOK, pollVars, eventVars,
              signalVars, hmiVars, Listed
<1>2. CASE PollStep
  BY <1>2, DistributeType, ValidateType, ImpliedCancelType, WriteType DEF PollStep
<1>3. CASE EventThreadStep
  BY <1>3, TakeEventType, EventDueType DEF EventThreadStep
<1>4. CASE SignalStep
  BY <1>4, SignalType
<1>5. CASE HmiStep
  BY <1>5, OptEventType, CreateOptType, CancelOptType, ApplyOptType, ApplyCancelOptType
     DEF HmiStep
<1>6. CASE UNCHANGED vars
  BY <1>6 DEF vars, TypeOK, RowsOK, PollOK, EventsOK, HmiOK, pollVars, eventVars,
              signalVars, hmiVars, Listed
<1> QED
  BY <1>1, <1>2, <1>3, <1>4, <1>5, <1>6 DEF Next

\* What is stored in eventdetails.db, in the maps of the poll thread and in those of
\* the event thread is well formed whatever is sent and commanded, rows are inserted
\* only while the file is written, and the event thread has nothing to wait for while a
\* message is processed (PollHandler stops it before eventSchedular).
THEOREM TypeCorrect == Spec => []TypeOK
<1> QED
  BY InitTypeOK, NextTypeOK, PTL DEF Spec

-----------------------------------------------------------------------------
(* What validateEvent is for: the events in eventdetails.db never overlap,  *)
(* and none is replaced by an older modification of itself.                 *)
(*                                                                          *)
(* Both rest on what holds while a message is validated: the valid events   *)
(* seen so far end by previousEvent, one without end closes the payload,    *)
(* and what is not yet seen is as it was in the file.  Everybody else who   *)
(* writes the file meanwhile only takes rows out of it or changes their     *)
(* opt state.                                                               *)

\* Every event of f is one of g, at the same time and of the same modification.
PartOf(f, g) ==
  \A id \in EventIds :
    f[id] # NoRow => /\ g[id] # NoRow
                     /\ f[id].start = g[id].start
                     /\ f[id].dur = g[id].dur
                     /\ f[id].mod = g[id].mod

\* The seen events that are still valid end by prev, and none is open.
Bounded ==
  \A i \in Listed(known) \cap seen :
    /\ known[i].start + known[i].dur <= prev
    /\ known[i].dur = 0 => ~open

OverlapInv ==
  /\ DisjointIn(file, EventIds)
  /\ pc = "validate" => DisjointIn(known, seen) /\ Bounded
  /\ pc \in {"reply", "write", "insert"} => DisjointIn(known, EventIds)
  /\ pc = "insert" => PartOf(file, known)

NewerInv ==
  ~ScanRace =>
    /\ pc = "validate" => \A id \in EventIds \ seen : known[id] = base[id]
    /\ pc # "idle" => \A id \in EventIds :
         known[id] # NoRow /\ base[id] # NoRow => known[id].mod >= base[id].mod

LEMMA NobodyDisjoint == DisjointIn(Nobody, EventIds) /\ \A f : PartOf(Nobody, f)
BY DEF DisjointIn, PartOf, Listed, Nobody

\* Taking events away makes none overlap.
LEMMA PartDisjoint ==
  ASSUME NEW f, NEW g, NEW ids \in SUBSET EventIds, PartOf(f, g), DisjointIn(g, ids)
  PROVE  DisjointIn(f, ids)
BY DEF DisjointIn, PartOf, Listed, Before

LEMMA PartTransitive ==
  ASSUME NEW f, NEW g, NEW h, PartOf(f, g), PartOf(g, h)
  PROVE  PartOf(f, h)
BY DEF PartOf

LEMMA WithoutPart ==
  ASSUME NEW f \in Maps, NEW id \in EventIds
  PROVE  PartOf(Without(f, id), f)
BY DEF PartOf, Without, Maps

\* The event thread, the signals and the HMI's thread add no event to the file and
\* leave the maps of the poll thread alone.
LEMMA OthersTakeAway ==
  ASSUME TypeOK, Tick \/ EventThreadStep \/ SignalStep \/ HmiStep \/ UNCHANGED vars
  PROVE  PartOf(file', file) /\ UNCHANGED pollVars
<1>1. file \in Maps
  BY RowsAreMaps DEF TypeOK
<1>2. CASE Tick \/ TakeEvent \/ SignalsEnd \/ UNCHANGED vars
  BY <1>2 DEF Tick, TakeEvent, SignalsEnd, vars, PartOf
<1>3. ASSUME NEW override, EventDue(override)
      PROVE  PartOf(file', file) /\ UNCHANGED pollVars
  <2>1. waiting \in EventIds /\ UNCHANGED pollVars
    BY <1>3 DEF EventDue, TypeOK, EventsOK
  <2>2. file' = file \/ file' = Without(file, waiting)
    BY <1>3 DEF EventDue
  <2>3. PartOf(file, file) /\ PartOf(Without(file, waiting), file)
    BY <1>1, <2>1, WithoutPart DEF PartOf
  <2> QED
    BY <2>1, <2>2, <2>3
<1>4. CASE RefreshFile
  BY <1>1, <1>4 DEF RefreshFile, Refresh, PartOf
<1>5. ASSUME NEW override, NEW id, OptEvent(id, override)
      PROVE  PartOf(file', file) /\ UNCHANGED pollVars
  BY <1>5 DEF OptEvent, PartOf
<1>6. ASSUME NEW override, NEW o, CreateOpt(o, override) \/ CancelOpt(o, override)
      PROVE  PartOf(file', file) /\ UNCHANGED pollVars
  BY <1>6 DEF CreateOpt, CancelOpt, PartOf
<1>7. CASE ApplyOpt
  <2>1. ASSUME NEW id \in EventIds, file'[id] # NoRow
        PROVE  /\ file[id] # NoRow
               /\ file'[id].start = file[id].start
               /\ file'[id].dur = file[id].dur
               /\ file'[id].mod = file[id].mod
    <3>1. CASE id \in hmi.stop
      BY <1>7, <2>1, <3>1 DEF ApplyOpt
    <3>2. CASE id \notin hmi.stop /\ id \in hmi.ids /\ file[id] # NoRow
      <4>1. file[id] \in Rows
        BY <1>1, <3>2, ListedRow
      <4>2. file'[id] = [file[id] EXCEPT !.opt = hmi.opt,
                           !.optId = IF hmi.at = "createopt" THEN hmi.mark[id] ELSE @]
        BY <1>7, <3>2 DEF ApplyOpt
      <4> QED
        BY <3>2, <4>1, <4>2 DEF Rows
    <3>3. CASE id \notin hmi.stop /\ ~(id \in hmi.ids /\ file[id] # NoRow)
      BY <1>7, <2>1, <3>3 DEF ApplyOpt
    <3> QED
      BY <3>1, <3>2, <3>3
  <2> QED
    BY <1>7, <2>1 DEF ApplyOpt, PartOf
<1>8. ASSUME NEW override, ApplyCancelOpt(override)
      PROVE  PartOf(file', file) /\ UNCHANGED pollVars
  <2>1. \A id \in ToOptIn(hmi.mark, override) : file[id] \in Rows /\ file[id] # NoRow
    BY <1>1, ListedRow DEF ToOptIn, Listed
  <2> QED
    BY <1>8, <2>1 DEF ApplyCancelOpt, PartOf, Rows
<1> QED
  BY <1>2, <1>3, <1>4, <1>5, <1>6, <1>7, <1>8 DEF EventThreadStep, SignalStep, HmiStep

LEMMA OthersKeep ==
  ASSUME TypeOK, OverlapInv, NewerInv,
         Tick \/ EventThreadStep \/ SignalStep \/ HmiStep \/ UNCHANGED vars
  PROVE  OverlapInv' /\ NewerInv'
<1>1. PartOf(file', file) /\ UNCHANGED pollVars
  BY OthersTakeAway
<1>2. DisjointIn(file', EventIds)
  BY <1>1, PartDisjoint DEF OverlapInv
<1>3. pc = "insert" => PartOf(file', known)
  BY <1>1, PartTransitive DEF OverlapInv
<1>4. OverlapInv'
  BY <1>1, <1>2, <1>3 DEF OverlapInv, pollVars, DisjointIn, Before, Bounded, Listed
<1>5. NewerInv'
  BY <1>1 DEF NewerInv, pollVars
<1> QED
  BY <1>4, <1>5

-----------------------------------------------------------------------------
(* The poll thread                                                         *)

\* What validating an event does to the maps: the event is forgotten, or stored as the
\* message says; only a valid one is stored.
LEMMA ValidateCases ==
  ASSUME NEW id \in EventIds, NEW mod, NEW start, NEW dur, NEW kind,
         Validate(id, mod, start, dur, kind)
  PROVE  /\ id \notin seen /\ seen' = seen \cup {id}
         /\ pc = "validate" /\ pc' = pc /\ file' = file /\ base' = base
         /\ \/ known' = Without(known, id)
            \/ /\ known[id] # NoRow => mod >= known[id].mod
               /\ start > prev /\ open
               /\ prev' = start + dur /\ open' = (dur # 0)
               /\ \E state : known' = [known EXCEPT ![id] =
                                         [mod |-> mod, start |-> start, dur |-> dur,
                                          opt |-> state.opt, optId |-> state.optId]]
         /\ \/ prev' = prev /\ open' = open
            \/ start > prev /\ open /\ prev' = start + dur /\ open' = (dur # 0)
<1>1. /\ id \notin seen /\ seen' = seen \cup {id}
      /\ pc = "validate" /\ pc' = pc /\ file' = file /\ base' = base
  BY DEF Validate
<1>2. \/ prev' = prev /\ open' = open
      \/ start > prev /\ open /\ prev' = start + dur /\ open' = (dur # 0)
  BY DEF Validate, Follows
<1>3. CASE RejectEvent(id, start, dur) \/ CancelEvent(id, start, dur)
  BY <1>1, <1>2, <1>3 DEF RejectEvent, CancelEvent
<1>4. CASE /\ AcceptEvent(id, mod, start, dur)
           /\ Admitted(id, mod, start, kind) /\ Follows(start)
  <2>1. prev' = start + dur /\ open' = (dur # 0)
    BY <1>4 DEF Validate
  <2>2. (known[id] # NoRow => mod >= known[id].mod) /\ start > prev /\ open
    BY <1>4 DEF Admitted, Follows
  <2>3. \E state : known' = [known EXCEPT ![id] =
                               [mod |-> mod, start |-> start, dur |-> dur,
                                opt |-> state.opt, optId |-> state.optId]]
    BY <1>4 DEF AcceptEvent
  <2> QED
    BY <1>1, <1>2, <2>1, <2>2, <2>3
<1> QED
  BY <1>3, <1>4 DEF Validate

LEMMA ValidateKeeps ==
  ASSUME TypeOK, OverlapInv, NewerInv,
         NEW id \in EventIds, NEW mod \in Mods, NEW start \in Starts,
         NEW dur \in Durations, NEW kind \in Kinds,
         Validate(id, mod, start, dur, kind)
  PROVE  OverlapInv' /\ NewerInv'
<1>1. known \in Maps /\ base \in Maps /\ prev \in Nat /\ open \in BOOLEAN
      /\ seen \in SUBSET EventIds
  BY RowsAreMaps DEF TypeOK, PollOK
<1>2. start \in Nat /\ dur \in Nat /\ mod \in Nat
  <2>1. Starts \subseteq Nat \ {0} /\ Durations \subseteq Nat /\ Mods \subseteq Nat
    BY ScheduleAssumption
  <2> QED
    BY <2>1
<1>3. /\ id \notin seen /\ seen' = seen \cup {id}
      /\ pc = "validate" /\ pc' = pc /\ file' = file /\ base' = base
  BY ValidateCases
<1>4. DisjointIn(known, seen) /\ Bounded /\ DisjointIn(file, EventIds)
  BY <1>3 DEF OverlapInv
<1>5. \A i \in Listed(known) : known[i].start \in Nat /\ known[i].dur \in Nat
  BY <1>1, ListedRow DEF Listed
<1>6. \/ prev' = prev /\ open' = open
      \/ start > prev /\ open /\ prev' = start + dur /\ open' = (dur # 0)
  BY ValidateCases
<1>7. \A i \in Listed(known) \cap seen :
        /\ known[i].start + known[i].dur <= prev'
        /\ known[i].dur = 0 => ~open'
  <2>1. CASE prev' = prev /\ open' = open
    BY <1>4, <2>1 DEF Bounded
  <2>2. CASE start > prev /\ open /\ prev' = start + dur /\ open' = (dur # 0)
    BY <1>1, <1>2, <1>4, <1>5, <2>2 DEF Bounded
  <2> QED
    BY <1>6, <2>1, <2>2
<1>8. CASE known' = Without(known, id)
  <2>1. \A i \in EventIds \ {id} : known'[i] = known[i]
    BY <1>1, <1>8 DEF Without, Maps
  <2>2. known'[id] = NoRow
    BY <1>1, <1>8 DEF Without, Maps
  <2>3. /\ Listed(known') \cap seen' = Listed(known) \cap seen
        /\ \A i \in Listed(known') : known'[i] = known[i]
    BY <1>3, <2>1, <2>2 DEF Listed
  <2>4. DisjointIn(known', seen')
    BY <1>4, <2>3 DEF DisjointIn, Before
  <2>5. Bounded'
    BY <1>7, <2>3 DEF Bounded
  <2>6. NewerInv'
    BY <1>3, <2>1, <2>2 DEF NewerInv
  <2> QED
    BY <1>3, <1>4, <2>4, <2>5, <2>6 DEF OverlapInv
<1>9. CASE /\ known[id] # NoRow => mod >= known[id].mod
           /\ start > prev /\ open
           /\ prev' = start + dur /\ open' = (dur # 0)
           /\ \E state : known' = [known EXCEPT ![id] =
                                     [mod |-> mod, start |-> start, dur |-> dur,
                                      opt |-> state.opt, optId |-> state.optId]]
  <2>1. \A i \in EventIds \ {id} : known'[i] = known[i]
    BY <1>1, <1>9 DEF Maps
  <2>2. known'[id].start = start /\ known'[id].dur = dur /\ known'[id].mod = mod
    BY <1>1, <1>9 DEF Maps
  <2>3. /\ \A i \in (Listed(known') \cap seen') \ {id} :
             i \in Listed(known) \cap seen /\ known'[i] = known[i]
        /\ id \in seen'
    BY <1>3, <2>1 DEF Listed
  <2>4. ASSUME NEW i \in (Listed(known') \cap seen') \ {id}
        PROVE  Before(known', i, id)
    <3>1. i \in Listed(known) \cap seen /\ known'[i] = known[i]
      BY <2>3
    <3>2. known[i].start + known[i].dur <= prev /\ known[i].dur # 0
      BY <1>4, <1>9, <3>1 DEF Bounded
    <3>3. known[i].start \in Nat /\ known[i].dur \in Nat
      BY <1>5, <3>1
    <3>4. known[i].start + known[i].dur < start
      BY <1>1, <1>2, <1>9, <3>2, <3>3
    <3> QED
      BY <2>2, <3>1, <3>2, <3>4 DEF Before
  <2>5. DisjointIn(known', seen')
    <3> SUFFICES ASSUME NEW i \in Listed(known') \cap seen',
                        NEW j \in Listed(known') \cap seen', i # j
                 PROVE  Before(known', i, j) \/ Before(known', j, i)
      BY DEF DisjointIn
    <3>1. CASE i = id \/ j = id
      BY <2>4, <3>1
    <3>2. CASE i # id /\ j # id
      <4>1. /\ i \in Listed(known) \cap seen /\ known'[i] = known[i]
            /\ j \in Listed(known) \cap seen /\ known'[j] = known[j]
        BY <2>3, <3>2
      <4> QED
        BY <1>4, <4>1 DEF DisjointIn, Before
    <3> QED
      BY <3>1, <3>2
  <2>6. Bounded'
    <3> SUFFICES ASSUME NEW i \in Listed(known') \cap seen'
                 PROVE  /\ known'[i].start + known'[i].dur <= prev'
                        /\ known'[i].dur = 0 => ~open'
      BY DEF Bounded
    <3>1. CASE i = id
      <4>1. known'[id].start + known'[id].dur <= prev'
        BY <1>2, <1>9, <2>2
      <4>2. known'[id].dur = 0 => ~open'
        BY <1>9, <2>2, Zenon
      <4> QED
        BY <3>1, <4>1, <4>2, Zenon
    <3>2. CASE i # id
      <4>1. i \in Listed(known) \cap seen /\ known'[i] = known[i]
        BY <2>3, <3>2
      <4> QED
        BY <1>7, <4>1
    <3> QED
      BY <3>1, <3>2
  <2>7. NewerInv'
    <3> SUFFICES ASSUME ~ScanRace
                 PROVE  /\ \A i \in EventIds \ seen' : known'[i] = base[i]
                        /\ \A i \in EventIds : known'[i] # NoRow /\ base[i] # NoRow
                             => known'[i].mod >= base[i].mod
      BY <1>3, Zenon DEF NewerInv
    <3>1. \A i \in EventIds \ seen : known[i] = base[i]
      BY <1>3 DEF NewerInv
    <3>2. \A i \in EventIds \ seen' : known'[i] = base[i]
      BY <1>3, <2>1, <3>1
    <3>3. \A i \in EventIds \ {id} : known'[i] # NoRow /\ base[i] # NoRow
            => known'[i].mod >= base[i].mod
      BY <1>3, <2>1 DEF NewerInv
    <3>4. base[id] # NoRow => known'[id].mod >= base[id].mod
      BY <1>3, <1>9, <2>2, <3>1
    <3> QED
      BY <3>2, <3>3, <3>4
  <2> QED
    BY <1>3, <1>4, <2>5, <2>6, <2>7 DEF OverlapInv
<1> QED
  BY <1>8, <1>9, ValidateCases

LEMMA PollKeeps ==
  ASSUME TypeOK, OverlapInv, NewerInv, PollStep
  PROVE  OverlapInv' /\ NewerInv'
<1>1. file \in Maps /\ known \in Maps
  BY RowsAreMaps DEF TypeOK
<1>2. CASE Distribute
  <2>1. \A id \in EventIds : known'[id] # NoRow => known'[id] = file[id]
    BY <1>1, <1>2 DEF Distribute
  <2>2. pc' = "validate" /\ seen' = {} /\ file' = file /\ base' = file
    BY <1>2 DEF Distribute
  <2>3. ~ScanRace => known' = file
    <3>1. PICK read \in SUBSET Listed(file) :
            /\ ScanRace \/ read = Listed(file)
            /\ known' = [id \in EventIds |-> IF id \in read THEN file[id] ELSE NoRow]
      BY <1>2 DEF Distribute
    <3> QED
      BY <1>1, <3>1 DEF Listed, Maps
  <2>4. OverlapInv'
    BY <2>2 DEF OverlapInv, DisjointIn, Bounded
  <2>5. \A id \in EventIds : file[id] # NoRow => file[id].mod \in Nat
    BY <1>1, ListedRow
  <2>6. NewerInv'
    BY <2>2, <2>3, <2>5 DEF NewerInv
  <2> QED
    BY <2>4, <2>6
<1>3. ASSUME NEW id \in EventIds, NEW mod \in Mods, NEW start \in Starts,
             NEW dur \in Durations, NEW kind \in Kinds,
             Validate(id, mod, start, dur, kind)
      PROVE  OverlapInv' /\ NewerInv'
  BY <1>3, ValidateKeeps
<1>4. CASE ImpliedCancel
  <2>1. /\ pc = "validate" /\ pc' = "reply" /\ file' = file /\ base' = base
        /\ known' = [id \in EventIds |-> IF id \in seen THEN known[id] ELSE NoRow]
    BY <1>4 DEF ImpliedCancel
  <2>2. \A id \in Listed(known') : id \in Listed(known) \cap seen /\ known'[id] = known[id]
    BY <2>1 DEF Listed
  <2>3. DisjointIn(known', EventIds)
    BY <2>1, <2>2 DEF OverlapInv, DisjointIn, Before
  <2>4. NewerInv'
    BY <2>1 DEF NewerInv
  <2> QED
    BY <2>1, <2>3, <2>4 DEF OverlapInv
<1>5. CASE CreatedEvent
  BY <1>5 DEF CreatedEvent, OverlapInv, NewerInv, DisjointIn, Before, Listed
<1>6. CASE RemoveFile
  <2>1. pc = "write" /\ pc' = "insert" /\ file' = Nobody /\ known' = known /\ base' = base
    BY <1>6 DEF RemoveFile
  <2>2. PartOf(Nobody, known) /\ DisjointIn(Nobody, EventIds)
    BY NobodyDisjoint
  <2>3. DisjointIn(known, EventIds)
    BY <2>1 DEF OverlapInv
  <2>4. NewerInv'
    BY <2>1 DEF NewerInv
  <2> QED
    BY <2>1, <2>2, <2>3, <2>4 DEF OverlapInv
<1>7. CASE InsertRow
  <2>1. /\ pc = "insert" /\ pc' = pc /\ known' = known /\ base' = base
        /\ file' = [file EXCEPT ![Min(left)] = known[Min(left)]]
    BY <1>7 DEF InsertRow
  <2>2. PartOf(file, known) /\ DisjointIn(known, EventIds)
    BY <2>1 DEF OverlapInv
  <2>3. PartOf(file', known)
    BY <1>1, <2>1, <2>2 DEF PartOf, Maps
  <2>4. DisjointIn(file', EventIds)
    BY <2>2, <2>3, PartDisjoint
  <2>5. NewerInv'
    BY <2>1 DEF NewerInv
  <2> QED
    BY <2>1, <2>2, <2>3, <2>4, <2>5 DEF OverlapInv
<1>8. CASE StartEventThread
  BY <1>8 DEF StartEventThread, OverlapInv, NewerInv
<1> QED
  BY <1>2, <1>3, <1>4, <1>5, <1>6, <1>7, <1>8 DEF PollStep

-----------------------------------------------------------------------------
(* The theorems                                                            *)

Safe == TypeOK /\ OverlapInv /\ NewerInv

LEMMA InitSafe == Init => Safe
<1> SUFFICES ASSUME Init PROVE Safe
  OBVIOUS
<1>1. OverlapInv
  BY NobodyDisjoint DEF Init, OverlapInv
<1>2. NewerInv
  BY DEF Init, NewerInv
<1> QED
  BY <1>1, <1>2, InitTypeOK DEF Safe

LEMMA NextSafe == Safe /\ [Next]_vars => Safe'
<1> SUFFICES ASSUME Safe, [Next]_vars PROVE Safe'
  OBVIOUS
<1>1. TypeOK'
  BY NextTypeOK DEF Safe
<1>2. CASE PollStep
  BY <1>1, <1>2, PollKeeps DEF Safe
<1>3. CASE Tick \/ EventThreadStep \/ SignalStep \/ HmiStep \/ UNCHANGED vars
  BY <1>1, <1>3, OthersKeep DEF Safe
<1> QED
  BY <1>2, <1>3 DEF Next

\* The rows of eventdetails.db never overlap, whatever the VTN sends, whichever rows a
\* scan missed and whoever updates the file while it is written anew.
THEOREM EventsNeverOverlap == Spec => []Disjoint
<1>1. Safe => Disjoint
  BY DEF Safe, OverlapInv, Disjoint
<1> QED
  BY <1>1, InitSafe, NextSafe, PTL DEF Spec

\* Only writing the file anew adds an event, and the event added is the one read before
\* or a modification that is not older.
LEMMA OnlyNewer ==
  ASSUME Safe, [Next]_vars, ~ScanRace, NEW id \in Listed(file') \ Listed(file),
         base[id] # NoRow
  PROVE  file'[id].mod >= base[id].mod
<1>1. id \in EventIds /\ file'[id] # NoRow /\ file[id] = NoRow
  BY DEF Listed
<1>2. CASE InsertRow
  <2>1. file \in Maps /\ left \subseteq Listed(known)
    BY RowsAreMaps DEF Safe, TypeOK, PollOK
  <2>2. /\ pc = "insert"
        /\ file' = [file EXCEPT ![Min(left)] = known[Min(left)]]
    BY <1>2 DEF InsertRow
  <2>3. file'[id] = known[id]
    BY <1>1, <2>1, <2>2 DEF Maps
  <2> QED
    BY <1>1, <2>2, <2>3 DEF Safe, NewerInv
<1>3. CASE PollStep /\ ~InsertRow
  <2>1. file' = file \/ file' = Nobody
    <3>1. ASSUME NEW e \in EventIds, NEW mod, NEW start, NEW dur, NEW kind,
                 Validate(e, mod, start, dur, kind)
          PROVE  file' = file
      BY <3>1, ValidateCases
    <3>2. Distribute \/ ImpliedCancel \/ CreatedEvent \/ StartEventThread => file' = file
      BY DEF Distribute, ImpliedCancel, CreatedEvent, StartEventThread
    <3>3. RemoveFile => file' = Nobody
      BY DEF RemoveFile
    <3> QED
      BY <1>3, <3>1, <3>2, <3>3, Zenon DEF PollStep
  <2>2. Nobody[id] = NoRow
    BY <1>1 DEF Nobody
  <2> QED
    BY <1>1, <2>1, <2>2
<1>4. CASE Tick \/ EventThreadStep \/ SignalStep \/ HmiStep \/ UNCHANGED vars
  BY <1>1, <1>4, OthersTakeAway DEF Safe, PartOf
<1> QED
  BY <1>2, <1>3, <1>4 DEF Next

\* A message never replaces an event by an older modification of it.
THEOREM ModificationsGoUp == Spec => ModNotLower
<1>1. Safe /\ [Next]_vars
        => [ ~ScanRace => \A id \in Listed(file') \ Listed(file) :
                             base[id] # NoRow => file'[id].mod >= base[id].mod ]_vars
  BY OnlyNewer
<1> QED
  BY <1>1, InitSafe, NextSafe, PTL DEF Spec, ModNotLower

-----------------------------------------------------------------------------
(* What the VTN knows of the opt states                                     *)
(*                                                                          *)
(* While a message is processed nothing of what the VTN was told before     *)
(* matters: what is not named in the message is dropped, and what is named  *)
(* is answered with the opt state its row will have.  Between messages a    *)
(* command tells the VTN first and changes the rows afterwards.             *)

\* Commands and messages take turns.
TurnsInv ==
  /\ hmi = Quiet \/ pc = "idle"
  /\ hmi = Quiet \/ hmi.at \in {"optevent", "createopt"}

\* What createdEvent answers is what is known, and what is known is written.
AnswersInv ==
  /\ pc = "validate" =>
       \A id \in EventIds :
         IF id \in seen THEN known[id] # NoRow => answers[id] = known[id].opt
                        ELSE answers[id] = "none"
  /\ pc = "reply" => \A id \in Listed(known) : answers[id] = known[id].opt
  /\ pc \in {"write", "insert"} => \A id \in Listed(known) : told[id] = known[id].opt
  /\ pc = "insert" => \A id \in Listed(file) : known[id] # NoRow /\ file[id].opt = known[id].opt

\* What an event's row says, or will say when the command under way is applied.
ToldInv ==
  pc = "idle" =>
    \A id \in Listed(file) :
      OptOut(IF id \in hmi.ids THEN hmi.opt ELSE file[id].opt) <=> OptOut(told[id])

OptInv == TurnsInv /\ (~ExchangeFails => AnswersInv /\ ToldInv)

LEMMA InitOpt == Init => OptInv
BY DEF Init, OptInv, TurnsInv, AnswersInv, ToldInv, Listed, Nobody

\* Every row of f is one of g with its opt state.
SameOpts(f, g) == \A id \in EventIds : f[id] # NoRow => g[id] # NoRow /\ f[id].opt = g[id].opt

\* Rows may go and what is told of a row that went may change, nothing else.
LEMMA FewerRowsKnown ==
  ASSUME OptInv, SameOpts(file', file), UNCHANGED <<pollVars, hmi>>,
         pc # "idle" => told' = told,
         \A id \in EventIds : file'[id] # NoRow => told'[id] = told[id]
  PROVE  OptInv'
BY DEF OptInv, TurnsInv, AnswersInv, ToldInv, SameOpts, pollVars, Listed

LEMMA EventsKnown ==
  ASSUME TypeOK, OptInv, Tick \/ EventThreadStep \/ SignalStep \/ UNCHANGED vars
  PROVE  OptInv'
<1>1. file \in Maps
  BY RowsAreMaps DEF TypeOK
<1>2. SameOpts(file, file)
  BY DEF SameOpts
<1>3. CASE Tick \/ TakeEvent \/ SignalsEnd \/ UNCHANGED vars
  BY <1>2, <1>3, FewerRowsKnown DEF Tick, TakeEvent, SignalsEnd, vars, hmiVars
<1>4. ASSUME NEW override \in Overrides, EventDue(override)
      PROVE  OptInv'
  <2>1. waiting \in EventIds /\ pc = "idle" /\ UNCHANGED <<pollVars, hmi>>
    BY <1>4 DEF EventDue, TypeOK, EventsOK, PollOK, RowsOK, Nobody, None, hmiVars
  <2>2. CASE UNCHANGED <<file, told>>
    BY <1>2, <2>1, <2>2, FewerRowsKnown
  <2>3. CASE /\ file' = Without(file, waiting)
             /\ told' = told \/ told' = [told EXCEPT ![waiting] = "opt-out_hmi"]
    <3>1. file'[waiting] = NoRow /\ \A id \in EventIds \ {waiting} : file'[id] = file[id]
      BY <1>1, <2>1, <2>3 DEF Without, Maps
    <3>2. \A id \in EventIds \ {waiting} : told'[id] = told[id]
      BY <2>1, <2>3 DEF TypeOK, HmiOK
    <3>3. SameOpts(file', file)
      BY <3>1 DEF SameOpts
    <3> QED
      BY <2>1, <3>1, <3>2, <3>3, FewerRowsKnown
  <2> QED
    BY <1>4, <2>2, <2>3 DEF EventDue
<1>5. CASE RefreshFile
  <2>1. SameOpts(file', file)
    BY <1>5 DEF RefreshFile, Refresh, SameOpts
  <2> QED
    BY <1>5, <2>1, FewerRowsKnown DEF RefreshFile, hmiVars
<1> QED
  BY <1>3, <1>4, <1>5 DEF EventThreadStep, SignalStep

\* A command begins: the VTN is told what the rows will say.
LEMMA TellKnown ==
  ASSUME TypeOK, OptInv, NEW command, TellVtn(command), hmi = Quiet, pc = "idle",
         command.at \in {"optevent", "createopt"}, command.ids \subseteq EventIds,
         UNCHANGED <<file, pollVars>>
  PROVE  OptInv'
<1>1. CASE /\ told' = [id \in EventIds |-> IF id \in command.ids THEN command.opt ELSE told[id]]
           /\ hmi' = command
  <2>1. TurnsInv' /\ AnswersInv'
    BY <1>1 DEF TurnsInv, AnswersInv, pollVars
  <2>2. ~ExchangeFails => ToldInv'
    BY <1>1 DEF OptInv, ToldInv, Quiet, Listed, pollVars
  <2> QED
    BY <2>1, <2>2 DEF OptInv
<1>2. CASE ExchangeFails /\ hmi' = Quiet /\ UNCHANGED told
  BY <1>2 DEF OptInv, TurnsInv
<1> QED
  BY <1>1, <1>2 DEF TellVtn

LEMMA CommandsKnown ==
  ASSUME TakeTurns, "cancelopt" \notin HmiCommands, TypeOK, OptInv, HmiStep
  PROVE  OptInv'
<1>1. file \in Maps
  BY RowsAreMaps DEF TypeOK
<1>2. ASSUME NEW id \in EventIds, NEW override, OptEvent(id, override)
      PROVE  OptInv'
  <2>1. PICK command :
          /\ command.at = "optevent" /\ command.ids = {id} /\ TellVtn(command)
    BY <1>2 DEF OptEvent
  <2> QED
    BY <1>2, <2>1, TellKnown DEF OptEvent, HmiStarts
<1>3. ASSUME NEW o \in OptIds, NEW override, CreateOpt(o, override)
      PROVE  OptInv'
  <2>1. PICK command :
          /\ command.at = "createopt" /\ command.ids = ToOptOut(sched', override)
          /\ TellVtn(command)
    BY <1>3 DEF CreateOpt
  <2>2. ToOptOut(sched', override) \subseteq EventIds
    BY DEF ToOptOut, Listed
  <2> QED
    BY <1>3, <2>1, <2>2, TellKnown DEF CreateOpt, HmiStarts
<1>4. CASE ApplyOpt
  <2>1. pc = "idle" /\ hmi' = Quiet /\ told' = told /\ UNCHANGED pollVars
    <3>1. Quiet.at = "idle"
      BY DEF Quiet
    <3>2. hmi # Quiet
      BY <1>4, <3>1 DEF ApplyOpt
    <3> QED
      BY <1>4, <3>2 DEF ApplyOpt, OptInv, TurnsInv
  <2>2. ASSUME NEW id \in EventIds, file'[id] # NoRow
        PROVE  /\ file[id] # NoRow
               /\ file'[id].opt = (IF id \in hmi.ids THEN hmi.opt ELSE file[id].opt)
    <3>1. id \notin hmi.stop
      BY <1>4, <2>2 DEF ApplyOpt
    <3>2. CASE id \in hmi.ids /\ file[id] # NoRow
      <4>1. file[id] \in Rows
        BY <1>1, <3>2, ListedRow
      <4>2. file'[id] = [file[id] EXCEPT !.opt = hmi.opt,
                           !.optId = IF hmi.at = "createopt" THEN hmi.mark[id] ELSE @]
        BY <1>4, <3>1, <3>2 DEF ApplyOpt
      <4> QED
        BY <3>2, <4>1, <4>2 DEF Rows
    <3>3. CASE ~(id \in hmi.ids /\ file[id] # NoRow)
      BY <1>4, <2>2, <3>1, <3>3 DEF ApplyOpt
    <3> QED
      BY <3>2, <3>3
  <2>3. hmi'.ids = {}
    BY <2>1 DEF Quiet
  <2>4. ~ExchangeFails => ToldInv'
    BY <2>1, <2>2, <2>3 DEF OptInv, ToldInv, Listed
  <2>5. TurnsInv' /\ AnswersInv'
    BY <2>1 DEF TurnsInv, AnswersInv, pollVars
  <2> QED
    BY <2>4, <2>5 DEF OptInv
<1>5. ASSUME NEW override, ApplyCancelOpt(override)
      PROVE  FALSE
  <2>1. Quiet.at = "idle"
    BY DEF Quiet
  <2> QED
    BY <1>5, <2>1 DEF ApplyCancelOpt, OptInv, TurnsInv
<1>6. ASSUME NEW o, NEW override, CancelOpt(o, override)
      PROVE  FALSE
  BY <1>6 DEF CancelOpt, HmiStarts
<1> QED
  BY <1>2, <1>3, <1>4, <1>5, <1>6 DEF HmiStep

LEMMA PollKnown ==
  ASSUME TakeTurns, TypeOK, OptInv, PollStep
  PROVE  OptInv'
<1>1. known \in Maps /\ file \in Maps
  BY RowsAreMaps DEF TypeOK
<1>2. ASSUME NEW id \in EventIds, NEW mod, NEW start, NEW dur, NEW kind,
             Validate(id, mod, start, dur, kind)
      PROVE  OptInv'
  <2>1. /\ pc = "validate" /\ pc' = "validate" /\ id \notin seen /\ seen' = seen \cup {id}
        /\ UNCHANGED <<told, hmi, file>>
    BY <1>2 DEF Validate, hmiVars
  <2>2. \/ known' = Without(known, id) /\ answers' = answers
        \/ \E row : /\ known' = [known EXCEPT ![id] = row]
                    /\ answers' = [answers EXCEPT ![id] = row.opt]
    BY <1>2 DEF Validate, RejectEvent, CancelEvent, AcceptEvent
  <2>3. \A i \in EventIds \ {id} : known'[i] = known[i] /\ answers'[i] = answers[i]
    BY <1>1, <2>2 DEF Without, Maps, TypeOK, PollOK
  <2>4. known'[id] # NoRow => answers'[id] = known'[id].opt
    BY <1>1, <2>2 DEF Without, Maps, TypeOK, PollOK
  <2>5. ~ExchangeFails => AnswersInv' /\ ToldInv'
    BY <2>1, <2>3, <2>4 DEF OptInv, AnswersInv, ToldInv
  <2> QED
    BY <2>1, <2>5 DEF OptInv, TurnsInv
<1>3. CASE Distribute
  <2>1. hmi' = Quiet /\ pc' = "validate" /\ seen' = {} /\ answers' = [id \in EventIds |-> "none"]
    BY <1>3 DEF Distribute, hmiVars
  <2> QED
    BY <2>1 DEF OptInv, TurnsInv, AnswersInv, ToldInv
<1>4. CASE ImpliedCancel
  <2>1. /\ pc = "validate" /\ pc' = "reply" /\ UNCHANGED <<told, hmi, file, answers>>
        /\ known' = [id \in EventIds |-> IF id \in seen THEN known[id] ELSE NoRow]
    BY <1>4 DEF ImpliedCancel, hmiVars
  <2>2. ~ExchangeFails => \A id \in Listed(known') : answers'[id] = known'[id].opt
    BY <2>1 DEF OptInv, AnswersInv, Listed
  <2> QED
    BY <2>1, <2>2 DEF OptInv, TurnsInv, AnswersInv, ToldInv
<1>5. CASE CreatedEvent
  <2>1. pc = "reply" /\ pc' = "write" /\ UNCHANGED <<hmi, known>>
    BY <1>5 DEF CreatedEvent, hmiVars
  <2>2. ASSUME ~ExchangeFails, NEW id \in Listed(known)
        PROVE  told'[id] = known[id].opt
    <3>1. answers[id] = known[id].opt /\ known[id] \in Rows /\ id \in EventIds
      BY <1>1, <2>1, <2>2, ListedRow DEF OptInv, AnswersInv, Listed
    <3>2. answers[id] # "none"
      BY <3>1 DEF Rows, Opts
    <3> QED
      BY <1>5, <2>2, <3>1, <3>2 DEF CreatedEvent
  <2> QED
    BY <2>1, <2>2 DEF OptInv, TurnsInv, AnswersInv, ToldInv, Listed
<1>6. CASE RemoveFile
  <2>1. pc = "write" /\ pc' = "insert" /\ UNCHANGED <<hmi, known, told>> /\ Listed(file') = {}
    BY <1>6 DEF RemoveFile, hmiVars, Listed, Nobody
  <2> QED
    BY <2>1 DEF OptInv, TurnsInv, AnswersInv, ToldInv, Listed
<1>7. CASE InsertRow
  <2> DEFINE first == Min(left)
  <2>1. pc = "insert" /\ pc' = "insert" /\ UNCHANGED <<hmi, known, told>>
        /\ file' = [file EXCEPT ![first] = known[first]]
    BY <1>7 DEF InsertRow, hmiVars
  <2> HIDE DEF first
  <2>2. ~ExchangeFails =>
          \A id \in Listed(file') : known'[id] # NoRow /\ file'[id].opt = known'[id].opt
    BY <1>1, <2>1 DEF OptInv, AnswersInv, Listed, Maps
  <2> QED
    BY <2>1, <2>2 DEF OptInv, TurnsInv, AnswersInv, ToldInv, Listed
<1>8. CASE StartEventThread
  <2>1. pc = "insert" /\ pc' = "idle" /\ UNCHANGED <<hmi, known, told, file>>
    BY <1>8 DEF StartEventThread, hmiVars
  <2>2. hmi = Quiet /\ hmi.ids = {}
    BY <2>1 DEF OptInv, TurnsInv, Quiet
  <2>3. ~ExchangeFails => ToldInv'
    BY <2>1, <2>2 DEF OptInv, AnswersInv, ToldInv, Listed
  <2> QED
    BY <2>1, <2>3 DEF OptInv, TurnsInv, AnswersInv
<1> QED
  BY <1>2, <1>3, <1>4, <1>5, <1>6, <1>7, <1>8 DEF PollStep

\* What the VTN was told of an event is what its row says, whenever no message and no
\* command is under way and no exchange fails: if messages and commands take turns and
\* no schedule is cancelled.  Overrides, refreshes, events that come due meanwhile and
\* disturbed scans do not matter; EventSchedule_lostopt shows that the turns do.
THEOREM OptStatesAreKnown ==
  ASSUME TakeTurns, "cancelopt" \notin HmiCommands
  PROVE  Spec => []VtnKnowsOpt
<1> DEFINE Inv == TypeOK /\ OptInv
<1>1. Init => Inv
  BY InitTypeOK, InitOpt
<1>2. Inv /\ [Next]_vars => Inv'
  BY NextTypeOK, EventsKnown, CommandsKnown, PollKnown DEF Next
<1>3. Inv => VtnKnowsOpt
  <2> SUFFICES ASSUME OptInv, pc = "idle", hmi = Quiet, ~ExchangeFails, NEW id \in Listed(file)
               PROVE  OptOut(file[id].opt) <=> OptOut(told[id])
    BY DEF VtnKnowsOpt, OptOut
  <2>1. id \notin hmi.ids
    BY DEF Quiet
  <2> QED
    BY <2>1 DEF OptInv, ToldInv
<1> QED
  BY <1>1, <1>2, <1>3, PTL DEF Spec

-----------------------------------------------------------------------------
(* eventdetails.db as the calendar of Calendar                              *)
(*                                                                          *)
(* The moment a message takes effect is the removal of the file: from then  *)
(* on the rows still to be inserted count as stored.  Before that moment    *)
(* others only take rows away, so what is replaced is part of what was read *)
(* when the message came.  After it, and between messages, a row is only    *)
(* taken away by somebody who found its start reached; he may have looked   *)
(* at an older file, whose rows must not have been moved since.             *)

\* What the event thread and the HMI's thread remember of an event is not outdated.
DatesInv ==
  /\ hmi = Quiet \/ pc = "idle"
  /\ \A id \in hmi.stop : file[id] # NoRow => file[id].start <= now
  /\ \A id \in EventIds :
       timer[id] # NoRow /\ file[id] # NoRow => timer[id].start = file[id].start
  /\ pc \in {"validate", "reply", "write"} => PartOf(file, base)

LEMMA InitDates == Init => DatesInv
BY DEF Init, DatesInv, Quiet, Nobody

\* Every row of f is one of g.
RowsOf(f, g) == \A id \in EventIds : f[id] # NoRow => f[id] = g[id]

\* Rows may go and time may pass while the command under way stays as it is.
LEMMA FewerRowsDated ==
  ASSUME TypeOK, DatesInv, PartOf(file', file), RowsOf(timer', timer),
         now' = now \/ now' = now + 1, UNCHANGED <<pollVars, hmi>>
  PROVE  DatesInv'
<1>1. hmi.stop \subseteq EventIds /\ now \in Nat /\ file \in Maps
  BY RowsAreMaps DEF TypeOK, HmiOK
<1>2. \A id \in EventIds : file[id] # NoRow => file[id].start \in Nat
  BY <1>1, ListedRow
<1>3. \A id \in hmi'.stop : file'[id] # NoRow => file'[id].start <= now'
  BY <1>1, <1>2 DEF DatesInv, PartOf
<1>4. \A id \in EventIds :
        timer'[id] # NoRow /\ file'[id] # NoRow => timer'[id].start = file'[id].start
  BY DEF DatesInv, PartOf, RowsOf
<1>5. pc \in {"validate", "reply", "write"} => PartOf(file', base)
  BY PartTransitive DEF DatesInv
<1> QED
  BY <1>3, <1>4, <1>5 DEF DatesInv, pollVars

\* Another command, or none, whose events to be stopped have started.
LEMMA CommandDated ==
  ASSUME DatesInv, pc = "idle", PartOf(file', file), UNCHANGED <<now, pollVars, timer>>,
         \A id \in hmi'.stop : file'[id] # NoRow => file'[id].start <= now
  PROVE  DatesInv'
BY DEF DatesInv, PartOf, pollVars

\* What is active has started.
LEMMA ActiveHasStarted ==
  ASSUME TypeOK, NEW id \in EventIds, file[id] # NoRow, ActiveRow(file, id)
  PROVE  file[id].start <= now
<1>1. file[id].start \in Nat /\ now \in Nat
  BY ListedRow, RowsAreMaps DEF TypeOK, HmiOK
<1> QED
  BY <1>1 DEF ActiveRow, Active

LEMMA CommandsDated ==
  ASSUME TakeTurns, TypeOK, DatesInv, HmiStep
  PROVE  DatesInv'
<1>1. PartOf(file', file) /\ UNCHANGED pollVars
  BY OthersTakeAway
<1>2. Quiet.stop = {} /\ Quiet.at = "idle"
  BY DEF Quiet
<1>3. ASSUME NEW id \in EventIds, NEW override, OptEvent(id, override)
      PROVE  DatesInv'
  <2>1. hmi'.stop = {} \/ (hmi'.stop = {id} /\ ActiveRow(file, id))
    BY <1>2, <1>3 DEF OptEvent, TellVtn
  <2>2. pc = "idle" /\ file' = file /\ UNCHANGED <<now, timer>>
    BY <1>3 DEF OptEvent, HmiStarts, eventVars
  <2> QED
    BY <1>1, <2>1, <2>2, ActiveHasStarted, CommandDated
<1>4. ASSUME NEW o \in OptIds, NEW override, CreateOpt(o, override)
      PROVE  DatesInv'
  <2>1. \A id \in hmi'.stop : id \in ToOptOut(sched', override) /\ ActiveRow(file, id)
    <3>1. PICK command :
            /\ command.stop = {id \in ToOptOut(sched', override) : ActiveRow(file, id)}
            /\ TellVtn(command)
      BY <1>4 DEF CreateOpt
    <3> QED
      BY <1>2, <3>1 DEF TellVtn
  <2>2. ToOptOut(sched', override) \subseteq EventIds
    BY DEF ToOptOut, Listed
  <2>3. pc = "idle" /\ file' = file /\ UNCHANGED <<now, timer>>
    BY <1>4 DEF CreateOpt, HmiStarts, eventVars
  <2> QED
    BY <1>1, <2>1, <2>2, <2>3, ActiveHasStarted, CommandDated
<1>5. ASSUME NEW o \in OptIds, NEW override, CancelOpt(o, override)
      PROVE  DatesInv'
  <2>1. hmi'.stop = {}
    BY <1>2, <1>5 DEF CancelOpt, TellVtn
  <2>2. pc = "idle" /\ UNCHANGED <<now, timer>>
    BY <1>5 DEF CancelOpt, HmiStarts, eventVars
  <2> QED
    BY <1>1, <2>1, <2>2, CommandDated
<1>6. CASE ApplyOpt
  <2>1. hmi # Quiet /\ hmi'.stop = {} /\ UNCHANGED <<now, timer>>
    BY <1>2, <1>6 DEF ApplyOpt, eventVars
  <2> QED
    BY <1>1, <2>1, CommandDated DEF DatesInv
<1>7. ASSUME NEW override, ApplyCancelOpt(override)
      PROVE  DatesInv'
  <2>1. hmi # Quiet /\ hmi'.stop = {} /\ UNCHANGED <<now, timer>>
    BY <1>2, <1>7 DEF ApplyCancelOpt, eventVars
  <2> QED
    BY <1>1, <2>1, CommandDated DEF DatesInv
<1> QED
  BY <1>3, <1>4, <1>5, <1>6, <1>7 DEF HmiStep

LEMMA EventsDated ==
  ASSUME TypeOK, DatesInv, Tick \/ EventThreadStep \/ SignalStep \/ UNCHANGED vars
  PROVE  DatesInv'
<1>1. PartOf(file', file) /\ UNCHANGED pollVars
  BY OthersTakeAway
<1>2. timer \in Maps /\ RowsOf(timer, timer)
  BY RowsAreMaps DEF TypeOK, RowsOf
<1>3. \A id \in EventIds : RowsOf(Without(timer, id), timer)
  BY <1>2 DEF RowsOf, Without, Maps
<1>4. now' = now \/ now' = now + 1
  BY DEF Tick, EventThreadStep, TakeEvent, EventDue, SignalStep, SignalsEnd, RefreshFile, vars
<1>5. UNCHANGED hmi
  BY DEF Tick, EventThreadStep, TakeEvent, EventDue, SignalStep, SignalsEnd, RefreshFile,
         vars, hmiVars
<1>6. RowsOf(timer', timer)
  <2>1. CASE Tick \/ SignalStep \/ UNCHANGED vars
    BY <1>2, <2>1 DEF Tick, SignalStep, SignalsEnd, RefreshFile, vars, eventVars
  <2>2. CASE TakeEvent
    BY <1>2, <1>3, <2>2 DEF TakeEvent, Upcoming, Listed
  <2>3. ASSUME NEW override, EventDue(override)
        PROVE  RowsOf(timer', timer)
    BY <1>3, <2>3 DEF EventDue, TypeOK, EventsOK
  <2> QED
    BY <2>1, <2>2, <2>3 DEF EventThreadStep
<1> QED
  BY <1>1, <1>4, <1>5, <1>6, FewerRowsDated

LEMMA PollDated ==
  ASSUME TakeTurns, Safe, DatesInv, PollStep
  PROVE  DatesInv'
<1>1. TypeOK /\ OverlapInv /\ Quiet.stop = {} /\ \A id \in EventIds : Nobody[id] = NoRow
  BY DEF Safe, Quiet, Nobody
<1>2. CASE Distribute
  <2>1. /\ hmi' = Quiet /\ timer' = Nobody /\ file' = file /\ base' = file
    BY <1>2 DEF Distribute, hmiVars
  <2> QED
    BY <1>1, <2>1 DEF DatesInv, PartOf
<1>3. ASSUME NEW id \in EventIds, NEW mod, NEW start, NEW dur, NEW kind,
             Validate(id, mod, start, dur, kind)
      PROVE  DatesInv'
  <2>1. pc = "validate" /\ UNCHANGED <<pc, hmi, timer, file, base, now>>
    BY <1>3, ValidateCases DEF Validate, hmiVars, eventVars
  <2> QED
    BY <2>1 DEF DatesInv, PartOf
<1>4. CASE ImpliedCancel \/ CreatedEvent
  <2>1. /\ pc \in {"validate", "reply"} /\ pc' \in {"reply", "write"}
        /\ UNCHANGED <<hmi, timer, file, base, now>>
    BY <1>4 DEF ImpliedCancel, CreatedEvent, hmiVars, eventVars
  <2> QED
    BY <2>1 DEF DatesInv, PartOf
<1>5. CASE RemoveFile
  <2>1. pc = "write" /\ pc' = "insert" /\ file' = Nobody /\ UNCHANGED <<hmi, timer>>
    BY <1>5 DEF RemoveFile, hmiVars, eventVars
  <2> QED
    BY <1>1, <2>1 DEF DatesInv
<1>6. CASE InsertRow
  <2>1. pc = "insert" /\ pc' = "insert" /\ hmi' = Quiet /\ timer' = Nobody
    BY <1>1, <1>6 DEF InsertRow, DatesInv, TypeOK, EventsOK, hmiVars, eventVars
  <2> QED
    BY <1>1, <2>1 DEF DatesInv
<1>7. CASE StartEventThread
  <2>1. pc = "insert" /\ pc' = "idle" /\ hmi' = Quiet /\ timer' = known /\ file' = file
    BY <1>7 DEF StartEventThread, DatesInv, hmiVars
  <2>2. PartOf(file, known)
    BY <1>1, <2>1 DEF OverlapInv
  <2> QED
    BY <1>1, <2>1, <2>2 DEF DatesInv, PartOf
<1> QED
  BY <1>2, <1>3, <1>4, <1>5, <1>6, <1>7 DEF PollStep

-----------------------------------------------------------------------------

LEMMA InitCalendar == Init => Promise!Init
BY DEF Init, Promise!Init, stored, Nobody

\* What is stored is a table.
LEMMA StoredIsTable ==
  ASSUME TypeOK
  PROVE  stored \in Promise!Table
BY DEF TypeOK, RowsOK, stored, Promise!Table

\* Only rows of the file that have started are taken away, and no time is changed.
LEMMA OnlyStartedGo ==
  ASSUME TypeOK, TypeOK', UNCHANGED <<pollVars, now>>, PartOf(file', file),
         \A id \in EventIds : file[id] # NoRow /\ file'[id] = NoRow => file[id].start <= now
  PROVE  Promise!Change
<1>1. stored' \in Promise!Table
  BY StoredIsTable DEF TypeOK, RowsOK, stored, Promise!Table
<1>2. \A id \in EventIds :
        \/ stored'[id] = stored[id]
        \/ stored[id] = file[id] /\ stored'[id] = file'[id]
  BY DEF stored, pollVars
<1>3. Promise!Listed(stored') \subseteq Promise!Listed(stored)
  BY <1>2 DEF Promise!Listed, PartOf
<1>4. \A id \in Promise!Listed(stored) :
        IF id \in Promise!Listed(stored')
          THEN Promise!SameTimes(stored'[id], stored[id])
          ELSE stored[id].start <= now
  BY <1>2 DEF Promise!Listed, Promise!SameTimes, PartOf
<1> QED
  BY <1>1, <1>3, <1>4 DEF Promise!Change, pollVars

LEMMA OthersChange ==
  ASSUME TypeOK, TypeOK', DatesInv,
         EventThreadStep \/ SignalStep \/ HmiStep \/ UNCHANGED vars
  PROVE  Promise!Change
<1>1. PartOf(file', file) /\ UNCHANGED pollVars
  BY OthersTakeAway
<1>2. now' = now
  BY DEF EventThreadStep, TakeEvent, EventDue, SignalStep, SignalsEnd, RefreshFile, HmiStep,
         OptEvent, CreateOpt, CancelOpt, ApplyOpt, ApplyCancelOpt, vars
<1>3. ASSUME NEW id \in EventIds, file[id] # NoRow, file'[id] = NoRow
      PROVE  file[id].start <= now
  <2>1. file' # file /\ file \in Maps
    BY <1>3, RowsAreMaps DEF TypeOK
  <2>2. ASSUME NEW override, EventDue(override)
        PROVE  file[id].start <= now
    <3>1. /\ waiting \in EventIds /\ timer[waiting] # NoRow /\ timer[waiting].start <= now
          /\ file' = Without(file, waiting)
      BY <2>1, <2>2, NoneIsNoEvent DEF EventDue, TypeOK, EventsOK, None
    <3>2. id = waiting
      BY <1>3, <2>1, <3>1 DEF Without, Maps
    <3> QED
      BY <1>3, <3>1, <3>2 DEF DatesInv
  <2>3. CASE RefreshFile
    BY <1>3, <2>3 DEF RefreshFile, Refresh
  <2>4. CASE ApplyOpt
    <3>1. CASE id \in hmi.stop
      BY <1>3, <3>1 DEF DatesInv
    <3>2. CASE id \notin hmi.stop
      <4>1. CASE id \in hmi.ids
        <5>1. file'[id] = [file[id] EXCEPT !.opt = hmi.opt,
                             !.optId = IF hmi.at = "createopt" THEN hmi.mark[id] ELSE @]
          BY <1>3, <2>4, <3>2, <4>1 DEF ApplyOpt
        <5>2. file[id] \in Rows
          BY <1>3, <2>1, ListedRow
        <5>3. hmi.opt \in Opts /\ hmi.mark \in [EventIds -> OptIds \cup {0}]
          BY DEF TypeOK, HmiOK
        <5> DEFINE optId == IF hmi.at = "createopt" THEN hmi.mark[id] ELSE file[id].optId
        <5>4. optId \in OptIds \cup {0}
          BY <5>2, <5>3 DEF Rows
        <5>5. file'[id] = [file[id] EXCEPT !.opt = hmi.opt, !.optId = optId]
          BY <5>1
        <5> HIDE DEF optId
        <5>6. file'[id] \in Rows
          BY <5>2, <5>3, <5>4, <5>5 DEF Rows
        <5> QED
          BY <1>3, <5>6, ScheduleAssumption
      <4>2. CASE id \notin hmi.ids
        BY <1>3, <2>4, <3>2, <4>2 DEF ApplyOpt
      <4> QED
        BY <4>1, <4>2
    <3> QED
      BY <3>1, <3>2
  <2>5. ASSUME NEW override, ApplyCancelOpt(override)
        PROVE  FALSE
    <3>1. CASE id \in ToOptIn(hmi.mark, override)
      <4>1. file[id] \in Rows
        BY <1>3, <2>1, ListedRow
      <4>2. [file[id] EXCEPT !.opt = "opt-in", !.optId = 0] \in Rows
        BY <4>1 DEF Rows, Opts
      <4>3. file'[id] \in Rows
        BY <2>5, <3>1, <4>2 DEF ApplyCancelOpt
      <4> QED
        BY <1>3, <4>3, ScheduleAssumption
    <3>2. CASE id \notin ToOptIn(hmi.mark, override)
      BY <1>3, <2>5, <3>2 DEF ApplyCancelOpt
    <3> QED
      BY <3>1, <3>2
  <2>6. ASSUME NEW override,
               \/ \E e \in EventIds : OptEvent(e, override)
               \/ \E o \in OptIds : CreateOpt(o, override) \/ CancelOpt(o, override)
        PROVE  FALSE
    BY <2>1, <2>6 DEF OptEvent, CreateOpt, CancelOpt
  <2>7. CASE TakeEvent \/ SignalsEnd \/ UNCHANGED vars
    BY <2>1, <2>7 DEF TakeEvent, SignalsEnd, vars
  <2> QED
    BY <2>2, <2>3, <2>4, <2>5, <2>6, <2>7 DEF EventThreadStep, SignalStep, HmiStep
<1> QED
  BY <1>1, <1>2, <1>3, OnlyStartedGo

\* The poll thread: the message is received, it takes effect when the file is removed,
\* and inserting the rows changes nothing any more.
LEMMA PollReplaces ==
  ASSUME ~ScanRace, Safe, Safe', DatesInv, PollStep
  PROVE  [Promise!Next]_Promise!vars
<1> DEFINE pending == pc \in {"validate", "reply", "write"}
<1>1. TypeOK /\ TypeOK' /\ file \in Maps /\ known \in Maps /\ base \in Maps
  BY RowsAreMaps DEF Safe, TypeOK
<1>2. pc # "insert" => left = {} /\ stored = file
  BY <1>1 DEF TypeOK, PollOK, stored, Maps
<1>3. pc' # "insert" => left' = {} /\ stored' = file'
  BY <1>1 DEF TypeOK, RowsOK, PollOK, stored
<1>4. CASE Distribute
  <2>1. /\ pc = "idle" /\ pc' = "validate" /\ file' = file /\ now' = now
    BY <1>4 DEF Distribute
  <2>2. stored' = stored
    BY <1>2, <1>3, <2>1
  <2> QED
    BY <2>1, <2>2 DEF Promise!Next, Promise!Receive
<1>5. ASSUME NEW id \in EventIds, NEW mod, NEW start, NEW dur, NEW kind,
             Validate(id, mod, start, dur, kind)
      PROVE  UNCHANGED Promise!vars
  <2>1. pc = "validate" /\ UNCHANGED <<pc, file, now>>
    BY <1>5 DEF Validate
  <2> QED
    BY <1>2, <1>3, <2>1 DEF Promise!vars
<1>6. CASE ImpliedCancel \/ CreatedEvent
  <2>1. /\ pc \in {"validate", "reply"} /\ pc' \in {"reply", "write"}
        /\ UNCHANGED <<file, now>>
    BY <1>6 DEF ImpliedCancel, CreatedEvent
  <2> QED
    BY <1>2, <1>3, <2>1 DEF Promise!vars
<1>7. CASE RemoveFile
  <2>1. /\ pc = "write" /\ pc' = "insert" /\ file' = Nobody /\ left' = Listed(known)
        /\ UNCHANGED <<known, now>>
    BY <1>7 DEF RemoveFile
  <2>2. stored' = known /\ stored = file
    <3>1. \A id \in EventIds : stored'[id] = known[id]
      BY <2>1 DEF stored, Listed, Nobody
    <3>2. stored' = [id \in EventIds |-> stored'[id]]
      BY DEF stored
    <3> QED
      BY <1>1, <1>2, <2>1, <3>1, <3>2 DEF Maps
  <2>3. stored' \in Promise!Table
    BY <1>1, <2>2 DEF Maps, Promise!Table
  <2>4. \A i, j \in Promise!Listed(stored') : i # j => Promise!Apart(stored'[i], stored'[j])
    <3>1. DisjointIn(known, EventIds)
      BY <2>1 DEF Safe, OverlapInv
    <3> QED
      BY <2>2, <3>1 DEF DisjointIn, Before, Listed, Promise!Listed, Promise!Apart
  <2>5. \A id \in Promise!Listed(stored) \cap Promise!Listed(stored') :
          stored'[id].mod >= stored[id].mod
    BY <2>1, <2>2 DEF Safe, NewerInv, DatesInv, PartOf, Promise!Listed
  <2> QED
    BY <2>1, <2>3, <2>4, <2>5 DEF Promise!Next, Promise!Replace
<1>8. CASE InsertRow
  <2> DEFINE first == Min(left)
  <2>1. /\ pc = "insert" /\ pc' = "insert" /\ UNCHANGED <<known, now>>
        /\ left # {} /\ left' = left \ {first} /\ file' = [file EXCEPT ![first] = known[first]]
    BY <1>8 DEF InsertRow
  <2>2. first \in left
    <3>1. left \in SUBSET Nat /\ IsFiniteSet(left)
      BY <1>1, ScheduleAssumption, FS_Subset DEF TypeOK, PollOK, Listed
    <3> QED
      BY <2>1, <3>1, LeastElement
  <2>3. \A id \in EventIds : file'[id] = IF id = first THEN known[first] ELSE file[id]
    BY <1>1, <2>1 DEF Maps
  <2> HIDE DEF first
  <2>4. \A id \in EventIds : stored'[id] = stored[id]
    BY <2>1, <2>2, <2>3 DEF stored
  <2>5. stored = [id \in EventIds |-> stored[id]] /\ stored' = [id \in EventIds |-> stored'[id]]
    BY DEF stored
  <2>6. stored' = stored
    BY <2>4, <2>5
  <2> QED
    BY <2>1, <2>6 DEF Promise!vars
<1>9. CASE StartEventThread
  <2>1. /\ pc = "insert" /\ pc' = "idle" /\ left = {} /\ left' = {} /\ UNCHANGED <<file, now>>
    BY <1>9 DEF StartEventThread
  <2>2. stored' = stored
    BY <2>1 DEF stored
  <2> QED
    BY <2>1, <2>2 DEF Promise!vars
<1> QED
  BY <1>4, <1>5, <1>6, <1>7, <1>8, <1>9 DEF PollStep

\* eventdetails.db implements Calendar if messages and commands take turns and no scan is
\* disturbed: whatever is refreshed, overridden, started and opted while a message is
\* processed, the message replaces the events at one moment, and apart from that an
\* accepted event keeps its times and is not dropped before its start.
THEOREM ImplementsCalendar ==
  ASSUME TakeTurns, ~ScanRace
  PROVE  Spec => KeepsCalendar
<1> DEFINE Inv == Safe /\ DatesInv
<1>1. Init => Inv /\ Promise!Init
  BY InitSafe, InitDates, InitCalendar
<1>2. Inv /\ [Next]_vars => Inv'
  BY NextSafe, EventsDated, CommandsDated, PollDated DEF Next, Safe
<1>3. Inv /\ Inv' /\ [Next]_vars => [Promise!Next]_Promise!vars
  <2> SUFFICES ASSUME Inv, Inv', [Next]_vars PROVE [Promise!Next]_Promise!vars
    OBVIOUS
  <2>1. CASE Tick
    BY <2>1 DEF Tick, pollVars, stored, Promise!Next, Promise!Tick
  <2>2. CASE PollStep
    BY <2>2, PollReplaces
  <2>3. CASE EventThreadStep \/ SignalStep \/ HmiStep \/ UNCHANGED vars
    BY <2>3, OthersChange DEF Safe, Promise!Next
  <2> QED
    BY <2>1, <2>2, <2>3 DEF Next
<1> QED
  BY <1>1, <1>2, <1>3, PTL DEF Spec, KeepsCalendar, Promise!Spec

=============================================================================
