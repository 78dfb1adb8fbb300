------------------------------ MODULE Calendar ------------------------------
(***************************************************************************)
(* What eventdetails.db is for: the calendar of the events that the VEN    *)
(* has accepted.  Each message of the VTN replaces it once, at one moment, *)
(* with events that do not overlap and are not older than those they       *)
(* replace.  Besides, opt states change, and an event leaves the calendar  *)
(* only once its start is reached; nobody adds one or moves one.           *)
(***************************************************************************)
EXTENDS Integers

CONSTANTS
  EventIds,  \* the ids of events
  Rows,      \* what is kept of an event: mod, start, dur and its opt state
  NoRow      \* no event of that id

VARIABLES
  now,     \* the time
  events,  \* per id its event, or NoRow
  pending  \* whether a message was received that has not taken effect

vars == <<now, events, pending>>

Table == [EventIds -> Rows \cup {NoRow}]
Listed(table) == {id \in EventIds : table[id] # NoRow}

\* One event is over before the other one starts; what has no duration is never over.
Apart(e, f) == \/ e.dur # 0 /\ e.start + e.dur < f.start
               \/ f.dur # 0 /\ f.start + f.dur < e.start

Init ==
  /\ now = 0
  /\ events = [id \in EventIds |-> NoRow]
  /\ pending = FALSE

Tick == now' = now + 1 /\ UNCHANGED <<events, pending>>

Receive ==
  /\ ~pending
  /\ pending' = TRUE
  /\ UNCHANGED <<now, events>>

\* The message takes effect.
Replace ==
  /\ pending
  /\ pending' = FALSE
  /\ events' \in Table
  /\ \A i, j \in Listed(events') : i # j => Apart(events'[i], events'[j])
  /\ \A id \in Listed(events) \cap Listed(events') : events'[id].mod >= events[id].mod
  /\ UNCHANGED now

\* Only the opt state of an event is changed.
SameTimes(e, f) == e.mod = f.mod /\ e.start = f.start /\ e.dur = f.dur

Change ==
  /\ events' \in Table
  /\ Listed(events') \subseteq Listed(events)
  /\ \A id \in Listed(events) : IF id \in Listed(events')
                                  THEN SameTimes(events'[id], events[id])
                                  ELSE events[id].start <= now
  /\ UNCHANGED <<now, pending>>

Next == Tick \/ Receive \/ Replace \/ Change

Spec == Init /\ [][Next]_vars

=============================================================================
