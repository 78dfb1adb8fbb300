------------------------------ MODULE Reports ------------------------------
(***************************************************************************)
(* The reports of the VEN: requested by the VTN, each made by a thread of  *)
(* its own, recorded in reportdetails, ended by their duration, by the     *)
(* VTN's cancellation, by a METADATA report or by a leave.                 *)
(*                                                                         *)
(* A report thread waits on the condition variable of its slot with the    *)
(* predicate "notifier is REPORT".  Every stop writes that name into the   *)
(* one notifier of the program and wakes one slot; what tells whether a    *)
(* thread has left is the row reportthread of threadstatus.db, which       *)
(* threads and stoppers decrement by a read and a separate write.          *)
(*                                                                         *)
(* One caller runs the messages of the VTN and a leave one after another:  *)
(* the poll thread, or the main thread once it has stopped polling.        *)
(***************************************************************************)
EXTENDS Integers, FiniteSets

CONSTANTS
  NumReports,   \* the report request ids the VTN uses are 1..NumReports
  MaxReport,    \* maxreport, the size of the array cv_report
  NumThreads,   \* bound: report threads a behaviour starts
  MaxMessages,  \* bound: messages and leaves a behaviour handles
  MaxPayload,   \* bound: ids in one message
  Retries,      \* count in reportWaitNotifier and waitNotifier, 3
  Metadata,     \* whether requests may be METADATA requests, a subset of BOOLEAN
  Lengths,      \* the timed waits of a report: one-time 1, endless 0
  Messages,     \* what the caller gets: a subset of {"create", "cancel", "leave"}
  OthersStop,   \* whether the other caller stops other services meanwhile
  Prompt,       \* a thread that was told to stop has done so when the stopper's sleep is over
  Reuse,        \* the VTN uses an id again while the end of its report is being recorded
  AtomicCount   \* nobody touches reportthread between the read and the write of a decrement

ASSUME ReportsAssumption ==
  /\ {NumReports, MaxReport, NumThreads, MaxPayload} \subseteq Nat \ {0}
  /\ {MaxMessages, Retries} \subseteq Nat
  /\ Metadata \subseteq BOOLEAN
  /\ Lengths \subseteq Nat
  /\ Messages \subseteq {"create", "cancel", "leave"}
  /\ {OthersStop, Prompt, Reuse, AtomicCount} \subseteq BOOLEAN

VARIABLES
  notifier,  \* the global string: "REPORT", "NULL", or anything else ("RESET")
  count,     \* the row reportthread of threadstatus.db
  file,      \* reportdetails: per id its row
  maps,      \* the caller's maps (rrid_cvMap, rrid_reportTypeMap), filled from the file
  caller,    \* where the caller is, and its locals
  pc,        \* per report thread: where it is
  task,      \* per report thread: what it was started with
  todo,      \* per METADATA thread: the reports it read and has still to stop
  act,       \* per actor: its activation of reportWaitNotifier and updateDataFile
  missed,    \* history: a stop was given up, or taken as done, while its thread went on
  doubled    \* history: reportthread was decremented by somebody else than the thread

callerVars == <<maps, caller>>
threadVars == <<pc, task, todo>>
history    == <<missed, doubled>>
vars == <<notifier, count, file, callerVars, threadVars, act, history>>

Ids     == 1..NumReports
Threads == 1..NumThreads
Caller  == 0
Actors  == {Caller} \cup Threads
Slots   == 0..(MaxReport - 1)

NoSlot == MaxReport
Row    == [slot : 0..MaxReport, meta : BOOLEAN]
NoRow  == [slot |-> NoSlot, meta |-> FALSE]
Empty  == [r \in Ids |-> NoRow]

\* The ids of a table or of the maps, and their first one in the order of a map.
Listed(m) == {r \in Ids : m[r] # NoRow}
First(s)  == CHOOSE r \in s : \A q \in s : r <= q

\* Mutant: the next slot is the number of entries.
SlotBySize(m) == {s \in Slots : s = Cardinality(Listed(m))}

\* The first cnt that no entry of rrid_cvMap has.
FreeSlots(m) == {s \in Slots : \A r \in Listed(m) : m[r].slot # s}

\* The threads that neither have ended nor were told to.
GoingOn == {t \in Threads : pc[t] \in {"check", "blocked", "busy", "cancel"}}

-----------------------------------------------------------------------------
(* reportWaitNotifier, then updateDataFile: one activation per actor       *)

Idle == [at |-> "idle", id |-> 1, slot |-> 0, before |-> 0, val |-> 0, tries |-> 0]

Stopping(id, slot) ==
  [Idle EXCEPT !.at = "before", !.id = id, !.slot = slot, !.tries = Retries]

Ending(id) == [Idle EXCEPT !.at = "read", !.id = id]

\* A sleep of the stopper: with Prompt, every thread that can act on the name has.
Slept == Prompt => \A t \in Threads : pc[t] \notin {"check", "end"}

NotifySlot(slot) ==
  /\ notifier' = "REPORT"
  /\ pc' = [t \in Threads |-> IF pc[t] = "blocked" /\ task[t].slot = slot
                                THEN "check" ELSE pc[t]]

ReadBefore(a) ==
  /\ act[a].at = "before"
  /\ act' = [act EXCEPT ![a].before = count, ![a].at = "first"]
  /\ UNCHANGED <<notifier, count, file, callerVars, threadVars, history>>

NotifyFirst(a) ==
  /\ act[a].at = "first"
  /\ NotifySlot(act[a].slot)
  /\ act' = [act EXCEPT ![a].at = "after"]
  /\ UNCHANGED <<count, file, callerVars, task, todo, history>>

ReadAfter(a) ==
  /\ act[a].at = "after"
  /\ Slept
  /\ act' = [act EXCEPT ![a].val = count, ![a].at = "loop"]
  /\ UNCHANGED <<notifier, count, file, callerVars, threadVars, history>>

\* (threadVal+1) - previousthreadVal: the row is not read again in the loop.
NotHeard(a) == act[a].val + 1 # act[a].before

NotifyAgain(a) ==
  /\ act[a].at = "loop"
  /\ NotHeard(a)
  /\ act[a].tries > 0
  /\ NotifySlot(act[a].slot)
  /\ act' = [act EXCEPT ![a].tries = @ - 1]
  /\ UNCHANGED <<count, file, callerVars, task, todo, history>>

StopReturns(a) ==
  /\ act[a].at = "loop"
  /\ ~NotHeard(a) \/ act[a].tries = 0
  /\ Slept
  /\ notifier' = "NULL"
  /\ act' = [act EXCEPT ![a].at = "read"]
  /\ missed' = (missed \/ \E t \in GoingOn : task[t].id = act[a].id)
  /\ UNCHANGED <<count, file, callerVars, threadVars, doubled>>

CountFree(a) == AtomicCount => \A b \in Actors \ {a} : act[b].at # "write"

ReadCount(a) ==
  /\ act[a].at = "read"
  /\ CountFree(a)
  /\ act' = [act EXCEPT ![a].val = count, ![a].at = "write"]
  /\ UNCHANGED <<notifier, count, file, callerVars, threadVars, history>>

Own(a) == a \in Threads /\ pc[a] = "end"

WriteCount(a) ==
  /\ act[a].at = "write"
  /\ count' = act[a].val - 1
  /\ act' = [act EXCEPT ![a].at = "row"]
  /\ doubled' = (doubled \/ ~Own(a))
  /\ UNCHANGED <<notifier, file, callerVars, threadVars, missed>>

DeleteRow(a) ==
  /\ act[a].at = "row"
  /\ file' = [file EXCEPT ![act[a].id] = NoRow]
  /\ act' = [act EXCEPT ![a] = Idle]
  /\ pc' = IF Own(a) THEN [pc EXCEPT ![a] = "done"] ELSE pc
  /\ UNCHANGED <<notifier, count, callerVars, task, todo, history>>

StopOne(a) ==
  \/ ReadBefore(a)
  \/ NotifyFirst(a)
  \/ ReadAfter(a)
  \/ NotifyAgain(a)
  \/ StopReturns(a)

UpdateDataFile(a) == ReadCount(a) \/ WriteCount(a) \/ DeleteRow(a)

-----------------------------------------------------------------------------
(* Report threads: reportThread and metadataThread                         *)

threadLocal == <<notifier, count, file, callerVars, history>>

\* wait_until tests its predicate, blocks, and tests it again when the time is over.
Tested(t, otherwise) ==
  IF notifier = "REPORT"
    THEN /\ pc' = [pc EXCEPT ![t] = "end"]
         /\ act' = [act EXCEPT ![t] = Ending(task[t].id)]
    ELSE /\ pc' = [pc EXCEPT ![t] = otherwise]
         /\ UNCHANGED act

ReportWait(t) ==
  /\ pc[t] = "check"
  /\ Tested(t, "blocked")
  /\ UNCHANGED <<threadLocal, task, todo>>

ReportTimeout(t) ==
  /\ pc[t] = "blocked"
  /\ Tested(t, "busy")
  /\ UNCHANGED <<threadLocal, task, todo>>

\* Mutant: an endless report counts its waits too.
CountsWaits(t) ==
  /\ task' = [task EXCEPT ![t].left = @ - 1]
  /\ IF task[t].left = 1
       THEN /\ pc' = [pc EXCEPT ![t] = "end"]
            /\ act' = [act EXCEPT ![t] = Ending(task[t].id)]
       ELSE /\ pc' = [pc EXCEPT ![t] = "check"]
            /\ UNCHANGED act

\* After its last timed wait the thread deletes its row and ends; 0 is endless.
NextWait(t) ==
  /\ task' = [task EXCEPT ![t].left = IF @ = 0 THEN 0 ELSE @ - 1]
  /\ IF task[t].left = 1
       THEN /\ pc' = [pc EXCEPT ![t] = "end"]
            /\ act' = [act EXCEPT ![t] = Ending(task[t].id)]
       ELSE /\ pc' = [pc EXCEPT ![t] = "check"]
            /\ UNCHANGED act

\* reportThread: measure, send an update when one is due.
SendUpdate(t) ==
  /\ pc[t] = "busy"
  /\ ~task[t].meta
  /\ NextWait(t)
  /\ UNCHANGED <<threadLocal, todo>>

\* metadataThread: every other report is stopped before the reports are registered.
ReadPending(t) ==
  /\ pc[t] = "busy"
  /\ task[t].meta
  /\ todo' = [todo EXCEPT ![t] = [r \in Ids |-> IF file[r].meta THEN NoRow ELSE file[r]]]
  /\ pc' = [pc EXCEPT ![t] = "cancel"]
  /\ UNCHANGED <<threadLocal, task, act>>

StopPending(t) ==
  /\ pc[t] = "cancel"
  /\ act[t].at = "idle"
  /\ Listed(todo[t]) # {}
  /\ LET r == First(Listed(todo[t])) IN
       /\ act' = [act EXCEPT ![t] = Stopping(r, todo[t][r].slot)]
       /\ todo' = [todo EXCEPT ![t][r] = NoRow]
  /\ UNCHANGED <<threadLocal, pc, task>>

RegisterReports(t) ==
  /\ pc[t] = "cancel"
  /\ act[t].at = "idle"
  /\ Listed(todo[t]) = {}
  /\ NextWait(t)
  /\ UNCHANGED <<threadLocal, todo>>

ThreadStep(t) ==
  \/ ReportWait(t)
  \/ ReportTimeout(t)
  \/ SendUpdate(t)
  \/ ReadPending(t)
  \/ StopPending(t)
  \/ RegisterReports(t)

-----------------------------------------------------------------------------
(* The caller: reportScheduler, cancelReport, waitNotifier("REPORT")       *)

Resting == [at |-> "idle", left |-> {}, size |-> 0, budget |-> 0, rounds |-> 0,
            messages |-> 0, outcome |-> "none"]

Goto(at) == caller' = [caller EXCEPT !.at = at]

callerLocal == <<notifier, act, threadVars, history>>

Receive(m, at) ==
  /\ caller.at = "idle"
  /\ m \in Messages
  /\ caller.messages < MaxMessages
  /\ caller' = [Resting EXCEPT !.at = at, !.messages = caller.messages + 1]

\* Mutant: reportScheduler without getReportdata.
CreateFromNothing ==
  /\ Receive("create", "requests")
  /\ maps' = Empty
  /\ UNCHANGED <<callerLocal, count, file>>

\* reportScheduler: getReportdata.
CreateReport ==
  /\ Receive("create", "requests")
  /\ maps' = file
  /\ UNCHANGED <<callerLocal, count, file>>

\* ValidateReport: the id is known (451), or something else is wrong with the request.
Refuse ==
  /\ caller.at = "requests"
  /\ caller.size < MaxPayload
  /\ caller' = [caller EXCEPT !.size = @ + 1]
  /\ UNCHANGED <<callerLocal, count, file, maps>>

\* No slot is free: the report is told to be pending, and there is none.
AcceptInVain(r) ==
  /\ caller.at = "requests"
  /\ caller.size < MaxPayload
  /\ r \notin Listed(maps)
  /\ FreeSlots(maps) = {}
  /\ caller' = [caller EXCEPT !.size = @ + 1]
  /\ UNCHANGED <<callerLocal, count, file, maps>>

BeingDeleted(r) == \E a \in Actors : act[a].id = r /\ act[a].at \in {"read", "write", "row"}

\* A thread on the first slot that no report has.
Accept(r, meta, length) ==
  /\ caller.at = "requests"
  /\ caller.size < MaxPayload
  /\ r \notin Listed(maps)
  /\ Reuse \/ ~BeingDeleted(r)
  /\ FreeSlots(maps) # {}
  /\ caller' = [caller EXCEPT !.size = @ + 1]
  /\ \E t \in Threads :
       LET s == First(FreeSlots(maps)) IN
       /\ \A u \in Threads : pc[u] = "none" <=> u >= t
       /\ pc' = [pc EXCEPT ![t] = "check"]
       /\ task' = [task EXCEPT ![t] = [id |-> r, slot |-> s, meta |-> meta, left |-> length]]
       /\ maps' = [maps EXCEPT ![r] = [slot |-> s, meta |-> meta]]
  /\ UNCHANGED <<notifier, count, file, todo, act, history>>

\* Mutant: the row reportthread is not written.
ForgetSize ==
  /\ caller.at = "requests"
  /\ caller.size > 0
  /\ CountFree(Caller)
  /\ Goto("reply")
  /\ UNCHANGED <<callerLocal, count, file, maps>>

\* reportthread := rrid_cvMap.size(), whatever happened to it meanwhile.
RecordSize ==
  /\ caller.at = "requests"
  /\ caller.size > 0
  /\ CountFree(Caller)
  /\ count' = Cardinality(Listed(maps))
  /\ Goto("reply")
  /\ UNCHANGED <<callerLocal, file, maps>>

\* createdReport is sent, then the file is removed and written anew from the maps.
RemoveFile ==
  /\ caller.at = "reply"
  /\ file' = Empty
  /\ caller' = [caller EXCEPT !.at = "insert", !.left = Listed(maps)]
  /\ UNCHANGED <<callerLocal, count, maps>>

InsertRow ==
  /\ caller.at = "insert"
  /\ caller.left # {}
  /\ LET r == First(caller.left) IN
       /\ file' = [file EXCEPT ![r] = maps[r]]
       /\ caller' = [caller EXCEPT !.left = @ \ {r}]
  /\ UNCHANGED <<callerLocal, count, maps>>

Scheduled ==
  /\ caller.at = "insert"
  /\ caller.left = {}
  /\ maps' = Empty
  /\ Goto("idle")
  /\ UNCHANGED <<callerLocal, count, file>>

\* cancelReport: getReportdata, then one stop per id of the message that is listed.
CancelReport ==
  /\ Receive("cancel", "cancels")
  /\ maps' = file
  /\ UNCHANGED <<callerLocal, count, file>>

CancelOne(r) ==
  /\ caller.at = "cancels"
  /\ act[Caller].at = "idle"
  /\ caller.size < MaxPayload
  /\ caller' = [caller EXCEPT !.size = @ + 1]
  /\ act' = IF r \in Listed(maps)
              THEN [act EXCEPT ![Caller] = Stopping(r, maps[r].slot)]
              ELSE act
  /\ UNCHANGED <<notifier, count, file, maps, threadVars, history>>

Canceled ==
  /\ caller.at = "cancels"
  /\ act[Caller].at = "idle"
  /\ caller.size > 0
  /\ maps' = Empty
  /\ Goto("idle")
  /\ UNCHANGED <<callerLocal, count, file>>

\* CancelRegistration or ReRegistration, once events and signals have been stopped.
Leave ==
  /\ Receive("leave", "begin")
  /\ UNCHANGED <<callerLocal, count, file, maps>>

\* count * threadVal in an unsigned int: a negative threadVal wraps around to more
\* rounds than the program can live through.
Forever == -1
Rounds  == IF count >= 0 THEN Retries * count ELSE Forever

\* One pass over the rows of the file, as many of them as threads are counted.
BeginPass(at, rounds) ==
  /\ maps' = file
  /\ caller' = [caller EXCEPT !.at = at, !.left = Listed(file), !.budget = count,
                              !.rounds = rounds]

LeaveStatus ==
  /\ caller.at = "begin"
  /\ IF count = 0
       THEN Goto("reset") /\ UNCHANGED maps
       ELSE BeginPass("first", 0)
  /\ UNCHANGED <<callerLocal, count, file>>

LeaveNotify ==
  /\ caller.at \in {"first", "again"}
  /\ caller.budget # 0
  /\ caller.left # {}
  /\ LET r == First(caller.left) IN
       /\ NotifySlot(maps[r].slot)
       /\ caller' = [caller EXCEPT !.left = @ \ {r}, !.budget = @ - 1]
  /\ UNCHANGED <<count, file, maps, task, todo, act, history>>

LeavePassed ==
  /\ caller.at \in {"first", "again"}
  /\ caller.budget = 0 \/ caller.left = {}
  /\ Goto(IF caller.at = "first" THEN "counted" ELSE "retried")
  /\ UNCHANGED <<callerLocal, count, file, maps>>

\* Mutant: while(threadVal) without the count of rounds.
LeaveAgainForever ==
  /\ caller.at \in {"counted", "retried"}
  /\ Slept
  /\ IF count = 0
       THEN Goto("reset") /\ UNCHANGED maps
       ELSE BeginPass("again", Forever)
  /\ UNCHANGED <<callerLocal, count, file>>

\* The status is read again after every pass; the rounds are set after the first one.
LeaveAgain ==
  /\ caller.at \in {"counted", "retried"}
  /\ Slept
  /\ LET rounds == IF caller.at = "counted" THEN Rounds ELSE caller.rounds IN
       IF count = 0 \/ rounds = 0
         THEN Goto("reset") /\ UNCHANGED maps
         ELSE BeginPass("again", IF rounds = Forever THEN Forever ELSE rounds - 1)
  /\ UNCHANGED <<callerLocal, count, file>>

LeaveReset ==
  /\ caller.at = "reset"
  /\ notifier' = "RESET"
  /\ Goto("left")
  /\ UNCHANGED <<count, file, maps, threadVars, act, history>>

\* Mutant: the status is not looked at after waitNotifier.
LeaveAnyway ==
  /\ caller.at = "left"
  /\ file' = Empty
  /\ maps' = Empty
  /\ missed' = (missed \/ GoingOn # {})
  /\ caller' = [caller EXCEPT !.at = "idle", !.outcome = "ok"]
  /\ UNCHANGED <<notifier, count, threadVars, act, doubled>>

\* The status once more: "Report thread(s) still running".
LeaveFails ==
  /\ caller.at = "left"
  /\ count # 0
  /\ maps' = Empty
  /\ caller' = [caller EXCEPT !.at = "idle", !.outcome = "failed"]
  /\ UNCHANGED <<callerLocal, count, file>>

\* No thread is counted any more: the file is removed.
LeaveSucceeds ==
  /\ caller.at = "left"
  /\ count = 0
  /\ file' = Empty
  /\ maps' = Empty
  /\ missed' = (missed \/ GoingOn # {})
  /\ caller' = [caller EXCEPT !.at = "idle", !.outcome = "ok"]
  /\ UNCHANGED <<notifier, count, threadVars, act, doubled>>

CallerStep ==
  \/ CreateReport
  \/ Refuse
  \/ \E r \in Ids : AcceptInVain(r)
  \/ \E r \in Ids, meta \in Metadata, length \in Lengths : Accept(r, meta, length)
  \/ RecordSize
  \/ RemoveFile
  \/ InsertRow
  \/ Scheduled
  \/ CancelReport
  \/ \E r \in Ids : CancelOne(r)
  \/ Canceled
  \/ Leave
  \/ LeaveStatus
  \/ LeaveNotify
  \/ LeavePassed
  \/ LeaveAgain
  \/ LeaveReset
  \/ LeaveFails
  \/ LeaveSucceeds

\* The other thread that may call waitNotifier stops another service meanwhile.
OtherService ==
  /\ OthersStop
  /\ notifier' = "RESET"
  /\ UNCHANGED <<count, file, callerVars, threadVars, act, history>>

-----------------------------------------------------------------------------
Init ==
  /\ notifier = "RESET"
  /\ count = 0
  /\ file = Empty
  /\ maps = Empty
  /\ caller = Resting
  /\ pc = [t \in Threads |-> "none"]
  /\ task = [t \in Threads |-> [id |-> 1, slot |-> 0, meta |-> FALSE, left |-> 0]]
  /\ todo = [t \in Threads |-> Empty]
  /\ act = [a \in Actors |-> Idle]
  /\ missed = FALSE
  /\ doubled = FALSE

ActorStep(a) == StopOne(a) \/ UpdateDataFile(a)

Next ==
  \/ CallerStep
  \/ \E t \in Threads : ThreadStep(t)
  \/ \E a \in Actors : ActorStep(a)
  \/ OtherService

\* What was begun goes on: a caller at work, an activation, a thread that can run.
\* Timed waits end, since every wait_until has a time.
Fairness ==
  /\ WF_vars(caller.at # "idle" /\ CallerStep)
  /\ \A t \in Threads : WF_vars(ThreadStep(t))
  /\ \A a \in Actors : WF_vars(ActorStep(a))

Spec == Init /\ [][Next]_vars /\ Fairness

-----------------------------------------------------------------------------
CallerAts == {"idle", "requests", "reply", "insert", "cancels", "begin", "first",
              "again", "counted", "retried", "reset", "left"}

CallerStates ==
  [at : CallerAts, left : SUBSET Ids, size : 0..MaxPayload, budget : Int, rounds : Int,
   messages : 0..MaxMessages, outcome : {"none", "ok", "failed"}]

Places == {"none", "check", "blocked", "busy", "cancel", "end", "done"}

Tasks == [id : Ids, slot : Slots, meta : BOOLEAN, left : Nat]

Activations ==
  [at : {"idle", "before", "first", "after", "loop", "read", "write", "row"},
   id : Ids, slot : 0..MaxReport, before : Int, val : Int, tries : 0..Retries]

\* Every variable has its type; reportthread may be negative.
TypeOK ==
  /\ notifier \in {"REPORT", "NULL", "RESET"}
  /\ count \in Int
  /\ file \in [Ids -> Row]
  /\ maps \in [Ids -> Row]
  /\ caller \in CallerStates
  /\ pc \in [Threads -> Places]
  /\ task \in [Threads -> Tasks]
  /\ todo \in [Threads -> [Ids -> Row]]
  /\ act \in [Actors -> Activations]
  /\ missed \in BOOLEAN
  /\ doubled \in BOOLEAN

\* No two reports that are listed, in the file or in the maps of the caller, share a
\* condition variable: a stop would wake the thread of another report
\* (ReportHandler.cpp:1355-1367).
Distinct(m) == \A q, r \in Listed(m) : m[q].slot = m[r].slot => q = r

SlotsDistinct == Distinct(file) /\ Distinct(maps)

\* The rows a running report can be found by: those of reportScheduler while it works.
Reachable == IF caller.at \in {"requests", "reply", "insert"} THEN maps ELSE file

\* Until a stop misses its thread, every running report is listed under its id with its
\* own slot and kind: the VTN can cancel it (ReportHandler.cpp:1483-1490), and a second
\* report with its id is refused (1186-1194).
Cancellable ==
  ~missed => \A t \in GoingOn :
               Reachable[task[t].id] = [slot |-> task[t].slot, meta |-> task[t].meta]

Counted == {t \in Threads : t \in GoingOn \/ act[t].at \in {"read", "write"}}

\* reportthread never says less than there are threads, once reportScheduler has
\* recorded what it started (ReportHandler.cpp:1405) and as long as each thread alone
\* counts itself down (1489 does it once more).
CountNotLow ==
  ~doubled /\ caller.at # "requests" => count >= Cardinality(Counted)

\* A leave that is answered "successful" leaves no report running
\* (VENManager.cpp:935-947), with the same proviso.
LeaveIsComplete ==
  [][caller.outcome # "ok" /\ caller'.outcome = "ok" /\ ~doubled => GoingOn' = {}]_vars

\* Stopping the reports comes to an end, with success or not: the rounds are bounded
\* (VENManager.cpp:656-657), unless the row is decremented twice and negative.
LeaveAnswers == caller.at = "begin" ~> caller.at = "idle" \/ doubled

\* What VENManager.cpp:546 says of getThreadStatus, "This will return the number of
\* threads for any service": with nothing under way and no thread alive, it returns 0.
Quiet ==
  /\ caller.at = "idle"
  /\ \A a \in Actors : act[a].at = "idle"
  /\ \A t \in Threads : pc[t] \in {"none", "done"}

ReportsCounted == Quiet => count = 0

=============================================================================
