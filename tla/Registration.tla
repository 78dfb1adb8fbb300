---------------------------- MODULE Registration ----------------------------
(***************************************************************************)
(* The registration of the VEN: what the VTN holds, and the four places    *)
(* where the VEN keeps its ids: the rows of ven_param, the copies of the   *)
(* main thread, the VEN2b object that builds the requests, and the answer  *)
(* a thread works on.                                                      *)
(*                                                                         *)
(* The main thread carries out the commands of the HMI one by one; the     *)
(* poll thread asks the VTN for orders and registers again or leaves when  *)
(* told to.  Both exchange messages through one VEN2b and its one HttpCurl:*)
(* one buffer for what is sent, one for the answer, no lock.  An exchange  *)
(* is three steps: fill the buffer, let curl perform, take the answer.     *)
(*                                                                         *)
(* Ids are numbered in the order in which the VTN grants them, 0 is the    *)
(* empty string; one number stands for the venID and registrationID of one *)
(* registration.                                                           *)
(***************************************************************************)
EXTENDS Integers

CONSTANTS
  Commands,     \* the HMI commands of a run, a subset of HmiCommands
  Orders,       \* what the VTN does on its own: a subset of {"rereg", "leave"}
  MaxGrants,    \* bound: registrations the VTN grants
  MaxCommands,  \* bound: commands of the HMI
  MaxOrders,    \* bound: orders of the VTN
  MaxRestarts   \* bound: restarts of VENManager

HmiCommands ==
  {"startpolling", "stoppolling", "register", "query", "cancel", "clear", "rereg"}

ASSUME RegistrationAssumption ==
  /\ Commands \subseteq HmiCommands
  /\ Orders \subseteq {"rereg", "leave"}
  /\ {MaxGrants, MaxCommands, MaxOrders, MaxRestarts} \subseteq Nat

VARIABLES
  vtn,        \* the registration the VTN has of this VEN
  granted,    \* how many it has granted
  order,      \* what it will answer to the next poll
  rows,       \* the rows venid and registrationid of ven_param
  par,        \* m_venID and m_registrationID of the VENManager
  obj,        \* m_venID and m_registrationID of VEN2b
  outgoing,   \* HttpCurl::m_sendBuffer
  body,       \* HttpCurl::m_responseBody
  flag,       \* the row flag: a command, "ok" (0) or "error" (9)
  cmd,        \* main thread: the command it carries out, or "boot"
  at,         \* per thread: where it is
  op,         \* per thread: the exchange or the writing it is at
  ans,        \* per thread: the answer it took
  used,       \* how many commands, orders and restarts there were
  disturbed,  \* history: the poll thread or the VTN acted during the command
  told        \* history: the VTN ended the registration for a cancel of this command

vtnVars  == <<vtn, granted, order>>
wireVars == <<outgoing, body>>
history  == <<disturbed, told>>
vars == <<vtnVars, rows, par, obj, wireVars, flag, cmd, at, op, ans, used, history>>

Threads == {"main", "poll"}
Used    == [commands : Nat, orders : Nat, restarts : Nat]
Ids     == 0..MaxGrants
NoIds   == [ven |-> 0, reg |-> 0]
Pairs   == [ven : Ids, reg : Ids]

Requests == [kind : {"none", "create", "query", "cancel", "report", "poll"}, id : Ids]
Answers  == [kind : {"none", "created", "canceled", "registered", "nothing",
                     "rereg", "leave", "refused"}, id : Ids]
Message(k, i) == [kind |-> k, id |-> i]
Nobody == Message("none", 0)

\* ifregistered
HasIds(p) == p.ven # 0 /\ p.reg # 0

Goes(t, place) == at' = [at EXCEPT ![t] = place]
Starts(t, place, o) ==
  /\ Goes(t, place)
  /\ op' = [op EXCEPT ![t] = o]

\* Where the threads are at startup: registerVEN does nothing without URL and name.
BootPlaces == {[t \in Threads |-> IF t = "main" THEN place ELSE "off"] :
                 place \in {"post", "idle"}}

Init ==
  /\ vtn = 0 /\ granted = 0 /\ order = "none"
  /\ rows = NoIds /\ par = NoIds /\ obj = 0
  /\ outgoing = Nobody /\ body = Nobody
  /\ flag = "ok" /\ cmd = "boot"
  /\ at \in BootPlaces
  /\ op = [t \in Threads |-> IF t = "main" THEN "create" ELSE "none"]
  /\ ans = [t \in Threads |-> Nobody]
  /\ used = [commands |-> 0, orders |-> 0, restarts |-> 0]
  /\ disturbed = FALSE /\ told = FALSE

-----------------------------------------------------------------------------
(* An exchange: Oadr2b request, VEN2b::postRequest, HttpCurl::post         *)

\* A request to register carries no id (CreatePartyRegistration drops them).
Post(t) ==
  /\ at[t] = "post"
  /\ outgoing' = Message(op[t], IF op[t] = "create" THEN 0 ELSE obj)
  /\ Goes(t, "perform")
  /\ UNCHANGED <<vtnVars, rows, par, obj, body, flag, cmd, op, ans, used, history>>

\* What the VTN makes of the request in the buffer: its state and its answer.
Outcome(v, o, answer) ==
  [vtn |-> v, granted |-> IF v > granted THEN v ELSE granted, order |-> o,
   answer |-> answer]

Grants ==
  {Outcome(i, order, Message("created", i)) :
     i \in {k \in {vtn, granted + 1} : outgoing.kind = "create" /\ k \in 1..MaxGrants}}

Served ==
  LET is(k) == outgoing.kind = k
  IN  Grants
      \cup {Outcome(vtn, order, Message("refused", 0))}
      \cup {Outcome(vtn, order, Message("created", k)) : k \in {k \in {vtn} \ {0} : is("query")}}
      \cup {Outcome(0, order, Message("canceled", 0)) :
              k \in {k \in {vtn} \ {0} : is("cancel") /\ outgoing.id = k}}
      \cup {Outcome(vtn, order, Message("registered", 0)) : k \in {k \in {vtn} : is("report")}}
      \cup {Outcome(vtn, "none", Message(IF order = "none" THEN "nothing" ELSE order, 0)) :
              k \in {k \in {vtn} : is("poll")}}

VtnServes(s) ==
  /\ vtn' = s.vtn
  /\ granted' = s.granted
  /\ order' = s.order
  /\ told' = (told \/ s.answer.kind = "canceled")

Perform(t) ==
  /\ at[t] = "perform"
  /\ \E s \in Served : VtnServes(s) /\ body' = s.answer
  /\ Goes(t, "take")
  /\ UNCHANGED <<rows, par, obj, outgoing, flag, cmd, op, ans, used, disturbed>>

\* curl_easy_perform fails: a CurlException, and the former answer stays.
\* Only the answer was lost, or the request never arrived.
AnswerLost(t) ==
  /\ at[t] = "perform"
  /\ \E s \in Served : VtnServes(s)
  /\ Goes(t, "failed")
  /\ UNCHANGED <<rows, par, obj, wireVars, flag, cmd, op, ans, used, disturbed>>

RequestLost(t) ==
  /\ at[t] = "perform"
  /\ Goes(t, "failed")
  /\ UNCHANGED <<vtnVars, rows, par, obj, wireVars, flag, cmd, op, ans, used, history>>

\* Mutant: the ids are kept once there are some.
FirstIds(o, a) == IF o \in {"create", "query"} /\ a.kind = "created" /\ obj = 0
                    THEN a.id ELSE obj

\* The VEN2b object looks for oadrCreatedPartyRegistration in every answer.
SetIds(o, a) ==
  IF a.kind # "created" \/ o \notin {"create", "query", "cancel"}
    THEN obj
    ELSE IF o = "cancel" THEN 0 ELSE a.id

\* setHttpFields: the answer is the body the handle has by now.
Take(t) ==
  /\ at[t] = "take"
  /\ ans' = [ans EXCEPT ![t] = body]
  /\ obj' = SetIds(op[t], body)
  /\ Goes(t, "answered")
  /\ UNCHANGED <<vtnVars, rows, par, wireVars, flag, cmd, op, used, history>>

-----------------------------------------------------------------------------
(* RegisterParty, CancelParty and clearregistration                        *)

\* Mutant: any answer with content will do.
AcceptsAnything(o, a) == a.kind # "refused"

\* Mutant: any answer to a cancel will do (453 says that the id was unknown).
AcceptsUnknown(o, a) ==
  \/ o = "create" /\ a.kind = "created"
  \/ o = "query" /\ a.kind = "created"
  \/ o = "cancel" /\ a.kind \in {"canceled", "refused"}
  \/ o = "report" /\ a.kind = "registered"

\* The payload the caller expects, with response code 200.
Accepts(o, a) ==
  \/ o \in {"create", "query"} /\ a.kind = "created"
  \/ o = "cancel" /\ a.kind = "canceled"
  \/ o = "report" /\ a.kind = "registered"

After(o) == IF o = "create" THEN "rowven" ELSE IF o = "cancel" THEN "clearven" ELSE "done"

Judge(t) ==
  /\ at[t] = "answered"
  /\ op[t] # "poll"
  /\ Goes(t, IF Accepts(op[t], ans[t]) THEN After(op[t]) ELSE "failed")
  /\ UNCHANGED <<vtnVars, rows, par, obj, wireVars, flag, cmd, op, ans, used, history>>

WriteRow(t, row, value, next) ==
  /\ rows' = [rows EXCEPT ![row] = value]
  /\ Goes(t, next)
  /\ UNCHANGED <<vtnVars, par, obj, wireVars, flag, cmd, op, ans, used, history>>

RowVen(t) == at[t] = "rowven" /\ WriteRow(t, "ven", ans[t].id, "rowreg")
RowReg(t) == at[t] = "rowreg" /\ WriteRow(t, "reg", ans[t].id, "done")

\* Mutant: only the venID is cleared.
ClearOnlyVen(t) == at[t] = "clearven" /\ WriteRow(t, "ven", 0, "done")

ClearVen(t) == at[t] = "clearven" /\ WriteRow(t, "ven", 0, "clearreg")
ClearReg(t) == at[t] = "clearreg" /\ WriteRow(t, "reg", 0, "done")

Exchange(t) ==
  Post(t) \/ Perform(t) \/ AnswerLost(t) \/ RequestLost(t) \/ Take(t) \/ Judge(t)

Rows(t) == RowVen(t) \/ RowReg(t) \/ ClearVen(t) \/ ClearReg(t)

-----------------------------------------------------------------------------
(* The main thread: the loop of main and the commands                      *)

\* The poll thread is at something else than waiting.
PollActs == at["poll"] \notin {"off", "wait"}

HmiAsks(c) ==
  /\ flag \in {"ok", "error"}
  /\ used.commands < MaxCommands
  /\ flag' = c
  /\ used' = [used EXCEPT !.commands = @ + 1]
  /\ UNCHANGED <<vtnVars, rows, par, obj, wireVars, cmd, at, op, ans, history>>

\* Mutant: the command starts with the ids of the last one.
SeesWithOldIds ==
  /\ at["main"] = "idle" /\ flag \in HmiCommands
  /\ cmd' = flag
  /\ Starts("main", "begin", "none")
  /\ disturbed' = PollActs
  /\ told' = FALSE
  /\ UNCHANGED <<vtnVars, rows, par, obj, wireVars, flag, ans, used>>

MainSees ==
  /\ at["main"] = "idle" /\ flag \in HmiCommands
  /\ cmd' = flag
  /\ Starts("main", "readven", "none")
  /\ disturbed' = PollActs
  /\ told' = FALSE
  /\ UNCHANGED <<vtnVars, rows, par, obj, wireVars, flag, ans, used>>

\* updateParameter: before a command, and again after a fresh registration.
ReadVen ==
  /\ at["main"] = "readven"
  /\ par' = [par EXCEPT !.ven = rows.ven]
  /\ Goes("main", "readreg")
  /\ UNCHANGED <<vtnVars, rows, obj, wireVars, flag, cmd, op, ans, used, history>>

ReadReg ==
  /\ at["main"] = "readreg"
  /\ par' = [par EXCEPT !.reg = rows.reg]
  /\ IF op["main"] = "create" THEN Starts("main", "post", "report")
                              ELSE Starts("main", "begin", op["main"])
  /\ UNCHANGED <<vtnVars, rows, obj, wireVars, flag, cmd, ans, used, history>>

Begin ==
  /\ at["main"] = "begin"
  /\ \/ cmd \in {"register", "rereg"} /\ Starts("main", "post", "create")
     \/ cmd = "startpolling" /\ HasIds(par) /\ Starts("main", "launch", "none")
     \/ cmd = "startpolling" /\ ~HasIds(par) /\ Starts("main", "post", "create")
     \/ cmd = "query" /\ Starts("main", "post", "query")
     \/ cmd = "cancel" /\ HasIds(par) /\ Starts("main", "post", "cancel")
     \/ cmd = "cancel" /\ ~HasIds(par) /\ Starts("main", "stoppoll", "none")
     \/ cmd = "clear" /\ Starts("main", "clearven", "clear")
     \/ cmd = "stoppolling" /\ Starts("main", "stoppoll", "none")
  /\ UNCHANGED <<vtnVars, rows, par, obj, wireVars, flag, cmd, ans, used, history>>

\* The command is over.
Answer(f) ==
  /\ flag' = f
  /\ Goes("main", "idle")
  /\ UNCHANGED <<vtnVars, rows, par, obj, wireVars, cmd, op, ans, used, history>>

MainGoes(place) ==
  /\ Goes("main", place)
  /\ UNCHANGED <<vtnVars, rows, par, obj, wireVars, flag, cmd, op, ans, used, history>>

\* The exchange or the writing of the command succeeded.
MainDone ==
  /\ at["main"] = "done"
  /\ LET o == op["main"] IN
     \/ o = "create" /\ cmd # "rereg" /\ MainGoes("readven")
     \/ o = "create" /\ cmd = "rereg" /\ MainGoes("stoppoll")
     \/ o = "cancel" /\ MainGoes("stoppoll")
     \/ o = "report" /\ cmd = "startpolling" /\ MainGoes("launch")
     \/ o = "report" /\ cmd = "boot" /\ MainGoes("idle")
     \/ o = "report" /\ cmd = "register" /\ Answer("ok")
     \/ o \in {"query", "clear"} /\ Answer("ok")

\* At startup the ids are read and the reports registered in any case.
MainFailed ==
  /\ at["main"] = "failed"
  /\ \/ cmd = "boot" /\ op["main"] = "create" /\ MainGoes("readven")
     \/ cmd = "boot" /\ op["main"] = "report" /\ MainGoes("idle")
     \/ cmd # "boot" /\ Answer("error")

\* waitNotifier("POLL"): a poll thread that waits hears it and ends.
PollHears ==
  /\ at["main"] = "stoppoll"
  /\ at["poll"] = "wait"
  /\ Goes("poll", "off")
  /\ UNCHANGED <<vtnVars, rows, par, obj, wireVars, flag, cmd, op, ans, used, history>>

\* The other services are stopped after it; VenThreads says how.
PollStopped ==
  /\ at["main"] = "stoppoll"
  /\ at["poll"] = "off"
  /\ \/ Answer("ok")
     \/ cmd # "stoppolling" /\ Answer("error")

PollNotStopped == at["main"] = "stoppoll" /\ PollActs /\ Answer("error")

Launch ==
  /\ at["main"] = "launch"
  /\ \/ at["poll"] # "off" /\ Answer("error")
     \/ /\ at["poll"] = "off"
        /\ flag' = "ok"
        /\ at' = [at EXCEPT !["main"] = "idle", !["poll"] = "wait"]
        /\ UNCHANGED <<vtnVars, rows, par, obj, wireVars, cmd, op, ans, used, history>>

Main ==
  \/ Exchange("main") \/ Rows("main")
  \/ MainSees \/ ReadVen \/ ReadReg \/ Begin \/ MainDone \/ MainFailed
  \/ PollHears \/ PollStopped \/ PollNotStopped \/ Launch

-----------------------------------------------------------------------------
(* The poll thread                                                         *)

PollTurn ==
  /\ at["poll"] = "wait"
  /\ Starts("poll", "post", "poll")
  /\ disturbed' = TRUE
  /\ UNCHANGED <<vtnVars, rows, par, obj, wireVars, flag, cmd, ans, used, told>>

PollStarts(place, o) ==
  /\ Starts("poll", place, o)
  /\ UNCHANGED <<vtnVars, rows, par, obj, wireVars, flag, cmd, ans, used, history>>

\* An order is carried out when the services were stopped; the thread ends anyway.
PollAnswered ==
  /\ at["poll"] = "answered"
  /\ op["poll"] = "poll"
  /\ LET k == ans["poll"].kind IN
     \/ k = "rereg" /\ PollStarts("post", "create")
     \/ k = "leave" /\ PollStarts("clearven", "clear")
     \/ k \in {"rereg", "leave"} /\ PollStarts("off", "none")
     \/ k \notin {"rereg", "leave"} /\ PollStarts("wait", "none")

PollFailed ==
  /\ at["poll"] = "failed"
  /\ PollStarts(IF op["poll"] = "poll" THEN "wait" ELSE "off", "none")

PollDone == at["poll"] = "done" /\ PollStarts("off", "none")

Poll ==
  \/ Exchange("poll") \/ Rows("poll")
  \/ PollTurn \/ PollAnswered \/ PollFailed \/ PollDone

-----------------------------------------------------------------------------
(* The VTN and restarts                                                    *)

\* The VTN wants a new registration, or ends the one it has.
VtnOrders(o) ==
  /\ vtn # 0 /\ order = "none"
  /\ used.orders < MaxOrders
  /\ order' = o
  /\ vtn' = IF o = "leave" THEN 0 ELSE vtn
  /\ disturbed' = TRUE
  /\ used' = [used EXCEPT !.orders = @ + 1]
  /\ UNCHANGED <<granted, rows, par, obj, wireVars, flag, cmd, at, op, ans, told>>

\* VENManager ends at any point and starts anew: the rows are cleared, it may register.
Restart ==
  /\ used.restarts < MaxRestarts
  /\ rows' = NoIds /\ par' = NoIds /\ obj' = 0
  /\ outgoing' = Nobody /\ body' = Nobody
  /\ flag' = "ok" /\ cmd' = "boot"
  /\ at' \in BootPlaces
  /\ op' = [t \in Threads |-> IF t = "main" THEN "create" ELSE "none"]
  /\ ans' = [t \in Threads |-> Nobody]
  /\ used' = [used EXCEPT !.restarts = @ + 1]
  /\ disturbed' = FALSE /\ told' = FALSE
  /\ UNCHANGED vtnVars

Next ==
  \/ Main \/ Poll \/ Restart
  \/ \E c \in Commands : HmiAsks(c)
  \/ \E o \in Orders : VtnOrders(o)

Spec == Init /\ [][Next]_vars

-----------------------------------------------------------------------------
(* Properties                                                              *)

Places == {"idle", "readven", "readreg", "begin", "launch", "stoppoll", "off", "wait",
           "post", "perform", "take", "answered", "rowven", "rowreg", "clearven",
           "clearreg", "done", "failed"}

\* Types, with what they carry: the ids a thread writes as its registration are
\* ones the VTN has granted (RegisterParty, Registerparty.cpp:59-89).
TypeOK ==
  /\ {vtn, obj} \subseteq 0..granted /\ granted \in Ids
  /\ order \in Orders \cup {"none"}
  /\ {rows, par} \subseteq Pairs
  /\ outgoing \in Requests /\ body \in Answers
  /\ flag \in HmiCommands \cup {"ok", "error"}
  /\ cmd \in HmiCommands \cup {"boot"}
  /\ at \in [Threads -> Places]
  /\ op \in [Threads -> {"none", "create", "query", "cancel", "report", "poll", "clear"}]
  /\ ans \in [Threads -> Answers]
  /\ used \in Used
  /\ {disturbed, told} \subseteq BOOLEAN
  /\ \A t \in Threads : at[t] \in {"rowven", "rowreg"} => ans[t].id \in 1..granted

\* The main thread answers its command with success (a 0 in the flag); a restart is none.
Succeeds == at["main"] # "idle" /\ at'["main"] = "idle" /\ flag' = "ok" /\ cmd' # "boot"

\* A command that registered and is answered ok leaves the VTN, the VEN2b object and
\* both rows with one registration, whatever was lost, refused, cleared or restarted
\* before; unless the poll thread or the VTN acted in between (RegisterVEN,
\* StartPolling and ReRegistration, VENManager.cpp:738-872, 980-1035).
RegisteredTruly ==
  [][Succeeds /\ ~disturbed /\ (cmd = "rereg" \/ op["main"] = "report")
       => vtn # 0 /\ obj = vtn /\ rows = [ven |-> vtn, reg |-> vtn]]_vars

\* A cancel answered ok was carried out by the VTN during this very command, if the VEN
\* had ids when it began, even when the poll thread's exchanges got in its way
\* (CancelParty, CancelRegistration.cpp:43-67).
CancelTold == [][Succeeds /\ cmd = "cancel" /\ op["main"] = "cancel" => told]_vars

\* A cancel or a clear answered ok leaves no part of a registration in the rows, unless
\* the poll thread acted (VENManager.cpp:896-978, ClearRegistration.cpp:16-28).
ClearedTruly ==
  [][Succeeds /\ ~disturbed /\ cmd \in {"cancel", "clear"} /\ op["main"] # "none"
       => rows = NoIds]_vars

\* Polling starts only for a VEN that the database has as registered at that moment,
\* unless another poll thread or the VTN acted during the command; the ids are those
\* read when it began (StartPolling, VENManager.cpp:751-798).
PollsRegistered ==
  [][at["poll"] = "off" /\ at'["poll"] = "wait" /\ ~disturbed
       => HasIds(rows) /\ par = rows]_vars

\* "the response should be a oadrCreatedPartyRegistration" (VEN2b.cpp:152): an answer
\* that is not a refusal belongs to the request it is taken for.  The code does not keep
\* it: two threads exchange messages through one HttpCurl (VEN2b.cpp:89-96).
Fits(o, a) ==
  \/ a.kind = "refused"
  \/ Accepts(o, a)
  \/ o = "poll" /\ a.kind \in {"nothing", "rereg", "leave"}

AnswerIsOwn == \A t \in Threads : at[t] = "answered" => Fits(op[t], ans[t])
=============================================================================
