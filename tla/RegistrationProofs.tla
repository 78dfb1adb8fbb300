------------------------- MODULE RegistrationProofs -------------------------
(***************************************************************************)
(* Proofs about Registration, for every set of commands and orders and all *)
(* bounds: the types with what they carry (TypeOK), that a cancel that is  *)
(* answered ok was carried out by the VTN (CancelTold), and what the other *)
(* commands promise when nobody disturbs them (RegisteredTruly,            *)
(* ClearedTruly, PollsRegistered).                                         *)
(*                                                                         *)
(* TypeOK is not inductive: the ids a thread may write come from an answer *)
(* it took from the shared buffer, so every answer around must hold ids the*)
(* VTN has granted (Sound).  CancelTold follows a canceled answer from the *)
(* buffer through the main thread's copy to the flag (Trail); the poll     *)
(* thread may replace the answer in between, which can only spoil it.      *)
(* Undisturbed follows a command from place to place in the same way.      *)
(***************************************************************************)
EXTENDS Registration, TLAPS

\* An answer carries an id the VTN has granted, and a created one is not empty.
Granted(a) == a.id \in 0..granted /\ (a.kind = "created" => a.id # 0)

Sound ==
  /\ Granted(body)
  /\ \A t \in Threads :
       /\ Granted(ans[t])
       /\ at[t] = "post" => op[t] \in {"create", "query", "cancel", "report", "poll"}
       /\ at[t] \in {"rowven", "rowreg"} => ans[t].kind = "created"

\* The way of a canceled answer to the flag.
Trail ==
  LET a == at["main"]
      o == op["main"]
  IN  /\ a = "take" /\ o = "cancel" /\ body.kind = "canceled" => told
      /\ a = "answered" /\ o = "cancel" /\ ans["main"].kind = "canceled" => told
      /\ a \in {"clearven", "clearreg", "done", "stoppoll"} /\ o = "cancel" => told
      /\ a \in {"rowven", "rowreg"} => o = "create"
      /\ a = "launch" => o # "cancel"

IInv == TypeOK /\ Sound /\ Trail

-----------------------------------------------------------------------------
(* One lemma per kind of step                                              *)

LEMMA Bounds == /\ MaxGrants \in Nat
                /\ 0 \in Ids
                /\ Commands \subseteq HmiCommands
                /\ Orders \subseteq {"rereg", "leave"}
  BY RegistrationAssumption DEF Ids

\* Whatever the VTN makes of a request, it answers with ids it has granted.
LEMMA ServedIsSound ==
  ASSUME TypeOK, Sound, NEW s \in Served
  PROVE  /\ s.granted \in Ids /\ s.vtn \in 0..s.granted
         /\ s.granted >= granted
         /\ s.order \in Orders \cup {"none"}
         /\ s.answer \in Answers /\ s.answer.id \in 0..s.granted
         /\ s.answer.kind = "created" => s.answer.id # 0
  <1> USE Bounds DEF TypeOK, Sound, Granted, Ids, Answers, Outcome, Message
  <1>1. CASE s \in Grants
    BY <1>1 DEF Grants
  <1>2. CASE s \in Served \ Grants
    <2>1. s.vtn \in {0, vtn} /\ s.granted = granted /\ s.order \in {order, "none"}
      BY <1>2 DEF Served
    <2>2. \/ s.answer \in {Message(k, 0) : k \in {"refused", "canceled", "registered", "nothing",
                                                "rereg", "leave"}}
          \/ s.answer = Message("created", vtn) /\ vtn # 0
      BY <1>2 DEF Served
    <2>3. QED
      BY <2>1, <2>2
  <1>3. QED
    BY <1>1, <1>2

LEMMA Empties == /\ NoIds \in Pairs
                 /\ Nobody \in Requests /\ Nobody \in Answers
                 /\ Nobody.id = 0 /\ Nobody.kind = "none"
  BY Bounds DEF NoIds, Pairs, Nobody, Message, Requests, Answers

LEMMA InitIInv == Init => IInv
  <1> SUFFICES ASSUME Init
               PROVE  IInv
    OBVIOUS
  <1> USE Bounds, Empties DEF Init, Threads, BootPlaces
  <1>1. TypeOK
    <2>1. at \in [Threads -> Places]
      BY DEF Places
    <2>2. op \in [Threads -> {"none", "create", "query", "cancel", "report", "poll", "clear"}]
      OBVIOUS
    <2>3. ans \in [Threads -> Answers]
      OBVIOUS
    <2>4. used \in Used
      BY DEF Used
    <2>5. /\ {vtn, obj} \subseteq 0..granted /\ granted \in Ids
          /\ order = "none" /\ flag = "ok" /\ cmd = "boot"
      OBVIOUS
    <2>6. {disturbed, told} \subseteq BOOLEAN
      BY Zenon
    <2>7. \A t \in Threads : at[t] \notin {"rowven", "rowreg"}
      OBVIOUS
    <2>8. QED
      BY <2>1, <2>2, <2>3, <2>4, <2>5, <2>6, <2>7 DEF TypeOK
  <1>2. Sound
    BY DEF Sound, Granted
  <1>3. Trail
    BY DEF Trail
  <1>4. QED
    BY <1>1, <1>2, <1>3 DEF IInv

\* Sound is what makes the ids a thread writes be granted ones.
LEMMA NextTypeOK == TypeOK /\ Sound /\ [Next]_vars => TypeOK'
  <1> SUFFICES ASSUME TypeOK, Sound, [Next]_vars
               PROVE  TypeOK'
    OBVIOUS
  <1> USE Bounds DEF TypeOK, Pairs, Ids, Requests, Answers, Message, Nobody, NoIds, Threads,
    HmiCommands, Places, Used, Goes, Starts, vtnVars, wireVars, history, Sound, Granted
  <1>1. ASSUME NEW t \in Threads, Post(t)
        PROVE  TypeOK'
    BY <1>1 DEF Post
  <1>2. ASSUME NEW t \in Threads, Perform(t)
        PROVE  TypeOK'
    BY <1>2, ServedIsSound DEF Perform, VtnServes
  <1>3. ASSUME NEW t \in Threads, AnswerLost(t)
        PROVE  TypeOK'
    BY <1>3, ServedIsSound DEF AnswerLost, VtnServes
  <1>4. ASSUME NEW t \in Threads, RequestLost(t)
        PROVE  TypeOK'
    BY <1>4 DEF RequestLost
  <1>5. ASSUME NEW t \in Threads, Take(t)
        PROVE  TypeOK'
    BY <1>5 DEF Take, SetIds
  <1>6. ASSUME NEW t \in Threads, Judge(t)
        PROVE  TypeOK'
    BY <1>6 DEF Judge, Accepts, After
  <1>7. ASSUME NEW t \in Threads, RowVen(t)
        PROVE  TypeOK'
    BY <1>7 DEF RowVen, WriteRow
  <1>8. ASSUME NEW t \in Threads, RowReg(t)
        PROVE  TypeOK'
    BY <1>8 DEF RowReg, WriteRow
  <1>9. ASSUME NEW t \in Threads, ClearVen(t)
        PROVE  TypeOK'
    BY <1>9 DEF ClearVen, WriteRow
  <1>10. ASSUME NEW t \in Threads, ClearReg(t)
        PROVE  TypeOK'
    BY <1>10 DEF ClearReg, WriteRow
  <1>11. CASE MainSees
    BY <1>11 DEF MainSees, PollActs
  <1>12. CASE ReadVen
    BY <1>12 DEF ReadVen
  <1>13. CASE ReadReg
    BY <1>13 DEF ReadReg
  <1>14. CASE Begin
    BY <1>14 DEF Begin
  <1>15. CASE MainDone
    BY <1>15 DEF MainDone, MainGoes, Answer
  <1>16. CASE MainFailed
    BY <1>16 DEF MainFailed, MainGoes, Answer
  <1>17. CASE PollHears
    BY <1>17 DEF PollHears
  <1>18. CASE PollStopped
    BY <1>18 DEF PollStopped, Answer
  <1>19. CASE PollNotStopped
    BY <1>19 DEF PollNotStopped, Answer
  <1>20. CASE Launch
    BY <1>20 DEF Launch, Answer
  <1>21. CASE PollTurn
    BY <1>21 DEF PollTurn
  <1>22. CASE PollAnswered
    BY <1>22 DEF PollAnswered, PollStarts
  <1>23. CASE PollFailed
    BY <1>23 DEF PollFailed, PollStarts
  <1>24. CASE PollDone
    BY <1>24 DEF PollDone, PollStarts
  <1>25. CASE Restart
    <2>1. rows' \in Pairs /\ par' \in Pairs /\ outgoing' \in Requests /\ body' \in Answers
      BY <1>25, Empties DEF Restart, BootPlaces
    <2>2. ans' \in [Threads -> Answers]
      BY <1>25, Empties DEF Restart, BootPlaces
    <2>3. at' \in [Threads -> Places]
      BY <1>25 DEF Restart, BootPlaces
    <2>4. op' \in [Threads -> {"none", "create", "query", "cancel", "report", "poll", "clear"}]
      BY <1>25 DEF Restart, BootPlaces
    <2>5. used' \in Used
      BY <1>25 DEF Restart, BootPlaces
    <2>6. /\ {vtn', obj'} \subseteq 0..granted' /\ granted' \in Ids
          /\ order' \in Orders \cup {"none"}
          /\ flag' \in HmiCommands \cup {"ok", "error"} /\ cmd' \in HmiCommands \cup {"boot"}
      BY <1>25 DEF Restart, BootPlaces
    <2>7. {disturbed', told'} \subseteq BOOLEAN
      BY <1>25, Zenon DEF Restart, BootPlaces
    <2>8. \A t \in Threads : at'[t] \notin {"rowven", "rowreg"}
      BY <1>25 DEF Restart, BootPlaces
    <2>9. QED
      BY <2>1, <2>2, <2>3, <2>4, <2>5, <2>6, <2>7, <2>8
  <1>26. ASSUME NEW c \in Commands, HmiAsks(c)
        PROVE  TypeOK'
    BY <1>26 DEF HmiAsks
  <1>27. ASSUME NEW o \in Orders, VtnOrders(o)
        PROVE  TypeOK'
    BY <1>27 DEF VtnOrders
  <1>28. CASE UNCHANGED vars
    BY <1>28 DEF vars
  <1>29. QED
    BY <1>1, <1>2, <1>3, <1>4, <1>5, <1>6, <1>7, <1>8, <1>9, <1>10, <1>11, <1>12,
       <1>13, <1>14, <1>15, <1>16, <1>17, <1>18, <1>19, <1>20, <1>21, <1>22, <1>23,
       <1>24, <1>25, <1>26, <1>27, <1>28
       DEF Next, Main, Poll, Exchange, Rows

LEMMA NextSound == TypeOK /\ Sound /\ [Next]_vars => Sound'
  <1> SUFFICES ASSUME TypeOK, Sound, [Next]_vars
               PROVE  Sound'
    OBVIOUS
  <1> USE Bounds DEF TypeOK, Pairs, Ids, Requests, Answers, Message, Nobody, NoIds, Threads,
    HmiCommands, Places, Used, Goes, Starts, vtnVars, wireVars, history, Sound, Granted
  <1>1. ASSUME NEW t \in Threads, Post(t)
        PROVE  Sound'
    BY <1>1 DEF Post
  <1>2. ASSUME NEW t \in Threads, Perform(t)
        PROVE  Sound'
    BY <1>2, ServedIsSound DEF Perform, VtnServes
  <1>3. ASSUME NEW t \in Threads, AnswerLost(t)
        PROVE  Sound'
    BY <1>3, ServedIsSound DEF AnswerLost, VtnServes
  <1>4. ASSUME NEW t \in Threads, RequestLost(t)
        PROVE  Sound'
    BY <1>4 DEF RequestLost
  <1>5. ASSUME NEW t \in Threads, Take(t)
        PROVE  Sound'
    BY <1>5 DEF Take, SetIds
  <1>6. ASSUME NEW t \in Threads, Judge(t)
        PROVE  Sound'
    BY <1>6 DEF Judge, Accepts, After
  <1>7. ASSUME NEW t \in Threads, RowVen(t)
        PROVE  Sound'
    BY <1>7 DEF RowVen, WriteRow
  <1>8. ASSUME NEW t \in Threads, RowReg(t)
        PROVE  Sound'
    BY <1>8 DEF RowReg, WriteRow
  <1>9. ASSUME NEW t \in Threads, ClearVen(t)
        PROVE  Sound'
    BY <1>9 DEF ClearVen, WriteRow
  <1>10. ASSUME NEW t \in Threads, ClearReg(t)
        PROVE  Sound'
    BY <1>10 DEF ClearReg, WriteRow
  <1>11. CASE MainSees
    BY <1>11 DEF MainSees, PollActs
  <1>12. CASE ReadVen
    BY <1>12 DEF ReadVen
  <1>13. CASE ReadReg
    BY <1>13 DEF ReadReg
  <1>14. CASE Begin
    BY <1>14 DEF Begin
  <1>15. CASE MainDone
    BY <1>15 DEF MainDone, MainGoes, Answer
  <1>16. CASE MainFailed
    BY <1>16 DEF MainFailed, MainGoes, Answer
  <1>17. CASE PollHears
    BY <1>17 DEF PollHears
  <1>18. CASE PollStopped
    BY <1>18 DEF PollStopped, Answer
  <1>19. CASE PollNotStopped
    BY <1>19 DEF PollNotStopped, Answer
  <1>20. CASE Launch
    BY <1>20 DEF Launch, Answer
  <1>21. CASE PollTurn
    BY <1>21 DEF PollTurn
  <1>22. CASE PollAnswered
    BY <1>22 DEF PollAnswered, PollStarts
  <1>23. CASE PollFailed
    BY <1>23 DEF PollFailed, PollStarts
  <1>24. CASE PollDone
    BY <1>24 DEF PollDone, PollStarts
  <1>25. CASE Restart
    BY <1>25 DEF Restart, BootPlaces
  <1>26. ASSUME NEW c \in Commands, HmiAsks(c)
        PROVE  Sound'
    BY <1>26 DEF HmiAsks
  <1>27. ASSUME NEW o \in Orders, VtnOrders(o)
        PROVE  Sound'
    BY <1>27 DEF VtnOrders
  <1>28. CASE UNCHANGED vars
    BY <1>28 DEF vars
  <1>29. QED
    BY <1>1, <1>2, <1>3, <1>4, <1>5, <1>6, <1>7, <1>8, <1>9, <1>10, <1>11, <1>12,
       <1>13, <1>14, <1>15, <1>16, <1>17, <1>18, <1>19, <1>20, <1>21, <1>22, <1>23,
       <1>24, <1>25, <1>26, <1>27, <1>28
       DEF Next, Main, Poll, Exchange, Rows

LEMMA NextTrail == TypeOK /\ Sound /\ Trail /\ [Next]_vars => Trail'
  <1> SUFFICES ASSUME TypeOK, Sound, Trail, [Next]_vars
               PROVE  Trail'
    OBVIOUS
  <1> USE Bounds DEF TypeOK, Pairs, Ids, Requests, Answers, Message, Nobody, NoIds, Threads,
    HmiCommands, Places, Used, Goes, Starts, vtnVars, wireVars, history, Trail
  <1>1. ASSUME NEW t \in Threads, Post(t)
        PROVE  Trail'
    BY <1>1 DEF Post
  <1>2. ASSUME NEW t \in Threads, Perform(t)
        PROVE  Trail'
    BY <1>2, ServedIsSound DEF Perform, VtnServes
  <1>3. ASSUME NEW t \in Threads, AnswerLost(t)
        PROVE  Trail'
    BY <1>3, ServedIsSound DEF AnswerLost, VtnServes
  <1>4. ASSUME NEW t \in Threads, RequestLost(t)
        PROVE  Trail'
    BY <1>4 DEF RequestLost
  <1>5. ASSUME NEW t \in Threads, Take(t)
        PROVE  Trail'
    BY <1>5 DEF Take, SetIds
  <1>6. ASSUME NEW t \in Threads, Judge(t)
        PROVE  Trail'
    BY <1>6 DEF Judge, Accepts, After
  <1>7. ASSUME NEW t \in Threads, RowVen(t)
        PROVE  Trail'
    BY <1>7 DEF RowVen, WriteRow
  <1>8. ASSUME NEW t \in Threads, RowReg(t)
        PROVE  Trail'
    BY <1>8 DEF RowReg, WriteRow
  <1>9. ASSUME NEW t \in Threads, ClearVen(t)
        PROVE  Trail'
    BY <1>9 DEF ClearVen, WriteRow
  <1>10. ASSUME NEW t \in Threads, ClearReg(t)
        PROVE  Trail'
    BY <1>10 DEF ClearReg, WriteRow
  <1>11. CASE MainSees
    BY <1>11 DEF MainSees, PollActs
  <1>12. CASE ReadVen
    BY <1>12 DEF ReadVen
  <1>13. CASE ReadReg
    BY <1>13 DEF ReadReg
  <1>14. CASE Begin
    BY <1>14 DEF Begin
  <1>15. CASE MainDone
    BY <1>15 DEF MainDone, MainGoes, Answer
  <1>16. CASE MainFailed
    BY <1>16 DEF MainFailed, MainGoes, Answer
  <1>17. CASE PollHears
    BY <1>17 DEF PollHears
  <1>18. CASE PollStopped
    BY <1>18 DEF PollStopped, Answer
  <1>19. CASE PollNotStopped
    BY <1>19 DEF PollNotStopped, Answer
  <1>20. CASE Launch
    BY <1>20 DEF Launch, Answer
  <1>21. CASE PollTurn
    BY <1>21 DEF PollTurn
  <1>22. CASE PollAnswered
    BY <1>22 DEF PollAnswered, PollStarts
  <1>23. CASE PollFailed
    BY <1>23 DEF PollFailed, PollStarts
  <1>24. CASE PollDone
    BY <1>24 DEF PollDone, PollStarts
  <1>25. CASE Restart
    BY <1>25 DEF Restart, BootPlaces
  <1>26. ASSUME NEW c \in Commands, HmiAsks(c)
        PROVE  Trail'
    BY <1>26 DEF HmiAsks
  <1>27. ASSUME NEW o \in Orders, VtnOrders(o)
        PROVE  Trail'
    BY <1>27 DEF VtnOrders
  <1>28. CASE UNCHANGED vars
    BY <1>28 DEF vars
  <1>29. QED
    BY <1>1, <1>2, <1>3, <1>4, <1>5, <1>6, <1>7, <1>8, <1>9, <1>10, <1>11, <1>12,
       <1>13, <1>14, <1>15, <1>16, <1>17, <1>18, <1>19, <1>20, <1>21, <1>22, <1>23,
       <1>24, <1>25, <1>26, <1>27, <1>28
       DEF Next, Main, Poll, Exchange, Rows

-----------------------------------------------------------------------------
(* The theorems                                                            *)

LEMMA Invariant == Spec => []IInv
  <1>1. IInv /\ [Next]_vars => IInv'
    BY NextTypeOK, NextSound, NextTrail DEF IInv
  <1>2. QED
    BY InitIInv, <1>1, PTL DEF Spec

\* The types, and that a thread writes only ids the VTN has granted as its registration,
\* whatever was lost and whoever took whose answer.
THEOREM TypeCorrect == Spec => []TypeOK
  <1>1. IInv => TypeOK
    BY DEF IInv
  <1>2. QED
    BY Invariant, <1>1, PTL

\* A cancel answered ok that began with ids was carried out by the VTN during this very
\* command, also when the poll thread's exchanges overlap its own.
THEOREM CancelIsTold == Spec => CancelTold
  <1> DEFINE Step == Succeeds /\ cmd = "cancel" /\ op["main"] = "cancel" => told
  <1>1. IInv /\ [Next]_vars => [Step]_vars
    <2> SUFFICES ASSUME IInv, Next, Succeeds, cmd = "cancel", op["main"] = "cancel"
                 PROVE  told
      OBVIOUS
    <2> USE DEF IInv, TypeOK, Trail, Threads, Goes, Starts, Succeeds
    <2>1. CASE Main
      <3>1. CASE Exchange("main")
        BY <3>1 DEF Exchange, Post, Perform, AnswerLost, RequestLost, Take, Judge, After
      <3>2. CASE Rows("main")
        BY <3>2 DEF Rows, RowVen, RowReg, ClearVen, ClearReg, WriteRow
      <3>3. CASE MainSees \/ ReadVen \/ ReadReg \/ Begin
        BY <3>3 DEF MainSees, ReadVen, ReadReg, Begin
      <3>4. CASE MainDone \/ MainFailed
        BY <3>4 DEF MainDone, MainFailed, MainGoes, Answer
      <3>5. CASE PollHears \/ PollStopped \/ PollNotStopped \/ Launch
        BY <3>5 DEF PollHears, PollStopped, PollNotStopped, Launch, Answer
      <3>6. QED
        BY <2>1, <3>1, <3>2, <3>3, <3>4, <3>5 DEF Main
    <2>2. CASE Poll
      <3>1. CASE Exchange("poll")
        BY <3>1 DEF Exchange, Post, Perform, AnswerLost, RequestLost, Take, Judge
      <3>2. CASE Rows("poll")
        BY <3>2 DEF Rows, RowVen, RowReg, ClearVen, ClearReg, WriteRow
      <3>3. CASE PollTurn \/ PollAnswered \/ PollFailed \/ PollDone
        BY <3>3 DEF PollTurn, PollAnswered, PollFailed, PollDone, PollStarts
      <3>4. QED
        BY <2>2, <3>1, <3>2, <3>3 DEF Poll
    <2>3. CASE Restart
      BY <2>3 DEF Restart, BootPlaces
    <2>4. ASSUME NEW c \in Commands, HmiAsks(c)
          PROVE  told
      BY <2>4 DEF HmiAsks
    <2>5. ASSUME NEW o \in Orders, VtnOrders(o)
          PROVE  told
      BY <2>5 DEF VtnOrders
    <2>6. QED
      BY <2>1, <2>2, <2>3, <2>4, <2>5 DEF Next
  <1>2. QED
    BY Invariant, <1>1, PTL DEF Spec, CancelTold

-----------------------------------------------------------------------------
(* Commands nobody disturbs                                                *)
(*                                                                         *)
(* While neither the poll thread nor the VTN acts, what the main thread    *)
(* holds, what the buffers hold and what the VTN has follow the command    *)
(* from place to place: that is what its answer promises in the end.       *)

\* The rows, the VEN2b object and the VTN have one registration.
Registered ==
  /\ vtn # 0 /\ obj = vtn
  /\ rows.ven = vtn /\ rows.reg = vtn

ParIsRead == par.ven = rows.ven /\ par.reg = rows.reg

\* The poll thread waits, or there is none.
PollRests == at["poll"] \in {"off", "wait"}

\* Which command is at which exchange.
Course ==
  LET a == at["main"]
      o == op["main"]
  IN  /\ o = "create" => cmd \in {"register", "rereg", "startpolling", "boot"}
      /\ o = "report" => cmd \in {"register", "startpolling", "boot"}
      /\ o \in {"query", "cancel", "clear"} => cmd = o
      /\ a \in {"readven", "readreg"} =>
           o \in {"none", "create"} /\ (o = "create" => cmd # "rereg")
      /\ a = "begin" => o = "none"
      /\ a = "launch" => o \in {"none", "report"} /\ cmd = "startpolling"
      /\ a = "stoppoll" => o \in {"create", "cancel", "none"} /\ (cmd = "rereg" <=> o = "create")
      /\ a \in {"rowven", "rowreg"} => o = "create"
      /\ a \in {"clearven", "clearreg"} => o \in {"cancel", "clear"}
      /\ a \in {"post", "perform", "take", "answered"} =>
           o \in {"create", "query", "cancel", "report"}

\* The exchange that registers, from the buffer to the rows.
Creating ==
  LET a == at["main"]
  IN  op["main"] = "create" =>
      /\ a = "perform" => outgoing.kind = "create"
      /\ a = "take" /\ body.kind = "created" => body.id = vtn /\ vtn # 0
      /\ a = "answered" /\ ans["main"].kind = "created" =>
           ans["main"].id = vtn /\ obj = vtn /\ vtn # 0
      /\ a \in {"rowven", "rowreg"} => ans["main"].id = vtn /\ obj = vtn /\ vtn # 0
      /\ a = "rowreg" => rows.ven = vtn
      /\ a \in {"done", "stoppoll"} => Registered
      /\ a \in {"readven", "readreg"} /\ cmd # "boot" => Registered

\* The reports are registered with what was registered before.
Reporting ==
  op["main"] = "report" =>
    /\ at["main"] = "perform" => outgoing.kind = "report"
    /\ cmd # "boot" => Registered /\ ParIsRead

\* The rows are cleared one after the other.
Clearing ==
  op["main"] \in {"cancel", "clear"} =>
    /\ at["main"] = "clearreg" => rows.ven = 0
    /\ at["main"] \in {"done", "stoppoll"} => rows.ven = 0 /\ rows.reg = 0

\* What a command read is what the rows hold.
Reading ==
  /\ at["main"] = "readreg" => par.ven = rows.ven
  /\ at["main"] = "begin" => ParIsRead
  /\ at["main"] = "launch" => ParIsRead /\ HasIds(par)

Undisturbed ==
  /\ Course
  /\ ~disturbed => PollRests /\ Creating /\ Reporting /\ Clearing /\ Reading

LEMMA InitUndisturbed == Init => Undisturbed
  BY DEF Init, BootPlaces, Threads, Undisturbed, Course, PollRests, Creating, Reporting,
         Clearing, Reading, HasIds

\* What the VTN does is bound to the kind of request in the buffer.
LEMMA ServedByKind ==
  ASSUME NEW s \in Served
  PROVE  /\ s.answer.kind = "created" /\ outgoing.kind = "create" =>
              s.answer.id = s.vtn /\ s.vtn # 0
         /\ outgoing.kind = "report" => s.vtn = vtn
  <1> USE DEF Outcome, Message
  <1>1. CASE s \in Grants
    <2>1. PICK i \in {k \in {vtn, granted + 1} : outgoing.kind = "create" /\ k \in 1..MaxGrants} :
            s = Outcome(i, order, Message("created", i))
      BY <1>1 DEF Grants
    <2>2. i # 0 /\ outgoing.kind = "create"
      BY <2>1
    <2>3. QED
      BY <2>1, <2>2
  <1>2. CASE s \in Served \ Grants
    BY <1>2 DEF Served
  <1>3. QED
    BY <1>1, <1>2

\* An exchange of the main thread, or its writing of a row.
LEMMA MainExchanges ==
  ASSUME TypeOK, Undisturbed, Exchange("main") \/ Rows("main")
  PROVE  Undisturbed'
  <1> USE DEF TypeOK, Threads, Goes, vtnVars, wireVars, history, Undisturbed, Course,
              PollRests, Creating, Reporting, Clearing, Reading, Registered, ParIsRead, HasIds
  <1>1. CASE Post("main")
    BY <1>1 DEF Post, Message
  <1>2. CASE Perform("main")
    BY <1>2, ServedByKind DEF Perform, VtnServes
  <1>3. CASE AnswerLost("main")
    BY <1>3, ServedByKind DEF AnswerLost, VtnServes
  <1>4. CASE RequestLost("main")
    BY <1>4 DEF RequestLost
  <1>5. CASE Take("main")
    BY <1>5 DEF Take, SetIds
  <1>6. CASE Judge("main")
    BY <1>6 DEF Judge, Accepts, After
  <1>7. CASE RowVen("main") \/ RowReg("main")
    BY <1>7 DEF RowVen, RowReg, WriteRow, Pairs
  <1>8. CASE ClearVen("main") \/ ClearReg("main")
    BY <1>8 DEF ClearVen, ClearReg, WriteRow, Pairs
  <1>9. QED
    BY <1>1, <1>2, <1>3, <1>4, <1>5, <1>6, <1>7, <1>8 DEF Exchange, Rows

\* A command from the flag to its answer.
LEMMA MainCommands ==
  ASSUME TypeOK, Undisturbed, Main, ~(Exchange("main") \/ Rows("main"))
  PROVE  Undisturbed'
  <1> USE DEF TypeOK, Threads, Goes, Starts, vtnVars, wireVars, history, Undisturbed, Course,
              PollRests, Creating, Reporting, Clearing, Reading, Registered, ParIsRead, HasIds
  <1>1. CASE MainSees
    BY <1>1 DEF MainSees, PollActs
  <1>2. CASE ReadVen
    BY <1>2 DEF ReadVen, Pairs
  <1>3. CASE ReadReg
    BY <1>3 DEF ReadReg, Pairs
  <1>4. CASE Begin
    BY <1>4 DEF Begin
  <1>5. CASE MainDone
    BY <1>5 DEF MainDone, MainGoes, Answer
  <1>6. CASE MainFailed
    BY <1>6 DEF MainFailed, MainGoes, Answer
  <1>7. CASE PollHears
    BY <1>7 DEF PollHears
  <1>8. CASE PollStopped \/ PollNotStopped
    BY <1>8 DEF PollStopped, PollNotStopped, Answer
  <1>9. CASE Launch
    BY <1>9 DEF Launch, Answer
  <1>10. QED
    BY <1>1, <1>2, <1>3, <1>4, <1>5, <1>6, <1>7, <1>8, <1>9 DEF Main

\* What disturbs a command is recorded; a restart begins anew.
LEMMA OthersUndisturbed ==
  ASSUME TypeOK, Undisturbed,
         \/ Poll \/ Restart \/ UNCHANGED vars
         \/ \E c \in Commands : HmiAsks(c)
         \/ \E o \in Orders : VtnOrders(o)
  PROVE  Undisturbed'
  <1> USE DEF Undisturbed
  <1>1. CASE Poll
    <2>1. PollRests => PollTurn
      BY <1>1 DEF PollRests, Poll, Exchange, Post, Perform, AnswerLost, RequestLost, Take, Judge,
                  Rows, RowVen, RowReg, ClearVen, ClearReg, PollAnswered, PollFailed, PollDone
    <2>2. PollTurn => disturbed'
      BY DEF PollTurn
    <2>3. disturbed => disturbed'
      BY <1>1 DEF Poll, Exchange, Post, Perform, AnswerLost, RequestLost, Take, Judge,
                  Rows, RowVen, RowReg, ClearVen, ClearReg, WriteRow, history,
                  PollTurn, PollAnswered, PollFailed, PollDone, PollStarts
    <2>4. UNCHANGED cmd /\ at'["main"] = at["main"] /\ op'["main"] = op["main"]
      BY <1>1 DEF Poll, Exchange, Post, Perform, AnswerLost, RequestLost, Take, Judge,
                  Rows, RowVen, RowReg, ClearVen, ClearReg, WriteRow, Goes, Starts,
                  PollTurn, PollAnswered, PollFailed, PollDone, PollStarts, TypeOK, Threads
    <2>5. QED
      BY <2>1, <2>2, <2>3, <2>4 DEF Course
  <1>2. CASE Restart
    BY <1>2 DEF Restart, BootPlaces, Threads, Course, PollRests, Creating, Reporting, Clearing,
                Reading
  <1>3. CASE (\E c \in Commands : HmiAsks(c)) \/ UNCHANGED vars
    BY <1>3 DEF HmiAsks, vars, vtnVars, wireVars, history, Course, PollRests, Creating,
                Reporting, Clearing, Reading, Registered, ParIsRead, HasIds
  <1>4. ASSUME NEW o \in Orders, VtnOrders(o)
        PROVE  Undisturbed'
    BY <1>4 DEF VtnOrders, Course
  <1>5. QED
    BY <1>1, <1>2, <1>3, <1>4

LEMMA UndisturbedInvariant == Spec => [](IInv /\ Undisturbed)
  <1>1. IInv /\ Undisturbed /\ [Next]_vars => Undisturbed'
    BY MainExchanges, MainCommands, OthersUndisturbed DEF IInv, Next
  <1>2. QED
    BY Invariant, InitUndisturbed, <1>1, PTL DEF Spec

\* The places a command is answered ok from, and what is known there.
LEMMA HowItSucceeds ==
  ASSUME TypeOK, Undisturbed, Next, Succeeds
  PROVE  /\ UNCHANGED <<vtn, obj, rows, cmd, op>>
         /\ \/ at["main"] = "done" /\ op["main"] \in {"report", "query", "clear"}
            \/ at["main"] = "stoppoll"
            \/ at["main"] = "launch"
  <1> USE DEF Succeeds, TypeOK, Threads, Goes, vtnVars
  <1>1. CASE Exchange("main") \/ Rows("main")
    BY <1>1 DEF Exchange, Post, Perform, AnswerLost, RequestLost, Take, Judge, After,
                Rows, RowVen, RowReg, ClearVen, ClearReg, WriteRow
  <1>2. CASE Main /\ ~(Exchange("main") \/ Rows("main"))
    BY <1>2 DEF Main, MainSees, ReadVen, ReadReg, Begin, Starts, MainDone, MainFailed, MainGoes,
                Answer, PollHears, PollStopped, PollNotStopped, Launch
  <1>3. CASE Poll
    BY <1>3 DEF Poll, Exchange, Post, Perform, AnswerLost, RequestLost, Take, Judge,
                Rows, RowVen, RowReg, ClearVen, ClearReg, WriteRow, Starts,
                PollTurn, PollAnswered, PollFailed, PollDone, PollStarts
  <1>4. CASE Restart \/ (\E c \in Commands : HmiAsks(c)) \/ (\E o \in Orders : VtnOrders(o))
    BY <1>4 DEF Restart, HmiAsks, VtnOrders
  <1>5. QED
    BY <1>1, <1>2, <1>3, <1>4 DEF Next

\* A command that registered and is answered ok leaves the VTN, the VEN2b object and both
\* rows with one registration, whatever was lost, refused, cleared or restarted before;
\* unless the poll thread or the VTN acted in between.
THEOREM RegistersTruly == Spec => RegisteredTruly
  <1> DEFINE Step == Succeeds /\ ~disturbed /\ (cmd = "rereg" \/ op["main"] = "report")
                       => vtn # 0 /\ obj = vtn /\ rows = [ven |-> vtn, reg |-> vtn]
  <1>1. IInv /\ Undisturbed /\ [Next]_vars => [Step]_vars
    <2> SUFFICES ASSUME TypeOK, Undisturbed, Next, Succeeds, ~disturbed,
                        cmd = "rereg" \/ op["main"] = "report"
                 PROVE  vtn # 0 /\ obj = vtn /\ rows = [ven |-> vtn, reg |-> vtn]
      BY DEF IInv
    <2>1. Registered
      BY HowItSucceeds DEF Undisturbed, Course, Creating, Reporting, Succeeds
    <2>2. rows = [ven |-> vtn, reg |-> vtn]
      BY <2>1 DEF Registered, TypeOK, Pairs
    <2>3. QED
      BY <2>1, <2>2 DEF Registered
  <1>2. QED
    BY UndisturbedInvariant, <1>1, PTL DEF Spec, RegisteredTruly

\* A cancel or a clear answered ok leaves no part of a registration in the rows, unless the
\* poll thread or the VTN acted.
THEOREM ClearsTruly == Spec => ClearedTruly
  <1> DEFINE Step == Succeeds /\ ~disturbed /\ cmd \in {"cancel", "clear"} /\ op["main"] # "none"
                       => rows = NoIds
  <1>1. IInv /\ Undisturbed /\ [Next]_vars => [Step]_vars
    <2> SUFFICES ASSUME TypeOK, Undisturbed, Next, Succeeds, ~disturbed,
                        cmd \in {"cancel", "clear"}, op["main"] # "none"
                 PROVE  rows = NoIds
      BY DEF IInv
    <2>1. rows.ven = 0 /\ rows.reg = 0
      BY HowItSucceeds DEF Undisturbed, Course, Clearing
    <2>2. QED
      BY <2>1 DEF TypeOK, Pairs, NoIds
  <1>2. QED
    BY UndisturbedInvariant, <1>1, PTL DEF Spec, ClearedTruly

\* Polling starts only for a VEN that the database has as registered at that moment, unless
\* another poll thread or the VTN acted during the command.
THEOREM PollsForRegistered == Spec => PollsRegistered
  <1> DEFINE Step == at["poll"] = "off" /\ at'["poll"] = "wait" /\ ~disturbed
                       => HasIds(rows) /\ par = rows
  <1>1. IInv /\ Undisturbed /\ [Next]_vars => [Step]_vars
    <2> SUFFICES ASSUME TypeOK, Undisturbed, Next, ~disturbed,
                        at["poll"] = "off", at'["poll"] = "wait"
                 PROVE  HasIds(rows) /\ par = rows
      BY DEF IInv
    <2> USE DEF TypeOK, Threads, Goes
    <2>1. ~Poll
      BY DEF Poll, Exchange, Post, Perform, AnswerLost, RequestLost, Take, Judge,
             Rows, RowVen, RowReg, ClearVen, ClearReg, PollTurn, PollAnswered, PollFailed, PollDone
    <2>2. ~(Exchange("main") \/ Rows("main"))
      BY DEF Exchange, Post, Perform, AnswerLost, RequestLost, Take, Judge,
             Rows, RowVen, RowReg, ClearVen, ClearReg, WriteRow
    <2>3. ~(Restart \/ (\E c \in Commands : HmiAsks(c)) \/ (\E o \in Orders : VtnOrders(o)))
      BY DEF Restart, BootPlaces, HmiAsks, VtnOrders
    <2>4. at["main"] = "launch"
      BY <2>1, <2>2, <2>3 DEF Next, Main, MainSees, ReadVen, ReadReg, Begin, Starts, MainDone,
             MainFailed, MainGoes, Answer, PollHears, PollStopped, PollNotStopped, Launch
    <2>5. ParIsRead /\ HasIds(par)
      BY <2>4 DEF Undisturbed, Reading
    <2>6. par = rows
      BY <2>5 DEF ParIsRead, Pairs
    <2>7. QED
      BY <2>5, <2>6
  <1>2. QED
    BY UndisturbedInvariant, <1>1, PTL DEF Spec, PollsRegistered

=============================================================================
