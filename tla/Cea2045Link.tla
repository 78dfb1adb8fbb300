----------------------------- MODULE Cea2045Link -----------------------------
(***************************************************************************)
(* The CEA-2045 library of the VEN manager (CEA2045/cea2045lib.c): the     *)
(* link layer on the serial line to the appliance (SGD), the application   *)
(* layer above it, and the functions that send a message and wait for its  *)
(* answer.                                                                 *)
(*                                                                         *)
(* One thread, Link, runs checkCustOverride: it calls linkLayer, hands a   *)
(* received message to the application layer and acknowledges overrides.   *)
(* The Callers (signal, log and main threads) run one function each at a   *)
(* time: they call linkLayer once, put a message into txBuffer and watch   *)
(* the variables that the Link thread changes.  Nothing is locked, so the  *)
(* steps of all threads interleave between any two accesses below.         *)
(*                                                                         *)
(* Time: a delay or a timeout of the code may be over at any moment, with  *)
(* one exception: a call ends, ten seconds after it has sent its message,  *)
(* later than the four seconds it waits for the answer (Finish).           *)
(***************************************************************************)
EXTENDS Naturals, Sequences, FiniteSets

CONSTANTS
  Callers,    \* the threads that talk to the appliance
  Link,       \* the thread that runs checkCustOverride
  Calls,      \* what the callers ask for, a subset of AllCalls
  Offers,     \* what the appliance says unasked, a subset of AllOffers
  Replies,    \* how it answers, a subset of AllReplies
  Spaced,     \* a caller's calls are so far apart that late replies have come
  MaxAsked,   \* bound: messages of all calls in a run
  MaxOffers,  \* bound: unasked messages in a run
  Nothing     \* an empty buffer

(***************************************************************************)
(* oadr_cea_EventMap is called for a signal: "shed" stands for SIMPLE and  *)
(* LOAD_DISPATCH, "endshed" for END_SHED, "price" and "setpoint" for the   *)
(* signals sent as intermediate messages; "unknown" for a signal type that *)
(* no branch of it knows.  The others are sendCommstatus,                  *)
(* getOperationalState, getDeviceInfo, setCommoditySubscription and        *)
(* oadr_cea_logReportInfo.                                                 *)
(***************************************************************************)
EventCalls == {"shed", "endshed", "price", "setpoint", "unknown"}
AllCalls   == EventCalls \cup {"comm", "opstate", "devinfo", "subscribe", "log"}

\* The messages of a call, in order.
MessagesOf(k) ==
  CASE k = "log"     -> <<"comm", "operreq", "commodity">>
    [] k = "opstate" -> <<"operreq">>
    [] OTHER         -> <<k>>

AckedOps == {"shed", "endshed", "comm"}
BasicOps == AckedOps \cup {"operreq"}
InterOps == {"price", "setpoint", "devinfo", "subscribe", "commodity"}
AppOps   == {"appack", "appnak"}

\* Which calls watch which timeout in their loops.
WatchesBasic(k) == k \in EventCalls \cup {"comm", "opstate", "log"}
WatchesInter(k) == k \in EventCalls \cup {"devinfo", "subscribe", "log"}

AllOffers  == {"on", "off", "illegal", "pass"}
AllReplies == {"ack", "nak", "operstate", "resp", "error"}

ASSUME LinkAssumption ==
  /\ Link \notin Callers
  /\ Nothing \notin Callers
  /\ Calls \subseteq AllCalls
  /\ Offers \subseteq AllOffers
  /\ Replies \subseteq AllReplies
  /\ Spaced \in BOOLEAN
  /\ MaxAsked \in Nat
  /\ MaxOffers \in Nat

Threads == Callers \cup {Link}

\* A message of the manager, and who built it.
Message == [op : BasicOps \cup InterOps \cup AppOps, by : Threads]

\* A message of the appliance: a reply to the message re, or an offer.
SgdMessage == [kind : AllOffers \cup AllReplies, re : Message \cup {Nothing}]

\* What a read of the serial port returns: a link ack or nak (two characters), the
\* first part of a message, or its rest with a checksum that is right or wrong.
Unit == [part : {"lack", "lnak", "head", "tail", "bad"}, msg : SgdMessage \cup {Nothing}]

VARIABLES
  pc,        \* where each thread is
  call,      \* what each caller's function is, "none" outside of one
  todo,      \* the messages it has still to send
  line,      \* what the appliance has sent or is about to send, not yet read
  txBuffer,  \* the two halves of the message in it; what the checksum of one that is
             \* being sent covers
  link,      \* linkData and the variables of linkLayer
  basic,     \* struct basic and AppAckstate
  inter,     \* struct inter; ok: the respcode variables that are 0
  result,    \* history: the last call if it returned that the appliance has answered
  taken,     \* history: the appliance acknowledged the message of the call
  shown,     \* history: the last override the link layer received
  asked,     \* bound: messages of the calls so far
  offers     \* bound: unasked messages so far

vars == <<pc, call, todo, line, txBuffer, link, basic, inter, result, taken, shown,
          asked, offers>>
callVars == <<call, todo, result, taken, asked>>
sgdVars  == <<line, shown, offers>>

Location == {"idle", "read", "sending", "app", "try", "blocked", "check", "head",
             "tail", "expect", "wait"}

TxBuffer == [head : Message \cup {Nothing}, tail : Message \cup {Nothing},
             sum : (Message \cup {Nothing}) \X (Message \cup {Nothing})]

LinkData == [txBlock : BOOLEAN, txCount : BOOLEAN, rxCount : SgdMessage \cup {Nothing},
             pendingLinkAck : BOOLEAN, pendingTxLinkAck : BOOLEAN,
             expected : {"none", "two", "size"}, rx : Unit \cup {Nothing},
             rxStart : BOOLEAN, ackSent : BOOLEAN]

BasicData == [appAckRtn : AckedOps \cup {"none"}, pendingOpState : BOOLEAN,
              timeout : Callers \cup {Nothing}, ackState : BOOLEAN,
              overRide : BOOLEAN, pendingAppAck : BOOLEAN, pendingAppNak : BOOLEAN]

InterData == [resp : InterOps \cup {"none"}, timeout : Callers \cup {Nothing},
              ok : SUBSET InterOps]

TypeOK ==
  /\ pc \in [Threads -> Location]
  /\ call \in [Callers -> Calls \cup {"none"}]
  /\ todo \in [Callers -> Seq(BasicOps \cup InterOps \cup {"unknown"})]
  /\ line \in Seq(Unit)
  /\ txBuffer \in TxBuffer
  /\ link \in LinkData
  /\ basic \in BasicData
  /\ inter \in InterData
  /\ result \in [Callers -> Calls \cup {"none"}]
  /\ taken \in [Callers -> BOOLEAN]
  /\ shown \in BOOLEAN
  /\ asked \in 0 .. MaxAsked
  /\ offers \in 0 .. MaxOffers

\* The respcode variables start as -1, but for devInfo.respCode, which starts as 0.
Init ==
  /\ pc = [t \in Threads |-> IF t = Link THEN "read" ELSE "idle"]
  /\ call = [c \in Callers |-> "none"]
  /\ todo = [c \in Callers |-> <<>>]
  /\ line = <<>>
  /\ txBuffer = [head |-> Nothing, tail |-> Nothing, sum |-> <<Nothing, Nothing>>]
  /\ link = [txBlock |-> FALSE, txCount |-> FALSE, rxCount |-> Nothing,
             pendingLinkAck |-> FALSE, pendingTxLinkAck |-> FALSE,
             expected |-> "none", rx |-> Nothing, rxStart |-> FALSE, ackSent |-> FALSE]
  /\ basic = [appAckRtn |-> "none", pendingOpState |-> FALSE, timeout |-> Nothing,
              ackState |-> FALSE, overRide |-> FALSE, pendingAppAck |-> FALSE,
              pendingAppNak |-> FALSE]
  /\ inter = [resp |-> "none", timeout |-> Nothing, ok |-> {"devinfo"}]
  /\ result = [c \in Callers |-> "none"]
  /\ taken = [c \in Callers |-> FALSE]
  /\ shown = FALSE
  /\ asked = 0
  /\ offers = 0

Goto(t, l) == pc' = [pc EXCEPT ![t] = l]

-----------------------------------------------------------------------------
(***************************************************************************)
(* The appliance.  It is not part of the repository: it takes a message    *)
(* or does not hear it, acknowledges it on the link, and may reply.        *)
(***************************************************************************)

\* The units of a message, sent whole or with a broken checksum.
Units(m) == { <<[part |-> "head", msg |-> m], [part |-> rest, msg |-> m]>> :
                rest \in {"tail", "bad"} }

\* The kinds of replies to an operation.
RepliesTo(op) ==
  Replies \cap (CASE op \in AckedOps   -> {"ack", "nak"}
                  [] op = "operreq"    -> {"operstate"}
                  [] op \in InterOps   -> {"resp", "error"}
                  [] OTHER             -> {})

LinkReply(part) == <<[part |-> part, msg |-> Nothing]>>

\* An unasked message: the user's override, one with an illegal operand, a message
\* of another type.
Offer ==
  /\ offers < MaxOffers
  /\ \E k \in Offers : \E u \in Units([kind |-> k, re |-> Nothing]) : line' = line \o u
  /\ offers' = offers + 1
  /\ UNCHANGED <<pc, txBuffer, link, basic, inter, shown, callVars>>


-----------------------------------------------------------------------------
(***************************************************************************)
(* linkLayer: read what has come, send a link ack that is due, end the     *)
(* transmit block, transmit.  The Link thread calls it over and over, a    *)
(* caller once at the start of its call.                                   *)
(***************************************************************************)

\* Where a thread goes when linkLayer returns.
Return(t) == IF t = Link THEN "app" ELSE "try"

\* The link ack or nak that is due is sent, or it is not yet time for it.
SendLinkAck(l) ==
  IF l.pendingTxLinkAck
  THEN {l, [l EXCEPT !.pendingTxLinkAck = FALSE, !.txBlock = TRUE, !.ackSent = TRUE]}
  ELSE {l}

\* Mutant: the block ends only where received characters are looked at.
UnblockWhenRead(l) ==
  IF l.rxCount = Nothing THEN {l, [l EXCEPT !.txBlock = FALSE]} ELSE {l}

\* The transmit block ends if txDelayTime is over.
Unblock(l) == {l, [l EXCEPT !.txBlock = FALSE]}

\* The rest of linkLayer after reading: a message is checksummed if there is one, no
\* block, and the last message is settled.
Proceed(t, afterRead, sendsAck) ==
  \E l1 \in IF sendsAck THEN SendLinkAck(afterRead) ELSE {afterRead} :
  \E l2 \in Unblock(l1) :
    /\ link' = l2
    /\ IF ~l2.txBlock /\ l2.txCount /\ ~l2.pendingLinkAck
       THEN /\ txBuffer' = [txBuffer EXCEPT !.sum = <<txBuffer.head, txBuffer.tail>>]
            /\ Goto(t, "sending")
       ELSE Goto(t, Return(t)) /\ UNCHANGED txBuffer

\* What rxBuffer starts with, once u has been read.
FirstUnit(u) == IF link.rx = Nothing THEN u ELSE link.rx

\* Two characters or more while a link ack is awaited: they are taken for the answer,
\* whatever they are, and linkLayer returns if they are one.
ReadLinkAck(t) ==
  /\ pc[t] = "read" /\ link.rxCount = Nothing /\ line # <<>>
  /\ link.pendingLinkAck
  /\ line' = Tail(line)
  /\ LET l == [link EXCEPT !.txBlock = TRUE, !.pendingLinkAck = FALSE,
                           !.expected = "none", !.rx = Nothing]
     IN  IF FirstUnit(Head(line)).part \in {"lack", "lnak"}
         THEN link' = l /\ Goto(t, Return(t)) /\ UNCHANGED txBuffer
         ELSE Proceed(t, l, TRUE)
  /\ UNCHANGED <<basic, inter, shown, offers, callVars>>

\* Part of a message: remembered, or the message is complete and will be acknowledged.
\* One that looks complete after two characters fails the checksum.
ReadMessage(t) ==
  /\ pc[t] = "read" /\ link.rxCount = Nothing /\ line # <<>>
  /\ ~link.pendingLinkAck
  /\ line' = Tail(line)
  /\ LET u     == Head(line)
         exp   == IF link.expected = "none" /\ FirstUnit(u).part = "head"
                  THEN "size" ELSE link.expected
         whole == exp = "size" /\ u.part \in {"tail", "bad"}
         good  == whole /\ u.part = "tail"
     IN  /\ Proceed(t, IF whole \/ exp = "two"
                       THEN [link EXCEPT !.rx = Nothing, !.rxStart = FALSE,
                                         !.expected = "none", !.pendingTxLinkAck = TRUE,
                                         !.txBlock = TRUE,
                                         !.rxCount = IF good THEN u.msg ELSE Nothing]
                       ELSE [link EXCEPT !.rx = FirstUnit(u), !.expected = exp,
                                         !.rxStart = @ \/ link.rx = Nothing],
                    TRUE)
         /\ shown' = IF good /\ u.msg.kind \in {"on", "off"} THEN u.msg.kind = "on"
                                                             ELSE shown
  /\ UNCHANGED <<basic, inter, offers, callVars>>

\* Nothing has come, or the application layer is not done with the last message: then
\* nothing is read and no link ack is sent.
ReadNothing(t) ==
  /\ pc[t] = "read"
  /\ Proceed(t, link, link.rxCount = Nothing)
  /\ UNCHANGED <<basic, inter, callVars, sgdVars>>

\* Nothing has come, and the rest of a message or the link ack is overdue.
MessageTimeout(t) ==
  /\ pc[t] = "read" /\ link.rxCount = Nothing
  /\ link.rxStart
  /\ Proceed(t, [link EXCEPT !.rxStart = FALSE, !.rx = Nothing, !.expected = "none",
                             !.txBlock = TRUE], TRUE)
  /\ UNCHANGED <<basic, inter, callVars, sgdVars>>

LinkAckTimeout(t) ==
  /\ pc[t] = "read" /\ link.rxCount = Nothing
  /\ ~link.rxStart /\ link.pendingLinkAck
  /\ link' = [link EXCEPT !.pendingLinkAck = FALSE, !.rx = Nothing, !.expected = "none",
                          !.txBlock = FALSE]
  /\ Goto(t, Return(t))
  /\ UNCHANGED <<txBuffer, basic, inter, callVars, sgdVars>>

\* It is the message of the call its builder is in.
OfTheCall(m) == /\ m.by \in Callers /\ call[m.by] # "none"
                /\ Head(todo[m.by]) = m.op

\* The buffer is written to the line.  What comes back: nothing, a link ack or, if the
\* checksum is not that of the buffer, a nak, and perhaps a reply.
Transmit(t) ==
  /\ pc[t] = "sending"
  /\ LET m     == txBuffer.head
         whole == txBuffer.sum = <<txBuffer.head, txBuffer.tail>>
     IN  \/ UNCHANGED <<line, taken>>
         \/ /\ line' = line \o LinkReply(IF whole THEN "lack" ELSE "lnak")
            /\ UNCHANGED taken
         \/ /\ whole /\ m # Nothing
            /\ \E k \in RepliesTo(m.op) : \E u \in Units([kind |-> k, re |-> m]) :
                 /\ line' = line \o LinkReply("lack") \o u
                 /\ taken' = IF k \in {"ack", "resp"} /\ OfTheCall(m)
                             THEN [taken EXCEPT ![m.by] = TRUE] ELSE taken
  /\ txBuffer' = [txBuffer EXCEPT !.sum = <<Nothing, Nothing>>]
  /\ link' = [link EXCEPT !.txBlock = TRUE, !.txCount = FALSE, !.pendingLinkAck = TRUE,
                          !.expected = "two"]
  /\ Goto(t, Return(t))
  /\ UNCHANGED <<basic, inter, call, todo, result, asked, shown, offers>>

LinkLayer(t) ==
  \/ ReadLinkAck(t) \/ ReadMessage(t) \/ ReadNothing(t)
  \/ MessageTimeout(t) \/ LinkAckTimeout(t) \/ Transmit(t)

-----------------------------------------------------------------------------
(***************************************************************************)
(* checkCustOverride: the application layer.                               *)
(***************************************************************************)

\* After a message: an application ack or nak is built once the link ack is out.
Answer(l) ==
  Goto(Link, IF /\ ~l.txBlock /\ l.ackSent
                /\ basic.pendingAppAck \/ basic.pendingAppNak
             THEN "check" ELSE "read")

\* The end of CEA2045basicRx, and what a timeout does.
BasicDone(b) == [b EXCEPT !.appAckRtn = "none", !.pendingOpState = FALSE,
                          !.timeout = Nothing]

\* CEA2045basicRx: while an answer is awaited every message is taken for it, the user's
\* override too.
BasicRx(m) ==
  CASE basic.appAckRtn # "none" ->
         [basic EXCEPT !.ackState = @ \/ (m.kind = "ack" /\ m.re.op = basic.appAckRtn)]
    [] basic.appAckRtn = "none" /\ ~basic.pendingOpState /\ m.kind \in {"on", "off"} ->
         [basic EXCEPT !.overRide = m.kind = "on", !.pendingAppAck = TRUE]
    [] basic.appAckRtn = "none" /\ ~basic.pendingOpState /\ m.kind = "illegal" ->
         [basic EXCEPT !.overRide = TRUE, !.pendingAppNak = TRUE]
    [] OTHER -> basic

BasicMessage ==
  /\ pc[Link] = "app"
  /\ link.rxCount # Nothing
  /\ link.rxCount.kind \in {"ack", "nak", "operstate", "on", "off", "illegal"}
  /\ basic' = BasicDone(BasicRx(link.rxCount))
  /\ link' = [link EXCEPT !.rxCount = Nothing, !.ackSent = FALSE]
  /\ Goto(Link, "read")
  /\ UNCHANGED <<txBuffer, inter, callVars, sgdVars>>

\* CEA2045interRx: the buffer is given back only if a response was awaited.
InterMessage ==
  /\ pc[Link] = "app"
  /\ link.rxCount # Nothing
  /\ link.rxCount.kind \in {"resp", "error"}
  /\ LET m == link.rxCount
         awaited == inter.resp # "none"
         matches == awaited /\ m.kind = "resp" /\ m.re.op = inter.resp
     IN  /\ inter' = IF matches
                     THEN [resp |-> "none", timeout |-> Nothing, ok |-> {m.re.op}]
                     ELSE [inter EXCEPT !.ok = {}]
         /\ link' = [link EXCEPT !.rxCount = IF awaited THEN Nothing ELSE @]
  /\ Answer(link)
  /\ UNCHANGED <<txBuffer, basic, callVars, sgdVars>>

\* No message, or one of a type nobody handles.
NoMessage ==
  /\ pc[Link] = "app"
  /\ link.rxCount # Nothing => link.rxCount.kind = "pass"
  /\ Answer(link)
  /\ UNCHANGED <<link, txBuffer, basic, inter, callVars, sgdVars>>

-----------------------------------------------------------------------------
(***************************************************************************)
(* The message builders CEA2045basic, CEA2045inter, CEA2045inter_Set...    *)
(***************************************************************************)

\* The message a thread is building.
Building(t) ==
  IF t = Link THEN [op |-> IF basic.pendingAppAck THEN "appack" ELSE "appnak", by |-> Link]
              ELSE [op |-> Head(todo[t]), by |-> t]

\* The acknowledgement the Link thread owed is no longer pending, sent or not.
AnswerBuilt(t) ==
  IF t = Link THEN [basic EXCEPT !.pendingAppAck = FALSE, !.pendingAppNak = FALSE]
              ELSE basic

\* A builder gives up if it is blocked.  Those of intermediate messages set txCount
\* before they fill the buffer.
CheckBlock(t) ==
  /\ pc[t] = "check"
  /\ IF link.txBlock
     THEN /\ basic' = AnswerBuilt(t)
          /\ Goto(t, IF t = Link THEN "read" ELSE "wait")
          /\ UNCHANGED link
     ELSE /\ Goto(t, "head")
          /\ link' = IF Building(t).op \in InterOps
                     THEN [link EXCEPT !.txCount = TRUE, !.expected = "two"] ELSE link
          /\ UNCHANGED basic
  /\ UNCHANGED <<txBuffer, inter, callVars, sgdVars>>

BuildHead(t) ==
  /\ pc[t] = "head"
  /\ txBuffer' = [txBuffer EXCEPT !.head = Building(t)]
  /\ link' = IF Building(t).op \in InterOps THEN link ELSE [link EXCEPT !.expected = "two"]
  /\ Goto(t, "tail")
  /\ UNCHANGED <<basic, inter, callVars, sgdVars>>

BuildTail(t) ==
  /\ pc[t] = "tail"
  /\ txBuffer' = [txBuffer EXCEPT !.tail = Building(t)]
  /\ link' = IF Building(t).op \in InterOps THEN link ELSE [link EXCEPT !.txCount = TRUE]
  /\ basic' = AnswerBuilt(t)
  /\ Goto(t, IF t = Link THEN "read" ELSE "expect")
  /\ UNCHANGED <<inter, callVars, sgdVars>>

-----------------------------------------------------------------------------
(***************************************************************************)
(* The functions of the callers.                                           *)
(***************************************************************************)

\* What a caller sent has left the buffer, and what the appliance says to it has been
\* heard, unless a message that is not given back keeps the Link thread from reading.
IsReply(c, m) == m # Nothing /\ m.re # Nothing /\ m.re.by = c
Stuck ==
  /\ link.rxCount # Nothing
  /\ \/ link.rxCount.kind = "pass"
     \/ link.rxCount.kind \in {"resp", "error"} /\ inter.resp = "none"
Settled(c) ==
  /\ txBuffer.head # Nothing /\ txBuffer.head.by = c =>
       ~link.txCount /\ \A t \in Threads : pc[t] # "sending"
  /\ \/ Stuck
     \/ /\ ~IsReply(c, link.rxCount)
        /\ ~\E i \in DOMAIN line : IsReply(c, line[i].msg)

\* Mutant: the state of the last acknowledgement is not reset.
CallKeepsAck(c) ==
  /\ pc[c] = "idle"
  /\ Spaced => Settled(c)
  /\ \E k \in Calls :
       /\ call' = [call EXCEPT ![c] = k]
       /\ todo' = [todo EXCEPT ![c] = MessagesOf(k)]
       /\ asked + Len(MessagesOf(k)) <= MaxAsked
       /\ asked' = asked + Len(MessagesOf(k))
  /\ result' = [result EXCEPT ![c] = "none"]
  /\ taken' = [taken EXCEPT ![c] = FALSE]
  /\ Goto(c, "read")
  /\ UNCHANGED <<link, txBuffer, basic, inter, sgdVars>>

Call(c) ==
  /\ pc[c] = "idle"
  /\ Spaced => Settled(c)
  /\ \E k \in Calls :
       /\ call' = [call EXCEPT ![c] = k]
       /\ todo' = [todo EXCEPT ![c] = MessagesOf(k)]
       /\ asked + Len(MessagesOf(k)) <= MaxAsked
       /\ asked' = asked + Len(MessagesOf(k))
       /\ basic' = IF k \in EventCalls \cup {"comm"} THEN [basic EXCEPT !.ackState = FALSE]
                                                     ELSE basic
  /\ result' = [result EXCEPT ![c] = "none"]
  /\ taken' = [taken EXCEPT ![c] = FALSE]
  /\ Goto(c, "read")
  /\ UNCHANGED <<link, txBuffer, inter, sgdVars>>

\* The step of the loop that sends the next message; none for an unknown signal.
Try(c) ==
  /\ pc[c] = "try"
  /\ Goto(c, IF link.txBlock \/ Head(todo[c]) = "unknown" THEN "blocked" ELSE "check")
  /\ UNCHANGED <<link, txBuffer, basic, inter, callVars, sgdVars>>

TryAgain(c) ==
  /\ pc[c] = "blocked"
  /\ Goto(c, "try")
  /\ UNCHANGED <<link, txBuffer, basic, inter, callVars, sgdVars>>

\* Mutant: the state request waits for an application ack.
ExpectAnyAck(c) ==
  /\ pc[c] = "expect"
  /\ IF Head(todo[c]) \in BasicOps
     THEN /\ basic' = [basic EXCEPT !.appAckRtn = Head(todo[c]), !.timeout = c]
          /\ UNCHANGED inter
     ELSE /\ inter' = [inter EXCEPT !.resp = Head(todo[c]), !.timeout = c]
          /\ UNCHANGED basic
  /\ Goto(c, "wait")
  /\ UNCHANGED <<link, txBuffer, callVars, sgdVars>>

\* The message is in the buffer: what is awaited now, and until when.
Expect(c) ==
  /\ pc[c] = "expect"
  /\ LET op == Head(todo[c]) IN
     \/ /\ op \in AckedOps
        /\ basic' = [basic EXCEPT !.appAckRtn = op, !.timeout = c]
        /\ UNCHANGED inter
     \/ /\ op = "operreq"
        /\ basic' = [basic EXCEPT !.pendingOpState = TRUE, !.timeout = c]
        /\ UNCHANGED inter
     \/ /\ op \in InterOps
        /\ inter' = [inter EXCEPT !.resp = op, !.timeout = c]
        /\ UNCHANGED basic
  /\ Goto(c, "wait")
  /\ UNCHANGED <<link, txBuffer, callVars, sgdVars>>

\* Mutant: a timeout forgets only that there is one.
TimeoutKeepsWait(c) ==
  /\ pc[c] \in {"wait", "blocked"} /\ WatchesBasic(call[c])
  /\ basic.timeout # Nothing
  /\ basic' = [basic EXCEPT !.timeout = Nothing]
  /\ link' = [link EXCEPT !.rxCount = Nothing]
  /\ UNCHANGED <<pc, txBuffer, inter, callVars, sgdVars>>

\* Mutant: a timeout does not give the receive buffer back.
TimeoutKeepsBuffer(c) ==
  /\ pc[c] \in {"wait", "blocked"} /\ WatchesBasic(call[c])
  /\ basic.timeout # Nothing
  /\ basic' = BasicDone(basic)
  /\ UNCHANGED <<pc, link, txBuffer, inter, callVars, sgdVars>>

\* The loop of a call sees a timeout: its own or that of another caller.
BasicTimeout(c) ==
  /\ pc[c] \in {"wait", "blocked"} /\ WatchesBasic(call[c])
  /\ basic.timeout # Nothing
  /\ basic' = BasicDone(basic)
  /\ link' = [link EXCEPT !.rxCount = Nothing]
  /\ UNCHANGED <<pc, txBuffer, inter, callVars, sgdVars>>

InterTimeout(c) ==
  /\ pc[c] \in {"wait", "blocked"} /\ WatchesInter(call[c])
  /\ inter.timeout # Nothing
  /\ inter' = [inter EXCEPT !.timeout = Nothing,
                            !.resp = IF call[c] \in {"subscribe", "log"} THEN @ ELSE "none"]
  /\ link' = [link EXCEPT !.rxCount = Nothing]
  /\ UNCHANGED <<pc, txBuffer, basic, callVars, sgdVars>>

\* oadr_cea_EventMap returns true as soon as it sees what it takes for its answer.
EventAnswered(c) ==
  /\ pc[c] \in {"wait", "blocked"} /\ call[c] \in EventCalls
  /\ IF call[c] \in InterOps THEN inter.ok \cap {"price", "setpoint"} # {}
                             ELSE basic.ackState
  /\ result' = [result EXCEPT ![c] = call[c]]
  /\ call' = [call EXCEPT ![c] = "none"]
  /\ todo' = [todo EXCEPT ![c] = <<>>]
  /\ Goto(c, "idle")
  /\ UNCHANGED <<link, txBuffer, basic, inter, taken, asked, sgdVars>>

\* Ten seconds after a message (five in oadr_cea_logReportInfo) the next one is due, or
\* the call is over.
NextMessage(c) ==
  /\ pc[c] = "wait"
  /\ basic.timeout # c /\ inter.timeout # c /\ Settled(c)
  /\ Len(todo[c]) > 1
  /\ todo' = [todo EXCEPT ![c] = Tail(@)]
  /\ Goto(c, "try")
  /\ UNCHANGED <<link, txBuffer, basic, inter, call, result, taken, asked, sgdVars>>

Finish(c) ==
  /\ pc[c] = "wait"
  /\ basic.timeout # c /\ inter.timeout # c /\ Settled(c)
  /\ Len(todo[c]) = 1
  /\ result' = [result EXCEPT ![c] = IF call[c] \in {"devinfo", "subscribe"} \cap inter.ok
                                     THEN call[c] ELSE "none"]
  /\ call' = [call EXCEPT ![c] = "none"]
  /\ todo' = [todo EXCEPT ![c] = <<>>]
  /\ Goto(c, "idle")
  /\ UNCHANGED <<link, txBuffer, basic, inter, taken, asked, sgdVars>>

-----------------------------------------------------------------------------
LinkStep == LinkLayer(Link) \/ BasicMessage \/ InterMessage \/ NoMessage
                            \/ CheckBlock(Link) \/ BuildHead(Link) \/ BuildTail(Link)

CallStep(c) ==
  \/ LinkLayer(c) \/ Try(c) \/ TryAgain(c) \/ CheckBlock(c) \/ BuildHead(c) \/ BuildTail(c)
  \/ Expect(c) \/ EventAnswered(c) \/ NextMessage(c) \/ Finish(c)

Next ==
  \/ LinkStep \/ Offer
  \/ \E c \in Callers : Call(c) \/ CallStep(c) \/ BasicTimeout(c) \/ InterTimeout(c)

Spec == Init /\ [][Next]_vars

(***************************************************************************)
(* Fairness: every thread runs on, a timeout that stays due is noticed,    *)
(* and the delays of the link layer do not last for ever.  The appliance   *)
(* and the callers' wishes have no fairness.                               *)
(***************************************************************************)
ReadUnit(t) == ReadLinkAck(t) \/ ReadMessage(t)
UnblockNow  == pc[Link] = "read" /\ LinkLayer(Link) /\ ~link'.txBlock

Fairness ==
  /\ WF_vars(LinkStep)
  /\ SF_vars(ReadUnit(Link)) /\ SF_vars(MessageTimeout(Link))
  /\ SF_vars(LinkAckTimeout(Link)) /\ SF_vars(UnblockNow)
  /\ \A c \in Callers : WF_vars(CallStep(c)) /\ WF_vars(BasicTimeout(c))
                                             /\ WF_vars(InterTimeout(c))

FairSpec == Spec /\ Fairness

-----------------------------------------------------------------------------
(***************************************************************************)
(* Properties.                                                             *)
(***************************************************************************)

\* A call of oadr_cea_EventMap that returns true was acknowledged: the appliance took
\* the message of this call ("true if expected response recieved on time").
TrueMeansTaken == \A c \in Callers : result[c] \in EventCalls => taken[c]

\* When no caller waits for the appliance, nothing is left to wait for: the next message
\* from it, an override perhaps, is not taken for an answer.
QuietMeansFree ==
  (\A c \in Callers : pc[c] = "idle") =>
    /\ basic.appAckRtn = "none" /\ ~basic.pendingOpState
    /\ basic.timeout = Nothing

\* Every call comes back, whatever the appliance does.
CallEnds == \A c \in Callers : call[c] # "none" ~> call[c] = "none"

\* A message that a caller put into the buffer gets onto the line.
QueuedIsSent ==
  \A c \in Callers :
    link.txCount /\ c \in {basic.timeout, inter.timeout} ~> ~link.txCount

\* What goes out is a message as one thread built it ("App layer writes a value to this
\* after filling the txBuffer").
SentAsBuilt ==
  [][\A t \in Threads : pc[t] = "sending" /\ pc'[t] # "sending"
                          => txBuffer.head = txBuffer.tail]_vars

\* When the Link thread is about to read, the application layer has given the receive
\* buffer back ("App layer clears this value after processing characters").
BufferGivenBack == pc[Link] = "read" => link.rxCount = Nothing

\* The override the link layer received last is the one the application layer knows.
OverrideKnown == link.rxCount = Nothing => basic.overRide = shown

=============================================================================
