-------------------------- MODULE Cea2045LinkSafety --------------------------
(***************************************************************************)
(* Machine-checked proofs of the safety of Cea2045Link for one caller at a *)
(* time, whatever it asks and whatever the appliance does: a call that has *)
(* come back leaves nothing awaited, and one that returns true was         *)
(* acknowledged.  With two callers both fail (README).                     *)
(***************************************************************************)
EXTENDS Cea2045LinkProofs

-----------------------------------------------------------------------------
(***************************************************************************)
(* QuietMeansFree, for one caller.                                         *)
(***************************************************************************)

\* What the caller c alone makes true.  Whatever is awaited has a deadline, which is that
\* of the message c has just sent.  A signal is answered only after that, or it is one
\* of those that wait for a response.
OneWait(c) ==
  /\ basic.appAckRtn # "none" \/ basic.pendingOpState => basic.timeout # Nothing
  /\ basic.timeout # Nothing => pc[c] = "wait"
  /\ call[c] \in EventCalls => todo[c] = <<call[c]>>
  /\ call[c] \in EventCalls /\ basic.ackState => pc[c] = "wait" /\ basic.timeout = Nothing
  /\ call[c] \in EventCalls \cap InterOps => basic.timeout = Nothing
  /\ pc[c] # "idle" => call[c] # "none"

Alone(c) == TypeInv /\ Callers = {c} /\ OneWait(c)

\* Steps that change neither what is awaited nor the call, and take c away from no wait.
LEMMA WaitKept ==
  ASSUME NEW c, Alone(c), UNCHANGED <<call, todo>>,
         basic'.appAckRtn = basic.appAckRtn,
         basic'.pendingOpState = basic.pendingOpState, basic'.timeout = basic.timeout,
         basic'.ackState = basic.ackState,
         pc[c] = "wait" => pc'[c] = "wait",
         pc[c] = "idle" => pc'[c] = "idle"
  PROVE  OneWait(c)'
BY DEF Alone, OneWait

LEMMA AloneInit == ASSUME NEW c, Callers = {c}, Init PROVE OneWait(c)
<1>1. pc[c] = "idle" /\ call[c] = "none"
  BY LinkAssumption DEF Init, Threads
<1>2. basic.appAckRtn = "none" /\ ~basic.pendingOpState /\ basic.timeout = Nothing
  BY DEF Init
<1> QED
  BY <1>1, <1>2 DEF OneWait, EventCalls

LEMMA AloneNext ==
  ASSUME NEW c, Alone(c), [Next]_vars
  PROVE  OneWait(c)'
<1> USE DEF Alone
<1> c \in Callers /\ c \in Threads /\ c # Link /\ c # Nothing /\ pc \in [Threads -> Location]
  BY LinkAssumption DEF Threads, TypeInv, TypeOK
<1>1. CASE UNCHANGED vars
  BY <1>1, WaitKept DEF vars
<1>2. ASSUME NEW t \in Threads, LinkLayer(t)
      PROVE  OneWait(c)'
  <2>1. pc[t] \in {"read", "sending"} /\ UNCHANGED <<basic, call, todo>>
    BY <1>2 DEF LinkLayer, ReadLinkAck, ReadMessage, ReadNothing, MessageTimeout,
       LinkAckTimeout, Transmit, callVars
  <2>2. \E at \in {"sending", "app", "try"} : Goto(t, at)
    BY <1>2 DEF LinkLayer, ReadLinkAck, ReadMessage, ReadNothing, MessageTimeout,
       LinkAckTimeout, Transmit, Proceed, Return
  <2>3. pc[c] \in {"wait", "idle"} => pc'[c] = pc[c]
    BY <2>1, <2>2 DEF Goto
  <2> QED
    BY <2>1, <2>3, WaitKept
<1>3. CASE Offer
  BY <1>3, WaitKept DEF Offer, callVars
<1>4. CASE BasicMessage
  <2>1. basic \in BasicData
    BY DEF TypeInv, TypeOK
  <2>2. UNCHANGED <<call, todo>> /\ pc'[c] = pc[c]
    BY <1>4 DEF BasicMessage, callVars, Goto
  <2>3. /\ basic'.appAckRtn = "none" /\ basic'.pendingOpState = FALSE
        /\ basic'.timeout = Nothing
        /\ basic'.ackState = BasicRx(link.rxCount).ackState
    BY <1>4, <2>1, BasicRxType DEF BasicMessage, BasicDone, BasicData
  <2>4. BasicRx(link.rxCount).ackState => basic.ackState \/ basic.appAckRtn # "none"
    <3>1. CASE basic.appAckRtn # "none"
      BY <3>1
    <3>2. CASE basic.appAckRtn = "none"
      BY <2>1, <3>2 DEF BasicRx, BasicData
    <3> QED
      BY <3>1, <3>2
  <2> QED
    BY <2>2, <2>3, <2>4 DEF OneWait
<1>5. CASE InterMessage \/ NoMessage
  <2>1. UNCHANGED <<basic, call, todo>> /\ pc'[c] = pc[c]
    BY <1>5 DEF InterMessage, NoMessage, Answer, callVars, Goto
  <2> QED
    BY <2>1, WaitKept
<1>6. ASSUME NEW t \in Threads, CheckBlock(t) \/ BuildHead(t) \/ BuildTail(t)
      PROVE  OneWait(c)'
  <2>1. basic \in BasicData
    BY DEF TypeInv, TypeOK
  <2>2. UNCHANGED <<call, todo>> /\ basic' \in {basic, AnswerBuilt(t)}
    BY <1>6 DEF CheckBlock, BuildHead, BuildTail, callVars
  <2>3. /\ basic'.appAckRtn = basic.appAckRtn
        /\ basic'.pendingOpState = basic.pendingOpState
        /\ basic'.timeout = basic.timeout
        /\ basic'.ackState = basic.ackState
    BY <2>1, <2>2 DEF AnswerBuilt, BasicData
  <2>4. pc[t] \in {"check", "head", "tail"} /\ \E at \in Location : Goto(t, at)
    BY <1>6 DEF CheckBlock, BuildHead, BuildTail, Location
  <2>5. pc[c] \in {"wait", "idle"} => pc'[c] = pc[c]
    BY <2>4 DEF Goto
  <2> QED
    BY <2>2, <2>3, <2>5 DEF OneWait
<1>7. CASE Call(c)
  <2>1. PICK k \in Calls :
          /\ call' = [call EXCEPT ![c] = k]
          /\ todo' = [todo EXCEPT ![c] = MessagesOf(k)]
          /\ basic' = IF k \in EventCalls \cup {"comm"} THEN [basic EXCEPT !.ackState = FALSE]
                                                        ELSE basic
    BY <1>7 DEF Call
  <2>2. basic.timeout = Nothing /\ pc'[c] = "read"
    BY <1>7 DEF Call, OneWait, Goto
  <2>3. call'[c] = k /\ todo'[c] = MessagesOf(k)
    BY <2>1 DEF TypeInv, TypeOK
  <2>4. k # "none" /\ (k \in EventCalls => MessagesOf(k) = <<k>>)
    BY LinkAssumption DEF AllCalls, EventCalls, MessagesOf
  <2>5. /\ basic'.appAckRtn = basic.appAckRtn
        /\ basic'.pendingOpState = basic.pendingOpState
        /\ basic'.timeout = Nothing
        /\ k \in EventCalls => ~basic'.ackState
    BY <2>1, <2>2 DEF TypeInv, TypeOK, BasicData
  <2> QED
    BY <2>2, <2>3, <2>4, <2>5 DEF OneWait
<1>8. CASE Try(c) \/ TryAgain(c)
  BY <1>8, WaitKept DEF Try, TryAgain, callVars, Goto
<1>9. CASE Expect(c)
  <2>1. pc[c] = "expect" /\ pc'[c] = "wait" /\ UNCHANGED <<call, todo>>
    BY <1>9 DEF Expect, Goto, callVars
  <2>2. CASE Head(todo[c]) \in InterOps
    <3>1. UNCHANGED basic
      BY <1>9, <2>2 DEF Expect, InterOps, AckedOps
    <3> QED
      BY <2>1, <3>1, WaitKept
  <2>3. CASE Head(todo[c]) \notin InterOps
    <3>1. basic'.timeout = c /\ basic'.ackState = basic.ackState
      BY <1>9, <2>3 DEF Expect, TypeInv, TypeOK, BasicData
    <3>2. call[c] \in EventCalls => Head(todo[c]) = call[c]
      BY DEF OneWait
    <3>3. call[c] \in EventCalls => ~basic.ackState
      BY <2>1 DEF OneWait
    <3> QED
      BY <2>1, <2>3, <3>1, <3>2, <3>3 DEF OneWait
  <2> QED
    BY <2>2, <2>3
<1>10. CASE BasicTimeout(c)
  <2>1. /\ basic'.appAckRtn = "none" /\ basic'.pendingOpState = FALSE
        /\ basic'.timeout = Nothing /\ basic'.ackState = basic.ackState
    BY <1>10 DEF BasicTimeout, BasicDone, TypeInv, TypeOK, BasicData
  <2> QED
    BY <1>10, <2>1 DEF BasicTimeout, callVars, OneWait
<1>11. CASE InterTimeout(c)
  BY <1>11, WaitKept DEF InterTimeout, callVars
<1>12. CASE EventAnswered(c)
  <2>1. basic.timeout = Nothing
    BY <1>12 DEF EventAnswered, OneWait
  <2>2. call'[c] = "none" /\ pc'[c] = "idle" /\ UNCHANGED basic
    BY <1>12 DEF EventAnswered, TypeInv, TypeOK, Goto
  <2> QED
    BY <2>1, <2>2 DEF OneWait, EventCalls
<1>13. CASE NextMessage(c)
  <2>1. call[c] \notin EventCalls
    <3> SUFFICES ASSUME call[c] \in EventCalls PROVE FALSE
      OBVIOUS
    <3>1. Len(todo[c]) > 1
      BY <1>13 DEF NextMessage
    <3>2. todo[c] = <<call[c]>>
      BY DEF OneWait
    <3>3. Len(todo[c]) = 1
      BY <3>2
    <3> QED
      BY <3>1, <3>3
  <2>2. basic.timeout = Nothing
    BY <1>13 DEF NextMessage, TypeInv, TypeOK, BasicData
  <2>3. pc'[c] = "try" /\ UNCHANGED <<basic, call>> /\ pc[c] # "idle"
    BY <1>13 DEF NextMessage, Goto
  <2> QED
    BY <2>1, <2>2, <2>3 DEF OneWait
<1>14. CASE Finish(c)
  <2>1. basic.timeout = Nothing
    BY <1>14 DEF Finish, TypeInv, TypeOK, BasicData
  <2>2. call'[c] = "none" /\ pc'[c] = "idle" /\ UNCHANGED basic
    BY <1>14 DEF Finish, TypeInv, TypeOK, Goto
  <2> QED
    BY <2>1, <2>2 DEF OneWait, EventCalls
<1> QED
  BY <1>1, <1>2, <1>3, <1>4, <1>5, <1>6, <1>7, <1>8, <1>9, <1>10, <1>11, <1>12, <1>13,
     <1>14 DEF Next, LinkStep, CallStep, Threads

\* A caller who has no rival leaves nothing behind when its call is over: no awaited
\* acknowledgement or state and no deadline, for which the next message of the appliance
\* (an override, in CEA2045basicRx) would be taken.
THEOREM QuietIsFree ==
  ASSUME NEW CONSTANT c, Callers = {c}
  PROVE  Spec => []QuietMeansFree
<1>1. Init => OneWait(c)
  BY AloneInit
<1>2. TypeInv /\ OneWait(c) /\ [Next]_vars => OneWait(c)'
  BY AloneNext DEF Alone
<1>3. TypeInv /\ OneWait(c) => QuietMeansFree
  BY DEF OneWait, QuietMeansFree, TypeInv, TypeOK, BasicData
<1> QED
  BY <1>1, <1>2, <1>3, TypeInvHolds, PTL DEF Spec

-----------------------------------------------------------------------------
(***************************************************************************)
(* TrueMeansTaken, for one caller whose signals are not intermediate       *)
(* messages and whose calls are so far apart that late replies have come.  *)
(***************************************************************************)

\* The messages of the appliance that are still to be handled.
Coming == {line[i].msg : i \in DOMAIN line} \cup {link.rxCount}

IsAck(m)    == m # Nothing /\ m.kind = "ack"
AckOf(m, k) == IsAck(m) /\ m.re.op = k
NoAck(k)    == \A m \in Coming : ~AckOf(m, k)

\* Every acknowledgement is one of a message of c: the other messages the buffer may
\* hold are not acknowledged.
MineOnly(c) ==
  /\ \A m \in Coming : IsAck(m) => m.re # Nothing /\ m.re.by = c
  /\ txBuffer.head # Nothing /\ txBuffer.head.by = Link => txBuffer.head.op \notin AckedOps

\* The call has not been acknowledged, and it has not given up.
Unanswered(c) ==
  call[c] \in EventCalls /\ ~taken[c] /\ (pc[c] = "wait" => basic.appAckRtn # "none")

\* As long as that is so, no acknowledgement that would do for the call is coming, or
\* it will not be read before the call gives up.
NoOldAck(c) == Unanswered(c) => NoAck(call[c]) \/ Stuck

\* The awaited acknowledgement is that of the message sent last; the deadline of a
\* response belongs to a call that is no signal; what counts as an answer is one.
Awaits(c) ==
  /\ basic.appAckRtn # "none" => basic.appAckRtn = Head(todo[c])
  /\ inter.timeout # Nothing => pc[c] = "wait"
  /\ call[c] \in EventCalls => inter.timeout = Nothing

Answers(c) ==
  /\ call[c] \in EventCalls /\ basic.ackState => taken[c]
  /\ result[c] \in EventCalls => taken[c]

OneAck(c) == MineOnly(c) /\ NoOldAck(c) /\ Awaits(c) /\ Answers(c)

\* The hypotheses: one caller, basic signals, calls far apart.
Basic(c) == Callers = {c} /\ Calls \cap {"price", "setpoint"} = {} /\ Spaced

LEMMA OneAckInit == ASSUME NEW c, Basic(c), Init PROVE OneAck(c)
<1>1. /\ call[c] = "none" /\ result[c] = "none"
      /\ basic.appAckRtn = "none" /\ inter.timeout = Nothing
      /\ txBuffer.head = Nothing /\ Coming = {Nothing}
  BY DEF Basic, Init, Coming
<1> QED
  BY <1>1 DEF OneAck, MineOnly, NoOldAck, Unanswered, Awaits, Answers, IsAck, EventCalls

\* What is coming after the first unit of the line has been read.
LEMMA ComingRead ==
  ASSUME TypeOK, line # <<>>, line' = Tail(line),
         link'.rxCount \in {link.rxCount, Nothing, Head(line).msg}
  PROVE  Coming' \subseteq Coming \cup {Nothing}
<1>1. line \in Seq(Unit)
  BY DEF TypeOK
<1>2. /\ Head(line) = line[1] /\ 1 \in DOMAIN line
      /\ \A i \in DOMAIN Tail(line) : i + 1 \in DOMAIN line /\ Tail(line)[i] = line[i + 1]
  BY <1>1
<1> QED
  BY <1>2 DEF Coming

\* What is coming after something has been added to the line.
LEMMA ComingMore ==
  ASSUME TypeOK, NEW s \in Seq(Unit), line' = line \o s, link'.rxCount = link.rxCount
  PROVE  Coming' \subseteq Coming \cup {s[i].msg : i \in DOMAIN s}
<1>1. line \in Seq(Unit)
  BY DEF TypeOK
<1>2. \A i \in DOMAIN line' : \/ i \in DOMAIN line /\ line'[i] = line[i]
                              \/ i - Len(line) \in DOMAIN s /\ line'[i] = s[i - Len(line)]
  BY <1>1
<1> QED
  BY <1>2 DEF Coming

\* linkLayer keeps a message that has not been given back, and only Transmit brings a
\* new message.
LEMMA ComingLinkLayer ==
  ASSUME TypeOK, NEW t \in Threads, LinkLayer(t), ~Transmit(t)
  PROVE  /\ Coming' \subseteq Coming \cup {Nothing}
         /\ link.rxCount # Nothing => link'.rxCount = link.rxCount
         /\ UNCHANGED <<txBuffer.head, basic, inter, callVars>>
<1> link \in LinkData /\ txBuffer \in TxBuffer
  BY DEF TypeOK
<1>1. ASSUME NEW l \in LinkData, NEW b \in BOOLEAN, Proceed(t, l, b)
      PROVE  link'.rxCount = l.rxCount /\ txBuffer'.head = txBuffer.head
  <2>1. PICK l1 \in IF b THEN SendLinkAck(l) ELSE {l} : \E l2 \in Unblock(l1) :
          /\ link' = l2
          /\ \/ txBuffer' = [txBuffer EXCEPT !.sum = <<txBuffer.head, txBuffer.tail>>]
             \/ UNCHANGED txBuffer
    BY <1>1 DEF Proceed
  <2>2. l1 \in LinkData
    BY <1>1, SendLinkAckType
  <2>3. l1.rxCount = l.rxCount
    BY <1>1 DEF SendLinkAck, LinkData
  <2>4. link'.rxCount = l1.rxCount
    BY <2>1, <2>2 DEF Unblock, LinkData
  <2>5. txBuffer'.head = txBuffer.head
    BY <2>1 DEF TxBuffer
  <2> QED
    BY <2>3, <2>4, <2>5
<1>2. CASE ReadLinkAck(t)
  <2> DEFINE l == [link EXCEPT !.txBlock = TRUE, !.pendingLinkAck = FALSE,
                               !.expected = "none", !.rx = Nothing]
  <2>1. l \in LinkData /\ l.rxCount = link.rxCount
    BY DEF LinkData
  <2>2. (link' = l /\ UNCHANGED txBuffer) \/ Proceed(t, l, TRUE)
    BY <1>2 DEF ReadLinkAck
  <2> HIDE DEF l
  <2>3. link'.rxCount = link.rxCount /\ txBuffer'.head = txBuffer.head
    <3>1. CASE Proceed(t, l, TRUE)
      BY <1>1, <2>1, <3>1
    <3>2. CASE link' = l /\ UNCHANGED txBuffer
      BY <2>1, <3>2
    <3> QED
      BY <2>2, <3>1, <3>2
  <2>4. line # <<>> /\ line' = Tail(line) /\ UNCHANGED <<basic, inter, callVars>>
    BY <1>2 DEF ReadLinkAck
  <2>5. Coming' \subseteq Coming \cup {Nothing}
    BY <2>3, <2>4, ComingRead
  <2> QED
    BY <2>3, <2>4, <2>5
<1>3. CASE ReadMessage(t)
  <2> DEFINE u     == Head(line)
             exp   == IF link.expected = "none" /\ FirstUnit(u).part = "head"
                      THEN "size" ELSE link.expected
             whole == exp = "size" /\ u.part \in {"tail", "bad"}
             good  == whole /\ u.part = "tail"
             l     == IF whole \/ exp = "two"
                      THEN [link EXCEPT !.rx = Nothing, !.rxStart = FALSE,
                                        !.expected = "none", !.pendingTxLinkAck = TRUE,
                                        !.txBlock = TRUE,
                                        !.rxCount = IF good THEN u.msg ELSE Nothing]
                      ELSE [link EXCEPT !.rx = FirstUnit(u), !.expected = exp,
                                        !.rxStart = @ \/ link.rx = Nothing]
  <2>1. Proceed(t, l, TRUE) /\ link.rxCount = Nothing /\ line # <<>> /\ line' = Tail(line)
    BY <1>3 DEF ReadMessage
  <2>2. u \in Unit /\ FirstUnit(u) \in Unit /\ exp \in {"none", "two", "size"}
    BY <2>1, LineType DEF LinkData
  <2>3. u.msg \in SgdMessage \cup {Nothing}
    BY <2>2 DEF Unit
  <2> HIDE DEF u, exp, whole, good
  <2>4. l \in LinkData /\ l.rxCount \in {link.rxCount, Nothing, u.msg}
    BY <2>2, <2>3 DEF LinkData
  <2> HIDE DEF l
  <2>5. /\ link'.rxCount \in {link.rxCount, Nothing, Head(line).msg}
        /\ txBuffer'.head = txBuffer.head
    BY <1>1, <2>1, <2>4 DEF u
  <2> QED
    BY <1>3, <2>1, <2>5, ComingRead DEF ReadMessage
<1>4. CASE ReadNothing(t) \/ MessageTimeout(t)
  <2> DEFINE l == [link EXCEPT !.rxStart = FALSE, !.rx = Nothing, !.expected = "none",
                               !.txBlock = TRUE]
  <2>1. l \in LinkData /\ l.rxCount = link.rxCount
    BY DEF LinkData
  <2>2. Proceed(t, link, TRUE) \/ Proceed(t, link, FALSE) \/ Proceed(t, l, TRUE)
    BY <1>4 DEF ReadNothing, MessageTimeout
  <2> HIDE DEF l
  <2>3. link'.rxCount = link.rxCount /\ txBuffer'.head = txBuffer.head
    BY <1>1, <2>1, <2>2
  <2> QED
    BY <1>4, <2>3 DEF ReadNothing, MessageTimeout, sgdVars, Coming
<1>5. CASE LinkAckTimeout(t)
  BY <1>5 DEF LinkAckTimeout, LinkData, sgdVars, Coming
<1> QED
  BY <1>2, <1>3, <1>4, <1>5 DEF LinkLayer

\* Transmit brings nothing, or a reply to the message in the buffer, and the appliance
\* has then taken that message if it is an acknowledgement of the call's.
LEMMA ComingTransmit ==
  ASSUME TypeOK, NEW t \in Threads, Transmit(t)
  PROVE  /\ \/ UNCHANGED taken /\ Coming' \subseteq Coming \cup {Nothing}
            \/ \E k \in RepliesTo(txBuffer.head.op) :
                 /\ txBuffer.head # Nothing
                 /\ Coming' \subseteq Coming \cup {Nothing, [kind |-> k, re |-> txBuffer.head]}
                 /\ taken' = IF k \in {"ack", "resp"} /\ OfTheCall(txBuffer.head)
                             THEN [taken EXCEPT ![txBuffer.head.by] = TRUE] ELSE taken
         /\ UNCHANGED <<link.rxCount, txBuffer.head, basic, inter, call, todo, result>>
<1> DEFINE m     == txBuffer.head
           whole == txBuffer.sum = <<txBuffer.head, txBuffer.tail>>
<1>1. link \in LinkData /\ txBuffer \in TxBuffer /\ m \in Message \cup {Nothing}
  BY DEF TypeOK, TxBuffer
<1>2. UNCHANGED <<link.rxCount, txBuffer.head, basic, inter, call, todo, result>>
  BY <1>1 DEF Transmit, LinkData, TxBuffer
<1>3. \A part \in {"lack", "lnak"} :
        /\ LinkReply(part) \in Seq(Unit)
        /\ \A i \in DOMAIN LinkReply(part) : LinkReply(part)[i].msg = Nothing
  BY DEF LinkReply, Unit
<1>4. CASE UNCHANGED <<line, taken>>
  BY <1>2, <1>4 DEF Coming
<1>5. CASE line' = line \o LinkReply(IF whole THEN "lack" ELSE "lnak") /\ UNCHANGED taken
  <2>1. PICK part \in {"lack", "lnak"} : line' = line \o LinkReply(part)
    BY <1>5
  <2> DEFINE s == LinkReply(part)
  <2>2. s \in Seq(Unit) /\ {s[i].msg : i \in DOMAIN s} \subseteq {Nothing}
    BY <1>3
  <2>3. line' = line \o s
    BY <2>1
  <2> HIDE DEF s
  <2>4. Coming' \subseteq Coming \cup {s[i].msg : i \in DOMAIN s}
    BY <1>2, <2>2, <2>3, ComingMore
  <2>5. Coming' \subseteq Coming \cup {Nothing}
    BY <2>2, <2>4
  <2> QED
    BY <1>2, <1>5, <2>5
<1>6. CASE /\ whole /\ m # Nothing
           /\ \E k \in RepliesTo(m.op) : \E u \in Units([kind |-> k, re |-> m]) :
                /\ line' = line \o LinkReply("lack") \o u
                /\ taken' = IF k \in {"ack", "resp"} /\ OfTheCall(m)
                            THEN [taken EXCEPT ![m.by] = TRUE] ELSE taken
  <2>1. PICK k \in RepliesTo(m.op) : \E u \in Units([kind |-> k, re |-> m]) :
          /\ line' = line \o LinkReply("lack") \o u
          /\ taken' = IF k \in {"ack", "resp"} /\ OfTheCall(m)
                      THEN [taken EXCEPT ![m.by] = TRUE] ELSE taken
    BY <1>6
  <2> DEFINE r == [kind |-> k, re |-> m]
  <2>2. PICK u \in Units(r) : line' = line \o LinkReply("lack") \o u
    BY <2>1
  <2>3. r \in SgdMessage
    BY <1>1, RepliesType DEF SgdMessage
  <2> HIDE DEF r
  <2>4. u \in Seq(Unit) /\ \A i \in DOMAIN u : u[i].msg = r
    BY <2>3, UnitsType DEF Units
  <2> DEFINE s == LinkReply("lack") \o u
  <2>5. /\ s \in Seq(Unit) /\ \A i \in DOMAIN s : s[i].msg \in {Nothing, r}
        /\ line' = line \o s
    <3>1. line \in Seq(Unit) /\ LinkReply("lack") \in Seq(Unit)
      BY <1>3 DEF TypeOK
    <3>2. s \in Seq(Unit) /\ line' = line \o s
      BY <2>2, <2>4, <3>1, ConcatProperties, ConcatAssociative
    <3>3. \A i \in DOMAIN s : \/ i \in DOMAIN LinkReply("lack") /\ s[i] = LinkReply("lack")[i]
                              \/ \E n \in DOMAIN u : s[i] = u[n]
      <4> DEFINE v == LinkReply("lack")
      <4>1. v \in Seq(Unit) /\ u \in Seq(Unit)
        BY <2>4, <3>1
      <4> HIDE DEF v
      <4>2. \A i \in DOMAIN (v \o u) : \/ i \in DOMAIN v /\ (v \o u)[i] = v[i]
                                       \/ i - Len(v) \in DOMAIN u /\ (v \o u)[i] = u[i - Len(v)]
        BY <4>1
      <4> QED
        BY <4>2 DEF v
    <3> QED
      BY <1>3, <2>4, <3>2, <3>3
  <2> HIDE DEF s
  <2>6. Coming' \subseteq Coming \cup {Nothing, r}
    BY <1>2, <2>5, ComingMore
  <2> QED
    BY <1>2, <1>6, <2>1, <2>6 DEF r
<1> QED
  BY <1>4, <1>5, <1>6 DEF Transmit

\* A step that brings no acknowledgement, and neither answers nor ends the call.
LEMMA OneAckKept ==
  ASSUME NEW c, Alone(c), OneAck(c),
         \A m \in Coming' : IsAck(m) => m \in Coming,
         UNCHANGED <<call, todo, result, taken>>,
         txBuffer'.head # Nothing /\ txBuffer'.head.by = Link => txBuffer'.head.op \notin AckedOps,
         basic'.appAckRtn \in {basic.appAckRtn, "none"},
         basic'.ackState = basic.ackState,
         inter'.timeout \in {inter.timeout, Nothing},
         pc'[c] = "wait" => pc[c] = "wait" \/ basic'.appAckRtn = "none",
         pc[c] = "wait" => pc'[c] = "wait",
         Stuck /\ Unanswered(c) /\ Unanswered(c)' => Stuck'
  PROVE  OneAck(c)'
<1>1. MineOnly(c)'
  BY DEF OneAck, MineOnly
<1>2. NoOldAck(c)'
  <2>1. Unanswered(c)' => Unanswered(c)
    BY DEF Unanswered
  <2>2. NoAck(call[c]) => NoAck(call[c])'
    BY DEF NoAck, AckOf
  <2> QED
    BY <2>1, <2>2 DEF OneAck, NoOldAck
<1>3. Awaits(c)' /\ Answers(c)'
  BY DEF OneAck, Awaits, Answers
<1> QED
  BY <1>1, <1>2, <1>3 DEF OneAck

LEMMA OneAckLinkLayer ==
  ASSUME NEW c, Alone(c), Basic(c), OneAck(c), NEW t \in Threads, LinkLayer(t)
  PROVE  OneAck(c)'
<1> USE DEF Alone
<1> TypeOK /\ c \in Callers /\ c \in Threads /\ c # Link /\ pc \in [Threads -> Location]
  BY LinkAssumption DEF Threads, TypeInv, TypeOK
<1>1. pc[t] \in {"read", "sending"} /\ \E at \in {"sending", "app", "try"} : Goto(t, at)
  BY DEF LinkLayer, ReadLinkAck, ReadMessage, ReadNothing, MessageTimeout,
     LinkAckTimeout, Transmit, Proceed, Return
<1>2. pc'[c] = "wait" <=> pc[c] = "wait"
  BY <1>1 DEF Goto
<1>3. CASE ~Transmit(t)
  <2>1. /\ Coming' \subseteq Coming \cup {Nothing}
        /\ link.rxCount # Nothing => link'.rxCount = link.rxCount
        /\ UNCHANGED <<txBuffer.head, basic, inter, callVars>>
    BY <1>3, ComingLinkLayer
  <2>2. Stuck => Stuck'
    BY <2>1 DEF Stuck
  <2>3. \A m \in Coming' : IsAck(m) => m \in Coming
    BY <2>1 DEF IsAck
  <2> QED
    BY <1>2, <2>1, <2>2, <2>3, OneAckKept DEF callVars, OneAck, MineOnly
<1>4. CASE Transmit(t)
  <2>1. UNCHANGED <<link.rxCount, txBuffer.head, basic, inter, call, todo, result>>
    BY <1>4, ComingTransmit
  <2>2. Stuck => Stuck'
    BY <2>1 DEF Stuck
  <2>3. CASE UNCHANGED taken /\ Coming' \subseteq Coming \cup {Nothing}
    <3>1. \A m \in Coming' : IsAck(m) => m \in Coming
      BY <2>3 DEF IsAck
    <3> QED
      BY <1>2, <2>1, <2>2, <2>3, <3>1, OneAckKept DEF OneAck, MineOnly
  <2>4. ASSUME NEW k \in RepliesTo(txBuffer.head.op),
               txBuffer.head # Nothing,
               Coming' \subseteq Coming \cup {Nothing, [kind |-> k, re |-> txBuffer.head]},
               taken' = IF k \in {"ack", "resp"} /\ OfTheCall(txBuffer.head)
                        THEN [taken EXCEPT ![txBuffer.head.by] = TRUE] ELSE taken
        PROVE  OneAck(c)'
    <3> DEFINE h == txBuffer.head
               r == [kind |-> k, re |-> h]
    <3>1. h \in Message
      BY <2>4 DEF TypeOK, TxBuffer
    <3>2. k = "ack" => h.op \in AckedOps
      <4>1. h.op \in AckedOps \/ h.op = "operreq" \/ h.op \in InterOps \/ h.op \in AppOps
        BY <3>1 DEF Message, BasicOps
      <4> QED
        BY <4>1, <2>4 DEF RepliesTo, AckedOps, InterOps, AppOps
    <3>3. k = "ack" => h.by = c
      BY <2>4, <3>1, <3>2 DEF OneAck, MineOnly, Message, Threads
    <3>4. IsAck(r) => k = "ack"
      BY DEF IsAck
    <3>5. MineOnly(c)'
      BY <2>1, <2>4, <3>3, <3>4 DEF OneAck, MineOnly, IsAck
    <3>6. taken[c] => taken'[c]
      BY <2>4 DEF TypeOK
    <3>7. k = "ack" /\ call[c] \in EventCalls /\ h.op = call[c] => taken'[c]
      <4>1. call[c] \in EventCalls => call[c] # "none" /\ Head(todo[c]) = call[c]
        BY DEF OneWait, EventCalls
      <4> QED
        BY <2>4, <3>3, <4>1 DEF OfTheCall, TypeOK
    <3>8. NoOldAck(c)'
      <4>1. Unanswered(c)' => Unanswered(c)
        BY <1>2, <2>1, <3>6 DEF Unanswered
      <4>2. Unanswered(c)' => ~AckOf(r, call[c])
        BY <2>1, <3>4, <3>7 DEF Unanswered, AckOf
      <4>3. Unanswered(c)' /\ NoAck(call[c]) => NoAck(call[c])'
        BY <2>1, <2>4, <4>2 DEF NoAck, AckOf, IsAck
      <4> QED
        BY <2>1, <2>2, <4>1, <4>3 DEF OneAck, NoOldAck
    <3>9. Awaits(c)' /\ Answers(c)'
      BY <1>2, <2>1, <3>6 DEF OneAck, Awaits, Answers
    <3> QED
      BY <3>5, <3>8, <3>9 DEF OneAck
  <2> QED
    BY <1>4, <2>3, <2>4, ComingTransmit
<1> QED
  BY <1>3, <1>4

\* The steps of the application layer.  The one that matters: an acknowledgement is
\* taken for the awaited one only if the appliance has taken the message.
LEMMA OneAckApplication ==
  ASSUME NEW c, Alone(c), Basic(c), OneAck(c), BasicMessage \/ InterMessage \/ NoMessage
  PROVE  OneAck(c)'
<1> USE DEF Alone
<1> /\ c \in Callers /\ c \in Threads /\ c # Link /\ pc \in [Threads -> Location]
    /\ basic \in BasicData /\ link \in LinkData /\ inter \in InterData
  BY LinkAssumption DEF Threads, TypeInv, TypeOK
<1>1. UNCHANGED <<txBuffer, call, todo, result, taken, line>> /\ pc'[c] = pc[c]
  BY DEF BasicMessage, InterMessage, NoMessage, callVars, sgdVars, Answer, Goto
<1>2. link'.rxCount \in {link.rxCount, Nothing}
  BY DEF BasicMessage, InterMessage, NoMessage, LinkData
<1>3. \A m \in Coming' : IsAck(m) => m \in Coming
  BY <1>1, <1>2 DEF Coming, IsAck
<1>4. CASE BasicMessage
  <2> DEFINE m == link.rxCount
  <2>1. UNCHANGED inter /\ ~Stuck
    BY <1>4 DEF BasicMessage, Stuck
  <2>2. /\ basic'.appAckRtn = "none" /\ basic'.ackState = BasicRx(m).ackState
    BY <1>4, BasicRxType DEF BasicMessage, BasicDone, BasicData
  <2>3. basic'.ackState => basic.ackState \/ (basic.appAckRtn # "none" /\ AckOf(m, basic.appAckRtn))
    <3>1. CASE basic.appAckRtn # "none"
      BY <1>4, <2>2, <3>1 DEF BasicRx, BasicData, AckOf, IsAck, BasicMessage
    <3>2. CASE basic.appAckRtn = "none"
      BY <2>2, <3>2 DEF BasicRx, BasicData
    <3> QED
      BY <3>1, <3>2
  <2>4. call[c] \in EventCalls /\ basic'.ackState => taken[c]
    <3> SUFFICES ASSUME call[c] \in EventCalls, basic'.ackState, ~taken[c] PROVE FALSE
      OBVIOUS
    <3>1. basic.appAckRtn # "none" /\ AckOf(m, basic.appAckRtn)
      BY <2>3 DEF OneAck, Answers
    <3>2. basic.appAckRtn = call[c]
      <4>1. Head(todo[c]) = call[c]
        BY DEF OneWait
      <4> QED
        BY <3>1, <4>1 DEF OneAck, Awaits
    <3>3. NoAck(call[c])
      BY <2>1, <3>1 DEF OneAck, NoOldAck, Unanswered
    <3> QED
      BY <3>1, <3>2, <3>3 DEF NoAck, Coming
  <2>5. MineOnly(c)'
    BY <1>1, <1>3 DEF OneAck, MineOnly
  <2>6. Unanswered(c)' => Unanswered(c)
    BY <1>1, <2>2 DEF Unanswered
  <2>7. NoAck(call[c]) => NoAck(call[c])'
    BY <1>1, <1>3 DEF NoAck, AckOf
  <2>8. NoOldAck(c)'
    BY <2>1, <2>6, <2>7 DEF OneAck, NoOldAck
  <2> QED
    BY <1>1, <2>1, <2>2, <2>4, <2>5, <2>8 DEF OneAck, Awaits, Answers
<1>5. CASE InterMessage \/ NoMessage
  <2>1. UNCHANGED basic
    BY <1>5 DEF InterMessage, NoMessage
  <2>2. inter'.timeout \in {inter.timeout, Nothing}
    BY <1>5 DEF InterMessage, NoMessage, InterData
  <2>3. Stuck => Stuck'
    <3>1. CASE InterMessage
      <4>1. Stuck => inter.resp = "none"
        BY <3>1 DEF InterMessage, Stuck
      <4>2. inter.resp = "none" => inter'.resp = "none" /\ link'.rxCount = link.rxCount
        BY <3>1 DEF InterMessage, InterData, LinkData
      <4> QED
        BY <4>1, <4>2 DEF Stuck
    <3>2. CASE NoMessage
      BY <3>2 DEF NoMessage, Stuck
    <3> QED
      BY <1>5, <3>1, <3>2
  <2> QED
    BY <1>1, <1>3, <2>1, <2>2, <2>3, OneAckKept DEF OneAck, MineOnly
<1> QED
  BY <1>4, <1>5

LEMMA OneAckBuilder ==
  ASSUME NEW c, Alone(c), Basic(c), OneAck(c), NEW t \in Threads,
         CheckBlock(t) \/ BuildHead(t) \/ BuildTail(t)
  PROVE  OneAck(c)'
<1> USE DEF Alone
<1> /\ c \in Callers /\ c \in Threads /\ c # Link /\ pc \in [Threads -> Location]
    /\ basic \in BasicData /\ link \in LinkData /\ txBuffer \in TxBuffer
  BY LinkAssumption DEF Threads, TypeInv, TypeOK
<1>1. UNCHANGED <<inter, call, todo, result, taken, line>> /\ basic' \in {basic, AnswerBuilt(t)}
  BY DEF CheckBlock, BuildHead, BuildTail, callVars, sgdVars
<1>2. basic'.appAckRtn = basic.appAckRtn /\ basic'.ackState = basic.ackState
  BY <1>1 DEF AnswerBuilt, BasicData
<1>3. link'.rxCount = link.rxCount
  BY DEF CheckBlock, BuildHead, BuildTail, LinkData
<1>4. Coming' = Coming /\ (Stuck => Stuck')
  BY <1>1, <1>3 DEF Coming, Stuck
<1>5. txBuffer'.head # Nothing /\ txBuffer'.head.by = Link => txBuffer'.head.op \notin AckedOps
  <2>1. CASE BuildHead(t)
    <3>1. txBuffer'.head = Building(t)
      BY <2>1 DEF BuildHead, TxBuffer
    <3>2. Building(t).by = Link => Building(t).op \notin AckedOps
      BY DEF Building, AckedOps
    <3> QED
      BY <3>1, <3>2
  <2>2. CASE ~BuildHead(t)
    <3>1. txBuffer'.head = txBuffer.head
      BY <2>2 DEF CheckBlock, BuildTail, TxBuffer
    <3> QED
      BY <3>1 DEF OneAck, MineOnly
  <2> QED
    BY <2>1, <2>2
<1>6. /\ pc[c] = "wait" => pc'[c] = "wait"
      /\ pc'[c] = "wait" => pc[c] = "wait" \/ basic'.appAckRtn = "none"
  <2>1. pc[t] \in {"check", "head", "tail"} /\ \E at \in Location : Goto(t, at)
    BY DEF CheckBlock, BuildHead, BuildTail, Location
  <2>2. CASE t # c
    BY <2>1, <2>2 DEF Goto
  <2>3. CASE t = c
    BY <1>2, <2>1, <2>3 DEF OneWait
  <2> QED
    BY <2>2, <2>3
<1> QED
  BY <1>1, <1>2, <1>4, <1>5, <1>6, OneAckKept

\* The steps of the caller.
LEMMA OneAckCaller ==
  ASSUME NEW c, Alone(c), Basic(c), OneAck(c),
         \/ Call(c) \/ Try(c) \/ TryAgain(c) \/ Expect(c)
         \/ BasicTimeout(c) \/ InterTimeout(c)
         \/ EventAnswered(c) \/ NextMessage(c) \/ Finish(c)
  PROVE  OneAck(c)'
<1> USE DEF Alone
<1> /\ c \in Callers /\ c \in Threads /\ c # Link /\ c # Nothing /\ pc \in [Threads -> Location]
    /\ basic \in BasicData /\ link \in LinkData /\ inter \in InterData
    /\ call \in [Callers -> Calls \cup {"none"}] /\ result \in [Callers -> Calls \cup {"none"}]
    /\ taken \in [Callers -> BOOLEAN]
    /\ todo \in [Callers -> Seq(BasicOps \cup InterOps \cup {"unknown"})]
  BY LinkAssumption DEF Threads, TypeInv, TypeOK
<1>1. UNCHANGED <<txBuffer, line>> /\ link'.rxCount \in {link.rxCount, Nothing}
  BY DEF Call, Try, TryAgain, Expect, BasicTimeout, InterTimeout, EventAnswered,
     NextMessage, Finish, sgdVars, LinkData
<1>2. \A m \in Coming' : IsAck(m) => m \in Coming
  BY <1>1 DEF Coming, IsAck
<1>3. MineOnly(c)'
  BY <1>1, <1>2 DEF OneAck, MineOnly
<1>4. CASE Call(c)
  <2>1. PICK k \in Calls :
          /\ call' = [call EXCEPT ![c] = k]
          /\ basic' = IF k \in EventCalls \cup {"comm"} THEN [basic EXCEPT !.ackState = FALSE]
                                                        ELSE basic
    BY <1>4 DEF Call
  <2>2. /\ call'[c] = k /\ result'[c] = "none" /\ pc[c] = "idle" /\ Settled(c)
        /\ UNCHANGED <<link, inter>>
    BY <1>4, <2>1 DEF Call, Basic
  <2>3. NoOldAck(c)'
    <3>1. CASE Stuck
      BY <2>2, <3>1 DEF NoOldAck, Stuck
    <3>2. CASE ~Stuck
      <4>1. \A m \in Coming : ~IsReply(c, m)
        BY <2>2, <3>2 DEF Settled, Coming
      <4>2. \A m \in Coming : ~IsAck(m)
        BY <4>1 DEF OneAck, MineOnly, IsReply, IsAck
      <4> QED
        BY <1>2, <4>2 DEF NoOldAck, NoAck, AckOf
    <3> QED
      BY <3>1, <3>2
  <2>4. basic.appAckRtn = "none" /\ inter.timeout = Nothing
    BY <2>2 DEF OneWait, OneAck, Awaits
  <2>5. basic'.appAckRtn = "none" /\ (k \in EventCalls => ~basic'.ackState)
    BY <2>1, <2>4 DEF BasicData
  <2> QED
    BY <1>3, <2>2, <2>3, <2>4, <2>5 DEF OneAck, Awaits, Answers, EventCalls
<1>5. CASE Try(c) \/ TryAgain(c)
  <2>1. /\ UNCHANGED <<link, basic, inter, call, todo, result, taken>>
        /\ pc[c] # "wait" /\ pc'[c] # "wait"
    BY <1>5 DEF Try, TryAgain, callVars, Goto
  <2>2. Stuck => Stuck'
    BY <2>1 DEF Stuck
  <2> QED
    BY <1>1, <1>2, <2>1, <2>2, OneAckKept DEF OneAck, MineOnly
<1>6. CASE Expect(c)
  <2> DEFINE op == Head(todo[c])
  <2>1. /\ UNCHANGED <<link, call, todo, result, taken>>
        /\ pc[c] = "expect" /\ pc'[c] = "wait"
    BY <1>6 DEF Expect, callVars, Goto
  <2>2. /\ basic.appAckRtn = "none" /\ inter.timeout = Nothing
        /\ basic'.ackState = basic.ackState
        /\ basic'.appAckRtn \in {"none", op}
    BY <1>6, <2>1 DEF Expect, OneWait, OneAck, Awaits, BasicData
  <2>3. call[c] \in EventCalls => call[c] \notin InterOps /\ op = call[c]
    BY DEF OneWait, Basic, EventCalls, InterOps
  <2>4. call[c] \in EventCalls => UNCHANGED inter
    BY <1>6, <2>3 DEF Expect
  <2>5. NoOldAck(c)'
    <3>1. Unanswered(c)' => Unanswered(c)
      BY <2>1 DEF Unanswered
    <3>2. Unanswered(c)' /\ Stuck => Stuck'
      BY <2>1, <2>4 DEF Unanswered, Stuck
    <3>3. NoAck(call[c]) => NoAck(call[c])'
      BY <1>2, <2>1 DEF NoAck, AckOf
    <3> QED
      BY <3>1, <3>2, <3>3 DEF OneAck, NoOldAck
  <2>6. Awaits(c)' /\ Answers(c)'
    BY <2>1, <2>2, <2>4 DEF OneAck, Awaits, Answers
  <2> QED
    BY <1>3, <2>5, <2>6 DEF OneAck
<1>7. CASE BasicTimeout(c)
  <2>1. /\ basic'.appAckRtn = "none" /\ basic'.ackState = basic.ackState
        /\ UNCHANGED <<pc, inter, call, todo, result, taken>> /\ basic.timeout # Nothing
    BY <1>7 DEF BasicTimeout, BasicDone, BasicData, callVars
  <2>2. ~Unanswered(c)'
    BY <2>1 DEF OneWait, Unanswered
  <2> QED
    BY <1>1, <1>2, <2>1, <2>2, OneAckKept DEF OneAck, MineOnly
<1>8. CASE InterTimeout(c)
  <2>1. /\ inter'.timeout = Nothing /\ inter.timeout # Nothing
        /\ UNCHANGED <<pc, basic, call, todo, result, taken>>
    BY <1>8 DEF InterTimeout, InterData, callVars
  <2>2. ~Unanswered(c)'
    BY <2>1 DEF OneAck, Awaits, Unanswered
  <2> QED
    BY <1>1, <1>2, <2>1, <2>2, OneAckKept DEF OneAck, MineOnly
<1>9. CASE EventAnswered(c)
  <2>1. /\ UNCHANGED <<basic, inter, taken>>
        /\ call'[c] = "none" /\ result'[c] = call[c]
    BY <1>9 DEF EventAnswered
  <2>2. basic.timeout = Nothing
    BY <1>9 DEF EventAnswered, OneWait
  <2>3. basic.appAckRtn = "none" /\ inter.timeout = Nothing
    BY <1>9, <2>2 DEF EventAnswered, OneWait, OneAck, Awaits
  <2>4. taken[c]
    <3>1. call[c] \in EventCalls /\ call[c] \notin InterOps
      BY <1>9 DEF EventAnswered, Basic, EventCalls, InterOps
    <3>2. basic.ackState
      BY <1>9, <3>1 DEF EventAnswered
    <3> QED
      BY <3>1, <3>2 DEF OneAck, Answers
  <2> QED
    BY <1>3, <2>1, <2>3, <2>4 DEF OneAck, NoOldAck, Unanswered, Awaits, Answers, EventCalls
<1>10. CASE NextMessage(c)
  <2>1. /\ UNCHANGED <<link, basic, inter, call, result, taken>>
        /\ basic.timeout = Nothing /\ inter.timeout = Nothing
    BY <1>10 DEF NextMessage, BasicData, InterData, Basic
  <2>2. basic.appAckRtn = "none"
    BY <2>1 DEF OneWait
  <2>3. call[c] \notin EventCalls
    <3> SUFFICES ASSUME call[c] \in EventCalls PROVE FALSE
      OBVIOUS
    <3>1. Len(todo[c]) > 1
      BY <1>10 DEF NextMessage
    <3>2. todo[c] = <<call[c]>>
      BY DEF OneWait
    <3>3. Len(todo[c]) = 1
      BY <3>2
    <3> QED
      BY <3>1, <3>3
  <2> QED
    BY <1>3, <2>1, <2>2, <2>3 DEF OneAck, NoOldAck, Unanswered, Awaits, Answers
<1>11. CASE Finish(c)
  <2>1. /\ UNCHANGED <<link, basic, inter, taken>> /\ call'[c] = "none"
        /\ basic.timeout = Nothing /\ inter.timeout = Nothing
        /\ result'[c] \notin EventCalls
    BY <1>11 DEF Finish, BasicData, InterData, Basic, EventCalls
  <2>2. basic.appAckRtn = "none"
    BY <2>1 DEF OneWait
  <2> QED
    BY <1>3, <2>1, <2>2 DEF OneAck, NoOldAck, Unanswered, Awaits, Answers, EventCalls
<1> QED
  BY <1>4, <1>5, <1>6, <1>7, <1>8, <1>9, <1>10, <1>11

LEMMA OneAckNext ==
  ASSUME NEW c, Alone(c), Basic(c), OneAck(c), [Next]_vars
  PROVE  OneAck(c)'
<1> c \in Callers /\ c \in Threads /\ Link \in Threads
  BY DEF Alone, Threads
<1>1. CASE UNCHANGED vars
  BY <1>1, OneAckKept DEF vars, Coming, Stuck, OneAck, MineOnly
<1>2. CASE LinkStep
  BY <1>2, OneAckLinkLayer, OneAckApplication, OneAckBuilder DEF LinkStep
<1>3. CASE Offer
  <2>1. TypeOK /\ UNCHANGED <<pc, txBuffer, link, basic, inter, call, todo, result, taken>>
    BY <1>3 DEF Offer, callVars, Alone, TypeInv
  <2>2. PICK k \in Offers : \E u \in Units([kind |-> k, re |-> Nothing]) : line' = line \o u
    BY <1>3 DEF Offer
  <2> DEFINE r == [kind |-> k, re |-> Nothing]
  <2>3. PICK rest \in {"tail", "bad"} :
          line' = line \o <<[part |-> "head", msg |-> r], [part |-> rest, msg |-> r]>>
    BY <2>2 DEF Units
  <2>4. r \in SgdMessage /\ k # "ack"
    BY LinkAssumption DEF SgdMessage, AllOffers
  <2> DEFINE s == <<[part |-> "head", msg |-> r], [part |-> rest, msg |-> r]>>
  <2>5. s \in Seq(Unit) /\ \A i \in DOMAIN s : s[i].msg = r
    <3> HIDE DEF r
    <3> QED
      BY <2>4 DEF Unit
  <2>6. Coming' \subseteq Coming \cup {r}
    <3> HIDE DEF r
    <3>1. line' = line \o s
      BY <2>3
    <3> HIDE DEF s
    <3> QED
      BY <2>1, <2>5, <3>1, ComingMore
  <2>7. \A m \in Coming' : IsAck(m) => m \in Coming
    BY <2>4, <2>6 DEF IsAck
  <2>8. Stuck => Stuck'
    BY <2>1 DEF Stuck
  <2> QED
    BY <2>1, <2>7, <2>8, OneAckKept DEF OneAck, MineOnly
<1>4. CASE Call(c) \/ CallStep(c) \/ BasicTimeout(c) \/ InterTimeout(c)
  BY <1>4, OneAckLinkLayer, OneAckBuilder, OneAckCaller DEF CallStep
<1> QED
  BY <1>1, <1>2, <1>3, <1>4 DEF Next, Alone

\* A signal sent as a basic message by a caller who has no rival is reported as
\* delivered only if the appliance has acknowledged this very message, however late or
\* broken its answers are and whatever else it says.
THEOREM TrueIsTaken ==
  ASSUME NEW CONSTANT c, Basic(c)
  PROVE  Spec => []TrueMeansTaken
<1>1. Init => OneWait(c) /\ OneAck(c)
  BY AloneInit, OneAckInit DEF Basic
<1>2. TypeInv /\ OneWait(c) /\ OneAck(c) /\ [Next]_vars => OneWait(c)' /\ OneAck(c)'
  BY AloneNext, OneAckNext DEF Alone, Basic
<1>3. OneAck(c) => TrueMeansTaken
  BY DEF OneAck, Answers, TrueMeansTaken, Basic
<1> QED
  BY <1>1, <1>2, <1>3, TypeInvHolds, PTL DEF Spec

=============================================================================
