-------------------------- MODULE Cea2045LinkProofs --------------------------
(***************************************************************************)
(* Machine-checked proof of the type invariant of Cea2045Link, for every   *)
(* set of callers, calls, offers and replies.                              *)
(***************************************************************************)
EXTENDS Cea2045Link, SequenceTheorems, TLAPS

Ops == BasicOps \cup InterOps \cup {"unknown"}

\* A caller inside a call has a message to send, and builds only known ones.
HasMessage ==
  \A c \in Callers :
    /\ pc[c] # "idle" => todo[c] # <<>>
    /\ pc[c] \in {"check", "head", "tail", "expect"} => Head(todo[c]) # "unknown"

TypeInv == TypeOK /\ HasMessage

-----------------------------------------------------------------------------
(***************************************************************************)
(* The operators of the module.                                            *)
(***************************************************************************)

\* What is left of a sequence of two or more.
LEMMA LongTail ==
  ASSUME NEW S, NEW s \in Seq(S), Len(s) > 1
  PROVE  Tail(s) \in Seq(S) /\ Tail(s) # <<>>
<1>1. s # <<>>
  BY EmptySeq
<1>2. Tail(s) \in Seq(S) /\ Len(Tail(s)) = Len(s) - 1
  BY <1>1, HeadTailProperties
<1>3. Len(s) \in Nat
  BY LenProperties
<1>4. Len(Tail(s)) # 0
  BY <1>2, <1>3
<1> QED
  BY <1>2, <1>4, EmptySeq

LEMMA UnitsType ==
  ASSUME NEW m \in SgdMessage, NEW u \in Units(m)
  PROVE  u \in Seq(Unit)
<1>1. PICK rest \in {"tail", "bad"} :
        u = <<[part |-> "head", msg |-> m], [part |-> rest, msg |-> m]>>
  BY DEF Units
<1>2. [part |-> "head", msg |-> m] \in Unit /\ [part |-> rest, msg |-> m] \in Unit
  BY DEF Unit
<1> QED
  BY <1>1, <1>2

LEMMA LinkReplyType ==
  ASSUME NEW part \in {"lack", "lnak"}
  PROVE  LinkReply(part) \in Seq(Unit)
BY DEF LinkReply, Unit

LEMMA RepliesType ==
  ASSUME NEW op
  PROVE  RepliesTo(op) \subseteq AllReplies
BY LinkAssumption DEF RepliesTo

LEMMA MessagesOfType ==
  ASSUME NEW k \in AllCalls
  PROVE  /\ MessagesOf(k) \in Seq(Ops)
         /\ MessagesOf(k) # <<>>
         /\ Len(MessagesOf(k)) \in Nat
<1>1. CASE k = "log"
  BY <1>1 DEF MessagesOf, Ops, BasicOps, AckedOps, InterOps
<1>2. CASE k = "opstate"
  BY <1>2 DEF MessagesOf, Ops, BasicOps, AckedOps, InterOps
<1>3. CASE k \notin {"log", "opstate"}
  <2>1. MessagesOf(k) = <<k>>
    BY <1>3 DEF MessagesOf
  <2>2. k \in Ops
    BY <1>3 DEF AllCalls, EventCalls, Ops, BasicOps, AckedOps, InterOps
  <2> QED
    BY <2>1, <2>2
<1> QED
  BY <1>1, <1>2, <1>3

LEMMA SendLinkAckType ==
  ASSUME NEW l \in LinkData
  PROVE  SendLinkAck(l) \subseteq LinkData
BY DEF SendLinkAck, LinkData

LEMMA UnblockType ==
  ASSUME NEW l \in LinkData
  PROVE  Unblock(l) \subseteq LinkData
BY DEF Unblock, LinkData

LEMMA BasicDoneType ==
  ASSUME NEW b \in BasicData
  PROVE  BasicDone(b) \in BasicData
BY DEF BasicDone, BasicData

LEMMA BasicRxType ==
  ASSUME basic \in BasicData, NEW m
  PROVE  BasicRx(m) \in BasicData
<1>1. CASE basic.appAckRtn # "none"
  BY <1>1 DEF BasicRx, BasicData
<1>2. CASE basic.appAckRtn = "none" /\ ~basic.pendingOpState /\ m.kind \in {"on", "off"}
  BY <1>2 DEF BasicRx, BasicData
<1>3. CASE basic.appAckRtn = "none" /\ ~basic.pendingOpState /\ m.kind = "illegal"
  BY <1>3 DEF BasicRx, BasicData
<1>4. CASE /\ basic.appAckRtn = "none"
           /\ basic.pendingOpState \/ m.kind \notin {"on", "off", "illegal"}
  BY <1>4 DEF BasicRx
<1> QED
  BY <1>1, <1>2, <1>3, <1>4

LEMMA AnswerBuiltType ==
  ASSUME basic \in BasicData, NEW t
  PROVE  AnswerBuilt(t) \in BasicData
BY DEF AnswerBuilt, BasicData

\* What a thread builds is a message.
LEMMA BuildingType ==
  ASSUME TypeInv, NEW t \in Threads, pc[t] \in {"check", "head", "tail"}
  PROVE  Building(t) \in Message
<1>1. CASE t = Link
  BY <1>1 DEF Building, Message, AppOps
<1>2. CASE t # Link
  <2>1. t \in Callers
    BY <1>2 DEF Threads
  <2>2. todo[t] \in Seq(Ops) /\ todo[t] # <<>> /\ Head(todo[t]) # "unknown"
    BY <2>1 DEF TypeInv, TypeOK, HasMessage, Ops
  <2>3. Head(todo[t]) \in BasicOps \cup InterOps
    BY <2>2, HeadTailProperties DEF Ops
  <2> QED
    BY <1>2, <2>3 DEF Building, Message
<1> QED
  BY <1>1, <1>2

\* The rest of linkLayer keeps the types and moves only the thread that runs it.
LEMMA ProceedType ==
  ASSUME TypeOK, NEW t \in Threads, NEW l \in LinkData, NEW b \in BOOLEAN,
         Proceed(t, l, b)
  PROVE  /\ link' \in LinkData
         /\ txBuffer' \in TxBuffer
         /\ \E at \in {"sending", "app", "try"} : Goto(t, at)
<1>1. PICK l1 \in IF b THEN SendLinkAck(l) ELSE {l} : \E l2 \in Unblock(l1) :
    /\ link' = l2
    /\ IF ~l2.txBlock /\ l2.txCount /\ ~l2.pendingLinkAck
       THEN /\ txBuffer' = [txBuffer EXCEPT !.sum = <<txBuffer.head, txBuffer.tail>>]
            /\ Goto(t, "sending")
       ELSE Goto(t, Return(t)) /\ UNCHANGED txBuffer
  BY DEF Proceed
<1>2. l1 \in LinkData
  BY <1>1, SendLinkAckType
<1>3. link' \in LinkData
  BY <1>1, <1>2, UnblockType
<1>4. txBuffer' \in TxBuffer
  <2>1. txBuffer \in TxBuffer
    BY DEF TypeOK
  <2>2. [txBuffer EXCEPT !.sum = <<txBuffer.head, txBuffer.tail>>] \in TxBuffer
    BY <2>1 DEF TxBuffer
  <2> QED
    BY <1>1, <2>1, <2>2
<1>5. \E at \in {"sending", "app", "try"} : Goto(t, at)
  BY <1>1 DEF Return
<1> QED
  BY <1>3, <1>4, <1>5

\* Moving a thread keeps the types of all.
LEMMA GotoType ==
  ASSUME TypeOK, NEW t \in Threads, NEW at \in Location, Goto(t, at)
  PROVE  pc' \in [Threads -> Location]
BY DEF TypeOK, Goto

\* A step of linkLayer that leaves the callers alone keeps what they have to send.
LEMMA HasMessageKept ==
  ASSUME TypeInv, NEW t \in Threads, UNCHANGED todo, pc[t] # "idle",
         NEW at \in {"read", "sending", "app", "try", "blocked", "wait"}, Goto(t, at)
  PROVE  HasMessage'
BY DEF TypeInv, TypeOK, HasMessage, Goto

-----------------------------------------------------------------------------
(***************************************************************************)
(* Every step keeps the invariant.                                         *)
(***************************************************************************)

LEMMA InitTypeInv == Init => TypeInv
<1> SUFFICES ASSUME Init PROVE TypeInv
  OBVIOUS
<1>1. link \in LinkData /\ basic \in BasicData /\ inter \in InterData
  BY DEF Init, LinkData, BasicData, InterData, InterOps
<1>2. txBuffer \in TxBuffer
  BY DEF Init, TxBuffer
<1>3. pc \in [Threads -> Location] /\ HasMessage
  BY LinkAssumption DEF Init, Threads, Location, HasMessage
<1>4. line \in Seq(Unit) /\ todo \in [Callers -> Seq(BasicOps \cup InterOps \cup {"unknown"})]
  BY DEF Init
<1>5. call \in [Callers -> Calls \cup {"none"}] /\ result \in [Callers -> Calls \cup {"none"}]
  BY DEF Init
<1>6. taken \in [Callers -> BOOLEAN] /\ shown \in BOOLEAN
  BY DEF Init
<1>7. asked \in 0 .. MaxAsked /\ offers \in 0 .. MaxOffers
  BY LinkAssumption DEF Init
<1> QED
  BY <1>1, <1>2, <1>3, <1>4, <1>5, <1>6, <1>7 DEF TypeInv, TypeOK

LEMMA OfferKeeps ==
  ASSUME TypeInv, Offer
  PROVE  TypeInv'
<1>1. PICK k \in Offers : \E u \in Units([kind |-> k, re |-> Nothing]) : line' = line \o u
  BY DEF Offer
<1>2. [kind |-> k, re |-> Nothing] \in SgdMessage
  BY LinkAssumption DEF SgdMessage
<1>3. line' \in Seq(Unit)
  BY <1>1, <1>2, UnitsType, ConcatProperties DEF TypeInv, TypeOK
<1>4. offers' \in 0 .. MaxOffers
  BY LinkAssumption DEF Offer, TypeInv, TypeOK
<1> QED
  BY <1>3, <1>4 DEF Offer, TypeInv, TypeOK, HasMessage, callVars

\* The first unit on the line, and the first one in rxBuffer.
LEMMA LineType ==
  ASSUME TypeOK, line # <<>>
  PROVE  /\ Head(line) \in Unit
         /\ Tail(line) \in Seq(Unit)
         /\ FirstUnit(Head(line)) \in Unit
BY HeadTailProperties DEF TypeOK, LinkData, FirstUnit

\* A step of linkLayer that changes only the line, the link and the buffer.
LEMMA LinkLayerKeeps ==
  ASSUME TypeInv, NEW t \in Threads, LinkLayer(t)
  PROVE  TypeInv'
<1> USE DEF TypeInv
<1>1. CASE ReadLinkAck(t)
  <2> DEFINE l == [link EXCEPT !.txBlock = TRUE, !.pendingLinkAck = FALSE,
                               !.expected = "none", !.rx = Nothing]
  <2>1. l \in LinkData
    BY DEF TypeOK, LinkData
  <2>2. /\ link' \in LinkData
        /\ txBuffer' \in TxBuffer
        /\ \E at \in {"sending", "app", "try"} : Goto(t, at)
    <3>1. CASE FirstUnit(Head(line)).part \in {"lack", "lnak"}
      BY <1>1, <2>1, <3>1 DEF ReadLinkAck, Return, TypeOK
    <3>2. CASE FirstUnit(Head(line)).part \notin {"lack", "lnak"}
      <4>1. Proceed(t, l, TRUE)
        BY <1>1, <3>2 DEF ReadLinkAck
      <4> HIDE DEF l
      <4> QED
        BY <2>1, <4>1, ProceedType
    <3> QED
      BY <3>1, <3>2
  <2>3. line' \in Seq(Unit) /\ pc[t] = "read"
    BY <1>1, LineType DEF ReadLinkAck
  <2>4. HasMessage'
    BY <1>1, <2>2, <2>3, HasMessageKept DEF ReadLinkAck, callVars
  <2>5. pc' \in [Threads -> Location]
    BY <2>2, GotoType DEF Location
  <2> QED
    BY <1>1, <2>2, <2>3, <2>4, <2>5 DEF ReadLinkAck, TypeOK, callVars
<1>2. CASE ReadMessage(t)
  <2> DEFINE u     == Head(line)
             exp   == IF link.expected = "none" /\ FirstUnit(u).part = "head"
                      THEN "size" ELSE link.expected
             whole == exp = "size" /\ u.part \in {"tail", "bad"}
             good  == whole /\ u.part = "tail"
             l     == IF whole \/ exp = "two"
                      THEN [link EXCEPT !.rx = Nothing, !.rxStart = FALSE,
                                        !.expected = "none", !.pendingTxLinkAck = TRUE,
                                        !.txBlock = TRUE,
                                        !.rxCount = IF good THEN u.msg ELSE Nothing]
                      ELSE [link EXCEPT !.rx = FirstUnit(u), !.expected = exp,
                                        !.rxStart = @ \/ link.rx = Nothing]
  <2>1. /\ u \in Unit /\ Tail(line) \in Seq(Unit) /\ FirstUnit(u) \in Unit
        /\ line' = Tail(line)
        /\ pc[t] = "read"
    BY <1>2, LineType DEF ReadMessage
  <2>2. l \in LinkData
    <3>1. u.msg \in SgdMessage \cup {Nothing}
      BY <2>1 DEF Unit
    <3>2. link \in LinkData
      BY DEF TypeOK
    <3>3. exp \in {"none", "two", "size"}
      BY <3>2 DEF LinkData
    <3> HIDE DEF u, exp, good, whole
    <3>4. CASE whole \/ exp = "two"
      BY <3>1, <3>2, <3>4 DEF LinkData
    <3>5. CASE ~(whole \/ exp = "two")
      BY <2>1, <3>2, <3>3, <3>5 DEF LinkData
    <3> QED
      BY <3>4, <3>5
  <2>3. Proceed(t, l, TRUE) /\ shown' \in BOOLEAN /\ UNCHANGED <<basic, inter, offers, callVars>>
    BY <1>2 DEF ReadMessage, TypeOK
  <2> HIDE DEF l
  <2>4. /\ link' \in LinkData
        /\ txBuffer' \in TxBuffer
        /\ \E at \in {"sending", "app", "try"} : Goto(t, at)
    BY <2>2, <2>3, ProceedType
  <2>5. HasMessage'
    BY <2>1, <2>3, <2>4, HasMessageKept DEF callVars
  <2>6. pc' \in [Threads -> Location]
    BY <2>4, GotoType DEF Location
  <2> QED
    BY <2>1, <2>3, <2>4, <2>5, <2>6 DEF TypeOK, callVars
<1>3. CASE ReadNothing(t) \/ MessageTimeout(t)
  <2>1. [link EXCEPT !.rxStart = FALSE, !.rx = Nothing, !.expected = "none",
                     !.txBlock = TRUE] \in LinkData
    BY DEF TypeOK, LinkData
  <2>2. link \in LinkData
    BY DEF TypeOK
  <2>3. PICK l \in LinkData, b \in BOOLEAN : Proceed(t, l, b)
    BY <1>3, <2>1, <2>2 DEF ReadNothing, MessageTimeout
  <2>4. /\ link' \in LinkData
        /\ txBuffer' \in TxBuffer
        /\ \E at \in {"sending", "app", "try"} : Goto(t, at)
    BY <2>3, ProceedType
  <2>5. pc[t] = "read" /\ UNCHANGED <<basic, inter, callVars, sgdVars>>
    BY <1>3 DEF ReadNothing, MessageTimeout
  <2>6. HasMessage'
    BY <2>4, <2>5, HasMessageKept DEF callVars
  <2>7. pc' \in [Threads -> Location]
    BY <2>4, GotoType DEF Location
  <2> QED
    BY <2>4, <2>5, <2>6, <2>7 DEF TypeOK, callVars, sgdVars
<1>4. CASE LinkAckTimeout(t)
  <2>1. link' \in LinkData
    BY <1>4 DEF LinkAckTimeout, TypeOK, LinkData
  <2>2. \E at \in {"app", "try"} : Goto(t, at)
    BY <1>4 DEF LinkAckTimeout, Return
  <2>3. HasMessage'
    BY <1>4, <2>2, HasMessageKept DEF LinkAckTimeout, callVars
  <2>4. pc' \in [Threads -> Location]
    BY <2>2, GotoType DEF Location
  <2> QED
    BY <1>4, <2>1, <2>3, <2>4 DEF LinkAckTimeout, TypeOK, callVars, sgdVars
<1>5. CASE Transmit(t)
  <2> DEFINE m     == txBuffer.head
             whole == txBuffer.sum = <<txBuffer.head, txBuffer.tail>>
  <2>1. m \in Message \cup {Nothing}
    BY DEF TypeOK, TxBuffer
  <2>2. line' \in Seq(Unit) /\ taken' \in [Callers -> BOOLEAN]
    <3>1. CASE UNCHANGED <<line, taken>>
      BY <3>1 DEF TypeOK
    <3>2. CASE line' = line \o LinkReply(IF whole THEN "lack" ELSE "lnak") /\ UNCHANGED taken
      BY <3>2, LinkReplyType, ConcatProperties DEF TypeOK
    <3>3. CASE \E k \in RepliesTo(m.op) : \E u \in Units([kind |-> k, re |-> m]) :
                 /\ line' = line \o LinkReply("lack") \o u
                 /\ taken' = IF k \in {"ack", "resp"} /\ OfTheCall(m)
                             THEN [taken EXCEPT ![m.by] = TRUE] ELSE taken
      <4>1. PICK k \in RepliesTo(m.op) : \E u \in Units([kind |-> k, re |-> m]) :
                 /\ line' = line \o LinkReply("lack") \o u
                 /\ taken' = IF k \in {"ack", "resp"} /\ OfTheCall(m)
                             THEN [taken EXCEPT ![m.by] = TRUE] ELSE taken
        BY <3>3
      <4>2. [kind |-> k, re |-> m] \in SgdMessage
        BY <2>1, <4>1, RepliesType DEF SgdMessage
      <4>3. line \o LinkReply("lack") \in Seq(Unit)
        BY LinkReplyType, ConcatProperties DEF TypeOK
      <4>4. line' \in Seq(Unit)
        BY <4>1, <4>2, <4>3, UnitsType, ConcatProperties
      <4>5. taken' \in [Callers -> BOOLEAN]
        BY <4>1 DEF TypeOK
      <4> QED
        BY <4>4, <4>5
    <3> QED
      BY <1>5, <3>1, <3>2, <3>3 DEF Transmit
  <2>3. link' \in LinkData
    BY <1>5 DEF Transmit, TypeOK, LinkData
  <2>4. txBuffer' \in TxBuffer
    BY <1>5 DEF Transmit, TypeOK, TxBuffer
  <2>5. \E at \in {"app", "try"} : Goto(t, at)
    BY <1>5 DEF Transmit, Return
  <2>6. HasMessage'
    BY <1>5, <2>5, HasMessageKept DEF Transmit
  <2>7. pc' \in [Threads -> Location]
    BY <2>5, GotoType DEF Location
  <2> QED
    BY <1>5, <2>2, <2>3, <2>4, <2>6, <2>7 DEF Transmit, TypeOK
<1> QED
  BY <1>1, <1>2, <1>3, <1>4, <1>5 DEF LinkLayer

\* The steps of the application layer.
LEMMA ApplicationKeeps ==
  ASSUME TypeInv, BasicMessage \/ InterMessage \/ NoMessage
  PROVE  TypeInv'
<1> USE DEF TypeInv
<1>1. Link \in Threads /\ Link \notin Callers
  BY LinkAssumption DEF Threads
<1>2. UNCHANGED <<txBuffer, callVars, sgdVars>>
  BY DEF BasicMessage, InterMessage, NoMessage
<1>3. link' \in LinkData
  BY DEF BasicMessage, InterMessage, NoMessage, TypeOK, LinkData
<1>4. basic' \in BasicData
  BY BasicRxType, BasicDoneType DEF BasicMessage, InterMessage, NoMessage, TypeOK
<1>5. inter' \in InterData
  <2>1. CASE InterMessage
    BY <2>1 DEF InterMessage, TypeOK, InterData
  <2>2. CASE BasicMessage \/ NoMessage
    BY <2>2 DEF BasicMessage, NoMessage, TypeOK
  <2> QED
    BY <2>1, <2>2
<1>6. \E at \in {"read", "check"} : Goto(Link, at)
  BY DEF BasicMessage, InterMessage, NoMessage, Answer
<1>7. pc' \in [Threads -> Location]
  BY <1>1, <1>6, GotoType DEF Location
<1>8. HasMessage'
  BY <1>1, <1>2, <1>6 DEF HasMessage, Goto, TypeOK, callVars
<1> QED
  BY <1>2, <1>3, <1>4, <1>5, <1>7, <1>8 DEF TypeOK, callVars, sgdVars

\* The steps of the message builders.
LEMMA BuilderKeeps ==
  ASSUME TypeInv, NEW t \in Threads, CheckBlock(t) \/ BuildHead(t) \/ BuildTail(t)
  PROVE  TypeInv'
<1> USE DEF TypeInv
<1>1. UNCHANGED <<inter, callVars, sgdVars>>
  BY DEF CheckBlock, BuildHead, BuildTail
<1>2. link' \in LinkData
  BY DEF CheckBlock, BuildHead, BuildTail, TypeOK, LinkData
<1>3. basic' \in BasicData
  BY AnswerBuiltType DEF CheckBlock, BuildHead, BuildTail, TypeOK
<1>4. txBuffer' \in TxBuffer
  <2>1. txBuffer \in TxBuffer
    BY DEF TypeOK
  <2>2. CASE CheckBlock(t)
    BY <2>1, <2>2 DEF CheckBlock
  <2>3. CASE BuildHead(t) \/ BuildTail(t)
    <3>1. Building(t) \in Message
      BY <2>3, BuildingType DEF BuildHead, BuildTail
    <3> QED
      BY <2>1, <2>3, <3>1 DEF BuildHead, BuildTail, TxBuffer
  <2> QED
    BY <2>2, <2>3
<1>5. PICK at \in {"read", "wait", "head", "tail", "expect"} :
        /\ Goto(t, at)
        /\ pc[t] \in {"check", "head", "tail"}
  BY DEF CheckBlock, BuildHead, BuildTail
<1>6. pc' \in [Threads -> Location]
  BY <1>5, GotoType DEF Location
<1>7. HasMessage'
  BY <1>1, <1>5 DEF HasMessage, Goto, TypeOK, callVars
<1> QED
  BY <1>1, <1>2, <1>3, <1>4, <1>6, <1>7 DEF TypeOK, callVars, sgdVars

\* The steps of a caller outside of linkLayer and the builders.
LEMMA CallerKeeps ==
  ASSUME TypeInv, NEW c \in Callers,
         \/ Call(c) \/ Try(c) \/ TryAgain(c) \/ Expect(c)
         \/ BasicTimeout(c) \/ InterTimeout(c)
         \/ EventAnswered(c) \/ NextMessage(c) \/ Finish(c)
  PROVE  TypeInv'
<1> USE DEF TypeInv
<1>1. c \in Threads
  BY DEF Threads
<1>2. UNCHANGED <<txBuffer, sgdVars>>
  BY DEF Call, Try, TryAgain, Expect, BasicTimeout, InterTimeout, EventAnswered,
         NextMessage, Finish
<1>3. link' \in LinkData
  BY DEF Call, Try, TryAgain, Expect, BasicTimeout, InterTimeout, EventAnswered,
         NextMessage, Finish, TypeOK, LinkData
<1>4. basic' \in BasicData
  <2>1. CASE Call(c)
    BY <2>1 DEF Call, TypeOK, BasicData
  <2>2. CASE Expect(c)
    BY <2>2 DEF Expect, TypeOK, BasicData
  <2>3. CASE BasicTimeout(c)
    BY <2>3, BasicDoneType DEF BasicTimeout, TypeOK
  <2> QED
    BY <2>1, <2>2, <2>3 DEF Try, TryAgain, InterTimeout, EventAnswered, NextMessage,
       Finish, TypeOK
<1>5. inter' \in InterData
  <2>1. CASE Expect(c)
    BY <2>1 DEF Expect, TypeOK, InterData
  <2>2. CASE InterTimeout(c)
    BY <2>2 DEF InterTimeout, TypeOK, InterData
  <2> QED
    BY <2>1, <2>2 DEF Call, Try, TryAgain, BasicTimeout, EventAnswered, NextMessage,
       Finish, TypeOK
<1>6. /\ call' \in [Callers -> Calls \cup {"none"}]
      /\ result' \in [Callers -> Calls \cup {"none"}]
      /\ taken' \in [Callers -> BOOLEAN]
  BY DEF Call, Try, TryAgain, Expect, BasicTimeout, InterTimeout, EventAnswered,
         NextMessage, Finish, callVars, TypeOK
<1>7. /\ asked' \in 0 .. MaxAsked
      /\ todo' \in [Callers -> Seq(BasicOps \cup InterOps \cup {"unknown"})]
      /\ pc' \in [Threads -> Location]
      /\ HasMessage'
  <2>1. CASE Call(c)
    <3>1. PICK k \in Calls :
            /\ todo' = [todo EXCEPT ![c] = MessagesOf(k)]
            /\ asked + Len(MessagesOf(k)) <= MaxAsked
            /\ asked' = asked + Len(MessagesOf(k))
      BY <2>1 DEF Call
    <3>2. /\ MessagesOf(k) \in Seq(BasicOps \cup InterOps \cup {"unknown"})
          /\ MessagesOf(k) # <<>>
          /\ Len(MessagesOf(k)) \in Nat
      BY LinkAssumption, MessagesOfType DEF Ops
    <3>3. asked' \in 0 .. MaxAsked
      BY <3>1, <3>2, LinkAssumption DEF TypeOK
    <3>4. Goto(c, "read")
      BY <2>1 DEF Call
    <3> QED
      BY <1>1, <3>1, <3>2, <3>3, <3>4 DEF TypeOK, HasMessage, Goto, Location
  <2>2. CASE Try(c)
    <3>1. UNCHANGED <<asked, todo>>
      BY <2>2 DEF Try, callVars
    <3>2. \/ Goto(c, "blocked")
          \/ Goto(c, "check") /\ Head(todo[c]) # "unknown"
      BY <2>2 DEF Try
    <3>3. pc[c] = "try"
      BY <2>2 DEF Try
    <3>4. pc' \in [Threads -> Location]
      BY <1>1, <3>2, GotoType DEF Location
    <3>5. ASSUME NEW d \in Callers
          PROVE  /\ pc'[d] # "idle" => todo'[d] # <<>>
                 /\ pc'[d] \in {"check", "head", "tail", "expect"} => Head(todo'[d]) # "unknown"
      <4>1. CASE d = c
        BY <1>1, <3>1, <3>2, <3>3, <4>1 DEF TypeOK, HasMessage, Goto
      <4>2. CASE d # c
        BY <1>1, <3>1, <3>2, <4>2 DEF TypeOK, HasMessage, Goto, Threads
      <4> QED
        BY <4>1, <4>2
    <3> QED
      BY <3>1, <3>4, <3>5 DEF TypeOK, HasMessage
  <2>3. CASE TryAgain(c) \/ Expect(c)
    <3>1. UNCHANGED <<asked, todo>> /\ pc[c] # "idle"
      BY <2>3 DEF TryAgain, Expect, callVars
    <3>2. \E at \in {"try", "wait"} : Goto(c, at)
      BY <2>3 DEF TryAgain, Expect
    <3> QED
      BY <1>1, <3>1, <3>2, HasMessageKept, GotoType DEF TypeOK, Location
  <2>4. CASE BasicTimeout(c) \/ InterTimeout(c)
    BY <2>4 DEF BasicTimeout, InterTimeout, callVars, TypeOK, HasMessage
  <2>5. CASE EventAnswered(c) \/ Finish(c)
    <3>1. todo' = [todo EXCEPT ![c] = <<>>] /\ Goto(c, "idle") /\ asked' = asked
      BY <2>5 DEF EventAnswered, Finish
    <3> QED
      BY <1>1, <3>1 DEF TypeOK, HasMessage, Goto, Location
  <2>6. CASE NextMessage(c)
    <3>1. todo' = [todo EXCEPT ![c] = Tail(@)] /\ Goto(c, "try") /\ asked' = asked
          /\ Len(todo[c]) > 1
      BY <2>6 DEF NextMessage
    <3>2. todo[c] \in Seq(BasicOps \cup InterOps \cup {"unknown"})
      BY DEF TypeOK
    <3>3. /\ Tail(todo[c]) \in Seq(BasicOps \cup InterOps \cup {"unknown"})
          /\ Tail(todo[c]) # <<>>
      BY <3>1, <3>2, LongTail
    <3> QED
      BY <1>1, <3>1, <3>3 DEF TypeOK, HasMessage, Goto, Location
  <2> QED
    BY <2>1, <2>2, <2>3, <2>4, <2>5, <2>6
<1> QED
  BY <1>2, <1>3, <1>4, <1>5, <1>6, <1>7 DEF TypeOK, sgdVars

LEMMA NextKeepsTypeInv ==
  ASSUME TypeInv, [Next]_vars
  PROVE  TypeInv'
<1>1. CASE UNCHANGED vars
  BY <1>1 DEF vars, TypeInv, TypeOK, HasMessage
<1>2. CASE LinkStep
  <2>1. Link \in Threads
    BY DEF Threads
  <2> QED
    BY <1>2, <2>1, LinkLayerKeeps, ApplicationKeeps, BuilderKeeps DEF LinkStep
<1>3. CASE Offer
  BY <1>3, OfferKeeps
<1>4. ASSUME NEW c \in Callers,
             Call(c) \/ CallStep(c) \/ BasicTimeout(c) \/ InterTimeout(c)
      PROVE  TypeInv'
  <2>1. c \in Threads
    BY DEF Threads
  <2> QED
    BY <1>4, <2>1, LinkLayerKeeps, BuilderKeeps, CallerKeeps DEF CallStep
<1> QED
  BY <1>1, <1>2, <1>3, <1>4 DEF Next

LEMMA TypeInvHolds == Spec => []TypeInv
BY InitTypeInv, NextKeepsTypeInv, PTL DEF Spec

\* The threads, the buffers of both layers, the deadlines and the messages on the line
\* keep their types, for every set of callers, calls, offers and replies.
THEOREM TypeCorrect == Spec => []TypeOK
<1>1. TypeInv => TypeOK
  BY DEF TypeInv
<1> QED
  BY <1>1, TypeInvHolds, PTL

=============================================================================
