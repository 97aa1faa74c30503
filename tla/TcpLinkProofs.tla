--------------------------- MODULE TcpLinkProofs ---------------------------
(***************************************************************************)
(* Proofs about TcpLink, for any calls and any number of requests that are *)
(* answered twice.                                                         *)
(***************************************************************************)
EXTENDS TcpLink, SequenceTheorems, TLAPS

(***************************************************************************)
(* Sequences                                                               *)
(***************************************************************************)

LEMMA TailOfConcat ==
  ASSUME NEW S, NEW s \in Seq(S), NEW t \in Seq(S), s # << >>
  PROVE  s \o t # << >> /\ Head(s \o t) = Head(s) /\ Tail(s \o t) = Tail(s) \o t
<1>1. /\ s \o t \in Seq(S) /\ Len(s \o t) = Len(s) + Len(t)
      /\ \A i \in 1..Len(s) + Len(t) : (s \o t)[i] = IF i <= Len(s) THEN s[i] ELSE t[i - Len(s)]
  BY ConcatProperties
<1>2. /\ Tail(s) \in Seq(S) /\ Len(Tail(s)) = Len(s) - 1
      /\ \A i \in 1..Len(Tail(s)) : Tail(s)[i] = s[i + 1]
  BY HeadTailProperties
<1>3. Len(s) \in Nat \ {0} /\ Len(t) \in Nat
  BY EmptySeq, LenProperties
<1>4. s \o t # << >>
  BY <1>1, <1>3
<1>5. /\ Tail(s \o t) \in Seq(S) /\ Len(Tail(s \o t)) = Len(s) + Len(t) - 1
      /\ \A i \in 1..Len(Tail(s \o t)) : Tail(s \o t)[i] = (s \o t)[i + 1]
  BY <1>1, <1>4, HeadTailProperties
<1>6. /\ Tail(s) \o t \in Seq(S) /\ Len(Tail(s) \o t) = Len(s) - 1 + Len(t)
      /\ \A i \in 1..Len(s) - 1 + Len(t) :
           (Tail(s) \o t)[i] = IF i <= Len(s) - 1 THEN Tail(s)[i] ELSE t[i - (Len(s) - 1)]
  BY <1>2, ConcatProperties
<1>7. Tail(s \o t) = Tail(s) \o t
  <2>1. Len(Tail(s \o t)) = Len(Tail(s) \o t)
    BY <1>3, <1>5, <1>6
  <2>2. ASSUME NEW i \in 1..Len(Tail(s \o t)) PROVE Tail(s \o t)[i] = (Tail(s) \o t)[i]
    <3>1. i \in 1..Len(s) - 1 + Len(t) /\ i + 1 \in 1..Len(s) + Len(t)
      BY <1>3, <1>5
    <3>2. CASE i <= Len(s) - 1
      BY <1>1, <1>2, <1>3, <1>5, <1>6, <3>1, <3>2
    <3>3. CASE ~(i <= Len(s) - 1)
      <4>1. i - (Len(s) - 1) = i + 1 - Len(s)
        BY <1>3, <3>1
      <4> QED
        BY <1>1, <1>3, <1>5, <1>6, <3>1, <3>3, <4>1
    <3> QED
      BY <3>2, <3>3
  <2> QED
    BY <1>5, <1>6, <2>1, <2>2, SeqEqual
<1>8. Head(s \o t) = Head(s)
  BY <1>1, <1>3
<1> QED
  BY <1>4, <1>7, <1>8

\* The first of what follows may as well be the last of what precedes.
LEMMA HeadMoves ==
  ASSUME NEW S, NEW s \in Seq(S), NEW t \in Seq(S), t # << >>
  PROVE  Append(s, Head(t)) \o Tail(t) = s \o t
<1>1. Head(t) \in S /\ Tail(t) \in Seq(S) /\ t = <<Head(t)>> \o Tail(t)
  BY HeadTailProperties
<1>2. Append(s, Head(t)) = s \o <<Head(t)>>
  BY <1>1, AppendIsConcat
<1>3. <<Head(t)>> \in Seq(S)
  BY <1>1
<1> QED
  BY <1>1, <1>2, <1>3, ConcatAssociative

(***************************************************************************)
(* Streams that answer a queue                                             *)
(***************************************************************************)

LEMMA AnswersPrefix ==
  ASSUME NEW s \in Seq(Packets), NEW t \in Seq(Packets), NEW q \in Seq(Packets),
         Answers(s \o t, q)
  PROVE  Answers(s, q)
<1>1. /\ Len(s \o t) = Len(s) + Len(t) /\ Len(s) \in Nat /\ Len(t) \in Nat
      /\ \A i \in 1..Len(s) : (s \o t)[i] = s[i]
  BY ConcatProperties, LenProperties
<1> QED
  BY <1>1 DEF Answers

LEMMA AnswersBegin ==
  ASSUME NEW s \in Seq(Packets), NEW t \in Seq(Packets), NEW w \in LastWords
  PROVE  Answers(s, s \o t) /\ Answers(Append(s, w), s \o t)
<1>1. /\ Len(s \o t) = Len(s) + Len(t) /\ Len(s) \in Nat /\ Len(t) \in Nat
      /\ \A i \in 1..Len(s) : (s \o t)[i] = s[i]
  BY ConcatProperties, LenProperties
<1>2. /\ Len(Append(s, w)) = Len(s) + 1
      /\ \A i \in 1..Len(s) : Append(s, w)[i] = s[i]
      /\ Append(s, w)[Len(s) + 1] = w
  BY AppendProperties DEF Packets
<1>3. Answers(s, s \o t)
  BY <1>1 DEF Answers
<1>4. Answers(Append(s, w), s \o t)
  BY <1>1, <1>2 DEF Answers
<1> QED
  BY <1>3, <1>4

LEMMA AnswersLongerQueue ==
  ASSUME NEW s \in Seq(Packets), NEW q \in Seq(Packets), NEW c \in Packets, Answers(s, q)
  PROVE  Answers(s, Append(q, c))
<1>1. /\ Len(Append(q, c)) = Len(q) + 1 /\ Len(q) \in Nat /\ Len(s) \in Nat
      /\ \A i \in 1..Len(q) : Append(q, c)[i] = q[i]
  BY AppendProperties, LenProperties
<1> QED
  BY <1>1 DEF Answers

\* The last packet of a stream leaves nothing behind.
LEMMA LastTaken ==
  ASSUME NEW s \in Seq(Packets), s # << >>, ~(Len(s) > 1)
  PROVE  Tail(s) = << >>
<1>1. Len(s) \in Nat \ {0}
  BY EmptySeq
<1>2. Tail(s) \in Seq(Packets) /\ Len(Tail(s)) = Len(s) - 1
  BY HeadTailProperties
<1>3. Len(Tail(s)) = 0
  BY <1>1, <1>2
<1> QED
  BY <1>2, <1>3, EmptySeq

LEMMA AnswersFirst ==
  ASSUME NEW s \in Seq(Packets), NEW q \in Seq(Packets), s # << >>, q # << >>, Answers(s, q)
  PROVE  /\ Head(s) = Head(q) \/ (Head(s) \in LastWords /\ Tail(s) = << >>)
         /\ Answers(Tail(s), Tail(q))
<1>1. /\ Len(Tail(s)) = Len(s) - 1 /\ Len(s) \in Nat \ {0}
      /\ \A i \in 1..Len(s) - 1 : Tail(s)[i] = s[i + 1]
  BY HeadTailProperties, EmptySeq
<1>2. /\ Len(Tail(q)) = Len(q) - 1 /\ Len(q) \in Nat \ {0}
      /\ \A i \in 1..Len(q) - 1 : Tail(q)[i] = q[i + 1]
  BY HeadTailProperties, EmptySeq
<1>3. Head(s) = s[1] /\ Head(q) = q[1]
  OBVIOUS
<1>4. (s[1] \in LastWords /\ Tail(s) = << >>) \/ s[1] = q[1]
  <2>1. 1 \in 1..Len(s)
    BY <1>1
  <2>2. 1 = Len(s) => Tail(s) = << >>
    <3>1. \A n \in Nat : 1 = n => ~(n > 1)
      OBVIOUS
    <3>2. 1 = Len(s) => ~(Len(s) > 1)
      BY <1>1, <3>1, Zenon
    <3> QED
      BY <3>2, LastTaken
  <2>3. (1 = Len(s) /\ s[1] \in LastWords) \/ s[1] = q[1]
    BY <2>1 DEF Answers
  <2> QED
    BY <2>2, <2>3
<1>5. ASSUME NEW i \in 1..Len(Tail(s))
      PROVE  \/ i = Len(Tail(s)) /\ Tail(s)[i] \in LastWords
             \/ i <= Len(Tail(q)) /\ Tail(s)[i] = Tail(q)[i]
  <2>1. i + 1 \in 1..Len(s) /\ Tail(s)[i] = s[i + 1]
    BY <1>1
  <2>2. \/ i + 1 = Len(s) /\ s[i + 1] \in LastWords
        \/ i + 1 <= Len(q) /\ s[i + 1] = q[i + 1]
    BY <2>1 DEF Answers
  <2>3. CASE i + 1 = Len(s) /\ s[i + 1] \in LastWords
    <3>1. \A j, n \in Int : j + 1 = n => j = n - 1
      OBVIOUS
    <3>2. i \in Int /\ Len(s) \in Int
      BY <1>1
    <3>3. i = Len(s) - 1
      BY <2>3, <3>1, <3>2, Zenon
    <3>4. i = Len(Tail(s))
      BY <1>1, <3>3, Zenon
    <3> QED
      BY <2>1, <2>3, <3>4, Zenon
  <2>4. CASE i + 1 <= Len(q) /\ s[i + 1] = q[i + 1]
    <3>1. i \in 1..Len(q) - 1
      BY <1>1, <1>2, <1>5, <2>4
    <3> QED
      BY <1>2, <2>1, <2>4, <3>1
  <2> QED
    BY <2>2, <2>3, <2>4
<1> QED
  BY <1>3, <1>4, <1>5 DEF Answers

LEMMA AnswersNobody ==
  ASSUME NEW s \in Seq(Packets), s # << >>, Answers(s, << >>)
  PROVE  Len(s) = 1 /\ Tail(s) = << >> /\ Answers(Tail(s), << >>)
<1>1. Len(s) \in Nat \ {0} /\ 1 \in 1..Len(s)
  BY EmptySeq
<1>2. Len(s) = 1
  <2>1. 1 = Len(s) \/ 1 <= Len(<< >>)
    BY <1>1 DEF Answers
  <2>2. Len(<< >>) = 0
    BY EmptySeq
  <2> QED
    BY <2>1, <2>2
<1>3. Tail(s) = << >>
  <2>1. Tail(s) \in Seq(Packets) /\ Len(Tail(s)) = Len(s) - 1
    BY HeadTailProperties
  <2>2. Len(Tail(s)) = 0
    BY <1>2, <2>1
  <2> QED
    BY <2>1, <2>2, EmptySeq
<1>4. 1..Len(Tail(s)) = {}
  BY <1>3, EmptySeq
<1> QED
  BY <1>2, <1>3, <1>4 DEF Answers

(***************************************************************************)
(* The steps                                                               *)
(***************************************************************************)

CallStep(c) ==
  LinkAccepted(c) \/ LinkRefused(c) \/ Offer(c) \/ Release(c) \/ Return(c) \/ Disconnect(c)

RxStep ==
  \/ RxLoop \/ RxClosed \/ RxTimeout \/ RxRead \/ RxEndOfStream \/ RxException
  \/ RxFail \/ RxPair \/ RxCallback \/ RxDropped

LEMMA Steps ==
  ASSUME [Next]_vars
  PROVE  \/ UNCHANGED vars
         \/ \E c \in Calls : CallStep(c)
         \/ \E p \in Droppers : Drop(p)
         \/ TxWorker \/ RxStep \/ Answer \/ Farewell \/ Hangup \/ Reset
BY DEF Next, Call, CallStep, RxWorker, RxStep, Droppers

(***************************************************************************)
(* The types                                                               *)
(***************************************************************************)

\* Where everybody is.
ControlTyped ==
  /\ open \in BOOLEAN /\ isConnected \in BOOLEAN /\ onService \in BOOLEAN
  /\ cpc \in [Calls -> {"idle", "offer", "release", "wait", "returned"}]
  /\ dpc \in [Droppers -> {"no", "test", "set", "joinTx", "joinRx", "close", "done"}]
  /\ tpc \in {"loop", "acquire", "check", "take", "send", "record", "ended"}
  /\ rpc \in {"loop", "select", "dispatch", "callback", "eof", "fail", "ended"}
  /\ stuck \in BOOLEAN
  /\ server \in {"up", "closed", "reset"}

\* What the sessions hold.
SessionsTyped ==
  /\ status \in [Calls -> {"OK", "error"}]
  /\ reply \in [Calls -> Packets \cup {Nothing}]
  /\ released \subseteq Calls
  /\ cur \in Calls \cup {Nothing} /\ (tpc = "send" => cur \in Calls)
  /\ sent \in {"OK", "error"}

\* What is queued or on its way.
QueuesTyped ==
  /\ txQueue \in Seq(Calls) /\ rxQueue \in Seq(Calls)
  /\ permits \in Nat
  /\ rxBuffer \in Seq(Packets)
  /\ toServer \in Seq(Calls) /\ toClient \in Seq(Packets) /\ leaving \in BOOLEAN
  /\ doubles \in 0..MaxDoubles

Typed == ControlTyped /\ SessionsTyped /\ QueuesTyped

LEMMA ControlTypedKept == ControlTyped /\ [Next]_vars => ControlTyped'
<1> SUFFICES ASSUME ControlTyped, [Next]_vars PROVE ControlTyped'
  OBVIOUS
<1> USE DEF ControlTyped, service, queues, session, tx, rx, net
<1>1. CASE UNCHANGED vars
  BY <1>1 DEF vars
<1>2. ASSUME NEW c \in Calls, CallStep(c) PROVE ControlTyped'
  <2>1. c \in Droppers
    BY DEF Droppers
  <2> QED
    BY <1>2, <2>1 DEF CallStep, LinkAccepted, LinkRefused, Offer, Release, Return, Disconnect, CallGoes
<1>3. ASSUME NEW p \in Droppers, Drop(p) PROVE ControlTyped'
  <2>1. CASE DropTest(p)
    BY <2>1 DEF DropTest, DropGoes
  <2>2. CASE StopSet(p)
    BY <2>2 DEF StopSet, DropGoes
  <2>3. CASE JoinTx(p) \/ JoinRx(p)
    BY <2>3 DEF JoinTx, JoinRx, DropGoes
  <2>4. CASE Close(p)
    BY <2>4 DEF Close, DropGoes
  <2> QED
    BY <1>3, <2>1, <2>2, <2>3, <2>4 DEF Drop
<1>4. CASE TxWorker
  BY <1>4 DEF TxWorker, TxLoop, TxAcquire, TxCheck, TxTake, TxSend, TxRecord, TxGoes
<1>5. CASE RxStep
  <2>1. Rx \in Droppers
    BY DEF Droppers
  <2>2. CASE RxEndOfStream
    BY <2>1, <2>2 DEF RxEndOfStream, RxGoes
  <2>3. CASE RxCallback
    BY <2>1, <2>3 DEF RxCallback, RxGoes, AfterPacket
  <2>4. CASE RxException
    BY <2>4 DEF RxException, RxGoes
  <2>5. CASE RxPair \/ RxDropped
    BY <2>5 DEF RxPair, RxDropped, RxGoes, AfterPacket
  <2> QED
    BY <1>5, <2>2, <2>3, <2>4, <2>5 DEF RxStep, RxLoop, RxClosed, RxTimeout, RxRead, RxFail, RxGoes
<1>6. CASE Answer \/ Farewell \/ Hangup \/ Reset
  BY <1>6 DEF Answer, Farewell, Hangup, Reset
<1> QED
  BY <1>1, <1>2, <1>3, <1>4, <1>5, <1>6, Steps

LEMMA HeadsTyped ==
  ASSUME NEW S, NEW s \in Seq(S), s # << >>
  PROVE  Head(s) \in S /\ Tail(s) \in Seq(S)
BY HeadTailProperties

LEMMA SessionsTypedKept == SessionsTyped /\ QueuesTyped /\ [Next]_vars => SessionsTyped'
<1> SUFFICES ASSUME SessionsTyped, QueuesTyped, [Next]_vars PROVE SessionsTyped'
  OBVIOUS
<1>r. ASSUME NEW q \in Seq(Calls) PROVE Range(q) \subseteq Calls
  <2>1. DOMAIN q = 1..Len(q) /\ \A i \in 1..Len(q) : q[i] \in Calls
    BY LenProperties, ElementOfSeq
  <2> QED
    BY <2>1 DEF Range
<1> USE DEF SessionsTyped, service, queues, session, tx, rx, net
<1>1. CASE UNCHANGED vars
  BY <1>1 DEF vars
<1>2. ASSUME NEW c \in Calls, CallStep(c) PROVE SessionsTyped'
  BY <1>2 DEF CallStep, LinkAccepted, LinkRefused, Offer, Release, Return, Disconnect
<1>3. ASSUME NEW p \in Droppers, Drop(p) PROVE SessionsTyped'
  BY <1>3 DEF Drop, DropTest, StopSet, JoinTx, JoinRx, Close
<1>4. CASE TxWorker
  <2>1. CASE TxCheck
    BY <2>1, <1>r DEF TxCheck, Fail, TxGoes, QueuesTyped
  <2>2. CASE TxTake
    BY <2>2, HeadsTyped DEF TxTake, TxGoes, QueuesTyped
  <2>3. CASE TxSend \/ TxRecord
    BY <2>3 DEF TxSend, TxRecord, TxGoes
  <2> QED
    BY <1>4, <2>1, <2>2, <2>3 DEF TxWorker, TxLoop, TxAcquire, TxGoes
<1>5. CASE RxStep
  <2>1. CASE RxFail
    BY <2>1, <1>r DEF RxFail, Fail, QueuesTyped
  <2>2. CASE RxPair
    <3>1. Head(rxQueue) \in Calls /\ Head(rxBuffer) \in Packets
      BY <2>2, HeadsTyped DEF RxPair, QueuesTyped
    <3> QED
      BY <2>2, <3>1 DEF RxPair
  <2> QED
    BY <1>5, <2>1, <2>2 DEF RxStep, RxLoop, RxClosed, RxTimeout, RxRead, RxEndOfStream, RxException,
       RxCallback, RxDropped
<1>6. CASE Answer \/ Farewell \/ Hangup \/ Reset
  BY <1>6 DEF Answer, Farewell, Hangup, Reset
<1> QED
  BY <1>1, <1>2, <1>3, <1>4, <1>5, <1>6, Steps

LEMMA SequencesGrow ==
  /\ \A S : \A s \in Seq(S), e \in S : Append(s, e) \in Seq(S)
  /\ \A S : \A s, t \in Seq(S) : s \o t \in Seq(S)
  /\ \A S : << >> \in Seq(S)
  /\ \A S : \A e \in S : <<e, e>> \in Seq(S)
  /\ \A s \in Seq(Calls) : s \in Seq(Packets)
<1>1. \A s \in Seq(Calls) : s \in Seq(Packets)
  BY SeqMonotonic DEF Packets
<1>2. \A S : \A e \in S : <<e, e>> \in Seq(S)
  OBVIOUS
<1>3. \A S : \A s, t \in Seq(S) : s \o t \in Seq(S)
  BY ConcatProperties
<1>4. \A S : \A s \in Seq(S), e \in S : Append(s, e) \in Seq(S)
  BY AppendProperties
<1> QED
  BY <1>1, <1>2, <1>3, <1>4, EmptySeq

LEMMA QueuesTypedKept == SessionsTyped /\ QueuesTyped /\ [Next]_vars => QueuesTyped'
<1> SUFFICES ASSUME SessionsTyped, QueuesTyped, [Next]_vars PROVE QueuesTyped'
  OBVIOUS
<1> USE DEF QueuesTyped, service, queues, session, tx, rx, net
<1>1. CASE UNCHANGED vars
  BY <1>1 DEF vars
<1>2. ASSUME NEW c \in Calls, CallStep(c) PROVE QueuesTyped'
  <2>1. CASE Offer(c)
    BY <2>1, SequencesGrow DEF Offer
  <2>2. CASE Release(c)
    BY <2>2 DEF Release
  <2>3. CASE Disconnect(c)
    BY <2>3 DEF Disconnect
  <2> QED
    BY <1>2, <2>1, <2>2, <2>3 DEF CallStep, LinkAccepted, LinkRefused, Return
<1>3. ASSUME NEW p \in Droppers, Drop(p) PROVE QueuesTyped'
  BY <1>3 DEF Drop, DropTest, StopSet, JoinTx, JoinRx, Close
<1>4. CASE TxWorker
  <2>1. CASE TxCheck
    BY <2>1, SequencesGrow DEF TxCheck
  <2>2. CASE TxTake
    BY <2>2, HeadsTyped, SequencesGrow DEF TxTake
  <2>3. CASE TxSend
    BY <2>3, SequencesGrow DEF TxSend, TxGoes, SessionsTyped
  <2>4. CASE TxAcquire
    BY <2>4 DEF TxAcquire
  <2> QED
    BY <1>4, <2>1, <2>2, <2>3, <2>4 DEF TxWorker, TxLoop, TxRecord
<1>5. CASE RxStep
  <2>1. CASE RxRead
    BY <2>1, SequencesGrow DEF RxRead
  <2>2. CASE RxFail
    BY <2>2, SequencesGrow DEF RxFail
  <2>3. CASE RxPair
    <3>1. Tail(rxQueue) \in Seq(Calls) /\ Tail(rxBuffer) \in Seq(Packets)
      BY <2>3, HeadsTyped DEF RxPair
    <3> QED
      BY <2>3, <3>1 DEF RxPair
  <2>4. CASE RxCallback
    <3>1. Tail(rxBuffer) \in Seq(Packets)
      BY <2>4, HeadsTyped DEF RxCallback
    <3> QED
      BY <2>4, <3>1 DEF RxCallback
  <2> QED
    BY <1>5, <2>1, <2>2, <2>3, <2>4 DEF RxStep, RxLoop, RxClosed, RxTimeout, RxEndOfStream,
       RxException, RxDropped
<1>6. CASE Answer
  <2>1. /\ Head(toServer) \in Packets /\ Tail(toServer) \in Seq(Calls)
        /\ <<Head(toServer), Head(toServer)>> \in Seq(Packets)
    BY <1>6, HeadsTyped, SequencesGrow DEF Answer, Packets
  <2>2. toClient' \in Seq(Packets)
    BY <1>6, <2>1, SequencesGrow DEF Answer
  <2>3. doubles' \in 0..MaxDoubles
    BY <1>6, DoublesAssumption DEF Answer
  <2> QED
    BY <1>6, <2>1, <2>2, <2>3 DEF Answer
<1>7. CASE Farewell \/ Hangup \/ Reset
  BY <1>7, SequencesGrow DEF Farewell, Hangup, Reset, Packets, LastWords
<1> QED
  BY <1>1, <1>2, <1>3, <1>4, <1>5, <1>6, <1>7, Steps

LEMMA TypedAlways == Spec => []Typed
<1>1. Init => Typed
  <2> SUFFICES ASSUME Init PROVE Typed
    OBVIOUS
  <2>1. ControlTyped
    BY Zenon DEF Init, Established, ControlTyped
  <2>2. SessionsTyped
    BY DEF Init, SessionsTyped
  <2>3. QueuesTyped
    <3>1. leaving \in BOOLEAN
      BY Zenon DEF Init
    <3> QED
      BY <3>1, SequencesGrow, DoublesAssumption DEF Init, QueuesTyped
  <2> QED
    BY <2>1, <2>2, <2>3 DEF Typed
<1>2. Typed /\ [Next]_vars => Typed'
  BY ControlTypedKept, SessionsTypedKept, QueuesTypedKept DEF Typed
<1> QED
  BY <1>1, <1>2, PTL DEF Spec

\* Every variable keeps its type, whatever is queued, read, dropped or lost.
THEOREM TypeCorrect == Spec => []TypeOK
<1>1. Typed => TypeOK
  BY Zenon DEF Typed, ControlTyped, SessionsTyped, QueuesTyped, TypeOK
<1> QED
  BY <1>1, TypedAlways, PTL

(***************************************************************************)
(* The connection                                                          *)
(***************************************************************************)

LEMMA LinkKept == Typed /\ LinkInv /\ [Next]_vars => LinkInv'
<1> SUFFICES ASSUME Typed, LinkInv, [Next]_vars PROVE LinkInv'
  OBVIOUS
<1>t. Typed'
  BY ControlTypedKept, SessionsTypedKept, QueuesTypedKept DEF Typed
<1>c. tpc' = "send" => cur' \in Calls
  BY <1>t DEF Typed, SessionsTyped
<1> USE DEF LinkInv, Live, service, queues, session, tx, rx, net
<1>d. dpc \in [Droppers -> {"no", "test", "set", "joinTx", "joinRx", "close", "done"}]
  BY DEF Typed, ControlTyped
<1>1. CASE UNCHANGED vars
  BY <1>1 DEF vars
<1>2. ASSUME NEW c \in Calls, CallStep(c) PROVE LinkInv'
  BY <1>2, <1>c, <1>d DEF CallStep, LinkAccepted, LinkRefused, Offer, Release, Return, Disconnect
<1>3. ASSUME NEW p \in Droppers, Drop(p) PROVE LinkInv'
  <2>1. CASE DropTest(p)
    BY <2>1, <1>c, <1>d DEF DropTest, DropGoes
  <2>2. CASE StopSet(p)
    BY <2>2, <1>c, <1>d DEF StopSet, DropGoes
  <2>3. CASE JoinTx(p) \/ JoinRx(p)
    BY <2>3, <1>c, <1>d DEF JoinTx, JoinRx, DropGoes
  <2>4. CASE Close(p)
    BY <2>4, <1>c, <1>d DEF Close, DropGoes
  <2> QED
    BY <1>3, <2>1, <2>2, <2>3, <2>4 DEF Drop
<1>4. CASE TxWorker
  BY <1>4, <1>c DEF TxWorker, TxLoop, TxAcquire, TxCheck, TxTake, TxSend, TxRecord
<1>5. CASE RxStep
  <2>1. CASE RxLoop \/ RxClosed \/ RxTimeout
    BY <2>1, <1>c DEF RxLoop, RxClosed, RxTimeout, RxGoes
  <2>2. CASE RxRead
    BY <2>2, <1>c DEF RxRead, RxGoes
  <2>3. CASE RxEndOfStream
    BY <2>3, <1>c, <1>d DEF RxEndOfStream, RxGoes
  <2>4. CASE RxException \/ RxFail
    BY <2>4, <1>c DEF RxException, RxFail, RxGoes
  <2>5. CASE RxPair
    BY <2>5, <1>c, LastTaken DEF RxPair, RxGoes, AfterPacket, Typed, QueuesTyped
  <2>6. CASE RxCallback
    BY <2>6, <1>c, <1>d, LastTaken DEF RxCallback, RxGoes, AfterPacket, Typed, QueuesTyped
  <2>7. CASE RxDropped
    BY <2>7, <1>c DEF RxDropped, RxGoes, Droppers
  <2> QED
    BY <1>5, <2>1, <2>2, <2>3, <2>4, <2>5, <2>6, <2>7 DEF RxStep
<1>6. CASE Answer \/ Farewell \/ Hangup \/ Reset
  BY <1>6, <1>c DEF Answer, Farewell, Hangup, Reset
<1> QED
  BY <1>1, <1>2, <1>3, <1>4, <1>5, <1>6, Steps

LEMMA LinkInvariant == Spec => [](Typed /\ LinkInv)
<1>1. Init => LinkInv
  BY DEF Init, Established, LinkInv, Live
<1>2. Typed /\ LinkInv /\ [Next]_vars => LinkInv'
  BY LinkKept
<1> QED
  BY <1>1, <1>2, TypedAlways, PTL DEF Spec

(***************************************************************************)
(* The order of requests and replies                                       *)
(***************************************************************************)

LEMMA PacketsAppended ==
  \A s, t \in Seq(Packets) : \A e \in Packets : Append(s \o t, e) = s \o Append(t, e)
<1>1. ASSUME NEW s \in Seq(Packets), NEW t \in Seq(Packets), NEW e \in Packets
      PROVE  Append(s \o t, e) = s \o Append(t, e)
  <2>1. <<e>> \in Seq(Packets) /\ s \o t \in Seq(Packets)
    BY ConcatProperties
  <2>2. Append(s \o t, e) = (s \o t) \o <<e>> /\ Append(t, e) = t \o <<e>>
    BY <2>1, AppendIsConcat
  <2>3. (s \o t) \o <<e>> = s \o (t \o <<e>>)
    BY <2>1, ConcatAssociative
  <2> QED
    BY <2>2, <2>3
<1> QED
  BY <1>1, Zenon

\* What OrderInv says of a server that still answers.
Follows(rest) == Incoming \o Unanswered(rest) = rxQueue /\ (~leaving => rest = Unsent)

\* Steps that touch neither the queues nor what is on its way; the server may be told to leave.
LEMMA OrderUntouched ==
  ASSUME OrderInv, leaving => leaving',
         UNCHANGED <<open, stuck, rxBuffer, toClient, server, toServer, rxQueue, Unsent>>
  PROVE  OrderInv'
<1>1. UNCHANGED <<Incoming, Live, server, rxQueue>>
  BY DEF Incoming, Live
<1>2. Answers(Incoming, rxQueue)'
  BY <1>1 DEF OrderInv, Answers
<1>3. ASSUME Live', server' = "up" PROVE \E rest \in Seq(Calls) : Follows(rest)'
  <2>1. PICK rest \in Seq(Calls) : Follows(rest)
    BY <1>1, <1>3 DEF OrderInv, Follows
  <2>2. Follows(rest)'
    BY <1>1, <2>1 DEF Follows, Unanswered
  <2> QED
    BY <2>2
<1> QED
  BY <1>2, <1>3 DEF OrderInv, Follows

\* A session enters RxQueue before its request is sent.
LEMMA TxKeepsOrder == ASSUME Typed, OrderInv, TxWorker PROVE OrderInv'
<1> USE DEF service, queues, session, tx, rx, net
<1>q. /\ {rxQueue, toServer} \subseteq Seq(Packets)
      /\ {rxBuffer, toClient} \subseteq Seq(Packets)
  BY SequencesGrow DEF Typed, QueuesTyped
<1>i. Incoming \in Seq(Packets)
  BY <1>q, SequencesGrow DEF Incoming
<1>1. CASE TxLoop \/ TxAcquire \/ TxCheck \/ TxRecord
  <2>1. /\ UNCHANGED <<open, stuck, rxBuffer, toClient, server, toServer, rxQueue, Unsent>>
        /\ UNCHANGED leaving
    BY <1>1 DEF TxLoop, TxAcquire, TxCheck, TxRecord, TxGoes, Unsent
  <2> QED
    BY <2>1, OrderUntouched
<1>2. CASE TxTake /\ txQueue = << >>
  <2>1. /\ UNCHANGED <<open, stuck, rxBuffer, toClient, server, toServer, rxQueue, Unsent>>
        /\ UNCHANGED leaving
    BY <1>2 DEF TxTake, TxGoes, Unsent
  <2> QED
    BY <2>1, OrderUntouched
<1>3. CASE TxTake /\ txQueue # << >>
  <2>1. PICK c \in Calls : c = Head(txQueue)
    BY <1>3, HeadsTyped DEF Typed, QueuesTyped
  <2>2. /\ rxQueue' = Append(rxQueue, c) /\ Unsent = << >> /\ Unsent' = <<c>>
        /\ UNCHANGED <<Incoming, toServer, leaving, Live, server>>
    BY <1>3, <2>1 DEF TxTake, TxGoes, Incoming, Live, Unsent
  <2>3. Answers(Incoming', rxQueue')
    <3>1. c \in Packets
      BY DEF Packets
    <3>2. Answers(Incoming, Append(rxQueue, c))
      BY <1>i, <1>q, <3>1, AnswersLongerQueue DEF OrderInv
    <3> QED
      BY <2>2, <3>2, Zenon
  <2>4. ASSUME Live', server' = "up" PROVE \E rest \in Seq(Calls) : Follows(rest)'
    <3>1. PICK rest \in Seq(Calls) : Follows(rest)
      BY <2>2, <2>4 DEF OrderInv, Follows
    <3>2. /\ rest \in Seq(Packets) /\ c \in Packets /\ toServer \in Seq(Packets)
          /\ toServer \o rest \in Seq(Packets)
      BY <1>q, SequencesGrow DEF Packets
    <3>3. Append(toServer \o rest, c) = toServer \o Append(rest, c)
      BY <3>2, PacketsAppended, Zenon
    <3>4. Append(Incoming \o (toServer \o rest), c) = Incoming \o Append(toServer \o rest, c)
      BY <1>i, <3>2, PacketsAppended, Zenon
    <3>5. Incoming \o (toServer \o Append(rest, c)) = Append(rxQueue, c)
      BY <3>1, <3>3, <3>4, Zenon DEF Follows, Unanswered
    <3>6. rest = << >> => Append(rest, c) = <<c>>
      OBVIOUS
    <3>7. Append(rest, c) \in Seq(Calls)
      BY SequencesGrow
    <3>8. Follows(Append(rest, c))'
      BY <2>2, <3>1, <3>5, <3>6, Zenon DEF Follows, Unanswered
    <3> QED
      BY <3>7, <3>8
  <2> QED
    BY <2>3, <2>4 DEF OrderInv, Follows
<1>4. CASE TxSend
  <2>1. UNCHANGED <<rxQueue, Incoming, Live, server, leaving>>
    BY <1>4 DEF TxSend, Incoming, Live
  <2>2. Answers(Incoming', rxQueue')
    BY <2>1 DEF OrderInv, Answers
  <2>3. ASSUME Live', server' = "up" PROVE \E rest \in Seq(Calls) : Follows(rest)'
    <3>1. PICK rest \in Seq(Calls) : Follows(rest)
      BY <2>1, <2>3 DEF OrderInv, Follows
    <3>2. CASE leaving
      <4>1. UNCHANGED toServer
        BY <1>4, <2>1, <2>3, <3>2 DEF TxSend, Reads, Live
      <4>2. Follows(rest)'
        BY <2>1, <3>1, <3>2, <4>1 DEF Follows, Unanswered
      <4> QED
        BY <4>2
    <3>3. CASE ~leaving
      <4>1. cur \in Calls
        BY <1>4 DEF TxSend, TxGoes, Typed, SessionsTyped
      <4>2. toServer' = Append(toServer, cur) /\ rest = <<cur>> /\ Unsent' = << >>
        BY <1>4, <2>1, <2>3, <3>1, <3>3 DEF TxSend, TxGoes, Reads, Live, Unsent, Follows
      <4>3. cur \in Packets /\ Append(toServer, cur) \in Seq(Packets)
        BY <1>q, <4>1, SequencesGrow DEF Packets
      <4>4. Append(toServer, cur) \o << >> = toServer \o <<cur>>
        BY <1>q, <4>3, AppendIsConcat, ConcatEmptySeq
      <4>5. Follows(<< >>)'
        BY <2>1, <3>1, <4>2, <4>4 DEF Follows, Unanswered
      <4> QED
        BY <4>5, SequencesGrow
    <3> QED
      BY <3>2, <3>3
  <2> QED
    BY <2>2, <2>3 DEF OrderInv, Follows
<1> QED
  BY <1>1, <1>2, <1>3, <1>4 DEF TxWorker

LEMMA FollowsTyped ==
  \A rest \in Seq(Calls) : Typed => Unanswered(rest) \in Seq(Packets)
<1>1. ASSUME NEW rest \in Seq(Calls), Typed PROVE Unanswered(rest) \in Seq(Packets)
  <2>1. rest \in Seq(Packets) /\ toServer \in Seq(Packets)
    BY <1>1, SequencesGrow DEF Typed, QueuesTyped
  <2> QED
    BY <2>1, SequencesGrow DEF Unanswered
<1> QED
  BY <1>1

\* The first packet that RxWorker has read is the first that is incoming.
LEMMA FirstIncoming ==
  ASSUME Typed, rxBuffer # << >>
  PROVE  /\ Tail(rxBuffer) \o toClient = Tail(rxBuffer \o toClient)
         /\ Incoming # << >> /\ Incoming \in Seq(Packets) /\ Head(Incoming) = Head(rxBuffer)
<1>1. rxBuffer \in Seq(Packets) /\ toClient \in Seq(Packets)
  BY DEF Typed, QueuesTyped
<1> QED
  BY <1>1, TailOfConcat, SequencesGrow DEF Incoming

\* While the server may still answer, the first packet answers the first session of RxQueue.
LEMMA FirstAnswers ==
  ASSUME Typed, OrderInv, rxBuffer # << >>, Live, server = "up"
  PROVE  /\ rxQueue # << >> /\ Head(rxBuffer) = Head(rxQueue)
         /\ \E rest \in Seq(Calls) :
              /\ Tail(Incoming) \o Unanswered(rest) = Tail(rxQueue)
              /\ ~leaving => rest = Unsent
<1>1. PICK rest \in Seq(Calls) : Follows(rest)
  BY DEF OrderInv, Follows
<1>2. Unanswered(rest) \in Seq(Packets)
  BY FollowsTyped
<1>3. /\ Incoming \o Unanswered(rest) # << >>
      /\ Head(Incoming \o Unanswered(rest)) = Head(Incoming)
      /\ Tail(Incoming \o Unanswered(rest)) = Tail(Incoming) \o Unanswered(rest)
  BY <1>2, FirstIncoming, TailOfConcat
<1> QED
  BY <1>1, <1>3, FirstIncoming DEF Follows

\* RxWorker reads what is incoming, gives it to the first session of RxQueue, and fails the
\* sessions only when nothing more can come in.
LEMMA RxKeepsOrder == ASSUME Typed, LinkInv, OrderInv, RxStep PROVE OrderInv'
<1> USE DEF service, queues, session, tx, rx, net
<1>q. rxQueue \in Seq(Packets) /\ rxBuffer \in Seq(Packets) /\ toClient \in Seq(Packets)
  BY SequencesGrow DEF Typed, QueuesTyped
<1>i. Incoming \in Seq(Packets)
  BY <1>q, SequencesGrow DEF Incoming
<1>1. CASE RxLoop \/ RxClosed \/ RxTimeout \/ RxEndOfStream \/ RxDropped
  <2>1. /\ UNCHANGED <<open, stuck, rxBuffer, toClient, server, toServer, rxQueue, Unsent>>
        /\ UNCHANGED leaving
    BY <1>1 DEF RxLoop, RxClosed, RxTimeout, RxEndOfStream, RxDropped, Unsent
  <2> QED
    BY <2>1, OrderUntouched
<1>2. CASE RxRead
  <2>1. /\ Incoming = rxBuffer \o toClient /\ Incoming' = (rxBuffer \o toClient) \o << >>
        /\ UNCHANGED <<Live, server, rxQueue, toServer, leaving, Unsent>>
    BY <1>2 DEF RxRead, Incoming, Live, Unsent
  <2>2. Incoming' = Incoming
    BY <1>i, <2>1, ConcatEmptySeq
  <2>3. Answers(Incoming', rxQueue')
    BY <2>1, <2>2 DEF OrderInv, Answers
  <2>4. ASSUME Live', server' = "up" PROVE \E rest \in Seq(Calls) : Follows(rest)'
    <3>1. PICK rest \in Seq(Calls) : Follows(rest)
      BY <2>1, <2>4 DEF OrderInv, Follows
    <3>2. Follows(rest)'
      BY <2>1, <2>2, <3>1 DEF Follows, Unanswered
    <3> QED
      BY <3>2
  <2> QED
    BY <2>3, <2>4 DEF OrderInv, Follows
<1>3. CASE RxException \/ RxFail
  <2>1. rxBuffer = << >> /\ Incoming' = rxBuffer /\ ~Live'
    BY <1>3 DEF RxException, RxFail, RxGoes, LinkInv, Incoming, Live
  <2>2. Answers(Incoming', rxQueue')
    BY <2>1, EmptySeq DEF Answers
  <2> QED
    BY <2>1, <2>2 DEF OrderInv
<1>4. CASE RxPair
  <2>1. /\ rxBuffer # << >> /\ rxQueue # << >>
        /\ rxQueue' = Tail(rxQueue)
        /\ Incoming' = Tail(Incoming)
        /\ UNCHANGED <<Live, server, toServer, leaving, Unsent>>
    BY <1>4, FirstIncoming DEF RxPair, Incoming, Live, Unsent
  <2>2. Answers(Tail(Incoming), Tail(rxQueue))
    BY <1>q, <2>1, FirstIncoming, AnswersFirst DEF OrderInv
  <2>3. Answers(Incoming', rxQueue')
    BY <2>1, <2>2, Zenon
  <2>4. ASSUME Live', server' = "up" PROVE \E rest \in Seq(Calls) : Follows(rest)'
    <3>1. PICK rest \in Seq(Calls) :
            Tail(Incoming) \o Unanswered(rest) = Tail(rxQueue) /\ (~leaving => rest = Unsent)
      BY <2>1, <2>4, FirstAnswers
    <3>2. Follows(rest)'
      BY <2>1, <3>1 DEF Follows, Unanswered
    <3> QED
      BY <3>2
  <2> QED
    BY <2>3, <2>4 DEF OrderInv, Follows
<1>5. CASE RxCallback
  <2>1. /\ rxBuffer # << >> /\ rxQueue = << >> /\ rxQueue' = << >>
        /\ Incoming' = Tail(Incoming)
        /\ UNCHANGED <<Live, server>>
    BY <1>5, FirstIncoming DEF RxCallback, Incoming, Live
  <2>2. Answers(Tail(Incoming), << >>)
    BY <2>1, FirstIncoming, AnswersNobody DEF OrderInv
  <2>3. Answers(Incoming', rxQueue')
    BY <2>1, <2>2, Zenon
  <2>4. ~(Live /\ server = "up")
    BY <2>1, FirstAnswers
  <2> QED
    BY <2>1, <2>3, <2>4 DEF OrderInv
<1> QED
  BY <1>1, <1>2, <1>3, <1>4, <1>5 DEF RxStep

\* The server answers in the order of the requests; its last words may be others.
LEMMA ServerKeepsOrder ==
  ASSUME Typed, OrderInv, doubles' = 0, Answer \/ Farewell \/ Hangup \/ Reset
  PROVE  OrderInv'
<1> USE DEF service, queues, session, tx, rx, net
<1>q. /\ rxQueue \in Seq(Packets) /\ toServer \in Seq(Packets)
      /\ rxBuffer \in Seq(Packets) /\ toClient \in Seq(Packets)
  BY SequencesGrow DEF Typed, QueuesTyped
<1>i. Incoming \in Seq(Packets)
  BY <1>q, SequencesGrow DEF Incoming
<1>u. UNCHANGED <<open, stuck, rxBuffer, rxQueue, Unsent, Live, leaving>>
  BY DEF Answer, Farewell, Hangup, Reset, Unsent, Live
<1>a. \A e \in Packets :
        Live => Append(Incoming, e) = rxBuffer \o Append(toClient, e)
  <2>1. ASSUME NEW e \in Packets, Live PROVE Append(Incoming, e) = rxBuffer \o Append(toClient, e)
    <3>1. Append(rxBuffer \o toClient, e) = rxBuffer \o Append(toClient, e)
      BY <1>q, PacketsAppended, Zenon
    <3> QED
      BY <2>1, <3>1 DEF Incoming
  <2> QED
    BY <2>1
<1>1. CASE ~Live
  BY <1>1, <1>u DEF OrderInv, Incoming, Live, Answers
<1>2. CASE Answer /\ Live
  <2>1. /\ toServer # << >> /\ server = "up" /\ server' = "up"
        /\ toServer' = Tail(toServer)
        /\ toClient' = Append(toClient, Head(toServer))
    BY <1>2, DoublesAssumption DEF Answer, Typed, QueuesTyped
  <2>2. Head(toServer) \in Packets /\ Tail(toServer) \in Seq(Packets)
    BY <1>q, <2>1, HeadsTyped
  <2>3. Incoming' = Append(Incoming, Head(toServer)) /\ Incoming' \in Seq(Packets)
    BY <1>a, <1>i, <1>u, <1>2, <2>1, <2>2, SequencesGrow DEF Incoming
  <2>4. PICK rest \in Seq(Calls) : Follows(rest)
    BY <1>2, <2>1 DEF OrderInv, Follows
  <2>5. rest \in Seq(Packets) /\ Unanswered(rest) \in Seq(Packets)
    BY SequencesGrow, FollowsTyped
  <2>6. /\ Unanswered(rest) # << >> /\ Head(Unanswered(rest)) = Head(toServer)
        /\ Tail(Unanswered(rest)) = Tail(toServer) \o rest
    BY <1>q, <2>1, <2>5, TailOfConcat DEF Unanswered
  <2>7. Append(Incoming, Head(Unanswered(rest))) \o Tail(Unanswered(rest))
          = Incoming \o Unanswered(rest)
    BY <1>i, <2>5, <2>6, HeadMoves
  <2>8. Incoming' \o (Tail(toServer) \o rest) = rxQueue
    BY <2>3, <2>4, <2>6, <2>7 DEF Follows
  <2>9. Follows(rest)'
    BY <1>u, <2>1, <2>4, <2>8, Zenon DEF Follows, Unanswered
  <2>10. Tail(toServer) \o rest \in Seq(Packets)
    BY <2>2, <2>5, SequencesGrow
  <2>11. Bye \in LastWords
    BY DEF LastWords
  <2>12. Answers(Incoming', Incoming' \o (Tail(toServer) \o rest))
    BY <2>3, <2>10, <2>11, AnswersBegin
  <2>13. Answers(Incoming', rxQueue')
    BY <1>u, <2>8, <2>12, Zenon
  <2> QED
    BY <2>9, <2>13 DEF OrderInv, Follows
<1>3. CASE (Farewell \/ Hangup) /\ Live
  <2>1. PICK w \in LastWords :
          server = "up" /\ server' = "closed" /\ toClient' \in {toClient, Append(toClient, w)}
    BY <1>3 DEF Farewell, Hangup, LastWords
  <2>2. w \in Packets
    BY DEF Packets
  <2>3. Incoming' \in {Incoming, Append(Incoming, w)}
    BY <1>a, <1>u, <1>3, <2>1, <2>2 DEF Incoming
  <2>4. PICK rest \in Seq(Calls) : Follows(rest)
    BY <1>3, <2>1 DEF OrderInv, Follows
  <2>5. Answers(Incoming, rxQueue) /\ Answers(Append(Incoming, w), rxQueue)
    <3>1. Unanswered(rest) \in Seq(Packets)
      BY FollowsTyped
    <3>2. /\ Answers(Incoming, Incoming \o Unanswered(rest))
          /\ Answers(Append(Incoming, w), Incoming \o Unanswered(rest))
      BY <1>i, <3>1, AnswersBegin
    <3> QED
      BY <2>4, <3>2, Zenon DEF Follows
  <2>6. Answers(Incoming', rxQueue')
    <3>1. CASE Incoming' = Incoming
      BY <1>u, <2>5, <3>1, Zenon
    <3>2. CASE Incoming' = Append(Incoming, w)
      BY <1>u, <2>5, <3>2, Zenon
    <3> QED
      BY <2>3, <3>1, <3>2
  <2> QED
    BY <2>1, <2>6 DEF OrderInv
<1>4. CASE Reset /\ Live
  <2>1. server' = "reset" /\ toClient' = << >>
    BY <1>4 DEF Reset
  <2>2. Incoming' = rxBuffer
    BY <1>q, <1>u, <1>4, <2>1, ConcatEmptySeq DEF Incoming
  <2>3. Answers(rxBuffer, rxQueue)
    BY <1>q, <1>4, AnswersPrefix DEF OrderInv, Incoming
  <2>4. Answers(Incoming', rxQueue')
    BY <1>u, <2>2, <2>3, Zenon
  <2> QED
    BY <2>1, <2>4 DEF OrderInv
<1> QED
  BY <1>1, <1>2, <1>3, <1>4

\* Closing the channel, and everything that callers do besides.
LEMMA CallersKeepOrder ==
  ASSUME Typed, OrderInv,
         \/ \E c \in Calls : CallStep(c)
         \/ \E p \in Droppers : Drop(p)
  PROVE  OrderInv'
<1> USE DEF service, queues, session, tx, rx, net
<1>q. rxBuffer \in Seq(Packets) /\ toClient \in Seq(Packets) /\ rxQueue \in Seq(Packets)
  BY SequencesGrow DEF Typed, QueuesTyped
<1>1. ASSUME NEW c \in Calls, CallStep(c) PROVE OrderInv'
  <2>1. /\ UNCHANGED <<open, stuck, rxBuffer, toClient, server, toServer, rxQueue, Unsent>>
        /\ leaving => leaving'
    BY <1>1 DEF CallStep, LinkAccepted, LinkRefused, Offer, Release, Return, Disconnect, Unsent
  <2> QED
    BY <2>1, OrderUntouched
<1>2. ASSUME NEW p \in Droppers, Drop(p), ~Close(p) PROVE OrderInv'
  <2>1. /\ UNCHANGED <<open, stuck, rxBuffer, toClient, server, toServer, rxQueue, Unsent>>
        /\ UNCHANGED leaving
    BY <1>2 DEF Drop, DropTest, StopSet, JoinTx, JoinRx, Unsent
  <2> QED
    BY <2>1, OrderUntouched
<1>3. ASSUME NEW p \in Droppers, Close(p) PROVE OrderInv'
  <2>1. ~Live' /\ Incoming' = rxBuffer /\ UNCHANGED rxQueue
    BY <1>3 DEF Close, Live, Incoming
  <2>2. Answers(rxBuffer, rxQueue)
    BY <1>q, AnswersPrefix DEF OrderInv, Incoming
  <2>3. Answers(Incoming', rxQueue')
    BY <2>1, <2>2, Zenon
  <2> QED
    BY <2>1, <2>3 DEF OrderInv
<1> QED
  BY <1>1, <1>2, <1>3

\* A step other than RxPair gives nobody a reply, and brings nothing in behind the last words.
LEMMA NothingAfterLastWords ==
  ASSUME Typed, LinkInv, LastInv, [Next]_vars, ~RxPair
  PROVE  LastInv' /\ UNCHANGED reply
<1> USE DEF service, queues, session, tx, rx, net
<1>q. rxBuffer \in Seq(Packets) /\ toClient \in Seq(Packets)
  BY DEF Typed, QueuesTyped
<1>1. UNCHANGED reply
  BY Steps DEF vars, CallStep, LinkAccepted, LinkRefused, Offer, Release, Return, Disconnect,
     Drop, DropTest, StopSet, JoinTx, JoinRx, Close, TxWorker, TxLoop, TxAcquire, TxCheck, TxTake,
     TxSend, TxRecord, RxStep, RxLoop, RxClosed, RxTimeout, RxRead, RxEndOfStream, RxException,
     RxFail, RxCallback, RxDropped, Answer, Farewell, Hangup, Reset
<1>2. SUFFICES ASSUME Incoming = << >>, ~(Live /\ server = "up")
               PROVE  Incoming' = << >> /\ ~(Live /\ server = "up")'
  BY <1>1 DEF LastInv, ToldLastWords
<1>3. rxBuffer = << >> /\ (Live => toClient = << >>)
  BY <1>2, <1>q, ConcatEqualIffEmpty DEF Incoming
<1>4. << >> \o << >> = << >>
  BY EmptySeq, ConcatEmptySeq
<1>5. /\ rxBuffer' = << >> /\ (Live' => Live) /\ (server' = "up" => server = "up")
      /\ Live => toClient' = << >>
  <2>1. ASSUME NEW c \in Calls, CallStep(c) PROVE UNCHANGED <<rxBuffer, Live, server, toClient>>
    BY <2>1 DEF Live, CallStep, LinkAccepted, LinkRefused, Offer, Release, Return, Disconnect
  <2>2. ASSUME NEW p \in Droppers, Drop(p)
        PROVE  UNCHANGED <<rxBuffer, server, toClient>> /\ (Live' => Live)
    BY <2>2 DEF Live, Drop, DropTest, StopSet, JoinTx, JoinRx, Close
  <2>3. CASE TxWorker
    BY <1>3, <2>3 DEF Live, TxWorker, TxLoop, TxAcquire, TxCheck, TxTake, TxSend, TxRecord
  <2>4. CASE RxStep
    <3>1. ~RxCallback
      BY <1>3 DEF RxCallback
    <3>2. CASE RxRead
      BY <1>3, <1>4, <3>2 DEF RxRead, Live
    <3>3. CASE RxLoop \/ RxClosed \/ RxTimeout \/ RxEndOfStream
      BY <1>3, <3>3 DEF Live, RxLoop, RxClosed, RxTimeout, RxEndOfStream
    <3>4. CASE RxException \/ RxFail \/ RxDropped
      BY <1>3, <3>4 DEF Live, RxException, RxFail, RxDropped
    <3> QED
      BY <2>4, <3>1, <3>2, <3>3, <3>4 DEF RxStep
  <2>5. CASE Answer \/ Farewell \/ Hangup \/ Reset
    BY <1>2, <1>3, <2>5 DEF Live, Answer, Farewell, Hangup, Reset
  <2>6. CASE UNCHANGED vars
    BY <1>3, <2>6 DEF Live, vars
  <2> QED
    BY <1>3, <2>1, <2>2, <2>3, <2>4, <2>5, <2>6, Steps
<1> QED
  BY <1>2, <1>4, <1>5 DEF Incoming

\* RxWorker gives the first packet to its own session, or it is the last.
LEMMA PairsOwnReply ==
  ASSUME Typed, OrderInv, LastInv, OwnReply, doubles = 0, RxPair
  PROVE  LastInv' /\ OwnReply'
<1> USE DEF service, queues, session, tx, rx, net
<1>q. rxQueue \in Seq(Packets)
  BY SequencesGrow DEF Typed, QueuesTyped
<1>1. PICK c \in Calls : c = Head(rxQueue)
  BY HeadsTyped DEF RxPair, Typed, QueuesTyped
<1>2. /\ rxBuffer # << >> /\ rxQueue # << >>
      /\ Incoming' = Tail(Incoming)
      /\ reply' = [reply EXCEPT ![c] = Head(Incoming)]
      /\ UNCHANGED <<Live, server, doubles>>
  BY <1>1, FirstIncoming DEF RxPair, Incoming, Live
<1>3. Head(Incoming) = c \/ (Head(Incoming) \in LastWords /\ Tail(Incoming) = << >>)
  BY <1>q, <1>1, <1>2, FirstIncoming, AnswersFirst DEF OrderInv
<1>4. Live /\ server = "up" => Head(Incoming) = c
  BY <1>1, <1>2, FirstIncoming, FirstAnswers
<1>5. ToldLastWords = {}
  BY <1>2, FirstIncoming DEF LastInv
<1>6. c \notin LastWords
  BY NamesAssumption DEF LastWords
<1>7. /\ \A d \in Calls : reply'[d] = IF d = c THEN Head(Incoming) ELSE reply[d]
      /\ \A d \in Calls : reply[d] \notin LastWords
  BY <1>2, <1>5 DEF Typed, SessionsTyped, ToldLastWords
<1>8. \A d \in ToldLastWords' : d = c /\ Head(Incoming) \in LastWords
  BY <1>7 DEF ToldLastWords
<1>9. LastInv'
  BY <1>2, <1>3, <1>4, <1>6, <1>8 DEF LastInv
<1>10. \A d \in Calls : reply'[d] \in {d, Nothing} \cup LastWords
  BY <1>3, <1>7 DEF OwnReply
<1>11. OwnReply'
  BY <1>8, <1>10 DEF OwnReply
<1> QED
  BY <1>9, <1>11

\* What is kept as long as every request is answered once.
Ordered == doubles = 0 => OrderInv /\ LastInv /\ OwnReply

LEMMA OrderedKept == Typed /\ LinkInv /\ Ordered /\ [Next]_vars => Ordered'
<1> SUFFICES ASSUME Typed, LinkInv, Ordered, [Next]_vars, doubles' = 0
             PROVE  OrderInv' /\ LastInv' /\ OwnReply'
  BY DEF Ordered
<1> USE DEF service, queues, session, tx, rx, net
<1>0. doubles = 0
  <2>1. CASE Answer
    BY <2>1, DoublesAssumption DEF Answer, Typed, QueuesTyped
  <2>2. CASE ~Answer
    BY <2>2, Steps DEF vars, CallStep, LinkAccepted, LinkRefused, Offer, Release, Return, Disconnect,
       Drop, DropTest, StopSet, JoinTx, JoinRx, Close, TxWorker, TxLoop, TxAcquire, TxCheck, TxTake,
       TxSend, TxRecord, RxStep, RxLoop, RxClosed, RxTimeout, RxRead, RxEndOfStream, RxException,
       RxFail, RxPair, RxCallback, RxDropped, Farewell, Hangup, Reset
  <2> QED
    BY <2>1, <2>2
<1>1. OrderInv /\ LastInv /\ OwnReply
  BY <1>0 DEF Ordered
<1>2. OrderInv'
  <2>1. CASE UNCHANGED vars
    BY <1>1, <2>1, OrderUntouched DEF vars, Unsent
  <2>2. CASE (\E c \in Calls : CallStep(c)) \/ (\E p \in Droppers : Drop(p))
    BY <1>1, <2>2, CallersKeepOrder
  <2>3. CASE TxWorker
    BY <1>1, <2>3, TxKeepsOrder
  <2>4. CASE RxStep
    BY <1>1, <2>4, RxKeepsOrder
  <2>5. CASE Answer \/ Farewell \/ Hangup \/ Reset
    BY <1>1, <2>5, ServerKeepsOrder
  <2> QED
    BY <2>1, <2>2, <2>3, <2>4, <2>5, Steps
<1>3. LastInv' /\ OwnReply'
  <2>1. CASE RxPair
    BY <1>0, <1>1, <2>1, PairsOwnReply
  <2>2. CASE ~RxPair
    BY <1>0, <1>1, <2>2, NothingAfterLastWords DEF OwnReply, ToldLastWords
  <2> QED
    BY <2>1, <2>2
<1> QED
  BY <1>2, <1>3

\* Replies are told apart by nothing but their order, and yet no call is ever given another
\* call's reply while the server answers each request once, whoever fails, drops or hangs up;
\* and at most one call is given what the server says last.
THEOREM OwnReplyHolds == Spec => []OwnReply
<1>1. Init => Ordered
  <2> SUFFICES ASSUME Init PROVE OrderInv /\ LastInv /\ OwnReply
    BY DEF Ordered
  <2>1. /\ rxBuffer = << >> /\ toClient = << >> /\ toServer = << >> /\ rxQueue = << >>
        /\ Unsent = << >>
    BY DEF Init, Unsent
  <2>2. << >> \o << >> = << >>
    BY EmptySeq, ConcatEmptySeq
  <2>3. Incoming = << >> /\ Unanswered(<< >>) = << >>
    BY <2>1, <2>2 DEF Incoming, Unanswered
  <2>4. Incoming \o Unanswered(<< >>) = rxQueue
    BY <2>1, <2>2, <2>3
  <2>5. Answers(Incoming, rxQueue)
    BY <2>3, EmptySeq DEF Answers
  <2>6. OrderInv
    BY <2>1, <2>4, <2>5, SequencesGrow, Zenon DEF OrderInv
  <2>7. ToldLastWords = {}
    BY NamesAssumption DEF Init, ToldLastWords, LastWords
  <2>8. LastInv /\ OwnReply
    BY <2>7 DEF Init, LastInv, OwnReply
  <2> QED
    BY <2>6, <2>8
<1>2. Typed /\ LinkInv /\ Ordered /\ [Next]_vars => Ordered'
  BY OrderedKept
<1>3. Ordered => OwnReply
  BY DEF Ordered, OwnReply
<1> QED
  BY <1>1, <1>2, <1>3, LinkInvariant, PTL DEF Spec

(***************************************************************************)
(* Dropping the connection                                                 *)
(***************************************************************************)

LEMMA DropperKept == Typed /\ LinkInv /\ DropperInv /\ [Next]_vars => DropperInv'
<1> SUFFICES ASSUME Typed, LinkInv, DropperInv, [Next]_vars PROVE DropperInv'
  OBVIOUS
<1>d. /\ dpc \in [Droppers -> {"no", "test", "set", "joinTx", "joinRx", "close", "done"}]
      /\ cpc \in [Calls -> {"idle", "offer", "release", "wait", "returned"}]
      /\ Rx \in Droppers /\ Calls \subseteq Droppers /\ Rx \notin Calls
  BY NamesAssumption DEF Typed, ControlTyped, Droppers
<1> USE DEF DropperInv, service, queues, session, tx, rx, net
<1>1. CASE UNCHANGED vars
  BY <1>1 DEF vars
<1>2. ASSUME NEW c \in Calls, CallStep(c) PROVE DropperInv'
  BY <1>2, <1>d DEF CallStep, LinkAccepted, LinkRefused, Offer, Release, Return, Disconnect, CallGoes
<1>3. ASSUME NEW p \in Droppers, Drop(p) PROVE DropperInv'
  <2>1. PICK to : dpc[p] \notin {"no", "done"} /\ dpc' = [dpc EXCEPT ![p] = to] /\ UNCHANGED <<cpc, rpc>>
    BY <1>3 DEF Drop, DropTest, StopSet, JoinTx, JoinRx, Close, DropGoes
  <2> QED
    BY <1>d, <2>1
<1>4. CASE TxWorker
  BY <1>4 DEF TxWorker, TxLoop, TxAcquire, TxCheck, TxTake, TxSend, TxRecord
<1>5. CASE RxStep
  <2>1. CASE RxEndOfStream
    BY <1>d, <2>1 DEF RxEndOfStream, RxGoes
  <2>2. CASE RxCallback
    BY <1>d, <2>2 DEF RxCallback, RxGoes
  <2>3. CASE RxDropped
    BY <1>d, <2>3 DEF RxDropped, RxGoes
  <2>4. CASE RxPair \/ RxFail \/ RxException
    BY <2>4 DEF RxPair, RxFail, RxException, RxGoes
  <2>5. CASE RxLoop \/ RxClosed \/ RxTimeout \/ RxRead
    BY <2>5 DEF RxLoop, RxClosed, RxTimeout, RxRead, RxGoes
  <2> QED
    BY <1>5, <2>1, <2>2, <2>3, <2>4, <2>5 DEF RxStep
<1>6. CASE Answer \/ Farewell \/ Hangup \/ Reset
  BY <1>6 DEF Answer, Farewell, Hangup, Reset
<1> QED
  BY <1>1, <1>2, <1>3, <1>4, <1>5, <1>6, Steps

SomeoneMoves ==
  \/ UNCHANGED dpc
  \/ \E p \in Droppers : \E to : to # "no" /\ dpc' = [dpc EXCEPT ![p] = to]

\* A dropper never returns to "no", and a read that has failed stays failed.
LEMMA DisturbedForEver ==
  ASSUME Typed, [Next]_vars, Undisturbed'
  PROVE  Undisturbed
<1>d. dpc \in [Droppers -> {"no", "test", "set", "joinTx", "joinRx", "close", "done"}]
  BY DEF Typed, ControlTyped
<1> USE DEF SomeoneMoves, service, queues, session, tx, rx, net
<1>1. SomeoneMoves
  <2>1. ASSUME NEW c \in Calls, CallStep(c) PROVE SomeoneMoves
    <3>1. c \in Droppers
      BY DEF Droppers
    <3> QED
      BY <2>1, <3>1 DEF CallStep, LinkAccepted, LinkRefused, Offer, Release, Return, Disconnect
  <2>2. ASSUME NEW p \in Droppers, Drop(p) PROVE SomeoneMoves
    BY <2>2 DEF Drop, DropTest, StopSet, JoinTx, JoinRx, Close, DropGoes
  <2>3. CASE TxWorker
    BY <2>3 DEF TxWorker, TxLoop, TxAcquire, TxCheck, TxTake, TxSend, TxRecord
  <2>4. CASE RxStep
    <3>1. Rx \in Droppers
      BY DEF Droppers
    <3> QED
      BY <2>4, <3>1 DEF RxStep, RxLoop, RxClosed, RxTimeout, RxRead, RxEndOfStream, RxException,
         RxFail, RxPair, RxCallback, RxDropped
  <2>5. CASE Answer \/ Farewell \/ Hangup \/ Reset \/ UNCHANGED vars
    BY <2>5 DEF Answer, Farewell, Hangup, Reset, vars
  <2> QED
    BY <2>1, <2>2, <2>3, <2>4, <2>5, Steps
<1>2. stuck => stuck'
  <2>1. RxStep => (stuck => stuck')
    BY DEF RxStep, RxLoop, RxClosed, RxTimeout, RxRead, RxEndOfStream, RxException, RxFail, RxPair,
       RxCallback, RxDropped
  <2> QED
    BY <2>1, Steps DEF vars, CallStep, LinkAccepted, LinkRefused, Offer, Release, Return, Disconnect,
       Drop, DropTest, StopSet, JoinTx, JoinRx, Close, TxWorker, TxLoop, TxAcquire, TxCheck, TxTake,
       TxSend, TxRecord, Answer, Farewell, Hangup, Reset
<1>3. TwoDrop => TwoDrop'
  BY <1>1, <1>d DEF TwoDrop
<1> QED
  BY <1>2, <1>3 DEF Undisturbed

LEMMA LoneDropKept ==
  ASSUME Typed, LinkInv, DropperInv, LoneDrop, Undisturbed, Undisturbed', [Next]_vars
  PROVE  LoneDrop'
<1>d. /\ dpc \in [Droppers -> {"no", "test", "set", "joinTx", "joinRx", "close", "done"}]
      /\ Rx \in Droppers /\ Calls \subseteq Droppers
  BY DEF Typed, ControlTyped, Droppers
<1>s. /\ status \in [Calls -> {"OK", "error"}]
      /\ reply \in [Calls -> Packets \cup {Nothing}]
      /\ released \subseteq Calls
  BY DEF Typed, SessionsTyped
<1>n. Nothing \notin Packets
  BY NamesAssumption DEF Packets, LastWords
<1> USE DEF LoneDrop, service, queues, session, tx, rx, net
<1>1. CASE UNCHANGED vars
  BY <1>1 DEF vars
<1>2. ASSUME NEW c \in Calls, CallStep(c) PROVE LoneDrop'
  <2>1. /\ UNCHANGED <<onService, open, tpc, released, reply, status>>
        /\ UNCHANGED dpc \/ (dpc[c] = "no" /\ dpc' = [dpc EXCEPT ![c] = "test"])
    BY <1>2 DEF CallStep, LinkAccepted, LinkRefused, Offer, Release, Return, Disconnect, CallGoes,
       DropperInv
  <2> QED
    BY <1>d, <2>1
<1>3. ASSUME NEW p \in Droppers, Drop(p) PROVE LoneDrop'
  <2>a. \A q \in Droppers : q # p => dpc[q] = "no" \/ dpc[p] = "no"
    BY DEF Undisturbed, TwoDrop
  <2>1. CASE DropTest(p)
    BY <1>d, <2>a, <2>1 DEF DropTest, DropGoes, LinkInv
  <2>2. CASE StopSet(p)
    BY <1>d, <2>2 DEF StopSet, DropGoes
  <2>3. CASE JoinTx(p)
    BY <1>d, <2>3 DEF JoinTx, DropGoes
  <2>4. CASE JoinRx(p)
    BY <1>d, <2>4 DEF JoinRx, DropGoes
  <2>5. CASE Close(p)
    BY <1>d, <2>5 DEF Close, DropGoes
  <2> QED
    BY <1>3, <2>1, <2>2, <2>3, <2>4, <2>5 DEF Drop
<1>4. CASE TxWorker
  <2>1. UNCHANGED <<onService, open, dpc, reply>> /\ (tpc = "ended" => tpc' = "ended")
    BY <1>4 DEF TxWorker, TxLoop, TxAcquire, TxCheck, TxTake, TxSend, TxRecord, TxGoes
  <2>2. UNCHANGED released
    BY <1>4 DEF TxWorker, TxLoop, TxAcquire, TxCheck, TxTake, TxSend, TxRecord, TxGoes
  <2>3. tpc # "ended"
    BY <1>4 DEF TxWorker, TxLoop, TxAcquire, TxCheck, TxTake, TxSend, TxRecord, TxGoes
  <2> QED
    BY <2>1, <2>2, <2>3
<1>5. CASE RxStep
  <2>1. UNCHANGED <<onService, open, tpc>>
    BY <1>5 DEF RxStep, RxLoop, RxClosed, RxTimeout, RxRead, RxEndOfStream, RxException, RxFail,
       RxPair, RxCallback, RxDropped
  <2>2. UNCHANGED dpc \/ (dpc[Rx] \in {"no", "done"} /\ dpc' = [dpc EXCEPT ![Rx] = "test"])
    BY <1>5 DEF RxStep, RxLoop, RxClosed, RxTimeout, RxRead, RxEndOfStream, RxException, RxFail,
       RxPair, RxCallback, RxDropped, RxGoes, DropperInv
  <2>3. \A c \in released' : reply'[c] # Nothing \/ (status'[c] = "error" /\ tpc = "ended")
    <3>1. CASE RxFail
      <4>1. tpc = "ended"
        BY <3>1 DEF RxFail, RxGoes, LinkInv, Live, Undisturbed
      <4>2. released' \subseteq Calls
        BY SessionsTypedKept DEF Typed, SessionsTyped
      <4>3. /\ released' = released \cup Range(rxQueue) /\ UNCHANGED reply
            /\ \A c \in Calls : status'[c] = IF c \in Range(rxQueue) THEN "error" ELSE status[c]
        BY <3>1 DEF RxFail, Fail
      <4> QED
        BY <4>1, <4>2, <4>3
    <3>2. CASE RxPair
      <4>1. Head(rxBuffer) \in Packets /\ Head(rxQueue) \in Calls
        BY <3>2, HeadsTyped DEF RxPair, Typed, QueuesTyped
      <4> QED
        BY <1>n, <1>s, <3>2, <4>1 DEF RxPair
    <3> QED
      BY <1>5, <3>1, <3>2 DEF RxStep, RxLoop, RxClosed, RxTimeout, RxRead, RxEndOfStream,
         RxException, RxCallback, RxDropped
  <2> QED
    BY <1>d, <2>1, <2>2, <2>3 DEF LinkInv
<1>6. CASE Answer \/ Farewell \/ Hangup \/ Reset
  BY <1>6 DEF Answer, Farewell, Hangup, Reset
<1> QED
  BY <1>1, <1>2, <1>3, <1>4, <1>5, <1>6, Steps

\* While one thread at a time drops the connection and no read has failed, a call that is told
\* OK has been given a reply: no error of a session is overwritten by TxWorker.
THEOREM OkHasReplyHolds == Spec => []OkHasReply
<1>1. Init => DropperInv /\ DropInv
  BY DEF Init, Established, DropperInv, DropInv, LoneDrop, Droppers
<1>2. Typed /\ LinkInv /\ DropperInv /\ DropInv /\ [Next]_vars => DropperInv' /\ DropInv'
  BY DropperKept, DisturbedForEver, LoneDropKept DEF DropInv
<1>3. DropInv => OkHasReply
  BY DEF DropInv, Undisturbed, LoneDrop, OkHasReply
<1> QED
  BY <1>1, <1>2, <1>3, LinkInvariant, PTL DEF Spec
=============================================================================
