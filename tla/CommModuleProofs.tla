--------------------------- MODULE CommModuleProofs ---------------------------
(***************************************************************************)
(* Proofs about CommModule, for any number of calls of Connect.            *)
(***************************************************************************)
EXTENDS CommModule, FiniteSetTheorems, SequenceTheorems, TLAPS

(***************************************************************************)
(* Sequences                                                               *)
(***************************************************************************)

LEMMA ConcatElements ==
  \A S : \A s, t \in Seq(S) :
    /\ s \o t \in Seq(S) /\ Len(s \o t) = Len(s) + Len(t)
    /\ Len(s) \in Nat /\ Len(t) \in Nat
    /\ \A i \in 1..Len(s) : (s \o t)[i] = s[i]
    /\ \A i \in 1..Len(s \o t) : i <= Len(s) \/ (i - Len(s) \in 1..Len(t) /\ (s \o t)[i] = t[i - Len(s)])
<1>1. ASSUME NEW S, NEW s \in Seq(S), NEW t \in Seq(S)
      PROVE  /\ s \o t \in Seq(S) /\ Len(s \o t) = Len(s) + Len(t)
             /\ Len(s) \in Nat /\ Len(t) \in Nat
             /\ \A i \in 1..Len(s) : (s \o t)[i] = s[i]
             /\ \A i \in 1..Len(s \o t) :
                  i <= Len(s) \/ (i - Len(s) \in 1..Len(t) /\ (s \o t)[i] = t[i - Len(s)])
  BY ConcatProperties, LenProperties
<1> QED
  BY <1>1

LEMMA AppendElements ==
  \A S : \A s \in Seq(S), e \in S :
    /\ Append(s, e) \in Seq(S) /\ Len(Append(s, e)) = Len(s) + 1 /\ Len(s) \in Nat
    /\ \A i \in 1..Len(s) : Append(s, e)[i] = s[i]
    /\ Append(s, e)[Len(s) + 1] = e
BY AppendProperties, LenProperties

LEMMA TailElements ==
  \A S : \A s \in Seq(S) : s # << >> =>
    /\ Head(s) \in S /\ Head(s) = s[1]
    /\ Tail(s) \in Seq(S) /\ Len(Tail(s)) = Len(s) - 1 /\ Len(s) \in Nat \ {0}
    /\ \A i \in 1..Len(Tail(s)) : Tail(s)[i] = s[i + 1] /\ i + 1 \in 1..Len(s)
<1>1. ASSUME NEW S, NEW s \in Seq(S), s # << >>
      PROVE  /\ Head(s) \in S /\ Head(s) = s[1]
             /\ Tail(s) \in Seq(S) /\ Len(Tail(s)) = Len(s) - 1 /\ Len(s) \in Nat \ {0}
             /\ \A i \in 1..Len(Tail(s)) : Tail(s)[i] = s[i + 1] /\ i + 1 \in 1..Len(s)
  <2>1. Len(s) \in Nat \ {0}
    BY <1>1, EmptySeq, LenProperties
  <2>2. /\ Tail(s) \in Seq(S) /\ Len(Tail(s)) = Len(s) - 1 /\ Head(s) \in S
        /\ \A i \in 1..Len(Tail(s)) : Tail(s)[i] = s[i + 1]
    BY <1>1, HeadTailProperties
  <2> QED
    BY <1>1, <2>1, <2>2
<1> QED
  BY <1>1

(***************************************************************************)
(* The types                                                               *)
(***************************************************************************)

SharedTyped ==
  /\ m_LinkHanlder \in Links \cup {NoLink} /\ m_isAuth \in BOOLEAN /\ m_ServerNotify \subseteq Flags
  /\ timer \in {"none", "ticking", "dead"} /\ made \in 0..MaxLinks
  /\ upc \in UserPoints /\ tpc \in {"idle", "nop", "waiting", "losing"}
  /\ heard \subseteq Links /\ failed \subseteq Links /\ proved \subseteq Links
  /\ leftovers \in Nat

LinksTyped ==
  /\ connected \in [Links -> BOOLEAN] /\ onService \in [Links -> BOOLEAN]
  /\ rx \in [Links -> {"none", "loop", "recv", "hello", "error", "drop", "ended"}]
  /\ notify \in [Links -> SUBSET Flags]
  /\ server \in [Links -> {"none", "greet", "auth", "serving", "closed", "failed"}] /\ garbled \subseteq Links
  /\ joins \in [Callers \cup Links -> Links \cup {NoLink}]

QueuesTyped ==
  /\ queue \in [Links -> Seq(Callers)] /\ inbox \in [Links -> Seq(Packets)]
  /\ batch \in [Links -> Nat] /\ \A h \in Links : batch[h] <= Len(inbox[h])
  /\ reply \in [Callers -> Packets \cup {"NONE", "FAIL"}]

Typed == SharedTyped /\ LinksTyped /\ QueuesTyped

LEMMA LinkNumbers == Links \subseteq Nat \ {0} /\ NoLink \notin Links /\ MaxLinks \in Nat
BY MaxLinksAssumption DEF Links, NoLink

LEMMA SharedTypedKept == Typed /\ HandlerInv /\ [Next]_vars => SharedTyped' /\ HandlerInv'
<1> SUFFICES ASSUME Typed, HandlerInv, [Next]_vars PROVE SharedTyped' /\ HandlerInv'
  OBVIOUS
<1> USE LinkNumbers DEF SharedTyped, HandlerInv, shared, link, packets, receive, callers, history
<1>t. SharedTyped
  BY DEF Typed
<1>m. upc # "out" => m_LinkHanlder \in Links
  BY <1>t
<1>1. CASE UNCHANGED vars
  BY <1>t, <1>1 DEF vars
<1>2. CASE Connect
  BY <1>t, <1>2 DEF Connect, Links, UserPoints
<1>3. CASE ConnectSeesNotify
  BY <1>t, <1>3 DEF ConnectSeesNotify, UserPoints
<1>4. CASE ConnectReturns
  BY <1>t, <1>4 DEF ConnectReturns, UserPoints, NotifyCleared
<1>5. CASE Authorize
  BY <1>t, <1>m, <1>5 DEF Authorize, UserPoints, NothingSent, TakesProof
<1>6. CASE Request
  BY <1>t, <1>6 DEF Request, UserPoints, NothingSent, TakesInstruction
<1>7. CASE CallReturns
  BY <1>t, <1>7 DEF CallReturns, UserPoints
<1>8. CASE Disconnect
  BY <1>t, <1>8 DEF Disconnect, UserPoints, NothingSent, TakesInstruction
<1>9. CASE UserDrops
  BY <1>t, <1>9 DEF UserDrops
<1>14. CASE UserHasDropped
  BY <1>t, <1>14 DEF UserHasDropped, UserPoints, NoLink
<1>10. CASE EnableKeepAlive \/ DisableKeepAlive \/ KeepAliveRoutine \/ NopThrows \/ NopReturns \/ TimerHasDropped
  BY <1>t, <1>10 DEF EnableKeepAlive, DisableKeepAlive, KeepAliveRoutine, NopThrows, NopReturns,
     TimerHasDropped
<1>11. CASE SendNOP
  BY <1>t, <1>11 DEF SendNOP, NothingSent, TakesInstruction
<1>12. ASSUME NEW h \in Links, ServerSpeaks(h) PROVE SharedTyped' /\ HandlerInv'
  BY <1>t, <1>12 DEF ServerSpeaks
<1>13. ASSUME NEW h \in Links, RxStep(h) PROVE SharedTyped' /\ HandlerInv'
  <2>1. CASE RxPacket(h)
    BY <1>t, <2>1 DEF RxPacket, AuthAfter
  <2>2. CASE RxNotifies(h)
    <3>1. notify[h] \subseteq Flags
      BY DEF Typed, LinksTyped
    <3> QED
      BY <1>t, <2>2, <3>1 DEF RxNotifies, Flags
  <2> QED
    BY <1>t, <1>13, <2>1, <2>2 DEF RxStep, RxLoops, Recieve, RecievePackets, RecieveEnd,
       RecieveThrows, RecieveClosed, RxDrops, RxEnds
<1> QED
  BY <1>1, <1>2, <1>3, <1>4, <1>5, <1>6, <1>7, <1>8, <1>9, <1>10, <1>11, <1>12, <1>13, <1>14
     DEF Next, UserCall, UserStep, TimerStep

LEMMA DropsTyped ==
  ASSUME NEW t \in Callers \cup Links, NEW h \in Links \cup {NoLink}, LinksTyped,
         DropStarts(t, h) \/ DropEnds(t)
  PROVE  /\ connected' \in [Links -> BOOLEAN] /\ onService' \in [Links -> BOOLEAN]
         /\ joins' \in [Callers \cup Links -> Links \cup {NoLink}]
<1>1. CASE DropStarts(t, h)
  BY <1>1 DEF DropStarts, LinksTyped
<1>2. CASE DropEnds(t)
  BY <1>2 DEF DropEnds, LinksTyped
<1> QED
  BY <1>1, <1>2

LEMMA LinksTypedKept == Typed /\ HandlerInv /\ [Next]_vars => LinksTyped'
<1> SUFFICES ASSUME Typed, HandlerInv, [Next]_vars PROVE LinksTyped'
  OBVIOUS
<1> USE LinkNumbers DEF shared, link, packets, receive, callers, history
<1>t. LinksTyped
  BY DEF Typed
<1>h. m_LinkHanlder \in Links \cup {NoLink} /\ (upc # "out" => m_LinkHanlder \in Links)
  BY DEF Typed, SharedTyped, HandlerInv
<1>c. User \in Callers \cup Links /\ Timer \in Callers \cup Links
  BY DEF Callers
<1>1. CASE UNCHANGED vars
  BY <1>t, <1>1 DEF vars, LinksTyped
<1>2. CASE Connect
  BY <1>t, <1>2 DEF Connect, LinksTyped
<1>3. CASE Authorize
  BY <1>t, <1>h, <1>3 DEF Authorize, NothingSent, TakesProof, Says, LinksTyped
<1>4. CASE Request
  BY <1>t, <1>h, <1>4 DEF Request, NothingSent, TakesInstruction, Says, LinksTyped
<1>5. CASE SendNOP
  BY <1>t, <1>h, <1>5 DEF SendNOP, NothingSent, TakesInstruction, Says, LinksTyped
<1>6. CASE Disconnect
  BY <1>t, <1>h, <1>6 DEF Disconnect, NothingSent, TakesInstruction, Says, LinksTyped
<1>7. CASE UserDrops
  <2>1. DropStarts(User, m_LinkHanlder) \/ DropEnds(User)
    BY <1>7 DEF UserDrops
  <2> QED
    BY <1>t, <1>h, <1>c, <1>7, <2>1, DropsTyped DEF UserDrops, LinksTyped
<1>8. CASE NopReturns
  <2>1. UNCHANGED <<connected, onService, joins>> \/ DropStarts(Timer, m_LinkHanlder)
    BY <1>8 DEF NopReturns
  <2> QED
    BY <1>t, <1>h, <1>c, <1>8, <2>1, DropsTyped DEF NopReturns, LinksTyped
<1>9. CASE TimerHasDropped
  <2>1. DropEnds(Timer)
    BY <1>9 DEF TimerHasDropped
  <2> QED
    BY <1>t, <1>h, <1>c, <1>9, <2>1, DropsTyped DEF TimerHasDropped, LinksTyped
<1>10. CASE ConnectSeesNotify \/ ConnectReturns \/ CallReturns \/ UserHasDropped \/ EnableKeepAlive
            \/ DisableKeepAlive \/ KeepAliveRoutine \/ NopThrows
  BY <1>t, <1>10 DEF ConnectSeesNotify, ConnectReturns, CallReturns, UserHasDropped,
     EnableKeepAlive, DisableKeepAlive, KeepAliveRoutine, NopThrows, LinksTyped
<1>11. ASSUME NEW h \in Links, ServerSpeaks(h) PROVE LinksTyped'
  BY <1>t, <1>11 DEF ServerSpeaks, Says, LinksTyped
<1>12. ASSUME NEW h \in Links, RxStep(h) PROVE LinksTyped'
  <2>1. CASE RxLoops(h)
    BY <1>t, <2>1 DEF RxLoops, LinksTyped, RxEnds
  <2>2. CASE Recieve(h)
    BY <1>t, <2>2 DEF Recieve, RecievePackets, RecieveEnd, RecieveThrows, RecieveClosed,
       LinksTyped, RxEnds
  <2>3. CASE RxPacket(h)
    <3>1. m_ServerNotify \in SUBSET Flags
      BY DEF Typed, SharedTyped
    <3>2. rx' \in [Links -> {"none", "loop", "recv", "hello", "error", "drop", "ended"}]
      BY <1>t, <2>3 DEF RxPacket, LinksTyped
    <3>3. UNCHANGED notify \/ \E v \in SUBSET Flags : notify' = [notify EXCEPT ![h] = v]
      <4>1. notify[h] \in SUBSET Flags
        BY <1>t DEF LinksTyped
      <4> QED
        BY <2>3, <3>1, <4>1 DEF RxPacket
    <3>4. notify' \in [Links -> SUBSET Flags]
      BY <1>t, <3>3 DEF LinksTyped
    <3> QED
      BY <1>t, <2>3, <3>2, <3>4 DEF RxPacket, LinksTyped
  <2>4. CASE RxNotifies(h)
    BY <1>t, <2>4 DEF RxNotifies, LinksTyped
  <2>5. CASE RxDrops(h)
    <3>1. CASE m_LinkHanlder \in {h, NoLink} /\ connected' = [connected EXCEPT ![h] = FALSE]
               /\ onService' = [onService EXCEPT ![h] = FALSE] /\ UNCHANGED joins
      BY <1>t, <2>5, <3>1 DEF RxDrops, LinksTyped, RxEnds
    <3>2. CASE DropStarts(h, m_LinkHanlder) \/ DropEnds(h) \/ UNCHANGED <<link, joins>>
      <4>1. connected' \in [Links -> BOOLEAN] /\ onService' \in [Links -> BOOLEAN]
            /\ joins' \in [Callers \cup Links -> Links \cup {NoLink}]
        <5>1. h \in Callers \cup Links
          OBVIOUS
        <5>2. CASE DropStarts(h, m_LinkHanlder) \/ DropEnds(h)
          BY <1>t, <1>h, <5>1, <5>2, DropsTyped
        <5>3. CASE UNCHANGED <<link, joins>>
          BY <1>t, <5>3 DEF LinksTyped
        <5> QED
          BY <3>2, <5>2, <5>3
      <4>2. rx' \in [Links -> {"none", "loop", "recv", "hello", "error", "drop", "ended"}]
        BY <1>t, <2>5 DEF RxDrops, LinksTyped, RxEnds
      <4>3. UNCHANGED notify
        BY <2>5 DEF RxDrops
      <4>4. server' \in [Links -> {"none", "greet", "auth", "serving", "closed", "failed"}]
            /\ garbled' \subseteq Links
        BY <1>t, <2>5 DEF RxDrops, LinksTyped, RxEnds
      <4> QED
        BY <1>t, <4>1, <4>2, <4>3, <4>4 DEF LinksTyped
    <3> QED
      BY <2>5, <3>1, <3>2 DEF RxDrops, RxEnds
  <2> QED
    BY <1>12, <2>1, <2>2, <2>3, <2>4, <2>5 DEF RxStep
<1> QED
  BY <1>1, <1>2, <1>3, <1>4, <1>5, <1>6, <1>7, <1>8, <1>9, <1>10, <1>11, <1>12
     DEF Next, UserCall, UserStep, TimerStep

LEMMA SayingsTyped ==
  /\ <<"HELLO">> \in Seq(Packets) /\ <<"OK">> \in Seq(Packets) /\ <<"LOGIN">> \in Seq(Packets)
  /\ <<"LAST">> \in Seq(Packets) /\ <<"ERROR">> \in Seq(Packets)
  /\ <<"OK", "ERROR">> \in Seq(Packets) /\ <<"OK", "OK">> \in Seq(Packets) /\ << >> \in Seq(Packets)
BY DEF Packets

\* A server is given an instruction, and answers it once or twice or answers it and closes.
Instructed(h) ==
  \E said \in {<<"OK">>, <<"OK", "OK">>}, state \in {"serving", "closed"} :
    TakesInstruction(h, said, state)

\* What the server says is a packet.
LEMMA SaysTyped ==
  ASSUME NEW h \in Links, QueuesTyped, UNCHANGED batch,
         ServerSpeaks(h) \/ TakesProof(h) \/ Instructed(h) \/ UNCHANGED inbox
  PROVE  inbox' \in [Links -> Seq(Packets)] /\ \A k \in Links : batch'[k] <= Len(inbox'[k])
<1>2. UNCHANGED inbox \/ \E said \in Seq(Packets) : inbox' = [inbox EXCEPT ![h] = @ \o said]
  BY SayingsTyped DEF ServerSpeaks, TakesProof, Instructed, TakesInstruction, Says
<1>3. CASE UNCHANGED inbox
  BY <1>3 DEF QueuesTyped
<1>4. ASSUME NEW said \in Seq(Packets), inbox' = [inbox EXCEPT ![h] = @ \o said]
      PROVE  inbox' \in [Links -> Seq(Packets)] /\ \A k \in Links : batch'[k] <= Len(inbox'[k])
  <2>1. /\ inbox[h] \o said \in Seq(Packets) /\ Len(inbox[h] \o said) = Len(inbox[h]) + Len(said)
        /\ Len(inbox[h]) \in Nat /\ Len(said) \in Nat
    BY ConcatElements DEF QueuesTyped
  <2> QED
    BY <1>4, <2>1 DEF QueuesTyped
<1> QED
  BY <1>2, <1>3, <1>4

\* What the receiving thread had read of link h, and what was on its way, is gone.
Emptied(h) == inbox' = [inbox EXCEPT ![h] = << >>] /\ batch' = [batch EXCEPT ![h] = 0]

LEMMA EmptiedTyped ==
  ASSUME NEW h \in Links, QueuesTyped, Emptied(h)
  PROVE  /\ inbox' \in [Links -> Seq(Packets)] /\ batch' \in [Links -> Nat]
         /\ \A k \in Links : batch'[k] <= Len(inbox'[k])
<1>1. << >> \in Seq(Packets) /\ Len(<< >>) = 0 /\ 0 \in Nat
  BY SayingsTyped, EmptySeq
<1>2. /\ inbox \in [Links -> Seq(Packets)] /\ batch \in [Links -> Nat]
      /\ \A k \in Links : batch[k] <= Len(inbox[k])
  BY DEF QueuesTyped
<1>3. ASSUME NEW k \in Links PROVE batch'[k] <= Len(inbox'[k])
  <2>1. CASE k = h
    BY <1>1, <1>2, <2>1 DEF Emptied
  <2>2. CASE k # h
    BY <1>2, <2>2 DEF Emptied
  <2> QED
    BY <2>1, <2>2
<1> QED
  BY <1>1, <1>2, <1>3 DEF Emptied

LEMMA LinkCallTyped ==
  ASSUME NEW c \in Callers, NEW h \in Links, QueuesTyped, LinkCall(c, h)
  PROVE  queue' \in [Links -> Seq(Callers)] /\ reply' \in [Callers -> Packets \cup {"NONE", "FAIL"}]
<1>1. Append(queue[h], c) \in Seq(Callers)
  BY AppendElements DEF QueuesTyped
<1> QED
  BY <1>1 DEF LinkCall, QueuesTyped

LEMMA QueuesTypedKept == Typed /\ HandlerInv /\ [Next]_vars => QueuesTyped'
<1> SUFFICES ASSUME Typed, HandlerInv, [Next]_vars PROVE QueuesTyped'
  OBVIOUS
<1> USE LinkNumbers DEF shared, link, packets, receive, callers, history
<1>t. QueuesTyped
  BY DEF Typed
<1>h. m_LinkHanlder \in Links \cup {NoLink} /\ (upc # "out" => m_LinkHanlder \in Links)
  BY DEF Typed, SharedTyped, HandlerInv
<1>c. User \in Callers /\ Timer \in Callers
  BY DEF Callers
<1>1. CASE UNCHANGED vars
  BY <1>t, <1>1 DEF vars, QueuesTyped
<1>2. CASE Authorize
  <2>1. m_LinkHanlder \in Links /\ UNCHANGED batch
    BY <1>h, <1>2 DEF Authorize
  <2>2. TakesProof(m_LinkHanlder) \/ UNCHANGED inbox
    BY <1>2 DEF Authorize, NothingSent
  <2>3. LinkCall(User, m_LinkHanlder) \/ UNCHANGED <<queue, reply>>
    BY <1>2 DEF Authorize
  <2>4. inbox' \in [Links -> Seq(Packets)] /\ \A k \in Links : batch'[k] <= Len(inbox'[k])
    BY <1>t, <2>1, <2>2, SaysTyped
  <2>5. queue' \in [Links -> Seq(Callers)] /\ reply' \in [Callers -> Packets \cup {"NONE", "FAIL"}]
    BY <1>t, <1>c, <2>1, <2>3, LinkCallTyped DEF QueuesTyped
  <2> QED
    BY <1>t, <2>1, <2>4, <2>5 DEF QueuesTyped
<1>3. CASE Request
  <2>1. m_LinkHanlder \in Links /\ UNCHANGED batch
    BY <1>h, <1>3 DEF Request
  <2>2. Instructed(m_LinkHanlder) \/ UNCHANGED inbox
    BY <1>3 DEF Request, NothingSent, Answers, Instructed
  <2>3. LinkCall(User, m_LinkHanlder)
    BY <1>3 DEF Request
  <2>4. inbox' \in [Links -> Seq(Packets)] /\ \A k \in Links : batch'[k] <= Len(inbox'[k])
    BY <1>t, <2>1, <2>2, SaysTyped
  <2>5. queue' \in [Links -> Seq(Callers)] /\ reply' \in [Callers -> Packets \cup {"NONE", "FAIL"}]
    BY <1>t, <1>c, <2>1, <2>3, LinkCallTyped
  <2> QED
    BY <1>t, <2>1, <2>4, <2>5 DEF QueuesTyped
<1>4. CASE SendNOP
  <2>1. m_LinkHanlder \in Links /\ UNCHANGED batch
    BY <1>h, <1>4 DEF SendNOP
  <2>2. Instructed(m_LinkHanlder) \/ UNCHANGED inbox
    BY <1>4 DEF SendNOP, NothingSent, Instructed
  <2>3. LinkCall(Timer, m_LinkHanlder) \/ UNCHANGED <<queue, reply>>
    BY <1>4 DEF SendNOP
  <2>4. inbox' \in [Links -> Seq(Packets)] /\ \A k \in Links : batch'[k] <= Len(inbox'[k])
    BY <1>t, <2>1, <2>2, SaysTyped
  <2>5. queue' \in [Links -> Seq(Callers)] /\ reply' \in [Callers -> Packets \cup {"NONE", "FAIL"}]
    BY <1>t, <1>c, <2>1, <2>3, LinkCallTyped DEF QueuesTyped
  <2> QED
    BY <1>t, <2>1, <2>4, <2>5 DEF QueuesTyped
<1>5. ASSUME NEW h \in Links, ServerSpeaks(h) PROVE QueuesTyped'
  <2>1. UNCHANGED <<batch, queue, reply>>
    BY <1>5 DEF ServerSpeaks
  <2>2. inbox' \in [Links -> Seq(Packets)] /\ \A k \in Links : batch'[k] <= Len(inbox'[k])
    BY <1>t, <1>5, <2>1, SaysTyped
  <2> QED
    BY <1>t, <2>1, <2>2 DEF QueuesTyped
<1>6. CASE CallReturns \/ NopThrows \/ NopReturns
  BY <1>t, <1>c, <1>6 DEF CallReturns, NopThrows, NopReturns, QueuesTyped
<1>9. CASE Disconnect
  <2>1. m_LinkHanlder \in Links /\ UNCHANGED <<batch, queue, reply>>
    BY <1>h, <1>9 DEF Disconnect
  <2>2. Instructed(m_LinkHanlder) \/ UNCHANGED inbox
    BY <1>9 DEF Disconnect, NothingSent, Instructed
  <2>3. inbox' \in [Links -> Seq(Packets)] /\ \A k \in Links : batch'[k] <= Len(inbox'[k])
    BY <1>t, <2>1, <2>2, SaysTyped
  <2> QED
    BY <1>t, <2>1, <2>3 DEF QueuesTyped
<1>7. CASE Connect \/ ConnectSeesNotify \/ ConnectReturns \/ UserDrops \/ UserHasDropped
           \/ EnableKeepAlive \/ DisableKeepAlive \/ KeepAliveRoutine \/ TimerHasDropped
  BY <1>t, <1>7 DEF Connect, ConnectSeesNotify, ConnectReturns, UserDrops,
     UserHasDropped, EnableKeepAlive, DisableKeepAlive, KeepAliveRoutine, TimerHasDropped, QueuesTyped
<1>8. ASSUME NEW h \in Links, RxStep(h) PROVE QueuesTyped'
  <2>1. CASE RxLoops(h) \/ RxNotifies(h) \/ RxDrops(h)
    <3>1. UNCHANGED <<queue, reply>>
      BY <2>1 DEF RxLoops, RxNotifies, RxDrops
    <3>2. UNCHANGED <<inbox, batch>> \/ Emptied(h)
      BY <2>1 DEF RxLoops, RxNotifies, RxDrops, RxEnds, Emptied
    <3> QED
      BY <1>t, <3>1, <3>2, EmptiedTyped DEF QueuesTyped
  <2>2. CASE Recieve(h)
    <3>1. << >> \in Seq(Callers)
      OBVIOUS
    <3>2. UNCHANGED <<queue, reply>> \/ FailWaiting(h)
      BY <2>2 DEF Recieve, RecievePackets, RecieveEnd, RecieveThrows, RecieveClosed, RxEnds
    <3>3. queue' \in [Links -> Seq(Callers)] /\ reply' \in [Callers -> Packets \cup {"NONE", "FAIL"}]
      BY <1>t, <3>1, <3>2 DEF FailWaiting, QueuesTyped
    <3>4. Len(inbox[h]) \in Nat
      BY <1>t, LenProperties DEF QueuesTyped
    <3>5. \/ UNCHANGED inbox /\ \E n \in 0..Len(inbox[h]) : batch' = [batch EXCEPT ![h] = n]
          \/ Emptied(h)
      BY <2>2 DEF Recieve, RecievePackets, RecieveEnd, RecieveThrows, RecieveClosed, RxEnds, Emptied
    <3>6. CASE Emptied(h)
      BY <1>t, <3>3, <3>6, EmptiedTyped DEF QueuesTyped
    <3>7. CASE UNCHANGED inbox /\ \E n \in 0..Len(inbox[h]) : batch' = [batch EXCEPT ![h] = n]
      BY <1>t, <3>3, <3>4, <3>7 DEF QueuesTyped
    <3> QED
      BY <3>5, <3>6, <3>7
  <2>3. CASE RxPacket(h)
    <3>1. inbox[h] \in Seq(Packets) /\ batch[h] \in Nat \ {0} /\ batch[h] <= Len(inbox[h])
      BY <1>t, <2>3 DEF RxPacket, QueuesTyped
    <3>2. inbox[h] # << >>
      BY <3>1, EmptySeq
    <3>3. /\ Head(inbox[h]) \in Packets /\ Tail(inbox[h]) \in Seq(Packets)
          /\ Len(Tail(inbox[h])) = Len(inbox[h]) - 1 /\ Len(inbox[h]) \in Nat
      BY <3>1, <3>2, TailElements
    <3>4. queue[h] # << >> => Head(queue[h]) \in Callers /\ Tail(queue[h]) \in Seq(Callers)
      BY <1>t, TailElements DEF QueuesTyped
    <3>5. queue' \in [Links -> Seq(Callers)] /\ reply' \in [Callers -> Packets \cup {"NONE", "FAIL"}]
      BY <1>t, <2>3, <3>3, <3>4 DEF RxPacket, QueuesTyped
    <3>6. inbox' = [inbox EXCEPT ![h] = Tail(inbox[h])] /\ batch' = [batch EXCEPT ![h] = batch[h] - 1]
      BY <2>3 DEF RxPacket, PacketsLeft
    <3> QED
      BY <1>t, <3>1, <3>3, <3>5, <3>6 DEF QueuesTyped
  <2> QED
    BY <1>8, <2>1, <2>2, <2>3 DEF RxStep
<1> QED
  BY <1>1, <1>2, <1>3, <1>4, <1>5, <1>6, <1>7, <1>8, <1>9 DEF Next, UserCall, UserStep, TimerStep

LEMMA TypedInitially == Init => Typed /\ HandlerInv
<1> SUFFICES ASSUME Init PROVE Typed /\ HandlerInv
  OBVIOUS
<1>0. 0 <= 0 /\ 0 \in Nat /\ 0 \in 0..MaxLinks
  BY LinkNumbers
<1>1. SharedTyped
  BY <1>0, Zenon DEF Init, SharedTyped, UserPoints
<1>4. HandlerInv
  BY <1>0 DEF Init, HandlerInv, NoLink
<1>2. LinksTyped
  BY DEF Init, LinksTyped
<1>3. QueuesTyped
  BY EmptySeq DEF Init, QueuesTyped
<1> QED
  BY <1>1, <1>2, <1>3, <1>4 DEF Typed

LEMMA TypedAlways == Spec => [](Typed /\ HandlerInv)
<1>1. Init => Typed /\ HandlerInv
  BY TypedInitially
<1>2. Typed /\ HandlerInv /\ [Next]_vars => (Typed /\ HandlerInv)'
  BY SharedTypedKept, LinksTypedKept, QueuesTypedKept DEF Typed
<1> QED
  BY <1>1, <1>2, PTL DEF Spec

\* Every variable keeps its type, however many links have been made.
THEOREM TypeCorrect == Spec => []TypeOK
<1>1. Typed /\ HandlerInv => TypeOK
  <2> SUFFICES ASSUME Typed, HandlerInv PROVE TypeOK
    OBVIOUS
  <2>1. leftovers \in 0..MaxLinks
    BY LinkNumbers DEF Typed, SharedTyped, HandlerInv
  <2>2. \A h \in Links : batch[h] \in 0..Len(inbox[h])
    BY LenProperties DEF Typed, QueuesTyped
  <2> QED
    BY <2>1, <2>2, Zenon DEF Typed, SharedTyped, LinksTyped, QueuesTyped, TypeOK
<1> QED
  BY <1>1, TypedAlways, PTL

(***************************************************************************)
(* The packets and the receiving threads                                   *)
(***************************************************************************)

\* A server that has not closed says one thing more.
SaysFitly(h, said, state) ==
  /\ Says(h, said, state)
  /\ server[h] \in {"greet", "auth", "serving"}
  /\ \/ said = <<"HELLO">> /\ server[h] = "greet" /\ state = "auth"
     \/ said = <<"ERROR">> /\ state = "closed"
     \/ said = << >> /\ state = "closed"
     \/ said \in {<<"OK">>, <<"OK", "OK">>} /\ state \in {"serving", "closed"} /\ h \in proved'
     \/ said = <<"OK", "ERROR">> /\ state = "closed" /\ h \in proved'
     \/ said = <<"LOGIN">> /\ state = "auth" /\ server[h] = "auth"
     \/ said = <<"LAST">> /\ state = "closed"

LEMMA ServersSpeakFitly ==
  ASSUME NEW h \in Links, PacketInv, ServerSpeaks(h) \/ TakesProof(h) \/ Instructed(h)
  PROVE  /\ UNCHANGED <<inbox, server>> \/ \E said, state : SaysFitly(h, said, state)
         /\ proved' = proved \/ (proved' = proved \cup {h} /\ server[h] = "auth")
<1>1. CASE ServerSpeaks(h)
  BY <1>1 DEF ServerSpeaks, SaysFitly, history
<1>2. CASE TakesProof(h)
  <2>1. proved' = proved \/ (proved' = proved \cup {h} /\ server[h] = "auth")
    BY <1>2 DEF TakesProof
  <2>2. UNCHANGED <<inbox, server>> \/ \E said, state : SaysFitly(h, said, state)
    BY <1>2 DEF TakesProof, SaysFitly
  <2> QED
    BY <2>1, <2>2
<1>3. CASE Instructed(h)
  BY <1>3 DEF Instructed, TakesInstruction, SaysFitly, PacketInv, InboxInv
<1> QED
  BY <1>1, <1>2, <1>3

LEMMA InboxKeptBySpeech ==
  ASSUME NEW h \in Links, Typed, PacketInv, NEW said, NEW state, SaysFitly(h, said, state),
         proved' = proved \/ proved' = proved \cup {h}, UNCHANGED heard
  PROVE  \A k \in Links : InboxInv(k)'
<1>1. /\ inbox \in [Links -> Seq(Packets)]
      /\ server \in [Links -> {"none", "greet", "auth", "serving", "closed", "failed"}]
  BY DEF Typed, QueuesTyped, LinksTyped
<1>2. ASSUME NEW k \in Links, k # h PROVE InboxInv(k)'
  BY <1>1, <1>2 DEF SaysFitly, Says, PacketInv, InboxInv
<1>3. InboxInv(h)'
  <2>1. said \in Seq(Packets)
    BY SayingsTyped DEF SaysFitly
  <2>2. /\ inbox'[h] = inbox[h] \o said /\ server'[h] = state
        /\ inbox'[h] \in Seq(Packets) /\ Len(inbox'[h]) = Len(inbox[h]) + Len(said)
        /\ Len(inbox[h]) \in Nat /\ Len(said) \in Nat
        /\ \A i \in 1..Len(inbox[h]) : inbox'[h][i] = inbox[h][i]
        /\ \A i \in 1..Len(inbox'[h]) :
             i <= Len(inbox[h]) \/ (i - Len(inbox[h]) \in 1..Len(said) /\ inbox'[h][i] = said[i - Len(inbox[h])])
    BY <1>1, <2>1, ConcatElements DEF SaysFitly, Says
  <2>3. DOMAIN inbox[h] = 1..Len(inbox[h]) /\ DOMAIN inbox'[h] = 1..Len(inbox'[h])
    BY <1>1, <2>2, LenProperties
  <2>4. /\ \A i \in 1..Len(inbox[h]) :
             /\ inbox[h][i] = "HELLO" => i = 1 /\ h \notin heard
             /\ inbox[h][i] # "ERROR"
             /\ inbox[h][i] = "OK" => h \in proved
        /\ server[h] = "greet" => inbox[h] = << >> /\ h \notin heard
    BY <2>3 DEF SaysFitly, PacketInv, InboxInv
  <2>5. ASSUME NEW i \in 1..Len(inbox'[h])
        PROVE  /\ inbox'[h][i] = "HELLO" => i = 1 /\ h \notin heard
               /\ inbox'[h][i] = "ERROR" => i = Len(inbox'[h]) /\ state = "closed"
               /\ inbox'[h][i] = "OK" => h \in proved'
    <3>1. CASE i <= Len(inbox[h])
      <4>1. i \in 1..Len(inbox[h]) /\ inbox'[h][i] = inbox[h][i]
        BY <2>2, <3>1
      <4> QED
        BY <2>4, <4>1
    <3>2. CASE ~(i <= Len(inbox[h]))
      <4>1. i - Len(inbox[h]) \in 1..Len(said) /\ inbox'[h][i] = said[i - Len(inbox[h])]
        BY <2>2, <3>2
      <4>2. said = <<"HELLO">> => Len(inbox[h]) = 0 /\ h \notin heard
        BY <2>4, EmptySeq DEF SaysFitly
      <4>3. CASE said = <<"HELLO">>
        BY <2>2, <4>1, <4>2, <4>3
      <4>4. CASE said = <<"ERROR">> /\ state = "closed"
        BY <2>2, <4>1, <4>4
      <4>5. CASE said = << >>
        BY <4>1, <4>5, EmptySeq
      <4>6. CASE said \in {<<"OK">>, <<"OK", "OK">>} /\ h \in proved'
        BY <2>2, <4>1, <4>6
      <4>7. CASE said = <<"OK", "ERROR">> /\ state = "closed" /\ h \in proved'
        BY <2>2, <4>1, <4>7
      <4>8. CASE said = <<"LOGIN">> \/ said = <<"LAST">>
        BY <2>2, <4>1, <4>8
      <4> QED
        BY <4>3, <4>4, <4>5, <4>6, <4>7, <4>8 DEF SaysFitly
    <3> QED
      BY <3>1, <3>2
  <2>6. state = "serving" => h \in proved'
    BY DEF SaysFitly
  <2>7. state # "greet"
    BY DEF SaysFitly
  <2> QED
    BY <2>2, <2>3, <2>5, <2>6, <2>7 DEF InboxInv
<1> QED
  BY <1>2, <1>3

\* A receiving thread is running, and has handled no error, as long as its server has not closed.
LEMMA RxKeptBySpeech ==
  ASSUME NEW h \in Links, Typed, PacketInv, NEW said, NEW state, SaysFitly(h, said, state),
         proved' = proved \/ proved' = proved \cup {h},
         UNCHANGED <<heard, failed, made, rx, connected, notify>>
  PROVE  \A k \in Links : RxInv(k)'
<1>1. /\ inbox \in [Links -> Seq(Packets)]
      /\ server \in [Links -> {"none", "greet", "auth", "serving", "closed", "failed"}]
  BY DEF Typed, QueuesTyped, LinksTyped
<1>2. ASSUME NEW k \in Links, k # h PROVE RxInv(k)'
  BY <1>1, <1>2 DEF SaysFitly, Says, PacketInv, RxInv
<1>3. RxInv(h)'
  BY <1>1 DEF SaysFitly, Says, PacketInv, RxInv
<1> QED
  BY <1>2, <1>3

LEMMA PacketsKeptBySpeech ==
  ASSUME NEW h \in Links, Typed, PacketInv,
         ServerSpeaks(h) \/ TakesProof(h) \/ Instructed(h) \/ UNCHANGED <<inbox, server, proved>>,
         UNCHANGED <<heard, failed, made, rx, connected, notify>>
  PROVE  PacketInv'
<1>1. CASE UNCHANGED <<inbox, server, proved>>
  BY <1>1 DEF PacketInv, InboxInv, RxInv
<1>2. CASE ServerSpeaks(h) \/ TakesProof(h) \/ Instructed(h)
  <2>1. /\ UNCHANGED <<inbox, server>> \/ \E said, state : SaysFitly(h, said, state)
        /\ proved' = proved \/ (proved' = proved \cup {h} /\ server[h] = "auth")
    BY <1>2, ServersSpeakFitly
  <2>2. CASE UNCHANGED <<inbox, server>>
    BY <2>1, <2>2 DEF PacketInv, InboxInv, RxInv
  <2>3. CASE \E said, state : SaysFitly(h, said, state)
    BY <2>1, <2>3, InboxKeptBySpeech, RxKeptBySpeech DEF PacketInv
  <2> QED
    BY <2>1, <2>2, <2>3
<1> QED
  BY <1>1, <1>2

\* Dropping a link closes it and nothing else.
LEMMA DropsClose ==
  ASSUME NEW t \in Callers \cup Links, NEW h \in Links \cup {NoLink}, LinksTyped,
         DropStarts(t, h) \/ DropEnds(t)
  PROVE  \A k \in Links : connected'[k] => connected[k]
BY DEF DropStarts, DropEnds, LinksTyped

\* A receiving thread that ends, or whose read throws, leaves no packet and a server that says no more.
LEMMA PacketsKeptByEnd ==
  ASSUME NEW h \in Links, Typed, PacketInv, rx[h] # "none",
         Emptied(h), NEW state \in {"closed", "failed"}, server' = [server EXCEPT ![h] = state],
         NEW v \in {"loop", "ended"}, rx' = [rx EXCEPT ![h] = v], rx[h] \notin {"hello", "error"},
         \A k \in Links : connected'[k] => connected[k],
         UNCHANGED <<made, notify, heard, failed, proved>>
  PROVE  PacketInv'
<1>1. LinksTyped /\ inbox \in [Links -> Seq(Packets)]
  BY DEF Typed, QueuesTyped
<1>2. /\ inbox'[h] = << >> /\ DOMAIN inbox'[h] = {} /\ server'[h] = state /\ rx'[h] = v
      /\ RxInv(h)
  <2>1. inbox'[h] = << >>
    BY <1>1 DEF Emptied
  <2>2. DOMAIN << >> = {}
    OBVIOUS
  <2> QED
    BY <1>1, <2>1, <2>2 DEF LinksTyped, PacketInv
<1>3. InboxInv(h)'
  BY <1>2 DEF InboxInv
<1>4. RxInv(h)'
  BY <1>2 DEF RxInv
<1>5. ASSUME NEW k \in Links, k # h PROVE InboxInv(k)' /\ RxInv(k)'
  <2>1. inbox'[k] = inbox[k] /\ server'[k] = server[k] /\ rx'[k] = rx[k] /\ InboxInv(k) /\ RxInv(k)
    BY <1>1, <1>5 DEF Emptied, LinksTyped, PacketInv
  <2>2. InboxInv(k)'
    BY <2>1 DEF InboxInv
  <2>3. RxInv(k)'
    BY <2>1 DEF RxInv
  <2> QED
    BY <2>2, <2>3
<1> QED
  BY <1>3, <1>4, <1>5 DEF PacketInv

LEMMA PacketsKeptByRx ==
  ASSUME NEW h \in Links, Typed, HandlerInv, PacketInv, RxStep(h)
  PROVE  PacketInv'
<1> USE DEF shared, link, packets, receive, callers, history
<1>t. LinksTyped /\ QueuesTyped /\ heard \subseteq Links /\ failed \subseteq Links
  BY DEF Typed, SharedTyped
<1>1. CASE RxLoops(h)
  <2>1. CASE rx' = [rx EXCEPT ![h] = "recv"] /\ UNCHANGED <<inbox, server>>
    BY <1>1, <1>t, <2>1 DEF RxLoops, PacketInv, RxInv, InboxInv, LinksTyped
  <2>2. CASE RxEnds(h)
    <3>1. rx[h] = "loop" /\ UNCHANGED <<made, connected, notify, heard, failed, proved>>
      BY <1>1 DEF RxLoops
    <3>2. Emptied(h) /\ server' = [server EXCEPT ![h] = "closed"] /\ rx' = [rx EXCEPT ![h] = "ended"]
      BY <2>2 DEF RxEnds, Emptied
    <3> QED
      BY <3>1, <3>2, PacketsKeptByEnd
  <2> QED
    BY <1>1, <2>1, <2>2 DEF RxLoops
<1>2. CASE Recieve(h)
  <2>1. rx[h] = "recv" /\ UNCHANGED <<made, notify, heard, failed, proved>>
    BY <1>2 DEF Recieve
  <2>2. CASE RecievePackets(h)
    <3>1. rx' = [rx EXCEPT ![h] = "loop"] /\ UNCHANGED <<inbox, server, connected>>
      BY <2>2 DEF RecievePackets
    <3> QED
      BY <1>t, <2>1, <3>1 DEF PacketInv, RxInv, InboxInv, LinksTyped
  <2>3. CASE RecieveEnd(h) \/ RecieveThrows(h) \/ RecieveClosed(h)
    <3>1. \A k \in Links : connected'[k] => connected[k]
      BY <1>t, <2>3 DEF RecieveEnd, RecieveThrows, RecieveClosed, LinksTyped
    <3>2. CASE RxEnds(h)
      <4>1. Emptied(h) /\ server' = [server EXCEPT ![h] = "closed"] /\ rx' = [rx EXCEPT ![h] = "ended"]
        BY <3>2 DEF RxEnds, Emptied
      <4> QED
        BY <2>1, <3>1, <4>1, PacketsKeptByEnd
    <3>3. CASE RecieveThrows(h)
      <4>1. Emptied(h) /\ server' = [server EXCEPT ![h] = "failed"] /\ rx' = [rx EXCEPT ![h] = "loop"]
        BY <3>3 DEF RecieveThrows, Emptied
      <4> QED
        BY <2>1, <3>1, <4>1, PacketsKeptByEnd
    <3> QED
      BY <2>3, <3>2, <3>3 DEF RecieveEnd, RecieveClosed
  <2> QED
    BY <1>2, <2>2, <2>3 DEF Recieve
<1>3. CASE RxPacket(h)
  <2>1. inbox[h] \in Seq(Packets) /\ inbox[h] # << >> /\ rx[h] = "loop"
    <3>1. batch[h] \in Nat \ {0} /\ batch[h] <= Len(inbox[h]) /\ inbox[h] \in Seq(Packets)
      BY <1>3, <1>t DEF RxPacket, QueuesTyped
    <3> QED
      BY <1>3, <3>1, EmptySeq DEF RxPacket
  <2>2. /\ inbox' = [inbox EXCEPT ![h] = Tail(inbox[h])]
        /\ UNCHANGED <<server, proved, made, connected, failed>>
    BY <1>3 DEF RxPacket
  <2>3. /\ Head(inbox[h]) = inbox[h][1] /\ Len(inbox[h]) \in Nat \ {0}
        /\ Tail(inbox[h]) \in Seq(Packets) /\ Len(Tail(inbox[h])) = Len(inbox[h]) - 1
        /\ \A i \in 1..Len(Tail(inbox[h])) : Tail(inbox[h])[i] = inbox[h][i + 1] /\ i + 1 \in 1..Len(inbox[h])
    BY <2>1, TailElements
  <2>4. /\ DOMAIN inbox[h] = 1..Len(inbox[h]) /\ 1 \in 1..Len(inbox[h])
        /\ inbox'[h] = Tail(inbox[h]) /\ DOMAIN inbox'[h] = 1..Len(inbox'[h])
    BY <1>t, <2>1, <2>2, <2>3, LenProperties DEF QueuesTyped
  <2>5. heard' = heard \/ (heard' = heard \cup {h} /\ inbox[h][1] = "HELLO")
    BY <1>3, <2>3 DEF RxPacket
  <2>6. ASSUME NEW k \in Links, k # h PROVE InboxInv(k)'
    BY <1>t, <2>2, <2>5, <2>6 DEF PacketInv, InboxInv, QueuesTyped
  <2>7. InboxInv(h)'
    <3>1. ASSUME NEW i \in 1..Len(inbox'[h])
          PROVE  /\ inbox'[h][i] # "HELLO"
                 /\ inbox'[h][i] = "ERROR" => i = Len(inbox'[h]) /\ server[h] = "closed"
                 /\ inbox'[h][i] = "OK" => h \in proved
      <4>1. i \in 1..Len(Tail(inbox[h])) /\ inbox'[h][i] = inbox[h][i + 1] /\ i + 1 \in 1..Len(inbox[h])
        BY <2>3, <2>4
      <4>2. /\ inbox[h][i + 1] = "HELLO" => i + 1 = 1
            /\ inbox[h][i + 1] = "ERROR" => i + 1 = Len(inbox[h]) /\ server[h] = "closed"
            /\ inbox[h][i + 1] = "OK" => h \in proved
        BY <2>4, <4>1 DEF PacketInv, InboxInv
      <4>3. i + 1 # 1 /\ (i + 1 = Len(inbox[h]) => i = Len(inbox'[h]))
        <5>1. \A j, n \in Int : (j + 1 = n => j = n - 1) /\ (j > 0 => j + 1 # 1)
          OBVIOUS
        <5>2. i \in Int /\ Len(inbox[h]) \in Int /\ i > 0 /\ Len(inbox'[h]) = Len(inbox[h]) - 1
          BY <2>3, <2>4
        <5> QED
          BY <5>1, <5>2, Zenon
      <4> QED
        BY <4>1, <4>2, <4>3, Zenon
    <3>2. server[h] # "greet" /\ (server[h] = "serving" => h \in proved)
      BY <2>1 DEF PacketInv, InboxInv
    <3> QED
      BY <2>2, <2>4, <3>1, <3>2 DEF InboxInv
  <2>8. ASSUME NEW k \in Links, k # h PROVE RxInv(k)'
    <3>1. inbox'[k] = inbox[k] /\ rx'[k] = rx[k] /\ notify'[k] = notify[k] /\ (k \in heard' <=> k \in heard)
      BY <1>3, <1>t, <2>2, <2>5, <2>8 DEF RxPacket, QueuesTyped, LinksTyped
    <3> QED
      BY <2>2, <3>1 DEF PacketInv, RxInv
  <2>9. RxInv(h)'
    <3>1. /\ RxInv(h) /\ h \notin failed
      BY <2>1 DEF PacketInv, RxInv
    <3>2. /\ rx'[h] = "error" => inbox[h][1] = "ERROR"
          /\ rx'[h] = "hello" => h \in heard'
          /\ rx'[h] \in {"loop", "hello", "error"}
          /\ rx'[h] = "loop" => notify'[h] = notify[h]
      BY <1>3, <1>t, <2>3 DEF RxPacket, LinksTyped
    <3>3. inbox[h][1] = "ERROR" => inbox'[h] = << >> /\ server[h] = "closed"
      <4>1. inbox[h][1] = "ERROR" => 1 = Len(inbox[h]) /\ server[h] = "closed"
        BY <2>4 DEF PacketInv, InboxInv
      <4>2. Len(inbox[h]) = 1 => Len(Tail(inbox[h])) = 0
        BY <2>3
      <4> QED
        BY <2>3, <2>4, <4>1, <4>2, EmptySeq
    <3> QED
      BY <2>1, <2>2, <3>1, <3>2, <3>3 DEF RxInv
  <2> QED
    BY <2>6, <2>7, <2>8, <2>9 DEF PacketInv
<1>4. CASE RxNotifies(h)
  <2>1. \/ rx[h] = "hello" /\ rx' = [rx EXCEPT ![h] = "loop"] /\ failed' = failed
        \/ rx[h] = "error" /\ rx' = [rx EXCEPT ![h] = "drop"] /\ failed' = failed \cup {h}
    BY <1>4 DEF RxNotifies
  <2>2. notify' = [notify EXCEPT ![h] = {}]
    BY <1>4 DEF RxNotifies
  <2> QED
    BY <1>4, <1>t, <2>1, <2>2 DEF RxNotifies, PacketInv, RxInv, InboxInv, LinksTyped
<1>5. CASE RxDrops(h)
  <2>1. rx[h] = "drop" /\ \E v \in {"loop", "ended", "drop"} : rx' = [rx EXCEPT ![h] = v]
    BY <1>5, <1>t DEF RxDrops, LinksTyped, RxEnds
  <2>2. \A k \in Links : connected'[k] => connected[k]
    <3>1. \/ connected' = [connected EXCEPT ![h] = FALSE] \/ UNCHANGED connected
          \/ DropStarts(h, m_LinkHanlder) \/ DropEnds(h)
      BY <1>5 DEF RxDrops, RxEnds
    <3>2. m_LinkHanlder \in Links \cup {NoLink}
      BY DEF Typed, SharedTyped
    <3> QED
      BY <1>t, <3>1, <3>2, DropsClose DEF LinksTyped
  <2>3. UNCHANGED <<made, notify, heard, failed, proved>>
    BY <1>5 DEF RxDrops
  <2>4. CASE RxEnds(h)
    <3>1. Emptied(h) /\ server' = [server EXCEPT ![h] = "closed"] /\ rx' = [rx EXCEPT ![h] = "ended"]
      BY <2>4 DEF RxEnds, Emptied
    <3> QED
      BY <2>1, <2>2, <2>3, <3>1, PacketsKeptByEnd
  <2>5. CASE UNCHANGED <<inbox, server>> /\ \E v \in {"loop", "drop"} : rx' = [rx EXCEPT ![h] = v]
    BY <1>t, <2>1, <2>2, <2>3, <2>5 DEF PacketInv, RxInv, InboxInv, LinksTyped
  <2>6. RxEnds(h) \/ (UNCHANGED <<inbox, server>> /\ \E v \in {"loop", "drop"} : rx' = [rx EXCEPT ![h] = v])
    BY <1>5, <2>1 DEF RxDrops
  <2> QED
    BY <2>4, <2>5, <2>6
<1> QED
  BY <1>1, <1>2, <1>3, <1>4, <1>5 DEF RxStep

LEMMA PacketInvKept == Typed /\ HandlerInv /\ PacketInv /\ [Next]_vars => PacketInv'
<1> SUFFICES ASSUME Typed, HandlerInv, PacketInv, [Next]_vars PROVE PacketInv'
  OBVIOUS
<1> USE LinkNumbers DEF shared, link, packets, receive, callers, history
<1>t. LinksTyped
  BY DEF Typed
<1>h. m_LinkHanlder \in Links \cup {NoLink} /\ (upc # "out" => m_LinkHanlder \in Links)
  BY DEF Typed, SharedTyped, HandlerInv
<1>c. User \in Callers \cup Links /\ Timer \in Callers \cup Links
  BY DEF Callers
<1>1. CASE UNCHANGED vars
  BY <1>1 DEF vars, PacketInv, InboxInv, RxInv
<1>2. CASE Connect
  <2>1. PICK new \in Links : new = made + 1 /\ made \in Nat
    BY <1>2 DEF Connect, Links, Typed, SharedTyped
  <2>2. RxInv(new) /\ InboxInv(new) /\ rx[new] = "none"
    BY <2>1 DEF PacketInv, RxInv
  <2>3. UNCHANGED <<connected, server, rx>> \/
        /\ connected' = [connected EXCEPT ![new] = TRUE]
        /\ server' = [server EXCEPT ![new] = "greet"]
        /\ rx' = [rx EXCEPT ![new] = "loop"]
    BY <1>2, <2>1 DEF Connect
  <2>4. made' = new /\ UNCHANGED <<inbox, heard, failed, proved, notify>>
    BY <1>2, <2>1 DEF Connect
  <2>5. ASSUME NEW k \in Links, k # new PROVE InboxInv(k)' /\ RxInv(k)'
    <3>1. /\ inbox'[k] = inbox[k] /\ notify'[k] = notify[k] /\ rx'[k] = rx[k]
          /\ server'[k] = server[k] /\ connected'[k] = connected[k]
      BY <1>t, <2>3, <2>4, <2>5 DEF LinksTyped
    <3>2. k > made' => k > made
      BY <2>1, <2>4 DEF Links
    <3>3. InboxInv(k) /\ RxInv(k)
      BY DEF PacketInv
    <3>4. InboxInv(k)'
      BY <2>4, <3>1, <3>3 DEF InboxInv
    <3>5. RxInv(k)'
      BY <2>4, <3>1, <3>2, <3>3 DEF RxInv
    <3> QED
      BY <3>4, <3>5
  <2>6. ~(new > made')
    BY <2>1, <2>4
  <2>7. InboxInv(new)'
    BY <1>t, <2>2, <2>3, <2>4 DEF InboxInv, RxInv, LinksTyped
  <2>8. RxInv(new)'
    BY <1>t, <2>2, <2>3, <2>4, <2>6 DEF InboxInv, RxInv, LinksTyped
  <2> QED
    BY <2>5, <2>7, <2>8 DEF PacketInv
<1>3. CASE Authorize
  <2>1. TakesProof(m_LinkHanlder) \/ UNCHANGED <<inbox, server, proved>>
    BY <1>3 DEF Authorize, NothingSent
  <2> QED
    BY <1>h, <1>3, <2>1, PacketsKeptBySpeech DEF Authorize
<1>4. CASE Request
  <2>1. Instructed(m_LinkHanlder) \/ UNCHANGED <<inbox, server, proved>>
    BY <1>4 DEF Request, NothingSent, Answers, Instructed
  <2> QED
    BY <1>h, <1>4, <2>1, PacketsKeptBySpeech DEF Request
<1>5. CASE SendNOP
  <2>1. Instructed(m_LinkHanlder) \/ UNCHANGED <<inbox, server, proved>>
    BY <1>5 DEF SendNOP, NothingSent, Instructed
  <2> QED
    BY <1>h, <1>5, <2>1, PacketsKeptBySpeech DEF SendNOP
<1>6. ASSUME NEW h \in Links, ServerSpeaks(h) PROVE PacketInv'
  BY <1>6, PacketsKeptBySpeech DEF ServerSpeaks
<1>7. CASE Disconnect
  <2>1. Instructed(m_LinkHanlder) \/ UNCHANGED <<inbox, server, proved>>
    BY <1>7 DEF Disconnect, NothingSent, Instructed
  <2>2. m_LinkHanlder \in Links
    BY <1>h, <1>7 DEF Disconnect
  <2> QED
    BY <1>7, <2>1, <2>2, PacketsKeptBySpeech DEF Disconnect
<1>8. CASE UserDrops
  <2>1. \A k \in Links : connected'[k] => connected[k]
    BY <1>t, <1>h, <1>c, <1>8, DropsClose DEF UserDrops
  <2> QED
    BY <1>t, <1>8, <2>1, DropsTyped DEF UserDrops, PacketInv, InboxInv, RxInv, LinksTyped
<1>9. CASE NopReturns
  <2>1. \A k \in Links : connected'[k] => connected[k]
    BY <1>t, <1>h, <1>c, <1>9, DropsClose DEF NopReturns
  <2> QED
    BY <1>t, <1>9, <2>1 DEF NopReturns, PacketInv, InboxInv, RxInv, LinksTyped
<1>10. CASE TimerHasDropped
  <2>1. \A k \in Links : connected'[k] => connected[k]
    BY <1>t, <1>h, <1>c, <1>10, DropsClose DEF TimerHasDropped
  <2> QED
    BY <1>t, <1>10, <2>1 DEF TimerHasDropped, PacketInv, InboxInv, RxInv, LinksTyped
<1>11. CASE ConnectSeesNotify \/ ConnectReturns \/ CallReturns \/ UserHasDropped \/ EnableKeepAlive
            \/ DisableKeepAlive \/ KeepAliveRoutine \/ NopThrows
  BY <1>11 DEF ConnectSeesNotify, ConnectReturns, CallReturns, UserHasDropped,
     EnableKeepAlive, DisableKeepAlive, KeepAliveRoutine, NopThrows, PacketInv, InboxInv, RxInv
<1>12. ASSUME NEW h \in Links, RxStep(h) PROVE PacketInv'
  BY <1>12, PacketsKeptByRx
<1> QED
  BY <1>1, <1>2, <1>3, <1>4, <1>5, <1>6, <1>7, <1>8, <1>9, <1>10, <1>11, <1>12
     DEF Next, UserCall, UserStep, TimerStep

(***************************************************************************)
(* The user's requests                                                     *)
(***************************************************************************)

\* A call that is appended to the queue of a link.
LEMMA QueuesKeptByLinkCall ==
  ASSUME NEW c \in Callers, NEW h \in Links, Typed, LinkCall(c, h),
         NEW k \in Links, NEW i \in DOMAIN queue'[k], queue'[k][i] = User
  PROVE  \/ k = h /\ c = User /\ CanLink(h) /\ i = Len(queue[h]) + 1 /\ DOMAIN queue'[h] = 1..Len(queue[h]) + 1
            /\ \A j \in DOMAIN queue[h] : queue'[h][j] = queue[h][j]
            /\ DOMAIN queue[h] = 1..Len(queue[h])
         \/ /\ i \in DOMAIN queue[k] /\ queue[k][i] = User
            /\ \A j \in DOMAIN queue'[k] :
                 queue'[k][j] = User => (j \in DOMAIN queue[k] /\ queue[k][j] = User) \/ c = User
<1>1. queue \in [Links -> Seq(Callers)]
  BY DEF Typed, QueuesTyped
<1>2. CASE queue'[k] = queue[k]
  BY <1>2
<1>3. CASE k = h /\ CanLink(h) /\ queue'[h] = Append(queue[h], c)
  <2>1. /\ Len(queue'[h]) = Len(queue[h]) + 1 /\ Len(queue[h]) \in Nat
        /\ \A j \in 1..Len(queue[h]) : queue'[h][j] = queue[h][j]
        /\ queue'[h][Len(queue[h]) + 1] = c
        /\ queue'[h] \in Seq(Callers)
    BY <1>1, <1>3, AppendElements
  <2>2. DOMAIN queue[h] = 1..Len(queue[h]) /\ DOMAIN queue'[h] = 1..Len(queue[h]) + 1
    BY <1>1, <2>1, LenProperties
  <2>3. \A j \in 1..Len(queue[h]) + 1 : j \in 1..Len(queue[h]) \/ j = Len(queue[h]) + 1
    BY <2>1
  <2> QED
    BY <1>3, <2>1, <2>2, <2>3
<1> QED
  BY <1>1, <1>2, <1>3 DEF LinkCall

LEMMA QueuedOnceKeptByTimer ==
  ASSUME Typed, QueuedOnce, NEW h \in Links, LinkCall(Timer, h), UNCHANGED <<m_LinkHanlder, upc>>
  PROVE  QueuedOnce'
<1>1. Timer \in Callers /\ User \in Callers /\ Timer # User
  BY NamesAssumption DEF Callers
<1>2. reply'[User] = reply[User]
  BY <1>1 DEF LinkCall, Typed, QueuesTyped
<1>3. ASSUME NEW k \in Links, NEW i \in DOMAIN queue'[k], queue'[k][i] = User
      PROVE  /\ k = m_LinkHanlder /\ upc \in {"proving", "asking"} /\ reply[User] = "NONE"
             /\ \A j \in DOMAIN queue'[k] : queue'[k][j] = User => j = i
  <2>1. /\ i \in DOMAIN queue[k] /\ queue[k][i] = User
        /\ \A j \in DOMAIN queue'[k] : queue'[k][j] = User => j \in DOMAIN queue[k] /\ queue[k][j] = User
    BY <1>1, <1>3, QueuesKeptByLinkCall
  <2> QED
    BY <2>1 DEF QueuedOnce
<1> QED
  BY <1>2, <1>3 DEF QueuedOnce

LEMMA QueuedOnceKeptByUser ==
  ASSUME Typed, QueuedOnce, upc \notin {"proving", "asking"}, upc' \in {"proving", "asking"},
         UNCHANGED m_LinkHanlder, m_LinkHanlder \in Links, LinkCall(User, m_LinkHanlder)
  PROVE  QueuedOnce'
<1>1. User \in Callers
  BY DEF Callers
<1>2. \A k \in Links : \A i \in DOMAIN queue[k] : queue[k][i] # User
  BY DEF QueuedOnce
<1>3. CanLink(m_LinkHanlder) => reply'[User] = "NONE"
  BY <1>1 DEF LinkCall, Typed, QueuesTyped
<1>4. ASSUME NEW k \in Links, NEW i \in DOMAIN queue'[k], queue'[k][i] = User
      PROVE  k = m_LinkHanlder /\ CanLink(m_LinkHanlder)
             /\ \A j \in DOMAIN queue'[k] : queue'[k][j] = User => j = i
  <2>1. /\ k = m_LinkHanlder /\ CanLink(k) /\ i = Len(queue[k]) + 1 /\ DOMAIN queue'[k] = 1..Len(queue[k]) + 1
        /\ \A j \in DOMAIN queue[k] : queue'[k][j] = queue[k][j]
        /\ DOMAIN queue[k] = 1..Len(queue[k])
    BY <1>1, <1>2, <1>4, QueuesKeptByLinkCall
  <2>2. \A j \in 1..Len(queue[k]) + 1 : j \in 1..Len(queue[k]) \/ j = Len(queue[k]) + 1
    BY LenProperties DEF Typed, QueuesTyped
  <2> QED
    BY <1>2, <2>1, <2>2
<1> QED
  BY <1>3, <1>4 DEF QueuedOnce

LEMMA QueuedOnceKept == Typed /\ HandlerInv /\ QueuedOnce /\ [Next]_vars => QueuedOnce'
<1> SUFFICES ASSUME Typed, HandlerInv, QueuedOnce, [Next]_vars PROVE QueuedOnce'
  OBVIOUS
<1> USE LinkNumbers DEF shared, link, packets, receive, callers, history
<1>q. queue \in [Links -> Seq(Callers)] /\ reply \in [Callers -> Packets \cup {"NONE", "FAIL"}]
  BY DEF Typed, QueuesTyped
<1>h. m_LinkHanlder \in Links \cup {NoLink} /\ (upc # "out" => m_LinkHanlder \in Links)
  BY DEF Typed, SharedTyped, HandlerInv
<1>c. User \in Callers /\ Timer \in Callers /\ Timer # User
  BY NamesAssumption DEF Callers
<1>1. CASE UNCHANGED vars
  BY <1>1 DEF vars, QueuedOnce
<1>2. CASE Connect \/ ConnectSeesNotify \/ ConnectReturns \/ Disconnect \/ UserHasDropped
  BY <1>2 DEF Connect, ConnectSeesNotify, ConnectReturns, Disconnect, UserHasDropped, QueuedOnce
<1>3. CASE Authorize
  <2>1. CASE upc' = "in"
    BY <1>3, <2>1 DEF Authorize, QueuedOnce
  <2>2. CASE upc' = "proving" /\ LinkCall(User, m_LinkHanlder)
    BY <1>3, <1>h, <2>2, QueuedOnceKeptByUser DEF Authorize
  <2> QED
    BY <1>3, <2>1, <2>2 DEF Authorize
<1>4. CASE Request
  BY <1>4, <1>h, QueuedOnceKeptByUser DEF Request
<1>5. CASE CallReturns
  <2>1. \A k \in Links : \A i \in DOMAIN queue[k] : queue[k][i] # User
    BY <1>5 DEF CallReturns, QueuedOnce
  <2>2. UNCHANGED queue
    BY <1>5 DEF CallReturns
  <2> QED
    BY <2>1, <2>2 DEF QueuedOnce
<1>6. CASE UserDrops \/ EnableKeepAlive \/ DisableKeepAlive \/ KeepAliveRoutine \/ TimerHasDropped
  BY <1>6 DEF UserDrops, EnableKeepAlive, DisableKeepAlive, KeepAliveRoutine, TimerHasDropped, QueuedOnce
<1>7. CASE NopThrows \/ NopReturns
  <2>1. UNCHANGED <<queue, m_LinkHanlder, upc>> /\ reply'[User] = reply[User]
    BY <1>7, <1>q, <1>c DEF NopThrows, NopReturns
  <2> QED
    BY <2>1 DEF QueuedOnce
<1>8. CASE SendNOP
  <2>1. CASE UNCHANGED <<queue, reply>>
    BY <1>8, <2>1 DEF SendNOP, QueuedOnce
  <2>2. CASE LinkCall(Timer, m_LinkHanlder)
    BY <1>8, <1>h, <2>2, QueuedOnceKeptByTimer DEF SendNOP
  <2> QED
    BY <1>8, <2>1, <2>2 DEF SendNOP
<1>9. ASSUME NEW h \in Links, ServerSpeaks(h) PROVE QueuedOnce'
  BY <1>9 DEF ServerSpeaks, QueuedOnce
<1>10. ASSUME NEW h \in Links, RxStep(h) PROVE QueuedOnce'
  <2>1. CASE RxLoops(h) \/ RxNotifies(h) \/ RxDrops(h)
    BY <2>1 DEF RxLoops, RxNotifies, RxDrops, QueuedOnce, RxEnds
  <2>2. CASE Recieve(h)
    <3>1. CASE UNCHANGED <<queue, reply>>
      BY <2>2, <3>1 DEF Recieve, RecievePackets, RecieveEnd, RecieveThrows, RecieveClosed,
         QueuedOnce, RxEnds
    <3>2. CASE FailWaiting(h)
      <4>1. queue'[h] = << >> /\ DOMAIN queue'[h] = {} /\ \A k \in Links : k # h => queue'[k] = queue[k]
        BY <1>q, <3>2, EmptySeq DEF FailWaiting
      <4>2. reply'[User] = reply[User] \/ h = m_LinkHanlder
        BY <1>q, <1>c, <3>2 DEF FailWaiting, Waiting, QueuedOnce
      <4>3. UNCHANGED <<m_LinkHanlder, upc>>
        BY <2>2 DEF Recieve, RecievePackets, RecieveEnd, RecieveThrows, RecieveClosed, RxEnds
      <4> QED
        BY <4>1, <4>2, <4>3 DEF QueuedOnce
    <3> QED
      BY <2>2, <3>1, <3>2 DEF Recieve, RecievePackets, RecieveEnd, RecieveThrows, RecieveClosed,
         RxEnds
  <2>3. CASE RxPacket(h) /\ queue[h] = << >>
    BY <2>3 DEF RxPacket, QueuedOnce
  <2>4. CASE RxPacket(h) /\ queue[h] # << >>
    <3>1. /\ reply' = [reply EXCEPT ![Head(queue[h])] = Head(inbox[h])]
          /\ queue' = [queue EXCEPT ![h] = Tail(queue[h])] /\ UNCHANGED <<m_LinkHanlder, upc>>
      BY <2>4 DEF RxPacket
    <3>2. /\ Head(queue[h]) = queue[h][1] /\ Len(queue[h]) \in Nat \ {0} /\ Tail(queue[h]) \in Seq(Callers)
          /\ \A i \in 1..Len(Tail(queue[h])) : Tail(queue[h])[i] = queue[h][i + 1] /\ i + 1 \in 1..Len(queue[h])
      BY <1>q, <2>4, TailElements
    <3>3. /\ DOMAIN queue[h] = 1..Len(queue[h]) /\ DOMAIN Tail(queue[h]) = 1..Len(Tail(queue[h]))
          /\ 1 \in DOMAIN queue[h]
      BY <1>q, <3>2, LenProperties
    <3>4. ASSUME NEW k \in Links, NEW i \in DOMAIN queue'[k], queue'[k][i] = User
          PROVE  /\ k = m_LinkHanlder /\ upc \in {"proving", "asking"} /\ reply'[User] = "NONE"
                 /\ \A j \in DOMAIN queue'[k] : queue'[k][j] = User => j = i
      <4>1. CASE k # h
        <5>1. queue'[k] = queue[k]
          BY <1>q, <3>1, <4>1
        <5>2. k = m_LinkHanlder /\ reply[User] = "NONE" /\ upc \in {"proving", "asking"}
              /\ \A j \in DOMAIN queue[k] : queue[k][j] = User => j = i
          BY <3>4, <5>1 DEF QueuedOnce
        <5>3. Head(queue[h]) # User
          BY <3>2, <3>3, <4>1, <5>2 DEF QueuedOnce
        <5> QED
          BY <1>q, <3>1, <5>1, <5>2, <5>3
      <4>2. CASE k = h
        <5>1. /\ queue'[k] = Tail(queue[h]) /\ i \in 1..Len(Tail(queue[h]))
              /\ queue[h][i + 1] = User /\ i + 1 \in DOMAIN queue[h] /\ i \in Nat \ {0}
          BY <1>q, <3>1, <3>2, <3>3, <3>4, <4>2
        <5>2. /\ h = m_LinkHanlder /\ reply[User] = "NONE" /\ upc \in {"proving", "asking"}
              /\ \A j \in DOMAIN queue[h] : queue[h][j] = User => j = i + 1
          BY <5>1 DEF QueuedOnce
        <5>3. \A n \in Nat \ {0} : n + 1 # 1 /\ \A l \in Nat : l + 1 = n + 1 => l = n
          OBVIOUS
        <5>4. Head(queue[h]) # User
          BY <3>2, <3>3, <5>1, <5>2, <5>3, Zenon
        <5>5. \A j \in 1..Len(Tail(queue[h])) : Tail(queue[h])[j] = User => j = i
          BY <3>2, <3>3, <5>1, <5>2
        <5> QED
          BY <1>q, <3>1, <3>3, <4>2, <5>1, <5>2, <5>4, <5>5
      <4> QED
        BY <4>1, <4>2
    <3> QED
      BY <3>1, <3>4 DEF QueuedOnce
  <2> QED
    BY <1>10, <2>1, <2>2, <2>3, <2>4 DEF RxStep
<1> QED
  BY <1>1, <1>2, <1>3, <1>4, <1>5, <1>6, <1>7, <1>8, <1>9, <1>10 DEF Next, UserCall, UserStep, TimerStep

(***************************************************************************)
(* What the user is told                                                   *)
(***************************************************************************)

CoreInv == Typed /\ HandlerInv /\ PacketInv /\ QueuedOnce /\ ProofInv

\* The packet a receiving thread takes.
LEMMA PacketTaken ==
  ASSUME Typed, NEW h \in Links, RxPacket(h)
  PROVE  /\ Head(inbox[h]) = inbox[h][1] /\ 1 \in DOMAIN inbox[h] /\ inbox[h] # << >>
         /\ queue[h] # << >> => Head(queue[h]) = queue[h][1] /\ 1 \in DOMAIN queue[h]
<1>1. batch[h] \in Nat \ {0} /\ batch[h] <= Len(inbox[h]) /\ inbox[h] \in Seq(Packets)
      /\ queue[h] \in Seq(Callers)
  BY DEF RxPacket, Typed, QueuesTyped
<1>2. inbox[h] # << >>
  BY <1>1, EmptySeq
<1>3. Len(inbox[h]) \in Nat \ {0} /\ DOMAIN inbox[h] = 1..Len(inbox[h]) /\ Head(inbox[h]) = inbox[h][1]
  BY <1>1, <1>2, TailElements, LenProperties
<1>4. ASSUME queue[h] # << >> PROVE Head(queue[h]) = queue[h][1] /\ 1 \in DOMAIN queue[h]
  <2>1. Len(queue[h]) \in Nat \ {0} /\ DOMAIN queue[h] = 1..Len(queue[h]) /\ Head(queue[h]) = queue[h][1]
    BY <1>1, <1>4, TailElements, LenProperties
  <2> QED
    BY <2>1
<1> QED
  BY <1>2, <1>3, <1>4

LEMMA ProofInvKept == CoreInv /\ [Next]_vars => ProofInv'
<1> SUFFICES ASSUME CoreInv, [Next]_vars PROVE ProofInv'
  OBVIOUS
<1> USE LinkNumbers DEF shared, link, packets, receive, callers, history
<1>i. Typed /\ HandlerInv /\ PacketInv /\ QueuedOnce /\ ProofInv
  BY DEF CoreInv
<1>q. /\ reply \in [Callers -> Packets \cup {"NONE", "FAIL"}] /\ m_isAuth \in BOOLEAN
      /\ heard \subseteq Links
  BY <1>i DEF Typed, QueuesTyped, SharedTyped
<1>h. m_LinkHanlder \in Links \cup {NoLink} /\ (upc # "out" => m_LinkHanlder \in Links)
  BY <1>i DEF Typed, SharedTyped, HandlerInv
<1>c. User \in Callers /\ Timer \in Callers /\ Timer # User
  BY NamesAssumption DEF Callers
<1>1. CASE UNCHANGED vars
  BY <1>i, <1>1 DEF vars, ProofInv
<1>2. CASE Connect
  <2>1. made + 1 \in Links /\ made + 1 \notin heard
    <3>1. PICK new \in Links : new = made + 1 /\ made \in Nat
      BY <1>i, <1>2 DEF Connect, Links, Typed, SharedTyped
    <3>2. RxInv(new)
      BY <1>i DEF PacketInv
    <3> QED
      BY <3>1, <3>2 DEF RxInv
  <2> QED
    BY <1>i, <1>2, <2>1 DEF Connect, ProofInv
<1>3. CASE ConnectSeesNotify \/ ConnectReturns \/ Disconnect \/ UserDrops \/ EnableKeepAlive
           \/ DisableKeepAlive \/ KeepAliveRoutine \/ TimerHasDropped
  BY <1>i, <1>3 DEF ConnectSeesNotify, ConnectReturns, Disconnect, UserDrops, EnableKeepAlive,
     DisableKeepAlive, KeepAliveRoutine, TimerHasDropped, NothingSent, TakesInstruction, ProofInv
<1>4. CASE UserHasDropped
  BY <1>i, <1>q, <1>4 DEF UserHasDropped, ProofInv
<1>5. CASE Authorize
  <2>1. proved \subseteq proved' /\ UNCHANGED <<m_isAuth, heard, m_LinkHanlder>>
    BY <1>5 DEF Authorize, TakesProof, NothingSent
  <2>2. upc' = "proving" => reply'[User] # "OK"
    BY <1>q, <1>c, <1>5 DEF Authorize, LinkCall
  <2> QED
    BY <1>i, <2>1, <2>2 DEF ProofInv
<1>6. CASE Request
  BY <1>i, <1>6 DEF Request, TakesInstruction, NothingSent, ProofInv
<1>7. CASE CallReturns
  BY <1>i, <1>7 DEF CallReturns, ProofInv
<1>8. CASE NopThrows \/ NopReturns
  <2>1. reply'[User] = reply[User] /\ UNCHANGED <<upc, m_isAuth, heard, m_LinkHanlder, proved>>
    BY <1>q, <1>c, <1>8 DEF NopThrows, NopReturns
  <2> QED
    BY <1>i, <2>1 DEF ProofInv
<1>9. CASE SendNOP
  <2>1. reply'[User] = reply[User] /\ UNCHANGED <<upc, m_isAuth, heard, m_LinkHanlder, proved>>
    BY <1>q, <1>c, <1>9 DEF SendNOP, LinkCall, TakesInstruction, NothingSent
  <2> QED
    BY <1>i, <2>1 DEF ProofInv
<1>10. ASSUME NEW h \in Links, ServerSpeaks(h) PROVE ProofInv'
  BY <1>i, <1>10 DEF ServerSpeaks, ProofInv
<1>11. ASSUME NEW h \in Links, RxStep(h) PROVE ProofInv'
  <2>1. CASE RxLoops(h) \/ RxNotifies(h) \/ RxDrops(h)
    BY <1>i, <2>1 DEF RxLoops, RxNotifies, RxDrops, ProofInv, RxEnds
  <2>2. CASE Recieve(h)
    <3>1. reply'[User] = "OK" => reply[User] = "OK"
      BY <1>q, <1>c, <2>2 DEF Recieve, RecievePackets, RecieveEnd, RecieveThrows, RecieveClosed,
         FailWaiting, RxEnds
    <3> QED
      BY <1>i, <2>2, <3>1 DEF Recieve, RecievePackets, RecieveEnd, RecieveThrows, RecieveClosed,
         ProofInv, RxEnds
  <2>3. CASE RxPacket(h)
    <3>1. /\ m_isAuth' => m_isAuth /\ heard' = heard
          /\ UNCHANGED <<upc, m_LinkHanlder, proved>>
      BY <2>3, <1>q DEF RxPacket, AuthAfter
    <3>2. reply'[User] = "OK" => reply[User] = "OK" \/ (h = m_LinkHanlder /\ h \in proved)
      <4>1. Head(inbox[h]) = "OK" => h \in proved
        BY <1>i, <2>3, PacketTaken DEF PacketInv, InboxInv
      <4>2. queue[h] # << >> /\ Head(queue[h]) = User => h = m_LinkHanlder
        BY <1>i, <2>3, PacketTaken DEF QueuedOnce
      <4> QED
        BY <1>q, <1>c, <2>3, <4>1, <4>2 DEF RxPacket
    <3> QED
      BY <1>i, <3>1, <3>2 DEF ProofInv
  <2> QED
    BY <1>11, <2>1, <2>2, <2>3 DEF RxStep
<1> QED
  BY <1>1, <1>2, <1>3, <1>4, <1>5, <1>6, <1>7, <1>8, <1>9, <1>10, <1>11
     DEF Next, UserCall, UserStep, TimerStep

LEMMA CoreInvKept == CoreInv /\ [Next]_vars => CoreInv'
BY SharedTypedKept, LinksTypedKept, QueuesTypedKept, PacketInvKept, QueuedOnceKept, ProofInvKept
   DEF CoreInv, Typed

(***************************************************************************)
(* What is left of a link and meets the next                               *)
(***************************************************************************)

\* A timer that is made stays made, and a Connect that failed has failed.
LEMMA DoubtStays == CoreInv /\ [Next]_vars =>
  (timer' = "none" => timer = "none") /\ (leftovers' = 0 => leftovers = 0)
<1> SUFFICES ASSUME CoreInv, [Next]_vars
             PROVE  (timer' = "none" => timer = "none") /\ (leftovers' = 0 => leftovers = 0)
  OBVIOUS
<1> USE DEF shared, link, packets, receive, callers, history
<1>1. leftovers \in Nat
  BY DEF CoreInv, Typed, SharedTyped
<1>2. CASE UNCHANGED <<timer, leftovers>>
  BY <1>2
<1>3. CASE ConnectSeesNotify
  BY <1>1, <1>3 DEF ConnectSeesNotify
<1>4. CASE EnableKeepAlive \/ DisableKeepAlive \/ KeepAliveRoutine \/ NopThrows
  BY <1>4 DEF EnableKeepAlive, DisableKeepAlive, KeepAliveRoutine, NopThrows
<1>5. ASSUME NEW h \in Links, ServerSpeaks(h) \/ RxStep(h) PROVE UNCHANGED <<timer, leftovers>>
  BY <1>5 DEF ServerSpeaks, RxStep, RxLoops, Recieve, RecievePackets, RecieveEnd, RecieveThrows,
     RecieveClosed, RxPacket, RxNotifies, RxDrops, RxEnds
<1>6. CASE Connect \/ Authorize \/ Request \/ Disconnect \/ ConnectReturns \/ CallReturns \/ UserDrops
           \/ UserHasDropped \/ SendNOP \/ NopReturns \/ TimerHasDropped \/ UNCHANGED vars
  BY <1>6 DEF Connect, Authorize, Request, Disconnect, ConnectReturns, CallReturns, UserDrops,
     UserHasDropped, SendNOP, NopReturns, TimerHasDropped, vars
<1> QED
  BY <1>2, <1>3, <1>4, <1>5, <1>6 DEF Next, UserCall, UserStep, TimerStep

LEMMA NoLeftoverInvKept ==
  ASSUME CoreInv, NoLeftoverInv, GreetingInv, leftovers' = 0, [Next]_vars
  PROVE  NoLeftoverInv'
<1> USE LinkNumbers DEF shared, link, packets, receive, callers, history
<1>t. LinksTyped /\ m_ServerNotify \subseteq Flags /\ leftovers = 0
  BY DoubtStays DEF CoreInv, Typed, SharedTyped
<1>1. CASE UNCHANGED vars
  BY <1>1 DEF vars, NoLeftoverInv
<1>2. CASE Connect
  BY <1>t, <1>2 DEF Connect, NoLeftoverInv, LinksTyped
<1>3. CASE ConnectSeesNotify
  <2>1. CASE "ERROR" \in m_ServerNotify
    BY <1>t, <1>3, <2>1 DEF ConnectSeesNotify, NoLeftoverInv
  <2>2. CASE "ERROR" \notin m_ServerNotify
    <3>1. "NEED_AUTH" \in m_ServerNotify
      BY <1>t, <1>3, <2>2 DEF ConnectSeesNotify, Notified, Flags
    <3>2. m_LinkHanlder \in heard
      BY <1>3, <2>2, <3>1 DEF ConnectSeesNotify, GreetingInv
    <3> QED
      BY <1>3, <2>2, <3>2 DEF ConnectSeesNotify, NoLeftoverInv
  <2> QED
    BY <2>1, <2>2
<1>4. CASE ConnectReturns \/ Authorize \/ Request \/ CallReturns \/ Disconnect \/ UserHasDropped
  <2>1. upc # "spin" /\ upc' \notin {"undo", "spin"} /\ UNCHANGED <<rx, heard, failed>>
    BY <1>4 DEF ConnectReturns, Authorize, Request, CallReturns, Disconnect, UserHasDropped,
       TakesProof, TakesInstruction, NothingSent
  <2> QED
    BY <2>1 DEF NoLeftoverInv
<1>5. CASE UserDrops \/ EnableKeepAlive \/ DisableKeepAlive \/ TimerStep
  BY <1>5 DEF UserDrops, EnableKeepAlive, DisableKeepAlive, TimerStep, KeepAliveRoutine, NopThrows,
     SendNOP, NopReturns, TimerHasDropped, NoLeftoverInv
<1>6. ASSUME NEW h \in Links, ServerSpeaks(h) PROVE NoLeftoverInv'
  BY <1>6 DEF ServerSpeaks, NoLeftoverInv
<1>7. ASSUME NEW h \in Links, RxStep(h) PROVE NoLeftoverInv'
  <2>1. /\ rx[h] # "none" /\ \A k \in Links : k # h => rx'[k] = rx[k]
        /\ heard \subseteq heard' /\ failed \subseteq failed' /\ UNCHANGED <<m_LinkHanlder, upc>>
    BY <1>t, <1>7 DEF RxStep, RxLoops, Recieve, RecievePackets, RecieveEnd, RecieveThrows,
       RecieveClosed, RxPacket, RxNotifies, RxDrops, LinksTyped, RxEnds
  <2> QED
    BY <2>1 DEF NoLeftoverInv
<1> QED
  BY <1>1, <1>2, <1>3, <1>4, <1>5, <1>6, <1>7 DEF Next, UserCall, UserStep

\* A receiving thread that handles something has an open link.
LEMMA BusyIsConnected ==
  ASSUME OneLinkInv, NEW h \in Links,
         rx[h] \in {"recv", "hello", "error", "drop"} \/ (rx[h] = "loop" /\ batch[h] # 0)
  PROVE  /\ connected[h] /\ h = m_LinkHanlder /\ upc # "out"
         /\ h \in heard \/ upc \in {"spin", "undo"}
BY DEF OneLinkInv, Quiet

LEMMA OneLinkKeptByRx ==
  ASSUME CoreInv, OneLinkInv, NEW h \in Links, RxStep(h)
  PROVE  OneLinkInv'
<1> USE DEF shared, link, packets, receive, callers, history
<1>t. /\ LinksTyped /\ QueuesTyped /\ heard \subseteq Links /\ failed \subseteq Links
      /\ m_LinkHanlder \in Links \cup {NoLink} /\ m_ServerNotify \subseteq Flags
  BY DEF CoreInv, Typed, SharedTyped
<1>n. User \notin Links /\ Timer \notin Links /\ User # Timer
  BY NamesAssumption DEF Links
<1>1. CASE RxLoops(h)
  <2>1. /\ rx[h] = "loop" /\ batch[h] = 0
        /\ rx' = [rx EXCEPT ![h] = IF onService[h] THEN "recv" ELSE "ended"]
        /\ UNCHANGED batch \/ batch' = [batch EXCEPT ![h] = 0]
        /\ UNCHANGED <<shared, timer, made, link, notify, callers, history>>
    BY <1>1 DEF RxLoops, RxEnds
  <2>2. ASSUME NEW k \in Links, ~connected[k] PROVE Quiet(k)'
    <3>1. batch'[k] = batch[k] /\ Quiet(k) /\ onService'[k] = onService[k]
      BY <1>t, <2>1, <2>2 DEF OneLinkInv, QueuesTyped
    <3> QED
      BY <1>t, <2>1, <3>1 DEF Quiet, LinksTyped
  <2> QED
    BY <2>1, <2>2 DEF OneLinkInv
<1>2. CASE Recieve(h)
  <2>1. h = m_LinkHanlder /\ connected[h] /\ upc # "out" /\ (h \in heard \/ upc \in {"spin", "undo"})
    BY <1>2, BusyIsConnected DEF Recieve, RecievePackets, RecieveEnd, RecieveThrows, RecieveClosed,
       RxEnds
  <2>2. \/ UNCHANGED link /\ \A k \in Links : k # h => batch'[k] = batch[k] /\ rx'[k] = rx[k]
        \/ /\ connected' = [connected EXCEPT ![h] = FALSE] /\ onService' = [onService EXCEPT ![h] = FALSE]
           /\ rx' = [rx EXCEPT ![h] = "ended"] /\ batch' = [batch EXCEPT ![h] = 0]
    BY <1>t, <1>2, <2>1 DEF Recieve, RecievePackets, RecieveEnd, RecieveThrows, RecieveClosed,
       LinksTyped, QueuesTyped, RxEnds
  <2>3. ASSUME NEW k \in Links, ~connected'[k] PROVE Quiet(k)'
    <3>1. CASE k # h
      <4>1. rx'[k] = rx[k] /\ batch'[k] = batch[k] /\ connected'[k] = connected[k] /\ onService'[k] = onService[k]
        BY <1>t, <2>2, <3>1 DEF LinksTyped, QueuesTyped
      <4> QED
        BY <2>3, <4>1 DEF OneLinkInv, Quiet
    <3>2. CASE k = h
      BY <1>t, <2>1, <2>2, <2>3, <3>2 DEF Quiet, LinksTyped
    <3> QED
      BY <3>1, <3>2
  <2>4. \A k \in Links : /\ connected'[k] => connected[k] /\ onService'[k] = onService[k]
    BY <1>t, <2>2 DEF LinksTyped
  <2>5. UNCHANGED <<m_LinkHanlder, m_ServerNotify, upc, tpc, joins, heard, failed, notify>>
    BY <1>2 DEF Recieve, RecievePackets, RecieveEnd, RecieveThrows, RecieveClosed, RxEnds
  <2> QED
    BY <2>3, <2>4, <2>5 DEF OneLinkInv
<1>3. CASE RxPacket(h)
  <2>1. /\ h = m_LinkHanlder /\ connected[h] /\ inbox[h] # << >>
        /\ UNCHANGED <<m_LinkHanlder, m_ServerNotify, upc, tpc, joins, connected, onService, failed>>
        /\ heard \subseteq heard'
    BY <1>t, <1>3, BusyIsConnected, PacketTaken DEF CoreInv, RxPacket, QueuesTyped
  <2>2. \A k \in Links : k # h => batch'[k] = batch[k] /\ rx'[k] = rx[k] /\ notify'[k] = notify[k]
    BY <1>t, <1>3 DEF RxPacket, LinksTyped, QueuesTyped
  <2>3. notify'[h] \in {notify[h], m_ServerNotify}
    BY <1>t, <1>3 DEF RxPacket, LinksTyped
  <2>4. upc = "clear" => "ERROR" \notin m_ServerNotify
    <3>1. h \notin failed
      BY <2>1 DEF CoreInv, PacketInv, RxInv
    <3> QED
      BY <2>1, <3>1 DEF OneLinkInv
  <2>5. ASSUME NEW k \in Links, ~connected[k] PROVE Quiet(k)'
    BY <2>1, <2>2, <2>5 DEF OneLinkInv, Quiet
  <2>6. ASSUME NEW k \in Links, "ERROR" \in notify'[k] PROVE "ERROR" \in m_ServerNotify /\ upc # "clear"
    BY <2>1, <2>2, <2>3, <2>4, <2>6 DEF OneLinkInv
  <2> QED
    BY <2>1, <2>5, <2>6 DEF OneLinkInv
<1>4. CASE RxNotifies(h)
  <2>1. /\ h = m_LinkHanlder /\ connected[h] /\ rx[h] \in {"hello", "error"}
        /\ UNCHANGED <<m_LinkHanlder, upc, tpc, joins, connected, onService, batch, heard>>
    BY <1>4, BusyIsConnected DEF RxNotifies
  <2>2. /\ notify' = [notify EXCEPT ![h] = {}]
        /\ \A k \in Links : k # h => rx'[k] = rx[k]
    BY <1>t, <1>4 DEF RxNotifies, LinksTyped
  <2>3. \/ m_ServerNotify' = notify[h] \cup {"NEED_AUTH"} /\ UNCHANGED failed
        \/ m_ServerNotify' = notify[h] \cup {"ERROR"} /\ failed' = failed \cup {h}
    BY <1>4 DEF RxNotifies
  <2>4. \A k \in Links : notify'[k] = {}
    <3>1. ASSUME NEW k \in Links, k # h PROVE notify'[k] = {}
      <4>1. ~connected[k]
        BY <2>1, <3>1 DEF OneLinkInv
      <4>2. rx[k] \notin {"hello", "error"}
        BY <4>1 DEF OneLinkInv, Quiet
      <4> QED
        BY <1>t, <2>2, <3>1, <4>2 DEF CoreInv, PacketInv, RxInv, LinksTyped
    <3> QED
      BY <1>t, <2>2, <3>1 DEF LinksTyped
  <2>5. ASSUME NEW k \in Links, ~connected[k] PROVE Quiet(k)'
    BY <2>1, <2>2, <2>5 DEF OneLinkInv, Quiet
  <2>6. upc = "clear" /\ "ERROR" \in m_ServerNotify' => m_LinkHanlder \in failed'
    BY <2>1, <2>3 DEF OneLinkInv
  <2> QED
    BY <2>1, <2>4, <2>5, <2>6 DEF OneLinkInv
<1>5. CASE RxDrops(h)
  <2>1. h = m_LinkHanlder /\ connected[h] /\ rx[h] = "drop" /\ joins[h] = NoLink
    BY <1>5, BusyIsConnected DEF RxDrops, OneLinkInv, RxEnds
  <2>2. batch[h] = 0
    <3>1. inbox[h] = << >>
      BY <2>1 DEF CoreInv, PacketInv, RxInv
    <3>2. batch[h] \in Nat /\ batch[h] <= 0
      BY <1>t, <3>1, EmptySeq DEF QueuesTyped
    <3> QED
      BY <3>2
  <2>3. /\ connected' = [connected EXCEPT ![h] = FALSE] /\ onService' = [onService EXCEPT ![h] = FALSE]
        /\ rx' = [rx EXCEPT ![h] = "loop"] /\ UNCHANGED joins
        /\ UNCHANGED <<shared, timer, made, packets, notify, upc, tpc, reply, history>>
    BY <1>5, <2>1 DEF RxDrops, DropEnds, RxEnds
  <2>4. ASSUME NEW k \in Links, ~connected'[k] PROVE Quiet(k)'
    BY <1>t, <2>2, <2>3, <2>4 DEF OneLinkInv, Quiet, LinksTyped
  <2> QED
    BY <1>t, <2>3, <2>4 DEF OneLinkInv, LinksTyped
<1> QED
  BY <1>1, <1>2, <1>3, <1>4, <1>5 DEF RxStep

LEMMA OneLinkInvKept ==
  ASSUME CoreInv, OneLinkInv, GreetingInv, timer = "none", timer' = "none", [Next]_vars
  PROVE  OneLinkInv'
<1> USE LinkNumbers DEF shared, link, packets, receive, callers, history
<1>t. /\ LinksTyped /\ QueuesTyped /\ heard \subseteq Links /\ failed \subseteq Links
      /\ m_LinkHanlder \in Links \cup {NoLink} /\ m_ServerNotify \subseteq Flags
      /\ upc # "out" => m_LinkHanlder \in Links
  BY DEF CoreInv, Typed, SharedTyped, HandlerInv
<1>n. User \notin Links /\ Timer \notin Links /\ User # Timer
  BY NamesAssumption DEF Links
<1>1. CASE UNCHANGED vars
  BY <1>1 DEF vars, OneLinkInv, Quiet
<1>2. CASE Connect
  <2>1. PICK new \in Links : new = made + 1 /\ made \in Nat
    BY <1>2 DEF Connect, Links, CoreInv, Typed, SharedTyped
  <2>2. /\ UNCHANGED <<m_ServerNotify, batch, notify, tpc, joins, heard, failed>>
        /\ m_LinkHanlder' = new /\ upc = "out"
    BY <1>2, <2>1 DEF Connect
  <2>3. \A k \in Links : ~connected[k] /\ Quiet(k)
    BY <2>2 DEF OneLinkInv
  <2>4. joins[User] = NoLink
    BY <2>2 DEF OneLinkInv
  <2>5. CASE UNCHANGED <<link, rx, upc>>
    BY <2>2, <2>3, <2>4, <2>5 DEF OneLinkInv, Quiet
  <2>6. CASE /\ connected' = [connected EXCEPT ![new] = TRUE]
             /\ onService' = [onService EXCEPT ![new] = TRUE]
             /\ rx' = [rx EXCEPT ![new] = "loop"]
             /\ upc' = "spin"
    <3>1. ASSUME NEW k \in Links, ~connected'[k] PROVE Quiet(k)'
      BY <1>t, <2>2, <2>3, <2>6, <3>1 DEF Quiet, LinksTyped
    <3> QED
      BY <1>t, <2>2, <2>3, <2>4, <2>6, <3>1 DEF OneLinkInv, LinksTyped
  <2> QED
    BY <1>2, <2>1, <2>5, <2>6 DEF Connect
<1>3. CASE ConnectSeesNotify
  <2>1. CASE "ERROR" \in m_ServerNotify
    BY <1>3, <2>1 DEF ConnectSeesNotify, OneLinkInv, Quiet
  <2>2. CASE "ERROR" \notin m_ServerNotify
    <3>1. m_LinkHanlder \in heard
      BY <1>t, <1>3, <2>2 DEF ConnectSeesNotify, Notified, Flags, GreetingInv
    <3> QED
      BY <1>3, <2>2, <3>1 DEF ConnectSeesNotify, OneLinkInv, Quiet
  <2> QED
    BY <2>1, <2>2
<1>4. CASE ConnectReturns
  <2>1. /\ UNCHANGED <<m_LinkHanlder, connected, onService, batch, notify, rx, tpc, joins, heard, failed>>
        /\ m_ServerNotify' = {}
    BY <1>4 DEF ConnectReturns, NotifyCleared
  <2>2. CASE upc = "clear" /\ upc' = "greeted"
    BY <2>1, <2>2 DEF OneLinkInv, Quiet, GreetingInv
  <2>3. CASE upc = "undo" /\ Dropped(User, m_LinkHanlder) /\ upc' = "out"
    <3>1. \A k \in Links : ~connected[k] /\ Quiet(k)
      BY <2>3 DEF Dropped, OneLinkInv
    <3>2. \A k \in Links : notify[k] = {}
      BY <3>1 DEF Quiet, CoreInv, PacketInv, RxInv
    <3> QED
      BY <2>1, <2>3, <3>1, <3>2 DEF Dropped, OneLinkInv, Quiet
  <2> QED
    BY <1>4, <2>2, <2>3 DEF ConnectReturns
<1>5. CASE Authorize \/ Request \/ CallReturns \/ Disconnect
  <2>1. /\ UNCHANGED <<m_LinkHanlder, m_ServerNotify, connected, onService, batch, notify, rx, tpc, joins>>
        /\ UNCHANGED <<heard, failed>>
        /\ upc' \notin {"out", "clear"} /\ upc \notin {"spin", "undo"} /\ joins[User] = NoLink
    BY <1>5 DEF Authorize, Request, CallReturns, Disconnect, TakesProof, TakesInstruction, NothingSent,
       OneLinkInv
  <2> QED
    BY <2>1 DEF OneLinkInv, Quiet
<1>6. CASE UserHasDropped
  <2>1. \A k \in Links : ~connected[k] /\ Quiet(k)
    BY <1>6 DEF UserHasDropped, Dropped, OneLinkInv
  <2> QED
    BY <1>6, <2>1 DEF UserHasDropped, Dropped, OneLinkInv, Quiet
<1>7. CASE UserDrops
  <2>1. /\ upc \in {"undo", "losing", "leaving"} /\ m_LinkHanlder \in Links
        /\ UNCHANGED <<m_LinkHanlder, m_ServerNotify, batch, notify, rx, tpc, heard, failed, upc>>
    BY <1>t, <1>7 DEF UserDrops
  <2>2. CASE DropStarts(User, m_LinkHanlder)
    <3>1. /\ connected[m_LinkHanlder] /\ joins[User] = NoLink /\ onService[m_LinkHanlder]
          /\ onService' = [onService EXCEPT ![m_LinkHanlder] = FALSE]
          /\ joins' = [joins EXCEPT ![User] = m_LinkHanlder]
          /\ UNCHANGED connected
      BY <1>t, <2>1, <2>2 DEF DropStarts, OneLinkInv
    <3>2. ASSUME NEW k \in Links, ~connected[k] PROVE Quiet(k)'
      BY <1>t, <2>1, <3>1, <3>2 DEF OneLinkInv, Quiet, LinksTyped
    <3>3. joins'[User] = m_LinkHanlder /\ \A t \in Links \cup {Timer} : joins'[t] = joins[t]
      BY <1>t, <1>n, <3>1 DEF LinksTyped, Callers
    <3>4. ASSUME NEW k \in Links, connected[k], ~onService'[k] PROVE joins'[User] = k
      BY <3>3, <3>4 DEF OneLinkInv
    <3> QED
      BY <2>1, <3>1, <3>2, <3>3, <3>4 DEF OneLinkInv
  <2>3. CASE DropEnds(User)
    <3>1. /\ joins[User] = m_LinkHanlder /\ rx[m_LinkHanlder] = "ended"
          /\ connected' = [connected EXCEPT ![m_LinkHanlder] = FALSE]
          /\ joins' = [joins EXCEPT ![User] = NoLink]
          /\ UNCHANGED onService
      BY <2>3 DEF DropEnds, OneLinkInv
    <3>2. ASSUME NEW k \in Links, ~connected'[k] PROVE Quiet(k)'
      BY <1>t, <2>1, <3>1, <3>2 DEF OneLinkInv, Quiet, LinksTyped
    <3>3. joins'[User] = NoLink /\ \A t \in Links \cup {Timer} : joins'[t] = joins[t]
      BY <1>t, <1>n, <3>1 DEF LinksTyped, Callers
    <3>4. \A k \in Links : connected'[k] => connected[k] /\ k # m_LinkHanlder
      BY <1>t, <2>1, <3>1 DEF LinksTyped
    <3> QED
      BY <2>1, <3>1, <3>2, <3>3, <3>4 DEF OneLinkInv
  <2> QED
    BY <1>7, <2>2, <2>3 DEF UserDrops
<1>8. CASE EnableKeepAlive \/ DisableKeepAlive \/ TimerStep
  <2>1. tpc = "idle"
    BY DEF OneLinkInv
  <2> QED
    BY <1>8, <2>1 DEF EnableKeepAlive, DisableKeepAlive, TimerStep, KeepAliveRoutine, NopThrows,
       SendNOP, NopReturns, TimerHasDropped
<1>9. ASSUME NEW h \in Links, ServerSpeaks(h) PROVE OneLinkInv'
  BY <1>9 DEF ServerSpeaks, OneLinkInv, Quiet
<1>10. ASSUME NEW h \in Links, RxStep(h) PROVE OneLinkInv'
  BY <1>10, OneLinkKeptByRx
<1> QED
  BY <1>1, <1>2, <1>3, <1>4, <1>5, <1>6, <1>7, <1>8, <1>9, <1>10 DEF Next, UserCall, UserStep

\* An error that is added to those that were handled.
LEMMA OneMore ==
  ASSUME failed \subseteq Links, NEW h \in Links \ failed
  PROVE  Cardinality(failed \cup {h}) = Cardinality(failed) + 1 /\ Cardinality(failed) \in Nat
<1>1. IsFiniteSet(Links)
  BY LinkNumbers, FS_Interval DEF Links
<1>2. IsFiniteSet(failed)
  BY <1>1, FS_Subset
<1> QED
  BY <1>2, FS_AddElement, FS_CardinalityType

LEMMA SpentInvKept ==
  ASSUME CoreInv, OneLinkInv, SpentInv, [Next]_vars
  PROVE  SpentInv'
<1> USE DEF shared, link, packets, receive, callers, history
<1>t. leftovers \in Nat /\ failed \subseteq Links
  BY DEF CoreInv, Typed, SharedTyped
<1>f. Cardinality(failed) \in Nat
  <2>1. IsFiniteSet(Links)
    BY LinkNumbers, FS_Interval DEF Links
  <2> QED
    BY <1>t, <2>1, FS_Subset, FS_CardinalityType
<1>1. CASE ConnectSeesNotify
  <2>1. UNCHANGED failed /\ upc = "spin" /\ UNCHANGED m_ServerNotify
    BY <1>1 DEF ConnectSeesNotify
  <2>2. CASE "ERROR" \in m_ServerNotify
    BY <1>1, <1>t, <1>f, <2>1, <2>2 DEF ConnectSeesNotify, SpentInv
  <2>3. CASE "ERROR" \notin m_ServerNotify
    BY <1>1, <1>t, <1>f, <2>1, <2>3 DEF ConnectSeesNotify, SpentInv
  <2> QED
    BY <2>2, <2>3
<1>2. CASE ConnectReturns
  BY <1>2 DEF ConnectReturns, NotifyCleared, SpentInv
<1>3. ASSUME NEW h \in Links, RxNotifies(h) PROVE SpentInv'
  <2>1. UNCHANGED <<leftovers, upc>>
    BY <1>3 DEF RxNotifies
  <2>2. CASE m_ServerNotify' = notify[h] \cup {"NEED_AUTH"} /\ UNCHANGED failed
    <3>1. "ERROR" \in m_ServerNotify' => "ERROR" \in m_ServerNotify
      BY <2>2 DEF OneLinkInv
    <3> QED
      BY <2>1, <2>2, <3>1 DEF SpentInv
  <2>3. CASE rx[h] = "error" /\ failed' = failed \cup {h}
    <3>1. h \notin failed
      BY <2>3 DEF CoreInv, PacketInv, RxInv
    <3>2. Cardinality(failed') = Cardinality(failed) + 1
      BY <1>t, <2>3, <3>1, OneMore
    <3> QED
      BY <1>t, <1>f, <2>1, <3>2 DEF SpentInv
  <2> QED
    BY <1>3, <2>2, <2>3 DEF RxNotifies
<1>4. ASSUME UNCHANGED <<leftovers, failed, m_ServerNotify>>, upc' # "undo" => upc # "undo"
      PROVE SpentInv'
  BY <1>4 DEF SpentInv
<1>5. CASE Connect \/ Authorize \/ Request \/ CallReturns \/ Disconnect \/ UserDrops \/ UserHasDropped
           \/ EnableKeepAlive \/ DisableKeepAlive
  BY <1>4, <1>5 DEF Connect, Authorize, Request, CallReturns, Disconnect, UserDrops, UserHasDropped,
     EnableKeepAlive, DisableKeepAlive
<1>6. CASE TimerStep \/ UNCHANGED vars
  BY <1>4, <1>6 DEF TimerStep, KeepAliveRoutine, NopThrows, SendNOP, NopReturns, TimerHasDropped, vars
<1>7. ASSUME NEW h \in Links, ServerSpeaks(h) \/ RxLoops(h) \/ Recieve(h) \/ RxPacket(h) \/ RxDrops(h)
      PROVE  SpentInv'
  BY <1>4, <1>7 DEF ServerSpeaks, RxLoops, Recieve, RecievePackets, RecieveEnd, RecieveThrows,
     RecieveClosed, RxPacket, RxDrops, RxEnds
<1> QED
  BY <1>1, <1>2, <1>3, <1>5, <1>6, <1>7 DEF Next, UserCall, UserStep, RxStep

\* The receiving thread that takes a hello serves the link that waits for one.
LEMMA HelloIsOwn ==
  ASSUME CoreInv, RestInv, Undoubted, NEW h \in Links, RxPacket(h), Head(inbox[h]) = "HELLO"
  PROVE  h = m_LinkHanlder /\ upc \in {"spin", "undo"} /\ h \notin heard
<1>1. rx[h] = "loop" /\ batch[h] # 0 /\ inbox[h] # << >>
  BY PacketTaken DEF RxPacket, CoreInv, Typed, QueuesTyped
<1>2. h \notin heard
  BY PacketTaken DEF CoreInv, PacketInv, InboxInv
<1>3. h \notin failed
  BY <1>1 DEF CoreInv, PacketInv, RxInv
<1>4. CASE timer = "none"
  BY <1>1, <1>2, <1>4, BusyIsConnected DEF RestInv
<1>5. CASE leftovers = 0
  BY <1>1, <1>2, <1>3, <1>5 DEF RestInv, NoLeftoverInv
<1> QED
  BY <1>2, <1>4, <1>5 DEF Undoubted

LEMMA GreetingKeptByRx ==
  ASSUME CoreInv, RestInv, Undoubted, NEW h \in Links, RxStep(h)
  PROVE  GreetingInv'
<1> USE DEF shared, link, packets, receive, callers, history
<1>t. LinksTyped /\ m_LinkHanlder \in Links \cup {NoLink} /\ heard \subseteq Links
  BY DEF CoreInv, Typed, SharedTyped
<1>g. GreetingInv
  BY DEF RestInv
<1>1. ASSUME UNCHANGED <<m_LinkHanlder, m_ServerNotify, upc, heard, proved>>,
             \A k \in Links : rx'[k] = "hello" => rx[k] = "hello"
      PROVE  GreetingInv'
  BY <1>t, <1>g, <1>1 DEF GreetingInv
<1>2. CASE RxLoops(h)
  BY <1>t, <1>1, <1>2 DEF RxLoops, LinksTyped, RxEnds
<1>3. CASE Recieve(h)
  <2>1. \A k \in Links : rx'[k] = "hello" => rx[k] = "hello"
    BY <1>t, <1>3 DEF Recieve, RecievePackets, RecieveEnd, RecieveThrows, RecieveClosed,
       LinksTyped, RxEnds
  <2> QED
    BY <1>1, <1>3, <2>1 DEF Recieve, RecievePackets, RecieveEnd, RecieveThrows, RecieveClosed,
       RxEnds
<1>4. CASE RxDrops(h)
  <2>1. \A k \in Links : rx'[k] = "hello" => rx[k] = "hello"
    BY <1>t, <1>4 DEF RxDrops, LinksTyped, RxEnds
  <2> QED
    BY <1>1, <1>4, <2>1 DEF RxDrops, RxEnds
<1>5. CASE RxPacket(h)
  <2>1. CASE queue[h] # << >> \/ Head(inbox[h]) # "HELLO"
    <3>1. /\ UNCHANGED <<m_LinkHanlder, m_ServerNotify, upc, heard, proved>>
          /\ \A k \in Links : rx'[k] = "hello" => rx[k] = "hello"
      BY <1>t, <1>5, <2>1 DEF RxPacket, LinksTyped
    <3> QED
      BY <1>1, <3>1
  <2>2. CASE Head(inbox[h]) = "HELLO"
    <3>1. h = m_LinkHanlder /\ upc \in {"spin", "undo"} /\ h \notin heard
      BY <1>5, <2>2, HelloIsOwn
    <3>2. /\ UNCHANGED <<m_LinkHanlder, m_ServerNotify, upc, proved>> /\ heard \subseteq heard'
          /\ \A k \in Links : k # h => rx'[k] = rx[k]
      BY <1>t, <1>5 DEF RxPacket, LinksTyped
    <3>3. "NEED_AUTH" \in m_ServerNotify /\ "ERROR" \notin m_ServerNotify => upc = "undo"
      BY <1>g, <3>1 DEF GreetingInv
    <3> QED
      BY <1>g, <3>1, <3>2, <3>3 DEF GreetingInv
  <2> QED
    BY <2>1, <2>2
<1>6. CASE RxNotifies(h)
  <2>1. /\ UNCHANGED <<m_LinkHanlder, upc, heard, proved>>
        /\ \A k \in Links : rx'[k] = "hello" => rx[k] = "hello" /\ k # h
    BY <1>t, <1>6 DEF RxNotifies, LinksTyped
  <2>2. CASE rx[h] = "error"
    <3>1. "ERROR" \in m_ServerNotify'
      BY <1>6, <2>2 DEF RxNotifies
    <3> QED
      BY <1>g, <2>1, <3>1 DEF GreetingInv
  <2>3. CASE rx[h] = "hello"
    <3>1. h = m_LinkHanlder /\ upc \in {"spin", "undo"} /\ h \in heard
      BY <1>g, <2>3 DEF GreetingInv, CoreInv, PacketInv, RxInv
    <3> QED
      BY <1>g, <2>1, <3>1 DEF GreetingInv
  <2> QED
    BY <1>6, <2>2, <2>3 DEF RxNotifies
<1> QED
  BY <1>2, <1>3, <1>4, <1>5, <1>6 DEF RxStep

LEMMA GreetingInvKept ==
  ASSUME CoreInv, RestInv, Undoubted, Undoubted', [Next]_vars
  PROVE  GreetingInv'
<1> USE LinkNumbers DEF shared, link, packets, receive, callers, history
<1>t. LinksTyped /\ m_LinkHanlder \in Links \cup {NoLink} /\ heard \subseteq Links
      /\ m_ServerNotify \subseteq Flags
  BY DEF CoreInv, Typed, SharedTyped
<1>g. GreetingInv
  BY DEF RestInv
<1>1. CASE UNCHANGED vars
  BY <1>g, <1>1 DEF vars, GreetingInv
<1>2. CASE Connect
  <2>1. upc = "out" /\ upc' \in {"out", "spin"} /\ UNCHANGED m_ServerNotify
    BY <1>2 DEF Connect
  <2>2. \A k \in Links : rx'[k] # "hello"
    BY <1>t, <1>g, <1>2 DEF Connect, GreetingInv, LinksTyped
  <2> QED
    BY <1>g, <2>1, <2>2 DEF GreetingInv
<1>3. CASE ConnectSeesNotify
  <2>1. CASE "ERROR" \in m_ServerNotify
    BY <1>g, <1>3, <2>1 DEF ConnectSeesNotify, GreetingInv
  <2>2. CASE "ERROR" \notin m_ServerNotify
    <3>1. "NEED_AUTH" \in m_ServerNotify /\ upc = "spin"
      BY <1>t, <1>3, <2>2 DEF ConnectSeesNotify, Notified, Flags
    <3>2. m_LinkHanlder \in heard /\ \A k \in Links : rx[k] # "hello"
      BY <1>g, <2>2, <3>1 DEF GreetingInv
    <3> QED
      BY <1>g, <1>3, <2>2, <3>2 DEF ConnectSeesNotify, GreetingInv
  <2> QED
    BY <2>1, <2>2
<1>4. CASE ConnectReturns
  <2>1. m_ServerNotify' = {} /\ UNCHANGED <<m_LinkHanlder, rx, heard, proved>>
    BY <1>4 DEF ConnectReturns, NotifyCleared
  <2>2. CASE upc = "clear" /\ upc' = "greeted"
    BY <1>g, <2>1, <2>2 DEF GreetingInv
  <2>3. CASE upc = "undo" /\ Dropped(User, m_LinkHanlder) /\ upc' = "out"
    <3>1. ASSUME NEW k \in Links PROVE rx[k] # "hello"
      <4>1. CASE timer = "none"
        BY <1>g, <2>3, <4>1 DEF RestInv, OneLinkInv, Quiet, Dropped, GreetingInv
      <4>2. CASE leftovers = 0
        BY <1>g, <2>3, <4>2 DEF RestInv, NoLeftoverInv, GreetingInv, CoreInv, PacketInv, RxInv
      <4> QED
        BY <4>1, <4>2 DEF Undoubted
    <3> QED
      BY <2>1, <2>3, <3>1 DEF GreetingInv
  <2> QED
    BY <1>4, <2>2, <2>3 DEF ConnectReturns
<1>5. CASE Authorize
  <2>1. /\ UNCHANGED <<m_LinkHanlder, m_ServerNotify, rx, heard>> /\ proved \subseteq proved'
        /\ upc = "greeted" /\ (upc' = "proving" \/ (upc' = "in" /\ m_isAuth))
    BY <1>5 DEF Authorize, TakesProof, NothingSent
  <2>2. m_LinkHanlder \in heard /\ (upc' = "in" => m_LinkHanlder \in proved)
    BY <1>g, <2>1 DEF GreetingInv, CoreInv, ProofInv
  <2> QED
    BY <1>g, <2>1, <2>2 DEF GreetingInv
<1>6. CASE Request
  BY <1>g, <1>6 DEF Request, TakesInstruction, NothingSent, GreetingInv
<1>7. CASE CallReturns
  <2>1. /\ UNCHANGED <<m_LinkHanlder, m_ServerNotify, rx, heard, proved>>
        /\ upc \in {"proving", "asking"} /\ upc' \in {"in", "greeted", "losing"}
        /\ upc' = "in" => reply[User] = "OK"
    BY <1>7 DEF CallReturns
  <2>2. upc' = "in" => m_LinkHanlder \in proved
    BY <1>g, <2>1 DEF GreetingInv, CoreInv, ProofInv
  <2> QED
    BY <1>g, <2>1, <2>2 DEF GreetingInv
<1>8. CASE Disconnect \/ UserHasDropped
  <2>1. /\ UNCHANGED <<m_ServerNotify, rx, heard, proved>>
        /\ upc \in {"out", "greeted", "in", "losing", "leaving"} /\ upc' \in {"out", "leaving"}
    BY <1>8 DEF Disconnect, UserHasDropped, NothingSent, TakesInstruction
  <2> QED
    BY <1>g, <2>1 DEF GreetingInv
<1>9. CASE UserDrops \/ EnableKeepAlive \/ DisableKeepAlive
  BY <1>g, <1>9 DEF UserDrops, EnableKeepAlive, DisableKeepAlive, GreetingInv
<1>10. CASE TimerStep
  <2>1. UNCHANGED <<m_LinkHanlder, m_ServerNotify, rx, heard, upc, proved>>
    BY <1>10 DEF TimerStep, KeepAliveRoutine, NopThrows, SendNOP, NopReturns, TimerHasDropped,
       TakesInstruction, NothingSent
  <2> QED
    BY <1>g, <2>1 DEF GreetingInv
<1>11. ASSUME NEW h \in Links, ServerSpeaks(h) PROVE GreetingInv'
  BY <1>g, <1>11 DEF ServerSpeaks, GreetingInv
<1>12. ASSUME NEW h \in Links, RxStep(h) PROVE GreetingInv'
  BY <1>12, GreetingKeptByRx
<1> QED
  BY <1>1, <1>2, <1>3, <1>4, <1>5, <1>6, <1>7, <1>8, <1>9, <1>10, <1>11, <1>12
     DEF Next, UserCall, UserStep

LEMMA CommInvariant == Spec => [](CoreInv /\ RestInv)
<1>1. Init => PacketInv /\ QueuedOnce /\ ProofInv
  <2> SUFFICES ASSUME Init PROVE PacketInv /\ QueuedOnce /\ ProofInv
    OBVIOUS
  <2>1. \A h \in Links : inbox[h] = << >> /\ queue[h] = << >> /\ server[h] = "none" /\ rx[h] = "none"
                         /\ ~connected[h] /\ notify[h] = {}
    BY DEF Init
  <2>2. DOMAIN << >> = {}
    BY EmptySeq
  <2>3. heard = {} /\ failed = {} /\ proved = {} /\ upc = "out" /\ m_isAuth = FALSE
    BY DEF Init
  <2> QED
    BY <2>1, <2>2, <2>3 DEF PacketInv, InboxInv, RxInv, QueuedOnce, ProofInv
<1>2. Init => RestInv
  <2> SUFFICES ASSUME Init PROVE RestInv
    OBVIOUS
  <2>1. Cardinality(failed) = 0 /\ leftovers = 0 /\ m_ServerNotify = {}
    BY FS_EmptySet DEF Init
  <2>2. /\ \A h \in Links : ~connected[h] /\ rx[h] = "none" /\ notify[h] = {}
        /\ \A t \in Callers \cup Links : joins[t] = NoLink
        /\ upc = "out" /\ tpc = "idle"
    BY DEF Init
  <2>3. NoLeftoverInv /\ GreetingInv /\ SpentInv
    BY <2>1, <2>2 DEF NoLeftoverInv, GreetingInv, SpentInv
  <2>4. OneLinkInv
    BY <2>1, <2>2 DEF OneLinkInv, Quiet, Callers
  <2> QED
    BY <2>3, <2>4 DEF RestInv
<1>3. CoreInv /\ RestInv /\ [Next]_vars => CoreInv' /\ RestInv'
  <2> SUFFICES ASSUME CoreInv, RestInv, [Next]_vars PROVE CoreInv' /\ RestInv'
    OBVIOUS
  <2>1. (timer' = "none" => timer = "none") /\ (leftovers' = 0 => leftovers = 0)
    BY DoubtStays
  <2>2. leftovers' = 0 => NoLeftoverInv'
    BY <2>1, NoLeftoverInvKept DEF RestInv, Undoubted
  <2>3. timer' = "none" => OneLinkInv' /\ SpentInv'
    BY <2>1, OneLinkInvKept, SpentInvKept DEF RestInv, Undoubted
  <2>4. Undoubted' => GreetingInv'
    BY <2>1, GreetingInvKept DEF Undoubted
  <2>5. CoreInv'
    BY CoreInvKept
  <2> QED
    BY <2>2, <2>3, <2>4, <2>5 DEF RestInv
<1>4. Spec => Init /\ [][Next]_vars
  BY PTL DEF Spec
<1>5. Init => Typed /\ HandlerInv
  BY TypedInitially
<1>6. Typed /\ HandlerInv /\ PacketInv /\ QueuedOnce /\ ProofInv => CoreInv
  BY DEF CoreInv
<1> QED
  BY <1>1, <1>2, <1>3, <1>4, <1>5, <1>6, PTL

\* What a call says is true of the link the module has, whatever is left of earlier ones: before
\* an error of another link has made a Connect fail, and always without the keep-alive.
THEOREM SuccessIsOwnHolds == Spec => []SuccessIsOwn
<1>1. CoreInv /\ RestInv => SuccessIsOwn
  BY DEF RestInv, Undoubted, GreetingInv, SuccessIsOwn
<1> QED
  BY <1>1, CommInvariant, PTL

\* Without the keep-alive, no error makes more than one Connect fail, however late it is handled.
THEOREM LeftoverFailsOnceHolds == Spec => []LeftoverFailsOnce
<1>1. CoreInv /\ RestInv => LeftoverFailsOnce
  BY DEF RestInv, SpentInv, LeftoverFailsOnce
<1> QED
  BY <1>1, CommInvariant, PTL
=============================================================================
