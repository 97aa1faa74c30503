------------------------------ MODULE CommModule ------------------------------
(***************************************************************************)
(* The client library: CommModule, used by one thread that connects, logs  *)
(* in, makes requests, disconnects and connects again.                     *)
(*                                                                         *)
(* Each Connect makes a TcpHandler, here a link.  The receiving thread of  *)
(* a link gives a packet to the request that waits longest and, when none  *)
(* waits, to onExceptionHappen; it may have read several packets at once   *)
(* and works through them whatever has become of its link.  The timer of   *)
(* the keep-alive makes requests of its own.  m_LinkHanlder, m_isAuth and  *)
(* m_ServerNotify belong to the module, so what is left of one link meets  *)
(* the next one in them.  m_isConnected is never read, and is left out.    *)
(*                                                                         *)
(* How Link and DropConnection work inside is in TcpLink.  Here a request  *)
(* reaches the server at once, and a DropConnection only waits for the     *)
(* receiving thread.  A user connects again after a failure or Disconnect. *)
(* The packets are those a client reacts to alike: an "ERROR" is any that  *)
(* ends the session (SERIAL_OPEN_FAIL, SERIAL_OCCUPY, TIMEOUT), a "LOGIN"  *)
(* refuses a proof, a "LAST" the last one there may be, an "OK" is any     *)
(* other answer, that to an illegal instruction included.                  *)
(***************************************************************************)
EXTENDS Integers, Sequences, FiniteSets

CONSTANTS
  MaxLinks, \* bound: the calls of Connect
  User,     \* the thread that uses the library
  Timer     \* the thread of the keep-alive timer

ASSUME MaxLinksAssumption == MaxLinks \in Nat \ {0}
ASSUME NamesAssumption == User # Timer /\ {User, Timer} \cap (0..MaxLinks) = {}

Links == 1..MaxLinks
NoLink == 0 \* null

VARIABLES
  m_LinkHanlder,
  m_isAuth,
  m_ServerNotify, \* as a set of flags; {} is COMM_UNINITIALIZED
  timer,          \* m_ServerKeepAliveTimer: "none", "ticking", or "dead" when no task can be scheduled
  made,           \* the links made so far
  connected,      \* of each link: the channel is open
  onService,      \* of each link: m_isOnService
  queue,          \* of each link: whose requests wait for a packet, m_RxQueue
  inbox,          \* of each link: the packets on their way to the client
  batch,          \* of each link: how many of them its receiving thread has read
  rx,             \* of each link: where its receiving thread is in run, Recieve or onExceptionHappen
  notify,         \* of each link: m_ServerNotify as its receiving thread has read it for |=
  server,         \* of each link: the session at the other end, "failed" once a read has thrown
  garbled,        \* the links whose server holds bytes of an instruction where it expects a proof
  upc,            \* where the user is: between calls or in one
  tpc,            \* where the timer's thread is in SendNOP
  reply,          \* what the user's or the timer's request was given
  joins,          \* of each thread: the link whose receiving thread it waits for in DropConnection
  heard,          \* history: the links whose hello was handled
  failed,         \* history: the links whose error was handled by onExceptionHappen
  proved,         \* history: the links whose server accepted a proof
  leftovers       \* history: Connects that failed by an error that was not their link's

shared  == <<m_LinkHanlder, m_isAuth, m_ServerNotify>>
link    == <<connected, onService>>
packets == <<queue, inbox, batch, server, garbled>>
receive == <<rx, notify>>
callers == <<upc, tpc, reply, joins>>
history == <<heard, failed, proved, leftovers>>
vars    == <<shared, timer, made, link, packets, receive, callers, history>>

Callers == {User, Timer}
Packets == {"HELLO", "OK", "LOGIN", "LAST", "ERROR"}
Flags == {"NEED_AUTH", "ERROR"}
UserPoints == {"out", "spin", "clear", "undo", "greeted", "proving", "in", "asking", "losing", "leaving"}

TypeOK ==
  /\ m_LinkHanlder \in Links \cup {NoLink} /\ m_isAuth \in BOOLEAN /\ m_ServerNotify \subseteq Flags
  /\ timer \in {"none", "ticking", "dead"} /\ made \in 0..MaxLinks
  /\ connected \in [Links -> BOOLEAN] /\ onService \in [Links -> BOOLEAN]
  /\ queue \in [Links -> Seq(Callers)] /\ inbox \in [Links -> Seq(Packets)]
  /\ \A h \in Links : batch[h] \in 0..Len(inbox[h])
  /\ rx \in [Links -> {"none", "loop", "recv", "hello", "error", "drop", "ended"}]
  /\ notify \in [Links -> SUBSET Flags]
  /\ server \in [Links -> {"none", "greet", "auth", "serving", "closed", "failed"}] /\ garbled \subseteq Links
  /\ upc \in UserPoints /\ tpc \in {"idle", "nop", "waiting", "losing"}
  /\ reply \in [Callers -> Packets \cup {"NONE", "FAIL"}]
  /\ joins \in [Callers \cup Links -> Links \cup {NoLink}]
  /\ heard \subseteq Links /\ failed \subseteq Links /\ proved \subseteq Links
  /\ leftovers \in 0..MaxLinks

Init ==
  /\ m_LinkHanlder = NoLink /\ m_isAuth = FALSE /\ m_ServerNotify = {}
  /\ timer = "none" /\ made = 0
  /\ connected = [h \in Links |-> FALSE] /\ onService = [h \in Links |-> FALSE]
  /\ queue = [h \in Links |-> << >>] /\ inbox = [h \in Links |-> << >>]
  /\ batch = [h \in Links |-> 0]
  /\ rx = [h \in Links |-> "none"] /\ notify = [h \in Links |-> {}]
  /\ server = [h \in Links |-> "none"] /\ garbled = {}
  /\ upc = "out" /\ tpc = "idle"
  /\ reply = [c \in Callers |-> "NONE"] /\ joins = [t \in Callers \cup Links |-> NoLink]
  /\ heard = {} /\ failed = {} /\ proved = {} /\ leftovers = 0

(***************************************************************************)
(* The server's sessions                                                   *)
(***************************************************************************)

Says(h, said, state) ==
  /\ inbox' = [inbox EXCEPT ![h] = @ \o said]
  /\ server' = [server EXCEPT ![h] = state]

\* What the server sends of its own accord, its end included.
ServerSpeaks(h) ==
  /\ \/ server[h] = "greet" /\ Says(h, <<"HELLO">>, "auth")
     \/ server[h] \in {"auth", "serving"} /\ Says(h, <<"ERROR">>, "closed")
     \/ server[h] \in {"greet", "auth", "serving"} /\ Says(h, << >>, "closed")
  /\ UNCHANGED <<shared, timer, made, link, queue, batch, garbled, receive, callers, history>>

\* A right proof is answered before the server finds its serial port occupied or down.
TakesProof(h) ==
  /\ \/ /\ server[h] = "auth" /\ h \notin garbled
        /\ Says(h, <<"OK">>, "serving") \/ Says(h, <<"OK", "ERROR">>, "closed")
        /\ proved' = proved \cup {h}
     \/ /\ server[h] = "auth"
        /\ Says(h, <<"LOGIN">>, "auth") \/ Says(h, <<"LAST">>, "closed")
        /\ UNCHANGED proved
     \/ server[h] \in {"greet", "closed", "failed"} /\ UNCHANGED <<inbox, server, proved>>
  /\ UNCHANGED garbled

\* An instruction that comes instead of a proof is taken for the first bytes of one.
TakesInstruction(h, said, state) ==
  /\ IF server[h] = "serving" THEN Says(h, said, state) ELSE UNCHANGED <<inbox, server>>
  /\ garbled' = IF server[h] \in {"greet", "auth"} THEN garbled \cup {h} ELSE garbled
  /\ UNCHANGED proved

\* An illegal movement is answered twice; bound: not while an earlier answer is on its way.
Answers(h) == {<<"OK">>} \cup {said \in {<<"OK", "OK">>} : inbox[h] = << >>}

(***************************************************************************)
(* TcpHandler, as its callers see it                                       *)
(***************************************************************************)

getIsConnected(h) == connected[h]

CanLink(h) == getIsConnected(h) /\ onService[h]

\* The call of Link by c on link h, up to its wait for the reply.
LinkCall(c, h) ==
  /\ queue' = [queue EXCEPT ![h] = IF CanLink(h) THEN Append(@, c) ELSE @]
  /\ reply' = [reply EXCEPT ![c] = IF CanLink(h) THEN "NONE" ELSE "FAIL"]

NothingSent == UNCHANGED <<inbox, server, garbled, proved>>

\* DropConnection of h by thread t: the first that finds the threads running joins
\* them, one that finds them stopping does not wait.
DropStarts(t, h) ==
  /\ connected[h] /\ joins[t] = NoLink
  /\ IF onService[h]
     THEN /\ onService' = [onService EXCEPT ![h] = FALSE]
          /\ joins' = [joins EXCEPT ![t] = h]
          /\ UNCHANGED connected
     ELSE connected' = [connected EXCEPT ![h] = FALSE] /\ UNCHANGED <<onService, joins>>

DropEnds(t) ==
  /\ joins[t] # NoLink /\ rx[joins[t]] = "ended"
  /\ connected' = [connected EXCEPT ![joins[t]] = FALSE]
  /\ joins' = [joins EXCEPT ![t] = NoLink]
  /\ UNCHANGED onService

Dropped(t, h) == joins[t] = NoLink /\ ~connected[h]

(***************************************************************************)
(* The user                                                                *)
(***************************************************************************)

Connect ==
  /\ upc = "out" /\ made < MaxLinks
  /\ made' = made + 1 /\ m_LinkHanlder' = made + 1
  /\ \/ /\ connected' = [connected EXCEPT ![made + 1] = TRUE]
        /\ onService' = [onService EXCEPT ![made + 1] = TRUE]
        /\ server' = [server EXCEPT ![made + 1] = "greet"]
        /\ rx' = [rx EXCEPT ![made + 1] = "loop"]
        /\ upc' = "spin"
     \/ UNCHANGED <<link, server, rx, upc>> \* EstablishConnection fails
  /\ UNCHANGED <<m_isAuth, m_ServerNotify, timer, queue, inbox, batch, garbled, notify, tpc, reply, joins, history>>

\* Seeded fault: the notices are compared with one of them.
NotifiedExactly == m_ServerNotify = {"NEED_AUTH"}

Notified == m_ServerNotify # {}

ConnectSeesNotify ==
  /\ upc = "spin" /\ Notified
  /\ IF "ERROR" \in m_ServerNotify
     THEN /\ upc' = "undo"
          /\ leftovers' = IF m_LinkHanlder \in failed THEN leftovers ELSE leftovers + 1
     ELSE upc' = "clear" /\ UNCHANGED leftovers
  /\ UNCHANGED <<shared, timer, made, link, packets, receive, tpc, reply, joins, heard, failed, proved>>

\* Seeded fault: the notices are not cleared.
NotifyKept == m_ServerNotify

NotifyCleared == {}

ConnectReturns ==
  /\ \/ upc = "clear" /\ upc' = "greeted"
     \/ upc = "undo" /\ Dropped(User, m_LinkHanlder) /\ upc' = "out"
  /\ m_ServerNotify' = NotifyCleared
  /\ UNCHANGED <<m_LinkHanlder, m_isAuth, timer, made, link, packets, receive, tpc, reply, joins, history>>

Authorize ==
  /\ upc = "greeted"
  /\ IF m_isAuth
     THEN upc' = "in" /\ NothingSent /\ UNCHANGED <<queue, reply>>
     ELSE /\ upc' = "proving" /\ LinkCall(User, m_LinkHanlder)
          /\ IF CanLink(m_LinkHanlder) THEN TakesProof(m_LinkHanlder) ELSE NothingSent
  /\ UNCHANGED <<shared, timer, made, link, batch, receive, tpc, joins, heard, failed, leftovers>>

\* Query and Set.
Request ==
  /\ upc = "in" /\ upc' = "asking"
  /\ LinkCall(User, m_LinkHanlder)
  /\ IF CanLink(m_LinkHanlder)
     THEN \E said \in Answers(m_LinkHanlder) : TakesInstruction(m_LinkHanlder, said, "serving")
     ELSE NothingSent
  /\ UNCHANGED <<shared, timer, made, link, batch, receive, tpc, joins, heard, failed, leftovers>>

\* An answer that does not fit the request, because an earlier one was answered twice, is as bad as
\* none.
CallReturns ==
  /\ upc \in {"proving", "asking"} /\ reply[User] # "NONE"
  /\ \/ reply[User] = "OK" /\ upc' = "in"
     \/ reply[User] = "LOGIN" /\ upc = "proving" /\ upc' = "greeted"
     \/ reply[User] # "OK" /\ (reply[User] = "LOGIN" => upc = "asking") /\ upc' = "losing"
     \/ reply[User] = "OK" /\ upc = "asking" /\ upc' = "losing"
  /\ m_isAuth' = (m_isAuth \/ (upc = "proving" /\ reply[User] = "OK"))
  /\ reply' = [reply EXCEPT ![User] = "NONE"]
  /\ UNCHANGED <<m_LinkHanlder, m_ServerNotify, timer, made, link, packets, receive, tpc, joins, history>>

\* The drop instruction is sent past the queues; its OK goes to whoever waits.
Disconnect ==
  /\ upc \in {"out", "greeted", "in"} /\ m_LinkHanlder # NoLink
  /\ upc' = "leaving"
  /\ IF getIsConnected(m_LinkHanlder)
     THEN TakesInstruction(m_LinkHanlder, <<"OK">>, "closed")
     ELSE NothingSent
  /\ UNCHANGED <<shared, timer, made, link, queue, batch, receive, tpc, reply, joins, heard, failed, leftovers>>

UserDrops ==
  /\ upc \in {"undo", "losing", "leaving"}
  /\ DropStarts(User, m_LinkHanlder) \/ DropEnds(User)
  /\ UNCHANGED <<shared, timer, made, packets, receive, upc, tpc, reply, history>>

UserHasDropped ==
  /\ upc \in {"losing", "leaving"} /\ Dropped(User, m_LinkHanlder)
  /\ upc' = "out"
  /\ m_LinkHanlder' = IF upc = "leaving" THEN NoLink ELSE m_LinkHanlder
  /\ UNCHANGED <<m_isAuth, m_ServerNotify, timer, made, link, packets, receive, tpc, reply, joins, history>>

\* Once a hello has given it the interval.  A cancelled timer is not made anew: to
\* schedule on it throws, and nothing changes.
EnableKeepAlive ==
  /\ upc \in {"out", "greeted", "in"} /\ heard # {} /\ timer = "none"
  /\ timer' = "ticking"
  /\ UNCHANGED <<shared, made, link, packets, receive, callers, history>>

DisableKeepAlive ==
  /\ upc \in {"out", "greeted", "in"} /\ timer = "ticking"
  /\ timer' = "dead"
  /\ UNCHANGED <<shared, made, link, packets, receive, callers, history>>

UserCall == Connect \/ Authorize \/ Request \/ Disconnect \/ EnableKeepAlive \/ DisableKeepAlive
UserStep == ConnectSeesNotify \/ ConnectReturns \/ CallReturns \/ UserDrops \/ UserHasDropped

(***************************************************************************)
(* The timer                                                               *)
(***************************************************************************)

\* A run of KeepAliveRoutine up to its test of m_isAuth.  Without a link it throws,
\* which ends the timer's thread.
KeepAliveRoutine ==
  /\ timer = "ticking" /\ tpc = "idle"
  /\ \/ /\ m_LinkHanlder \in {h \in Links : getIsConnected(h)} /\ m_isAuth
        /\ tpc' = "nop" /\ UNCHANGED timer
     \/ /\ m_LinkHanlder \notin {h \in Links : getIsConnected(h)}
        /\ timer' = "dead" /\ UNCHANGED tpc
  /\ UNCHANGED <<shared, made, link, packets, receive, upc, reply, joins, history>>

\* An exception in SendNOP.
NopThrows ==
  /\ m_LinkHanlder = NoLink
  /\ tpc = "nop" \/ (tpc = "waiting" /\ reply[Timer] \notin {"NONE", "OK"})
  /\ tpc' = "idle" /\ timer' = "dead"
  /\ reply' = [reply EXCEPT ![Timer] = "NONE"]
  /\ UNCHANGED <<shared, made, link, packets, receive, upc, joins, history>>

SendNOP ==
  /\ tpc = "nop" /\ m_LinkHanlder # NoLink
  /\ IF getIsConnected(m_LinkHanlder)
     THEN /\ tpc' = "waiting" /\ LinkCall(Timer, m_LinkHanlder)
          /\ IF CanLink(m_LinkHanlder)
             THEN TakesInstruction(m_LinkHanlder, <<"OK">>, "serving")
             ELSE NothingSent
     ELSE tpc' = "idle" /\ NothingSent /\ UNCHANGED <<queue, reply>>
  /\ UNCHANGED <<shared, timer, made, link, batch, receive, upc, joins, heard, failed, leftovers>>

\* After any reply but an OK it drops the link there is now.
NopReturns ==
  /\ tpc = "waiting" /\ reply[Timer] # "NONE"
  /\ \/ reply[Timer] = "OK" /\ tpc' = "idle" /\ UNCHANGED <<link, joins>>
     \/ /\ reply[Timer] # "OK" /\ m_LinkHanlder # NoLink
        /\ \/ ~connected[m_LinkHanlder] /\ tpc' = "idle" /\ UNCHANGED <<link, joins>>
           \/ DropStarts(Timer, m_LinkHanlder) /\ tpc' = IF joins'[Timer] = NoLink THEN "idle" ELSE "losing"
  /\ reply' = [reply EXCEPT ![Timer] = "NONE"]
  /\ UNCHANGED <<shared, timer, made, packets, receive, upc, history>>

TimerHasDropped ==
  /\ tpc = "losing" /\ DropEnds(Timer) /\ tpc' = "idle"
  /\ UNCHANGED <<shared, timer, made, packets, receive, upc, reply, history>>

TimerStep == KeepAliveRoutine \/ NopThrows \/ SendNOP \/ NopReturns \/ TimerHasDropped

(***************************************************************************)
(* The receiving thread of link h                                          *)
(***************************************************************************)

Waiting(h) == {c \in Callers : \E i \in DOMAIN queue[h] : queue[h][i] = c}

FailWaiting(h) ==
  /\ reply' = [c \in Callers |-> IF c \in Waiting(h) THEN "FAIL" ELSE reply[c]]
  /\ queue' = [queue EXCEPT ![h] = << >>]

\* The thread ends.  What the server says to nobody is left out.
RxEnds(h) ==
  /\ rx' = [rx EXCEPT ![h] = "ended"]
  /\ inbox' = [inbox EXCEPT ![h] = << >>] /\ batch' = [batch EXCEPT ![h] = 0]
  /\ server' = [server EXCEPT ![h] = "closed"]
  /\ garbled' = garbled \ {h}

\* run, at the test of its loop.
RxLoops(h) ==
  /\ rx[h] = "loop" /\ batch[h] = 0
  /\ \/ onService[h] /\ rx' = [rx EXCEPT ![h] = "recv"] /\ UNCHANGED <<inbox, batch, server, garbled>>
     \/ ~onService[h] /\ RxEnds(h)
  /\ UNCHANGED <<shared, timer, made, link, queue, notify, callers, history>>

\* Packets, or none in time.  After a read that threw the key stays selected, and no more is read.
RecievePackets(h) ==
  /\ connected[h]
  /\ \E n \in 0..Len(inbox[h]) : batch' = [batch EXCEPT ![h] = n]
  /\ inbox[h] # << >> => batch'[h] > 0
  /\ rx' = [rx EXCEPT ![h] = "loop"] /\ UNCHANGED <<link, queue, inbox, server, garbled, reply>>

RecieveEnd(h) ==
  /\ connected[h] /\ inbox[h] = << >> /\ server[h] = "closed"
  /\ connected' = [connected EXCEPT ![h] = FALSE]
  /\ onService' = [onService EXCEPT ![h] = FALSE]
  /\ FailWaiting(h)
  /\ RxEnds(h)

\* The connection was reset: what was on its way is lost, and the channel stays open.
RecieveThrows(h) ==
  /\ connected[h] /\ server[h] # "failed"
  /\ server' = [server EXCEPT ![h] = "failed"]
  /\ inbox' = [inbox EXCEPT ![h] = << >>]
  /\ FailWaiting(h)
  /\ batch' = [batch EXCEPT ![h] = 0]
  /\ rx' = [rx EXCEPT ![h] = "loop"] /\ UNCHANGED <<link, garbled>>

\* The closed channel is found out before select, or in it: then an exception ends the thread.
RecieveClosed(h) ==
  /\ ~connected[h]
  /\ FailWaiting(h) \/ UNCHANGED <<queue, reply>>
  /\ RxEnds(h) /\ UNCHANGED link

Recieve(h) ==
  /\ rx[h] = "recv"
  /\ RecievePackets(h) \/ RecieveEnd(h) \/ RecieveThrows(h) \/ RecieveClosed(h)
  /\ UNCHANGED <<shared, timer, made, notify, upc, tpc, joins, history>>

\* Seeded fault: the position of the buffer stays.
PacketsLeftStuck(h) == batch[h]

PacketsLeft(h) == batch[h] - 1

\* Seeded fault: a hello leaves m_isAuth as the last link set it.
AuthKept(packet) == m_isAuth

AuthAfter(packet) == m_isAuth /\ packet # "HELLO"

\* The next packet goes to the request that waits longest, or to onExceptionHappen,
\* which reads m_ServerNotify for the |= of a hello or an error.
RxPacket(h) ==
  /\ rx[h] = "loop" /\ batch[h] > 0
  /\ batch' = [batch EXCEPT ![h] = PacketsLeft(h)] /\ inbox' = [inbox EXCEPT ![h] = Tail(@)]
  /\ IF queue[h] # << >>
     THEN /\ reply' = [reply EXCEPT ![Head(queue[h])] = Head(inbox[h])]
          /\ queue' = [queue EXCEPT ![h] = Tail(@)]
          /\ UNCHANGED <<m_isAuth, rx, notify, heard>>
     ELSE /\ m_isAuth' = AuthAfter(Head(inbox[h]))
          /\ heard' = IF Head(inbox[h]) = "HELLO" THEN heard \cup {h} ELSE heard
          /\ rx' = [rx EXCEPT ![h] = CASE Head(inbox[h]) = "HELLO" -> "hello"
                                       [] Head(inbox[h]) = "ERROR" -> "error"
                                       [] OTHER -> @]
          /\ notify' = [notify EXCEPT ![h] = IF rx'[h] = "loop" THEN @ ELSE m_ServerNotify]
          /\ UNCHANGED <<reply, queue>>
  /\ UNCHANGED <<m_LinkHanlder, m_ServerNotify, timer, made, link, server, garbled, upc, tpc, joins,
                 failed, proved, leftovers>>

RxNotifies(h) ==
  /\ \/ /\ rx[h] = "hello"
        /\ m_ServerNotify' = notify[h] \cup {"NEED_AUTH"}
        /\ rx' = [rx EXCEPT ![h] = "loop"] /\ UNCHANGED failed
     \/ /\ rx[h] = "error"
        /\ m_ServerNotify' = notify[h] \cup {"ERROR"}
        /\ rx' = [rx EXCEPT ![h] = "drop"] /\ failed' = failed \cup {h}
  /\ notify' = [notify EXCEPT ![h] = {}]
  /\ UNCHANGED <<m_LinkHanlder, m_isAuth, timer, made, link, packets, callers, heard, proved, leftovers>>

\* onExceptionHappen drops the link there is now, which may be a later one; without
\* one it throws, and run drops its own and ends.
RxDrops(h) ==
  /\ rx[h] = "drop"
  /\ \/ /\ m_LinkHanlder \in {h, NoLink}
        /\ connected' = [connected EXCEPT ![h] = FALSE]
        /\ onService' = [onService EXCEPT ![h] = FALSE]
        /\ \/ m_LinkHanlder = h /\ rx' = [rx EXCEPT ![h] = "loop"]
              /\ UNCHANGED <<inbox, batch, server, garbled>>
           \/ m_LinkHanlder # h /\ RxEnds(h)
        /\ UNCHANGED joins
     \/ /\ m_LinkHanlder \notin {h, NoLink} /\ joins[h] = NoLink
        /\ \/ DropStarts(h, m_LinkHanlder)
           \/ ~connected[m_LinkHanlder] /\ UNCHANGED <<link, joins>>
        /\ rx' = [rx EXCEPT ![h] = IF joins'[h] = NoLink THEN "loop" ELSE @]
        /\ UNCHANGED <<inbox, batch, server, garbled>>
     \/ /\ DropEnds(h) /\ rx' = [rx EXCEPT ![h] = "loop"]
        /\ UNCHANGED <<inbox, batch, server, garbled>>
  /\ UNCHANGED <<shared, timer, made, queue, notify, upc, tpc, reply, history>>

RxStep(h) == RxLoops(h) \/ Recieve(h) \/ RxPacket(h) \/ RxNotifies(h) \/ RxDrops(h)

Next ==
  \/ UserCall \/ UserStep \/ TimerStep
  \/ \E h \in Links : ServerSpeaks(h) \/ RxStep(h)

\* The threads run on; nobody has to call, to answer or to make the timer tick.
Spec ==
  /\ Init /\ [][Next]_vars
  /\ WF_vars(UserStep) /\ \A h \in Links : WF_vars(RxStep(h))

(***************************************************************************)
(* Properties                                                              *)
(***************************************************************************)

\* What a call says is true of the link the module has: after COMM_NEED_AUTH its
\* server has greeted, and after Authorize's COMM_OK its server has taken a proof.
\* One case is excepted: the timer drops the link of a Connect that fails by an error
\* left over, that Connect does not wait for the receiving thread, and the hello it
\* was handling is taken for the next one's.
SuccessIsOwn ==
  timer = "none" \/ leftovers = 0 =>
    /\ upc \in {"clear", "greeted"} => m_LinkHanlder \in heard
    /\ upc \in {"in", "asking"} => m_LinkHanlder \in proved

\* An error that is left in m_ServerNotify makes the next Connect fail, though its
\* server greets; that Connect clears it.  So an error costs no more than one, unless
\* the keep-alive drops links too.
LeftoverFailsOnce == timer = "none" => leftovers <= Cardinality(failed)

\* Connect waits for ever only on a link that has not been greeted, and never will
\* be: the server says nothing, the hello went to a NOP, the connection was reset, or the link
\* was dropped.
ConnectIsAnswered ==
  []<>(upc # "spin" \/ /\ m_LinkHanlder \notin heard
                       /\ "HELLO" \notin {inbox[m_LinkHanlder][i] : i \in DOMAIN inbox[m_LinkHanlder]}
                          \/ rx[m_LinkHanlder] = "ended")

(***************************************************************************)
(* The inductive invariants behind the safety properties                   *)
(***************************************************************************)

\* The hello of a server comes first and an error last, each once; an OK follows a right proof.
InboxInv(h) ==
  /\ \A i \in DOMAIN inbox[h] :
       /\ inbox[h][i] = "HELLO" => i = 1 /\ h \notin heard
       /\ inbox[h][i] = "ERROR" => i = Len(inbox[h]) /\ server[h] = "closed"
       /\ inbox[h][i] = "OK" => h \in proved
  /\ server[h] = "greet" => inbox[h] = << >> /\ h \notin heard
  /\ server[h] = "serving" => h \in proved

\* What the receiving thread of a link is doing fits what it has been sent.
RxInv(h) ==
  /\ h > made => rx[h] = "none"
  /\ rx[h] = "none" =>
       /\ server[h] = "none" /\ inbox[h] = << >>
       /\ ~connected[h] /\ h \notin heard \cup failed \cup proved
  /\ rx[h] \in {"error", "drop"} \/ h \in failed => inbox[h] = << >> /\ server[h] \in {"closed", "failed"}
  /\ rx[h] = "error" => h \notin failed
  /\ rx[h] = "hello" => h \in heard /\ h \notin failed
  /\ notify[h] # {} => rx[h] \in {"hello", "error"}

\* Between two calls alone there may be no link; a call of Connect fails once.
HandlerInv ==
  /\ m_LinkHanlder <= made
  /\ upc # "out" => m_LinkHanlder # NoLink
  /\ leftovers <= made /\ (upc = "spin" => leftovers < made)

\* The user waits in the queue of the link the module has, once and for one reply.
QueuedOnce ==
  \A h \in Links : \A i \in DOMAIN queue[h] : queue[h][i] = User =>
    /\ h = m_LinkHanlder /\ upc \in {"proving", "asking"} /\ reply[User] = "NONE"
    /\ \A j \in DOMAIN queue[h] : queue[h][j] = User => j = i

\* What the user is told of its proof is true, and a hello makes the module forget it.
ProofInv ==
  /\ upc = "proving" /\ reply[User] = "OK" => m_LinkHanlder \in proved
  /\ m_isAuth /\ m_LinkHanlder \in heard => m_LinkHanlder \in proved

\* A hello is handled for the link that waits for it, and a notice from an earlier link has
\* an error in it.
GreetingInv ==
  /\ \A h \in Links : rx[h] = "hello" => h = m_LinkHanlder /\ upc \in {"spin", "undo"}
  /\ "NEED_AUTH" \in m_ServerNotify /\ "ERROR" \notin m_ServerNotify =>
       \/ upc \in {"clear", "undo"}
       \/ upc = "spin" /\ m_LinkHanlder \in heard /\ rx[m_LinkHanlder] # "hello"
  /\ upc \in {"clear", "greeted", "proving", "in", "asking", "losing"} => m_LinkHanlder \in heard
  /\ upc \in {"in", "asking"} => m_LinkHanlder \in proved

\* Until an error that was not its link's makes a Connect fail, no call to it returns before its
\* link's hello or error has been handled.
NoLeftoverInv ==
  /\ upc = "undo" => m_LinkHanlder \in failed
  /\ \A h \in Links : rx[h] = "none" \/ h \in heard \cup failed \/ (h = m_LinkHanlder /\ upc = "spin")

\* The receiving thread of a link that is closed handles nothing more.
Quiet(h) == rx[h] \in {"none", "ended"} \/ (rx[h] = "loop" /\ batch[h] = 0 /\ ~onService[h])

\* Without the keep-alive, one link at a time is open and its receiving thread alone notifies.
OneLinkInv ==
  /\ tpc = "idle" /\ \A t \in Links \cup {Timer} : joins[t] = NoLink
  /\ joins[User] # NoLink => joins[User] = m_LinkHanlder /\ upc \in {"undo", "losing", "leaving"}
  /\ \A h \in Links :
       /\ connected[h] =>
            h = m_LinkHanlder /\ upc # "out" /\ (h \in heard \/ upc \in {"spin", "undo"})
       /\ connected[h] /\ ~onService[h] => joins[User] = h
       /\ ~connected[h] => Quiet(h)
       /\ "ERROR" \in notify[h] => "ERROR" \in m_ServerNotify /\ upc # "clear"
  /\ upc = "clear" /\ "ERROR" \in m_ServerNotify => m_LinkHanlder \in failed

\* Each error is spent on one Connect.
SpentInv ==
  /\ leftovers <= Cardinality(failed)
  /\ upc # "undo" /\ "ERROR" \in m_ServerNotify => leftovers + 1 <= Cardinality(failed)

PacketInv == \A h \in Links : InboxInv(h) /\ RxInv(h)

\* The cases in which what a call says is true of its link.
Undoubted == timer = "none" \/ leftovers = 0

RestInv ==
  /\ leftovers = 0 => NoLeftoverInv
  /\ timer = "none" => OneLinkInv /\ SpentInv
  /\ Undoubted => GreetingInv
=============================================================================
