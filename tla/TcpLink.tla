------------------------------- MODULE TcpLink -------------------------------
(***************************************************************************)
(* The client's link to the server: TcpHandler with its sending and its    *)
(* receiving thread.  A call of Link puts a session into TxQueue and waits *)
(* for its semaphore; TxWorker moves the session to RxQueue and sends its  *)
(* request; RxWorker gives each packet that arrives to the first session   *)
(* in RxQueue, or to the exception callback if there is none.  Replies and *)
(* requests are told apart by nothing but their order.                     *)
(*                                                                         *)
(* The state begins when Connect has returned: the connection stands, both *)
(* threads run and the server's hello has been read.  A handler is never   *)
(* connected twice (Connect creates a new one).  A call is made once, and  *)
(* stands for its session, its request and its answer as well; calls are   *)
(* made by the user's threads and the keep-alive timer.  Disconnect sends  *)
(* the drop instruction past the queues, and the server's OK to it is the  *)
(* last thing it says.  A packet is one message: the number of bytes a     *)
(* read delivers is left out.                                              *)
(***************************************************************************)
EXTENDS Naturals, Sequences, Functions

CONSTANTS
  Calls,      \* calls of Link, or of Disconnect
  Rx,         \* the receiving thread, which drops the connection as well
  Notice,     \* the server's last message: timeout, or no serial port
  Bye,        \* the OK to the drop instruction
  Nothing,    \* the zeros a session's reply holds at first
  MaxDoubles  \* bound: requests the server answers twice (illegal movements)

ASSUME NamesAssumption ==
  /\ {Rx, Notice, Bye, Nothing} \cap Calls = {}
  /\ Notice # Bye /\ Nothing \notin {Notice, Bye}
ASSUME DoublesAssumption == MaxDoubles \in Nat

Droppers == Calls \cup {Rx}
LastWords == {Notice, Bye}
Packets == Calls \cup LastWords

VARIABLES
  open,         \* getIsConnected(): the channel exists and has been connected
  isConnected,  \* m_isConnected
  onService,    \* m_isOnService
  txQueue, rxQueue,
  permits,      \* m_TxSemaphore
  cpc,          \* where each call is
  status,       \* each session's status: "OK" or any of the errors
  reply,        \* its reply: the call it answers, the server's last words or Nothing
  released,     \* the sessions whose semProcess has been released
  dpc,          \* where each dropper is in DropConnection
  tpc,          \* where TxWorker is
  cur,          \* its curProceeding
  sent,         \* what Send returned
  rpc,          \* where RxWorker is
  rxBuffer,     \* the packets it has read
  stuck,        \* a read failed: its key stays selected, and select counts no new one
  server,       \* the server's end of the connection
  toServer, toClient,
  leaving,      \* the drop instruction follows what is in toServer: the server reads no further
  doubles       \* requests answered twice so far

service == <<open, isConnected, onService>>
queues  == <<txQueue, rxQueue, permits>>
session == <<status, reply, released>>
tx      == <<tpc, cur, sent>>
rx      == <<rpc, rxBuffer, stuck>>
net     == <<server, toServer, toClient, leaving, doubles>>
vars    == <<service, queues, cpc, session, dpc, tx, rx, net>>

TypeOK ==
  /\ open \in BOOLEAN /\ isConnected \in BOOLEAN /\ onService \in BOOLEAN
  /\ txQueue \in Seq(Calls) /\ rxQueue \in Seq(Calls)
  /\ permits \in Nat
  /\ cpc \in [Calls -> {"idle", "offer", "release", "wait", "returned"}]
  /\ status \in [Calls -> {"OK", "error"}]
  /\ reply \in [Calls -> Packets \cup {Nothing}]
  /\ released \subseteq Calls
  /\ dpc \in [Droppers -> {"no", "test", "set", "joinTx", "joinRx", "close", "done"}]
  /\ tpc \in {"loop", "acquire", "check", "take", "send", "record", "ended"}
  /\ cur \in Calls \cup {Nothing}
  /\ sent \in {"OK", "error"}
  /\ rpc \in {"loop", "select", "dispatch", "callback", "eof", "fail", "ended"}
  /\ rxBuffer \in Seq(Packets)
  /\ stuck \in BOOLEAN
  /\ server \in {"up", "closed", "reset"}
  /\ toServer \in Seq(Calls) /\ toClient \in Seq(Packets) /\ leaving \in BOOLEAN
  /\ doubles \in 0..MaxDoubles

Established == open = TRUE /\ isConnected = TRUE /\ onService = TRUE

Init ==
  /\ Established
  /\ txQueue = << >> /\ rxQueue = << >> /\ permits = 0
  /\ cpc = [c \in Calls |-> "idle"]
  /\ status = [c \in Calls |-> "OK"]
  /\ reply = [c \in Calls |-> Nothing]
  /\ released = {}
  /\ dpc = [p \in Droppers |-> "no"]
  /\ tpc = "loop" /\ cur = Nothing /\ sent = "OK"
  /\ rpc = "loop" /\ rxBuffer = << >> /\ stuck = FALSE
  /\ server = "up" /\ toServer = << >> /\ toClient = << >>
  /\ leaving = FALSE /\ doubles = 0

(***************************************************************************)
(* Link                                                                    *)
(***************************************************************************)

CallGoes(c, from, to) == cpc[c] = from /\ cpc' = [cpc EXCEPT ![c] = to]

\* The two tests are one step: onService is cleared before the channel is closed.
LinkAccepted(c) ==
  /\ open /\ onService
  /\ CallGoes(c, "idle", "offer")
  /\ UNCHANGED <<service, queues, session, dpc, tx, rx, net>>

Offer(c) ==
  /\ CallGoes(c, "offer", "release")
  /\ txQueue' = Append(txQueue, c)
  /\ UNCHANGED <<service, rxQueue, permits, session, dpc, tx, rx, net>>

\* Seeded fault: the sending thread is not told.
ReleaseMissing(c) ==
  /\ CallGoes(c, "release", "wait")
  /\ UNCHANGED <<service, queues, session, dpc, tx, rx, net>>

Release(c) ==
  /\ CallGoes(c, "release", "wait")
  /\ permits' = permits + 1
  /\ UNCHANGED <<service, txQueue, rxQueue, session, dpc, tx, rx, net>>

\* The caller drops the connection when Link fails or it cannot make sense of the reply, and may
\* drop it all the same (a last refusal).  An OK meant for the drop instruction contents some.
Return(c) ==
  /\ c \in released
  /\ CallGoes(c, "wait", "returned")
  /\ \/ status[c] = "OK" /\ reply[c] \in Calls \cup {Bye} /\ UNCHANGED dpc
     \/ dpc' = [dpc EXCEPT ![c] = "test"]
  /\ UNCHANGED <<service, queues, session, tx, rx, net>>

LinkRefused(c) ==
  /\ ~(open /\ onService)
  /\ CallGoes(c, "idle", "returned")
  /\ dpc' = [dpc EXCEPT ![c] = "test"]
  /\ UNCHANGED <<service, queues, session, tx, rx, net>>

\* The drop instruction is written at once, before or after whatever TxWorker has to send.  A
\* server that still waits for a proof takes it for part of one.
Disconnect(c) ==
  /\ CallGoes(c, "idle", "returned")
  /\ dpc' = [dpc EXCEPT ![c] = "test"]
  /\ \/ open /\ server = "up" /\ leaving' = TRUE
     \/ UNCHANGED leaving
  /\ UNCHANGED <<service, queues, session, tx, rx, server, toServer, toClient, doubles>>

(***************************************************************************)
(* DropConnection and stopAsync, by a caller or by RxWorker                *)
(***************************************************************************)

DropGoes(p, from, to) == dpc[p] = from /\ dpc' = [dpc EXCEPT ![p] = to]

\* The test of DropConnection and that of stopAsync: whoever closes the connection in between
\* leaves nothing to be done.
DropTest(p) ==
  /\ DropGoes(p, "test", IF ~isConnected THEN "done" ELSE IF onService THEN "set" ELSE "close")
  /\ UNCHANGED <<service, queues, cpc, session, tx, rx, net>>

\* Seeded fault: the sending thread is not woken.
StopSetSilent(p) ==
  /\ DropGoes(p, "set", "joinTx")
  /\ onService' = FALSE
  /\ UNCHANGED <<open, isConnected, queues, cpc, session, tx, rx, net>>

StopSet(p) ==
  /\ DropGoes(p, "set", "joinTx")
  /\ onService' = FALSE
  /\ permits' = permits + 1
  /\ UNCHANGED <<open, isConnected, txQueue, rxQueue, cpc, session, tx, rx, net>>

\* Seeded fault: the sending thread is not waited for.
JoinTxMissing(p) ==
  /\ DropGoes(p, "joinTx", IF p = Rx THEN "close" ELSE "joinRx")
  /\ UNCHANGED <<service, queues, cpc, session, tx, rx, net>>

JoinTx(p) ==
  /\ tpc = "ended"
  /\ DropGoes(p, "joinTx", IF p = Rx THEN "close" ELSE "joinRx")
  /\ UNCHANGED <<service, queues, cpc, session, tx, rx, net>>

JoinRx(p) ==
  /\ rpc = "ended"
  /\ DropGoes(p, "joinRx", "close")
  /\ UNCHANGED <<service, queues, cpc, session, tx, rx, net>>

\* Who comes second finds the selector gone, and returns by the exception.
Close(p) ==
  /\ DropGoes(p, "close", "done")
  /\ isConnected' = FALSE
  /\ open' = FALSE
  /\ UNCHANGED <<onService, queues, cpc, session, tx, rx, net>>

Drop(p) ==
  DropTest(p) \/ StopSet(p) \/ JoinTx(p) \/ JoinRx(p) \/ Close(p)

Call(c) ==
  \/ LinkAccepted(c) \/ LinkRefused(c) \/ Offer(c) \/ Release(c) \/ Return(c)
  \/ Disconnect(c) \/ Drop(c)

(***************************************************************************)
(* TxWorker                                                                *)
(***************************************************************************)

TxGoes(from, to) == tpc = from /\ tpc' = to

\* The sessions in a queue fail, and their callers are woken.
Fail(queue) ==
  /\ status' = [c \in Calls |-> IF c \in Range(queue) THEN "error" ELSE status[c]]
  /\ released' = released \cup Range(queue)

TxLoop ==
  /\ TxGoes("loop", IF onService THEN "acquire" ELSE "ended")
  /\ UNCHANGED <<service, queues, cpc, session, dpc, cur, sent, rx, net>>

\* Seeded fault: it does not wait for a permit.
TxAcquireHasty ==
  /\ TxGoes("acquire", "check")
  /\ permits' = permits - 1
  /\ UNCHANGED <<service, txQueue, rxQueue, cpc, session, dpc, cur, sent, rx, net>>

TxAcquire ==
  /\ permits > 0
  /\ TxGoes("acquire", "check")
  /\ permits' = permits - 1
  /\ UNCHANGED <<service, txQueue, rxQueue, cpc, session, dpc, cur, sent, rx, net>>

TxCheck ==
  /\ \/ open /\ TxGoes("check", "take") /\ UNCHANGED <<txQueue, status, released>>
     \/ ~open /\ TxGoes("check", "loop") /\ Fail(txQueue) /\ txQueue' = << >>
  /\ UNCHANGED <<service, rxQueue, permits, cpc, reply, dpc, cur, sent, rx, net>>

\* Seeded fault: the session is pushed, which puts it first.
TxTakePush ==
  /\ \/ txQueue = << >> /\ TxGoes("take", "loop") /\ UNCHANGED <<txQueue, rxQueue, cur>>
     \/ /\ txQueue # << >> /\ TxGoes("take", "send")
        /\ cur' = Head(txQueue)
        /\ txQueue' = Tail(txQueue)
        /\ rxQueue' = <<Head(txQueue)>> \o rxQueue
  /\ UNCHANGED <<service, permits, cpc, session, dpc, sent, rx, net>>

TxTake ==
  /\ \/ txQueue = << >> /\ TxGoes("take", "loop") /\ UNCHANGED <<txQueue, rxQueue, cur>>
     \/ /\ txQueue # << >> /\ TxGoes("take", "send")
        /\ cur' = Head(txQueue)
        /\ txQueue' = Tail(txQueue)
        /\ rxQueue' = Append(rxQueue, Head(txQueue))
  /\ UNCHANGED <<service, permits, cpc, session, dpc, sent, rx, net>>

Reads == server = "up" /\ ~leaving

\* What is written behind the drop instruction, or to a server that has closed, is not read.
TxSend ==
  /\ TxGoes("send", "record")
  /\ \/ open /\ Reads /\ sent' = "OK" /\ toServer' = Append(toServer, cur)
     \/ open /\ server # "reset" /\ ~Reads /\ sent' = "OK" /\ UNCHANGED toServer
     \/ (~open \/ server # "up") /\ sent' = "error" /\ UNCHANGED toServer
  /\ UNCHANGED <<service, queues, cpc, session, dpc, cur, rx, server, toClient, leaving, doubles>>

\* curProceeding.status |= Send(...) read the status, which was OK, before it sent.
TxRecord ==
  /\ TxGoes("record", "loop")
  /\ status' = [status EXCEPT ![cur] = sent]
  /\ UNCHANGED <<service, queues, cpc, reply, released, dpc, cur, sent, rx, net>>

TxWorker == TxLoop \/ TxAcquire \/ TxCheck \/ TxTake \/ TxSend \/ TxRecord

(***************************************************************************)
(* RxWorker                                                                *)
(***************************************************************************)

RxGoes(from, to) == rpc = from /\ rpc' = to

RxLoop ==
  /\ RxGoes("loop", IF onService THEN "select" ELSE "ended")
  /\ UNCHANGED <<service, queues, cpc, session, dpc, tx, rxBuffer, stuck, net>>

\* The channel is closed: Recieve finds out at once, or select ends, with nothing read.
RxClosed ==
  /\ ~open
  /\ RxGoes("select", "fail") \/ RxGoes("select", "loop")
  /\ UNCHANGED <<service, queues, cpc, session, dpc, tx, rxBuffer, stuck, net>>

RxTimeout ==
  /\ open /\ (stuck \/ (server = "up" /\ toClient = << >>))
  /\ RxGoes("select", "loop")
  /\ UNCHANGED <<service, queues, cpc, session, dpc, tx, rxBuffer, stuck, net>>

RxRead ==
  /\ open /\ ~stuck /\ toClient # << >>
  /\ RxGoes("select", "dispatch")
  /\ rxBuffer' = rxBuffer \o toClient
  /\ toClient' = << >>
  /\ UNCHANGED <<service, queues, cpc, session, dpc, tx, stuck, server, toServer, leaving, doubles>>

RxEndOfStream ==
  /\ open /\ ~stuck /\ toClient = << >> /\ server = "closed"
  /\ RxGoes("select", "eof")
  /\ dpc' = [dpc EXCEPT ![Rx] = "test"]
  /\ UNCHANGED <<service, queues, cpc, session, tx, rxBuffer, stuck, net>>

RxException ==
  /\ open /\ ~stuck /\ toClient = << >> /\ server = "reset"
  /\ RxGoes("select", "fail")
  /\ stuck' = TRUE
  /\ UNCHANGED <<service, queues, cpc, session, dpc, tx, rxBuffer, net>>

RxFail ==
  /\ RxGoes("fail", "loop")
  /\ Fail(rxQueue)
  /\ rxQueue' = << >>
  /\ UNCHANGED <<service, txQueue, permits, cpc, reply, dpc, tx, rxBuffer, stuck, net>>

\* RxWorker goes through the packets it has read.
AfterPacket == IF Len(rxBuffer) > 1 THEN "dispatch" ELSE "loop"

RxPair ==
  /\ rxBuffer # << >> /\ rxQueue # << >>
  /\ RxGoes("dispatch", AfterPacket)
  /\ reply' = [reply EXCEPT ![Head(rxQueue)] = Head(rxBuffer)]
  /\ released' = released \cup {Head(rxQueue)}
  /\ rxQueue' = Tail(rxQueue)
  /\ rxBuffer' = Tail(rxBuffer)
  /\ UNCHANGED <<service, txQueue, permits, cpc, status, dpc, tx, stuck, net>>

\* No request is corresponding: the callback drops the connection for a notice and passes
\* over anything else.
RxCallback ==
  /\ rxBuffer # << >> /\ rxQueue = << >>
  /\ rxBuffer' = Tail(rxBuffer)
  /\ \/ /\ Head(rxBuffer) = Notice /\ RxGoes("dispatch", "callback")
        /\ dpc' = [dpc EXCEPT ![Rx] = "test"]
     \/ Head(rxBuffer) # Notice /\ RxGoes("dispatch", AfterPacket) /\ UNCHANGED dpc
  /\ UNCHANGED <<service, queues, cpc, session, tx, stuck, net>>

\* RxWorker goes on when its DropConnection has returned.
RxDropped ==
  /\ dpc[Rx] = "done"
  /\ \/ RxGoes("eof", "fail")
     \/ RxGoes("callback", IF rxBuffer = << >> THEN "loop" ELSE "dispatch")
  /\ UNCHANGED <<service, queues, cpc, session, dpc, tx, rxBuffer, stuck, net>>

RxWorker ==
  \/ RxLoop \/ RxClosed \/ RxTimeout \/ RxRead \/ RxEndOfStream \/ RxException
  \/ RxFail \/ RxPair \/ RxCallback \/ RxDropped \/ Drop(Rx)

(***************************************************************************)
(* The server and the network                                              *)
(***************************************************************************)

\* One answer to each request, but two to an illegal movement (CamControlServer).
Answer ==
  /\ server = "up" /\ toServer # << >>
  /\ toServer' = Tail(toServer)
  /\ \/ toClient' = Append(toClient, Head(toServer)) /\ UNCHANGED doubles
     \/ /\ doubles < MaxDoubles /\ doubles' = doubles + 1
        /\ toClient' = toClient \o <<Head(toServer), Head(toServer)>>
  /\ UNCHANGED <<service, queues, cpc, session, dpc, tx, rx, server, leaving>>

\* The drop instruction is answered, and the session ends.
Farewell ==
  /\ server = "up" /\ leaving /\ toServer = << >>
  /\ toClient' = Append(toClient, Bye)
  /\ server' = "closed"
  /\ UNCHANGED <<service, queues, cpc, session, dpc, tx, rx, toServer, leaving, doubles>>

\* The session ends, with or without a message that says why.
Hangup ==
  /\ server = "up"
  /\ server' = "closed"
  /\ toClient' \in {toClient, Append(toClient, Notice)}
  /\ UNCHANGED <<service, queues, cpc, session, dpc, tx, rx, toServer, leaving, doubles>>

\* What was on its way to the client is lost.
Reset ==
  /\ server # "reset"
  /\ server' = "reset"
  /\ toClient' = << >>
  /\ UNCHANGED <<service, queues, cpc, session, dpc, tx, rx, toServer, leaving, doubles>>

Next ==
  TxWorker \/ RxWorker \/ Answer \/ Farewell \/ Hangup \/ Reset \/ \E c \in Calls : Call(c)

Spec == Init /\ [][Next]_vars

\* What is inside Link or DropConnection goes on; whether a call is made is left open.
Underway(c) == cpc[c] # "idle" /\ Call(c)

Fairness ==
  /\ WF_vars(TxWorker) /\ WF_vars(RxWorker) /\ WF_vars(Answer) /\ WF_vars(Farewell)
  /\ \A c \in Calls : WF_vars(Underway(c))

FairSpec == Spec /\ Fairness

(***************************************************************************)
(* Properties                                                              *)
(***************************************************************************)

Waiting(c) == cpc[c] \in {"offer", "release", "wait"}

ToldLastWords == {c \in Calls : reply[c] \in LastWords}

\* As long as the server answers every request once, no call is given the reply to another's:
\* the order of TxQueue, of the requests and answers on their way and of RxQueue is the same,
\* through failures, hang-ups and resets (TxWorker offers to RxQueue before it sends).  What the
\* server says on its own account or to the drop instruction goes to one waiting call at most.
OwnReply ==
  doubles = 0 =>
    /\ \A c \in Calls : reply[c] \in {c, Nothing} \cup LastWords
    /\ \A c, d \in ToldLastWords : c = d

TwoDrop == \E p, q \in Droppers : p # q /\ dpc[p] # "no" /\ dpc[q] # "no"

\* A call is told OK with an empty reply only where its error was overwritten: the connection
\* was reset, or two threads dropped it and the second did not wait for TxWorker.
OkHasReply ==
  \A c \in Calls : cpc[c] = "wait" /\ c \in released /\ status[c] = "OK" /\ reply[c] = Nothing
    => stuck \/ TwoDrop

\* While the two threads serve and no read has failed, every call returns.  (There are finitely
\* many calls, so each of these returns if in the end none is under way.)
ServedOnService == <>[](onService /\ ~stuck => \A c \in Calls : ~Waiting(c))

\* DropConnection returns, whoever calls it and whatever the threads are doing: nobody waits
\* for a thread that waits for somebody.
DropReturns == <>[](\A p \in Droppers : dpc[p] \in {"no", "done"})

\* Every call returns.
LinkReturns == \A c \in Calls : Waiting(c) ~> ~Waiting(c)

(***************************************************************************)
(* The inductive invariants behind the safety properties                   *)
(***************************************************************************)

Live == open /\ ~stuck

\* What RxWorker may still be given, and what has been taken from TxQueue and is not sent.
Incoming == IF Live THEN rxBuffer \o toClient ELSE rxBuffer
Unsent == IF tpc = "send" THEN <<cur>> ELSE << >>

\* Packet by packet, a stream answers a queue of sessions: only its end may be other words.
Answers(stream, queue) ==
  \A i \in 1..Len(stream) :
    \/ i = Len(stream) /\ stream[i] \in LastWords
    \/ i <= Len(queue) /\ stream[i] = queue[i]

\* RxQueue holds what is incoming, what the server will answer and what it will not, in this
\* order; it answers everything unless it has been told to leave.
Unanswered(rest) == toServer \o rest

OrderInv ==
  /\ Answers(Incoming, rxQueue)
  /\ Live /\ server = "up" =>
       \E rest \in Seq(Calls) :
         /\ Incoming \o Unanswered(rest) = rxQueue
         /\ ~leaving => rest = Unsent

\* Nothing comes in after the last words.
LastInv == ToldLastWords # {} => Incoming = << >> /\ ~(Live /\ server = "up")

LinkInv ==
  /\ isConnected = open
  /\ rpc = "fail" => ~Live
  /\ \A p \in Droppers : dpc[p] = "done" => ~open
  /\ rpc \notin {"dispatch", "callback"} => rxBuffer = << >>
  /\ tpc = "send" => cur \in Calls

\* A call drops the connection after it has returned, RxWorker while it waits to go on.
DropperInv ==
  /\ \A c \in Calls : cpc[c] # "returned" => dpc[c] = "no"
  /\ rpc \notin {"eof", "callback"} => dpc[Rx] \in {"no", "done"}

\* Whoever drops the connection alone closes it after TxWorker has ended, so that TxWorker
\* overwrites no error and every session that is released has a reply or keeps its error.
Undisturbed == ~stuck /\ ~TwoDrop

LoneDrop ==
  /\ (\A p \in Droppers : dpc[p] \in {"no", "test", "set"})
       => (onService /\ open) \/ tpc = "ended"
  /\ \A p \in Droppers : dpc[p] \in {"joinRx", "close"} => tpc = "ended"
  /\ ~open => tpc = "ended"
  /\ \A c \in released : reply[c] # Nothing \/ (status[c] = "error" /\ tpc = "ended")

DropInv == Undisturbed => LoneDrop
=============================================================================
