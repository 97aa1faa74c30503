# yetAnotherCamToy: models, checks and proofs

yetAnotherCamToy is a camera that is turned over the network: a server (C++, pthreads) on the
camera's computer, a servo board (Arduino) behind a serial port, and a client library (Java).
This directory holds TLA+ specifications of the parts of it that are hard to test, the TLC
configurations that check them, and theorems that TLAPS checks.

## The system

| part | source | state it keeps | operations | talks to |
|---|---|---|---|---|
| control sessions | `CamControlserver.cpp` | one `serialMutex`, the key buffer; per session the attempts left and the reason it ends | `innerAction` (hello, authenticate, lock, requests, clean-up), `recvFix`, `sendMsg`, `authenticate` | a client over TCP; the servo control by direct calls |
| worker pool | `PThreadPool.cpp` | stack of jobs, semaphore, lock, `busyCnt`, `isRunning`, thread list | `InitThreadPool`, `DispatchJobs`, `ReleaseThreadPool`, `KillAllThreadImme`, the threads' `trampoline` | runs one session per job |
| network server | `NetworkServer.cpp` | listening socket, `isWorking`, the pool, the listening thread | `Listen`, `Stop`, `listenRoutine` | dispatches each connection to the pool |
| servo control | `CntServoControl.cpp`, `thread_enabler.c` | balance, position, speed, direction per axis, `errorflag`, enabler | setters, `reset`, the thread's `workroutine`, `sendPos` | the serial port; called by every session |
| serial port | `SerialPort.cpp` | one descriptor | open, close, write, `readfix`, flush | the servo board, byte by byte |
| servo board | `servo.ino` | two positions | `loop`: two-byte commands, `I` to resynchronise | the two servos |
| client link | `TcpHandler.java` | two queues, a semaphore, connection flags | `Link`, sending and receiving thread, connect, drop, stop | the server |
| client library | `CommModule.java` | server notice, authorisation, servo detail, timer | `Connect`, `Authorize`, `Query`, `Set`, keep-alive | the client link, the program that uses it |

`FixServoControl` (a variant that nothing creates), MD5, the configuration constants, the
demonstration client and the build files complete the repository.

A client connects; the listening thread accepts and dispatches the connection to the pool; a
worker runs the session: it says hello, reads up to five attempts to authenticate, tries to
lock `serialMutex`, checks the servo's status and then serves five-byte requests until an
exception ends the session. Requests set fields of the servo control block; the servo thread
reads them in its loop and sends a position for each axis to the board.

What makes this hard: two or more sessions, the listening thread, the thread that stops the
server and the servo thread share state with few locks; a mutex is unlocked by threads that did
not lock it; threads are cancelled while they wait or work; receiving depends on socket timeouts
and on `errno`; the serial line loses bytes; two Java threads pair replies with requests by
order alone.

What would make each part correct:

- *Sessions.* The camera does not move while nobody is in control; the port is not left locked;
  one client controls the camera at a time; only a client that proved its password does; every
  request is answered once, and a client is told why it is dropped.
- *Pool.* Each dispatched job is in one place and none is lost; no thread pops an empty stack; no
  job waits while a thread idles; a normal release breaks nothing off; a release ends; nothing is
  freed under a thread.
- *Servo control.* Positions stay in range; a clean status means that both axes were
  acknowledged; a stopped axis reaches its balance; the thread serves both axes and reopens a
  lost port.
- *Network server.* Stop waits for nothing but sessions, leaves nothing running, and nothing uses
  the pool after it. *Serial port.* One descriptor is open and the port knows it; a lost port is
  opened again. *Serial line.* An acknowledged position was taken up; lost bytes are recovered
  from.
- *Client.* A reply is paired with its request; no caller waits for ever; what a connection has
  left behind does not make the next one seem greeted or authorised.

## The modules

| module | models | proofs |
|---|---|---|
| `CamControlServer` | the sessions, their shared lock and the servo fields they command | `CamControlServerProofs` |
| `JobPool` | what a pool promises its user | |
| `ThreadPool` | the pool, its threads, dispatcher and owner; implements `JobPool` | `ThreadPoolProofs` |
| `NetServer` | `Listen`, `Stop` and the listening thread over a `JobPool` | `NetServerProofs` |
| `CntServo` | the servo thread and the calls made into it | `CntServoProofs` |
| `SerialPort` | the port's descriptor, two callers of `reset()` and the accepted connections | `SerialPortProofs` |
| `ServoLink` | sending a position, the serial line and the servo board | `ServoLinkProofs` |
| `TcpLink` | the client's `TcpHandler`: `Link`, its two threads, dropping the connection | `TcpLinkProofs` |
| `CommModule` | the client library over one link after another, with its timer | `CommModuleProofs` |
| `MC...` | constants of the instances TLC checks | |

Definitions keep the names of the source where there is one. An operator whose comment begins
with *Seeded fault* is a plausible mistake: put in place of the definition that follows it, it
makes a property fail. No behaviour of the specifications uses one. The inductive invariants that
the proofs need stand at the end of the module they are about, so that TLC can check them too; those
that only count, or only name types, stand with the proofs.

### CamControlServer

One value of `pc[w]` per point of `innerAction` where a worker can be interrupted; `Worker(w)`
collects its steps. `tries` is the loop variable of the authentication loop, `reason` the
exception thrown last, `errno` the thread's own. `serialMutex` is a Boolean, because the code
never asks who locked it. `mov` and `status` are the fields of the servo control block that
sessions set and read, `ServoThread` what the servo thread may do to them at any time. `armed`
and `early` stand for the window between `listen()` and `afterSetup()`, in which a connection is
established without a receive timeout. `quiet` means that the network is gone without a FIN.
`proved`, `holding` and `stray` are history.

Abstracted: a digest is right or wrong, so the clock, MD5 and the key buffer shared by
concurrent attempts do not appear; positions, speeds and balances are not told apart (a session
only stores and returns them); a message is its kind.

### ThreadPool and JobPool

`wpc[w]` follows `trampoline`, `opc` the owner through `InitThreadPool`, `ReleaseThreadPool` and
`KillAllThreadImme`, `dpc` the dispatcher between push and post. The lock is modelled where it is
held across a step: the owner holds it from `FoundIdle` to `KillFree`. A cancellation takes effect
in `sem_wait` and in a job, and not in `pthread_rwlock_wrlock`, which is no cancellation point of
glibc or uClibc. Jobs are atoms that may be dispatched again when they are over (a session's job
is a connection, and connections come without end); whether a job ends is left open except where a
property says so. The dispatcher asks nothing: it may dispatch before the pool is made, when
`DispatchJobs` fails, and after its release, when the job is never started (`SubmitLate` of
`JobPool`). `dispatched` remembers which jobs have been pushed. `jobState` and `poolPhase` map the
pool to `JobPool`, whose specification is a property of the run `pool`.

### NetServer

`opc` follows `Stop`, which `Listen` calls first, and then the rest of `Listen`; `lpc` the
listening thread. The pool is an instance of `JobPool`, with the connections as jobs, so that what
`Stop` waits for is what any pool promises. The abstract pool does not tell whether its release
ends; what `ThreadPool` shows of it is here as a choice: with no session active the release
returns, or, if a connection waits in the pool, it hangs for ever (`ReleaseHangs`, `opc =
"hung"`). Its phase is `none` when there is none and `raw` when `InitThreadPool` failed, in which
case `ReleaseThreadPool` returns at once. `held` are the ports of sockets that were shut down:
`Stop` never closes them. Everything that `Listen` tests may fail, and so may `accept`, listening
or not. `inFlight` and `usedFreed` are history of the last call of `Stop` only; using a deleted
pool is undefined in the code, and here it is recorded and loses the connection. Abstracted:
addresses, the 200 microseconds of `usleep` (the thread may have got anywhere by then).

### CntServo

`wpc` and `axis` follow `workroutine` twice per turn, once for each axis; `boot` is the thread
that calls `enable()`; `spc` is a session within `reset()`. Reading a direction, testing a bound,
assigning the position, sending it, judging the result, and the two assignments that keep a bad
link on record are steps of their own, so a session's call falls between any two of them.
`sendPos` returns any of its results; `ServoLink` is about how they come about. `dirty` remembers
that this turn has failed or a bad link is on record, `raced` that a call changed an axis between
the choice of its position and the sending. A session takes the values it sets from a buffer of
`char`, which is signed on the server's processors, so they range from -128 to 127 (`Char`), and
what is sent is the position modulo 256. Abstracted: the descriptor (only whether the port is
open) and the bytes on the line. Left out: `disable()` and the destructor, which the server never
reaches while it runs.

### SerialPort

`pc[p]` follows `closeport` and `openport` within `reset()`, for the servo thread, which calls it
when a write fails, and for sessions; nothing keeps two of them apart. `kind` is the process's
table of descriptors, from which `accept` takes numbers too and to which it returns none: a
session calls `shutdown`, never `close` (`SessionEnds` makes the connection `shut`). `close` is
given the number tested or the one `serialfd` has by then, since the compiler may read it once or
twice. A write to a connection that has the port's old number works, so the servo thread does not
notice, until its session ends: from then on it fails (`main` ignores SIGPIPE) and the servo
thread resets the port. `overlaps` counts the calls that began while another was under way.
Abstracted: parity, baud rate, and what `reset()` does to the axes, which is in `CntServo`.

### ServoLink

`spc` follows `sendPos` and `readfix`, and the recovery that `workroutine` writes when a result of
this turn was not OK (`flawed` is `cur_flag != SERVO_OK`); `bpc` follows `loop` of the board.
`toBoard` and `toHost` are the bytes on their way with the buffers at both ends, as codes, because
the same byte is an axis, a position and a recovery request: 73 is `I`, and 88, 89 are `X` and
`Y`. A fault loses a byte anywhere, makes a write fail, or lets a wait end before the board has
answered (`Patience`); a wait that ends with the board idle is no fault. It is a fault too that
answers reach the host after `flush`, which drops only what has been received. The board's
greeting may be on the line at the start. Abstracted: which thread calls, what `reset()` does to
the position to be sent (any position is sent next), the LED and the pulses.

### TcpLink

The state begins when `Connect` has returned; a `TcpHandler` is connected once in its life.
`cpc[c]` follows `Link`, `dpc[p]` follows `DropConnection` with `stopAsync` in a caller or in
`RxWorker`, `tpc` and `rpc` the two threads. A call stands for its `TcpAsyncSession`, and `reply`
names the request that the packet in it answers. What the client library does with the outcome is
part of the model: it drops the connection after an error and after a reply that is no answer, and
may drop it after any other (a last refusal). `Disconnect` writes the drop instruction past the
queues and then drops the connection: `leaving` is an instruction that the server finds behind the
requests it has been sent, and `Farewell` its OK to it (`Bye`), after which it reads nothing. That
OK and a notice are the server's last words; they go to a waiting request if there is one.
`TxRecord` writes the status that `|=` read before `Send`, as Java evaluates it. `stuck` is a
selector whose key was never removed after a read that threw; `select` counts only keys that
change, so it finds nothing from then on. A packet arrives whole. The closing of selector and
channel is one step, and so are the two tests at the start of `Link`, and those of
`DropConnection` and `stopAsync`: `m_isOnService` is cleared before anything is closed. The server
answers each request once, except for up to `MaxDoubles` illegal movements that it answers twice,
as `CamControlServer` shows it does; it hangs up at any time with or without a last message, and
the connection may be reset.

### CommModule

`upc` is the thread that uses the library: `Connect` (which spins on `m_ServerNotify`),
`Authorize`, `Query` or `Set`, `Disconnect`, and `Connect` again; `tpc` the keep-alive timer's
thread in `SendNOP`; `rx[h]` the receiving thread of link `h` in its loop, in `Recieve` or in
`onExceptionHappen`. A link is the `TcpHandler` of one `Connect`. `m_LinkHanlder`, `m_isAuth` and
`m_ServerNotify` are the module's and outlive a link: what an old link's thread does with them
while the next one is being set up is what this module is about. `|=` on `m_ServerNotify` reads in
one step and writes in another (`notify`). `server` and `inbox` are the session at the other end
as a client sees it; an instruction that reaches it while it expects a proof spoils the proofs
that follow (`garbled`). The OK to the drop instruction is in the inbox like any other, an illegal
movement may be answered twice (only while no earlier answer is on its way, which bounds the
inbox), and a link whose read has thrown is `failed`: it reads nothing more. A receiving thread
that has ended forgets what nobody reads (`RxEnds`). `heard`, `failed`, `proved` and `leftovers`
are history. Abstracted: how `Link` waits, the sending thread (both in `TcpLink`), the content of
requests and of the servo detail, the interval of the timer (it ticks whenever its thread is
idle).

## What is checked

| run | bounds | shows |
|---|---|---|
| `server_safety` | 2 workers, 3 statuses, 1 early connection | `UnattendedMeansStopped`, `NoOrphanLock`, `ExclusiveUnlessStray`, `EveryRequestAnswered`, `ClientToldWhy`, `MovesOnlyForProvedHolder` |
| `server_live` | 2 workers, 2 statuses, no early connection | `LinkLossStopsCamera` under fairness |
| `server_exclusive` | as `server_safety` | two clients get control after a stray unlock |
| `pool` | 2 threads, 3 jobs dispatched again and again, patience 0, 2 or infinite | `CountsAgree`, `EachJobOnce`, `FreedAfterThreads`, `ImplementsJobPool`; `QueuedJobIsTaken`, `ReleaseReturnsOrStuck` under fairness |
| `pool_hang` | 2 threads, 2 jobs | a normal release hangs for ever |
| `net` | 3 connections, 2 ports, 2 threads of the pool | `FreedPoolUsedOnlyInFlight`, `StoppedMeansQuiet`; `StopReturnsOrHangs` under fairness |
| `servo` | one other balance, one speed, one position, three directions, a record of 2 turns | `StatusHonest`, `InRangeUnlessRaced`; `StoppedAxisIsCentred`, `AxesAreServed` under fairness |
| `serial` | 2 sessions and the servo thread, descriptors 3 to 6, 2 overlaps | `AloneOwnsPort`, `OneLeakPerOverlap`; `PortIsRecovered` under fairness |
| `servo_line` | positions 30, 73, 89 and 210, four faults | `AckMeansMoved`; `LinkRecovers` under fairness |
| `link` | two calls beside the receiving thread, one double answer | `OwnReply`, `OkHasReply`; `ServedOnService`, `DropReturns` under fairness |
| `link_return` | two calls, no double answer | a call of `Link` is never woken |
| `comm` | 3 links, any number of requests and NOPs on each | `SuccessIsOwn`, `LeftoverFailsOnce`; `ConnectIsAnswered` under fairness |

Why the bounds are enough. The server runs two workers (`main.cpp`), so two is the real number;
the races found need two sessions, or a third session on a worker that has finished its first, and
workers take new connections without end. Five attempts are the code's own number. Three jobs on
two threads give a job that waits while both threads are busy and one that is pushed during a
release; since jobs come again without end, two of them can be taken before the third for ever,
which is the starvation that a stack allows. A patience of 0 and 2 give the forced release before
and after polling. In `net` one connection can be a session, one wait in the pool and one be in
the listening thread's hands; a second port lets `Listen` succeed after a `Stop`, and the first
one shows that it fails there; how often they are called is not bounded. In `servo` the speed 89
stays in range upwards from the balance 89 and reaches the lower limit exactly, where the axis has
to stop; the other balance and the position are 200 as the server sees it, -56. The directions are
the three legal ones: the code's `default` branch treats any other as a stop, and a fourth
direction makes the run too long. Calls name the axis X, whose failure the success of Y could
hide. `COMM_BADCOMM_THRESHOLD` is 100 in the code; 2 already gives a record that is full, partly
used up and empty. In `serial` four descriptors are the port, a second one that leaked, and two
connections, served or shut, or a table that is full; two overlaps let three callers be in
`reset()` together, or two pairs follow each other. The positions of `servo_line` are an ordinary
one, the recovery byte, the balance, which is also `Y`, and one the board refuses; four faults
shift the framing, leave late answers that outlive the flush and spoil the recovery that follows,
and four is the largest number for which `AckMeansMoved` holds. In `link` two callers are the
program's thread and the keep-alive timer; three parties can drop the connection at once, and the
run has every order of two requests against a hang-up, a reset and each of the drops. In `comm` an
error that the first link leaves behind fails the second `Connect`, and what that one leaves (a
receiving thread nobody joined, a hello it still handles) meets the third; a fourth would meet no
more than the third does.

Fairness. A thread that can take a step takes one (weak fairness per thread): the scheduler of
Linux starves nobody. A receive that nothing else ends is ended by the socket's timeout, if the
socket has one. Nothing is assumed of clients, of jobs (a session lasts as long as its client
likes) or, in `CntServo`, of the servo board; `ReleaseReturnsOrStuck` names its assumption that jobs end. A
session of `CntServo` finishes a `reset()` it has begun and need not call anything; the same holds
in `SerialPort`, where a write to what can be written to may fail and need not, and any other
fails in the end. In `NetServer` the listening thread (but not an `accept` with nothing to return)
and a call of `Listen` or `Stop` that was made go on, no session has to start or to end, and a
release may return or hang. In `ServoLink` both ends run, and faults need not stop but are
finitely many. In `TcpLink` the two threads and the calls that are under way run, and the server
answers while the connection stands, the drop instruction included: the code has no timeout for a
request, so without that nothing could be said. In `CommModule` the user's thread goes on within a
call and the receiving threads run; nothing is assumed of the server, the timer, or that the user
calls at all.

Deadlock is checked in every run but six: in `pool` and `pool_hang` a pool is released once and
then nothing happens; in `net` a `Stop` may hang for ever; in `link`, `link_return` and `comm` a
call may wait for ever, which their properties describe.

### Disagreements found

Three are runs whose property is refuted, listed under `findings` in `PROJECT.json` with the
line that states it.

- A session that ends before it locked `serialMutex` unlocks it (`server_exclusive`). What
  remains true is checked and proved: `ExclusiveUnlessStray`.
- A normal release joins threads with the lock held (`pool_hang`). `ReleaseReturnsOrStuck`
  shows that this is the only way to hang.
- A call of `Link` may wait for ever after another thread has dropped the connection
  (`link_return`). `ServedOnService` shows that calls are served as long as the threads are.

The others are in the models as the code has them, with no run of their own:

- Sessions and servo. A connection accepted before `afterSetup()` has no timeout and may keep the
  camera moving. The mutex is unlocked before the axes are stopped, so a session that ends may
  stop the next one's movement. An illegal direction is refused and then carried out and
  acknowledged. `enable()` may be lost, and the servo thread sleeps for ever (`AxesAreServed`
  names that case). A position set for an axis at rest is overwritten with the balance before it
  is sent. A balance, speed or position above 127 is a negative number to the server, and each
  direction tests one bound only: an axis that moves up may be sent below `Min`, one that moves
  down above `Max`, and after a balance of 150 it does not move down at all (`InRangeUnlessRaced`
  says what each direction keeps).
- Pool. Jobs are popped last in, first out (`PThreadPool.cpp:30`): while connections keep
  arriving, the oldest one that waits may never be served (`QueuedJobIsTaken` names the case).
  `DispatchJobs` does not test whether the pool has been released (`PThreadPool.cpp:154-162`).
- Serial line. Every wait of `sendPos` that ends before the board has answered may leave the board
  one command further behind. With four faults of any kind TLC finds every acknowledgement true.
  With five it does not: after four waits that end early (two commands of two tries), a lost byte
  makes the board take up 88 out of a shifted command while 30 is acknowledged. In a behaviour
  with fifteen early waits and no other fault, a board that is several commands behind
  acknowledges a position, takes up an older one and is believed (TLC's counterexample to
  `AckMeansMoved` with `MaxFaults` 24 and the positions 30 and 89). `AckMeansMovedHolds` says what
  excludes it.
- Network server. The comment on `Stop` says "release all resource takes"
  (`NetworkServer.cpp:91`); the listening socket is only shut down, so the port stays taken and a
  `Listen` on it fails until the process ends. A connection in the listening thread's hands when
  `usleep` returns is dispatched to a deleted pool (`FreedPoolUsedOnlyInFlight`). When
  `InitThreadPool` fails, the pool it leaves behind makes every later `Stop`, and with it every
  `Listen`, fail. A `Stop` with a connection waiting in the pool may hang as `pool_hang` shows.
- Serial port. Two overlapping calls of `reset()` may close a client's connection as the port,
  leak a terminal, or make the servo thread write to a client. Each session costs a descriptor,
  and with a full table the port is not opened again (`PortIsRecovered` excuses an open that
  fails).
- Client. `Connect` promises `COMM_ERROR_CONNECTION_FAIL` (`CommModule.java:139`) and spins for
  ever when the connection goes before its hello (`ConnectIsAnswered` names the cases). An error
  of the last link fails the next `Connect` (`LeftoverFailsOnce`). The OK to the drop instruction
  (`CommModule.java:340`) is paired with a request that still waits, whose caller takes it for its
  own (`OwnReply` allows it once). After a cancelled keep-alive no timer is made again.

## What is proved

Each theorem holds for every value of the constants that satisfies the named assumptions of its
module. Each argument is the same: an inductive invariant, that Init implies it, that every
action keeps it (one lemma per group of actions, one step per action), and that it implies the
property.

| module | theorems | for |
|---|---|---|
| `CamControlServerProofs` | `TypeCorrect`, `NoOrphanLockHolds`, `ExclusiveUnlessStrayHolds`, `UnattendedMeansStoppedHolds`, `MovesOnlyForProvedHolderHolds`, `EveryRequestAnsweredHolds`, `ClientToldWhyHolds` | any set of workers, any statuses, any number of early connections |
| `ThreadPoolProofs` | `TypeCorrect`, `CountsAlwaysAgree`, `NothingFreedUnderAThread`, `EachJobIsOnce`, `PoolIsAJobPool` | any finite set of threads, any jobs and patience |
| `NetServerProofs` | `TypeCorrect`, `FreedPoolOnlyInFlight`, `StopLeavesNothing` | any connections, ports and number of threads |
| `SerialPortProofs` | `TypeCorrect`, `AloneOwnsThePort`, `OneLeakPerOverlapHolds` | any finite table of descriptors, any sessions and number of overlaps |
| `CntServoProofs` | `TypeCorrect`, `StatusHonestHolds`, `InRangeUnlessRacedHolds` | any threshold, results of `sendPos`, and calls with any `char` |
| `ServoLinkProofs` | `TypeCorrect`, `AckMeansMovedHolds` | any positions and number of faults |
| `TcpLinkProofs` | `TypeCorrect`, `OwnReplyHolds`, `OkHasReplyHolds` | any number of calls and of double answers |
| `CommModuleProofs` | `TypeCorrect`, `SuccessIsOwnHolds`, `LeftoverFailsOnceHolds` | any number of links |

- *Sessions.* None of the properties is inductive. `ControlInv` (in `CamControlServer`) says at
  which points of `innerAction` a session holds the mutex, that the mutex is locked if and only if
  somebody holds it as long as no stray unlock has happened, that a session past the
  authentication loop has proved its password, that a session in control or in its clean-up is the
  only one that can leave an axis moving. `AnswersInv` says point by point what a session has sent
  since its last receive; both properties about answers follow from it.
- *Pool.* That a thread about to pop finds a job is an account of permits: as long as the pool is
  not being released, permits plus threads between `sem_wait` and the lock never exceed the jobs
  on the stack; once it is, only the threads that passed the test of `isRunning` before still
  count, and none joins them. That `busyCnt` equals the busy threads and that a cancelled thread
  stays counted as busy needs the points of all threads. `EachJobIsOnce` says of each job that it
  was dispatched if and only if it is on the stack, in a thread's hands or over, and never in two
  places, so that none is lost and none runs twice for one dispatch. The refinement is proved
  action by action: most stutter, `DispatchPush` is a `Submit`, or a `SubmitLate` after the
  release, `PopJob` a `Start` (which needs that a thread without a job is left over), `GiveUp` and
  `KillRunning` a `Force`, `KillFree` a `Close`.
- *Network server.* The phase of the pool and the handle of the thread follow from the point of
  `Stop`, and a thread that runs had an open pool when the call began.
- *Serial port.* While no calls have overlapped, the point of the one caller in `reset()` decides
  what is open and what `serialfd` is. Leaks are an account (`Paid`): the open terminals that no
  caller has in hand and the callers in `reset()` are, together, never more than the overlaps, one
  for a call that began alone, and one for the terminal that `serialfd` names and nobody has
  closed yet. A caller that finds `serialfd` empty or already closed has paid with an overlap.
- *Servo control.* `TurnInv` says what the place of the servo thread in its turn tells of the
  failures of this turn: a failure that the flag of the second axis no longer carries is a bad
  link on record. `ChoiceInv` says that what the test of a bound found still holds at the
  assignment unless a call raced; the property needs it with the arithmetic of `Char`.
- *Serial line.* `LineInv`: the bytes in front of the board never yield more than one answer to a
  try (at most two of them are not the recovery byte), and what the server has yet to read ends in
  an acknowledgement, whole and true, or has none. Both survive the loss of any byte, because they
  are stated for every position of a sequence. That the board reads a shifted command, takes an
  axis for a value, or gets half of a recovery is among the cases. The theorem is about the
  behaviours of `Spec` whose steps satisfy `Prompt`: without it the answers of several tries queue
  up and the property is false, as said above; its second conjunct says that no answer outlives a
  flush. `MaxFaults` then bounds nothing the proof uses.
- *Client link.* `OrderInv`: what is incoming and what is unanswered, in this order, is `RxQueue`,
  as long as the link lives; afterwards, and once the server has been told to leave, what is left
  to pair is a beginning of it with at most the last words behind. `LastInv` says that nothing
  comes after those, so that they reach one call only. It is why the session has to be in
  `RxQueue` before its request is sent. For `OkHasReply`, `LoneDrop` says that a thread that drops
  the connection alone closes it after `TxWorker` has ended, so that nobody overwrites an error; a
  second dropper is what breaks it.
- *Client library.* `PacketInv` fits the receiving thread of each link to what the link has been
  sent, `QueuedOnce` says that the user waits in one queue, for one reply, and `ProofInv` that
  what the user is told of its proof is true. That a greeting is the link's own (`GreetingInv`)
  has two separate reasons: without the keep-alive, one link at a time is open and the thread of
  each other is quiet (`OneLinkInv`); as long as no Connect has failed by a left-over error, every
  Connect waited for the hello or the error of its own link (`NoLeftoverInv`). Neither is left
  when both happen, and there the property is false. `SpentInv` counts the errors: each failed
  Connect has used up the error of one link.

Only model-checked: everything about liveness (`LinkLossStopsCamera`, `QueuedJobIsTaken`,
`ReleaseReturnsOrStuck`, `StopReturnsOrHangs`, `StoppedAxisIsCentred`, `AxesAreServed`,
`PortIsRecovered`, `LinkRecovers`, `ServedOnService`, `DropReturns`, `ConnectIsAnswered`: fairness
and ENABLED are beyond the prover), and `AckMeansMoved` with up to four faults of which some are
waits that end early or late answers.

## What is not modelled, and what is left

- `FixServoControl` is compiled and never created: no state of the program is one of its states.
- MD5 and the message formats are conversions that no property here is about; authentication is
  right or wrong by choice.
- `disable()` and the destructor of the servo control: the server never calls them while it runs.
  `main.cpp` and `ConfigManager` supply constants and the order of the calls of `Listen` and
  `Stop`, of which `NetServer` allows any.
- The demonstration client is console input and output; the build files have no behaviour.

What could still be proved: that `ServoLink` is a `sendPos` as `CntServo` takes it (any result,
and OK only for a position that was taken up), and that a session's view of the server in
`CommModule` and `TcpLink` is one of `CamControlServer`.
