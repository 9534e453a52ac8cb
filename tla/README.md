# A TLA+ model of pworld's network core

pworld is a small game server in C++: one thread runs a frame loop, one thread
waits for network events, a pool runs database tasks. This directory holds TLA+
modules for the part that everything else stands on, how bytes travel between a
client's connection and the frame loop, for the way the process ends, and for the
services the scripts use (timers, tasks, events, the calendar, tables, queues), with
TLC configurations that check them and proofs that TLAPS checks. Paths below are relative to `src/`; `libcore` is
`public/libcore`, `gameserver` is `server/src/gameserver`.

## The system

| component | state it keeps | operations | talks to |
|---|---|---|---|
| Session (`libcore/src/session_linux.cpp`, `session.cpp`) | status, event bits, readiness flags, the Message being read, the queue being sent | Attach, Update, Send, Disconnect, the epoll callback | Poller (registration, callback), MessageQueue (Messages), CNetMgr (owner) |
| Poller (`libcore/src/poller.cpp`) | the epoll descriptor, one thread | RegisterHandler, UnregisterHandler, the thread's loop | calls `key->func` of sessions, listener, connector |
| Message, MessageQueue (`libcore/src/messagequeue.cpp`) | buffers; a queue of received Messages and a pool; a second instance is the pool of outgoing Messages | Reset, Fill, Apply, Free, Push, Pop | sessions push, the frame loop pops |
| ServerFrame, CGameServerFrame (`libcore/src/serverframe.cpp`, `gameserver/GameServerFrame.cpp`) | the frame's clock | the frame: update everything, drain the Message queue, sleep | CNetMgr, MessageQueue, TimerMgr, ScheduleMgr |
| CNetMgr (`gameserver/netmgr.cpp`) | lists of client and server sessions, listener, connector | Begin, End, Update, OnAccepted, OnConnected | the poller thread adds clients, the logic thread updates and deletes them |
| Listener, Connector (`libcore/src/listener.cpp`, `connector.cpp`) | status, key, pending flags | Init/Connect, Update, Close/Abort, callbacks | Poller, CNetMgr |
| process (`gameserver/gameserver.cpp`, `libcore/src/commandInput.cpp`) | the singletons | start, the quit command, stop in order | all of the above |
| TimerMgr, ScriptTimer (`libcore/src/timer.cpp`) | two lists of timers | create, cancel, Update | callbacks into scripts |
| AsyncTask, Database, CDBMgr | task lists and worker threads, connections with a free flag | PushTask, Update, Occupy, Release, Close | console commands |
| FrameEvent, ScheduleBase (`libcore/src/`) | three lists of callbacks; the last day seen | Emit and Update; Update | the frame; scripts |
| LuaTable (`libcore/src/LuaTable.cpp`), RingQueue (`server/bin/world/0.sys_base/3.class.lua`) | none; a ring and two indices | Serialize, Deserialize; push, pop, head, count | scripts |
| Session on Windows (`libcore/src/session_win32.cpp`) | status, one receive and one send operation | Attach, Update, Send, Disconnect | the completion port's threads |

What is hard here: two threads share a session through one mutex, a registration
that reports only once and only edges, and a key that outlives neither of them by
design; the peer and the kernel move between any two system calls of an Update;
input and output are cut anywhere; Messages and the memory of sessions are reused;
packets refer to their session by address and wait in a queue while that session
may close; everything ends only if each side tells the other in time.

What makes each part correct:

* Session: no wake-up is lost, no event erased, nothing unread at an orderly close,
  output leaves and a dead peer is noticed, one status step per Update.
* Framing: the packets pushed are the packets the peer wrote, for every cut.
* Sending: the bytes queued leave once and in order; a Message has one holder.
* Frame loop: `msg->_ptr` names the session the packet came from; packets are
  dispatched in order and in the end.
* Listener, connector, stop: quitting ends, unless a client or the test connection is
  caught half-way; then no client's session is left but those listed after End has
  returned; and a deleted listener is in nobody's epoll.
* Timers: a cancelled timer is silent, and no callback runs for an owner that is gone.
* Tasks: each is run and deleted once, and a connection is not closed under a worker that
  had it before `~Database` looked (one that takes it right after is not waited for).
* Events, calendar, ring, codec: once and in order; each new day once; a bounded queue;
  what is written whole, and of a kind the wire format can carry, is read back.
* Windows session: nothing writes into one that may be deleted.

`PROJECT.json` lists the hazards line by line, with the properties that answer them.

## The modules

**Session** models one accepted connection. Its variables are the data members of
`Net::Session` (under their names without the underscore), the program counters of
the two threads, and the kernel's socket and registration. Update holds `_mutex`
throughout, so it excludes the callback (`SessionCb` needs `pc = "idle"`), but it is
cut at its system calls: `UpdateBegin` takes the event bits, each `recv` and each
`send` is an action with one action per outcome (`RecvData`, `RecvWouldBlock`,
`RecvFails`, `RecvEof`; `SendFull`, `SendPart`, `SendWouldBlock`, `SendFails`,
`SendIdle`), and `UpdateEnd` is the closing switch with the registration. The poller
thread is three steps: `Harvest` (epoll_wait), `SessionCb`, `MarkKey`; between them
anything may happen, the deletion of the session included. `try_lock` failing is a
stutter; EINTR only repeats a call. The kernel is external and modelled as src/ can
observe it: `Mask` is what Linux reports for a TCP socket, a change of the socket
makes an armed registration ready (`Wake`), a report disarms it (EPOLLONESHOT), and
arming looks at the socket at once. Data are counts here. The history variable
`closing` counts the Updates that left the session PRECLOSED (`ClosesPromptly`).

**Lifecycle** is the abstract specification of a session: Begin, Deliver, End and
Delete, with at most one phase per Update. Session implements it
(`ImplementsLifecycle`), GameFrame asks no more of its sessions
(`RespectsLifecycle`): this is how the two are composed.

**Message** holds Reset, Fill and the growth of a buffer, shared by the next two.

**Framing** is `_on_recv` on a stream whose bytes carry their packet and offset, so
that any byte lost, repeated or misread shows. It goes through a piece byte by byte,
which is the same as Fill's copying of ranges since nothing runs in between. The
dispatcher recycles Messages, with the old bytes in them, into the pool.

**SendQueue** is `_send`, `_post_send` and the destructor, with Messages at
addresses. `_send` copies one round of its loop per step, so the Messages fill as they do
in the code; `Piece` is what a round copies, which is not always what comes next in the
data: see the findings. **ByteStream** is the abstract specification of the sending half.

**GameFrame** is the frame loop with several sessions: `CNetMgr::Update` walking the
list under `_mutex_clients`, the poller thread's `OnAccepted` beside it, the drain
loop with its cut-off, and the deletion of sessions. A deleted session's address may
be given to the next connection, as `new` may do.

**Listener** is the accept loop, which `Init` runs on the logic thread before it returns
and then the callback on the poller thread, cut between its test of the status, `accept4`
and what follows, beside Close and Update on two other threads: the status has no lock.
**Connector** is the console's test connection with the part of CNetMgr that owns it;
`OnConnected` deletes the connector inside the connector's own callback and leaves the
pointer set, so the freed memory is a state of its own, `FREED`, whose contents are those
`_post_connect` has left there. The session that `OnConnected` makes is counted
(`servers`), and that is all: nothing in the code refers to it again.

**Shutdown** composes the two with the main thread (the quit command, `Stop`,
`Poller::Release`), the logic thread (`CNetMgr::Begin`, `Update`, `End` at its labels
`pc`), the poller thread and the clients. `_mutex_clients` is `MutexIsFree`: the labels
at which the logic thread holds it. A session is reduced to what Lifecycle promises
plus what moves it: `disc` is set by End or by the 60 seconds' check, the next Update
then calls `shutdown(SHUT_RDWR)`, after which, as after the peer's close, the connection
is `hung`: the poller reports the hang-up once (`Deliver`), or the session reads the end
by itself (`NextPhase`). Nothing is asked of the peer for that.

**TimerMgr** is TimerMgr with the ScriptTimers that own its timers. Update is cut before
and after each callback, and in a callback (and between Updates) a script may create
timers, cancel any of them and destroy owners, its own included.

**Tasks** is AsyncTask's workers with the one database connection, through the end of
the process: the logic thread closes the connection while the workers still run, and the
main thread stops them afterwards. A worker's task is cut at each lock, at
`GetFreeConnection` and at `Occupy`, and `~Database` between its read of `_free`
(`CloseTest`) and the release of the handler (`CloseHandler`); `intruders` are the workers
that occupied the connection after the read. Update has no caller in the program; it is an
action all the same, since it is the interface's other half.

**FrameEvent** is the three lists of callbacks with callbacks that emit. **Schedule** is
the calendar check with its five events, each tested only inside the one before. **RingQueue** is the Lua class, and
**BoundedQueue** the abstract specification that it implements. **LuaTable** is the codec:
the functions call themselves for a table in a table, so `open` and `reading` are the
tables that `serialize_table` and `deserialize_table` are in, the innermost last, and
`SerializeRound` and `DeserializeRound` are one round of the innermost one's loop. Lua
promises neither an order of keys nor which border of a table with holes is its length:
both are chosen freely. The stream is a ByteBuffer of a fixed size, which drops what does
not fit without Serialize noticing (`Write`, `lost`); what is read from a stream with a gap
may be anything (`DeserializeGap`). A metatable's `__len` or `__pairs` decides the form of
a table (`TableTypes`). **SessionWin** is the Windows session with its two overlapped
operations: the kernel owns an operation from the call to its completion, a thread of
the completion port writes the outcome and then the status, and the logic thread looks
at the status only.

**MCServices** puts these seven side by side for one run. They do not meet in the
program, so a behaviour picks one and the rest stand still; it adds no behaviour.

**SessionProofs**, **FramingProofs**, **SendQueueProofs**, **GameFrameProofs**,
**ShutdownProofs** and **TimerProofs** hold the theorems about their namesakes, TimerProofs
those about Schedule too, **ServicesProofs** those about RingQueue, SessionWin, FrameEvent,
Tasks and LuaTable, and **ListLemmas** what they share: the facts on erase, push_back,
pop_front, splice and FlattenSeq, and induction.

## The runs

| run | question | bounds |
|---|---|---|
| `session` | do all interleavings keep the wake-ups, the events, the unread data and the life cycle? | 3 units of input in buffers of 2 (a full and a short read), 2 Messages of 2 units (full, partial and repeated sends) |
| `session_live` | is a dead peer noticed, is input read, whatever the peer does; does output leave, does Disconnect end, with a peer that reads? | 2 units of input in buffers of 1, one Message of 2 units |
| `framing` | is every stream framed as the peer wrote it? | buffers of 2, headers of 2, lengths 0 and 12 (invalid), 1, 3, 4 (valid; 3 and 4 need a larger buffer), 12 bytes: several packets, each cut in every way |
| `sendqueue` | what happens to queued bytes? | Messages of 3, data of 1, 2 and 4 behind heads of 2, 16 bytes: three or more Messages, a head that straddles two, two partial sends of one |
| `frame` | who owns a Message and a session? | 2 addresses, 2 connections, 2 packets each: a deleted session's address is reused and packets of both wait together |
| `shutdown` | what does quit leave behind, and when does it end? | 2 clients and 1 test connection, 2 of the three in a behaviour (one client listed while the other is being told to leave, or after), quit at any point |
| `services` | do the services keep their promises? | 3 timers of 2 owners (one that cancels, one that is cancelled, one made in a callback), 2 workers and 3 tasks, 3 callbacks a list, a calendar of two-day weeks, three-day months and twelve-day years in which a year begins with a month and a week, a ring of 3, tables of two pairs, with and without a metatable, or nested beyond the depth limit, with numbers on both sides of each boundary, in a buffer that holds most of them and not all, 2 sends of a Windows session |
| `session_timeout`, `session_key`, `sendqueue_echo`, `shutdown_quit`, `services_numbers` | the disagreements below | small, or those of `services` |

The sizes are units of the code's: `Chunk` stands for MAX_BUFFER_SIZE, and the
models depend on the comparisons between sizes, which the chosen values make in
every outcome. `MaxData`, `MaxOut`, `MaxBytes`, `MaxConns` (in GameFrame and in Shutdown), `MaxPackets`,
`Clients`, `MaxTests` (test connections), `MaxTimers`, `MaxTick` and `MaxTasks`, `MaxEvents`,
`MaxTime`, `MaxPause` and `MaxSend` bound what the environment and the scripts do, never
what the code does. `services` uses the symmetry of owners, workers and elements, which
nothing tells apart, and checks no liveness under it. The system may really stop (every
session destroyed, the environment done), so deadlock is not checked.

**Fairness.** The frame loop calls Update and deletes what is disposable in every
frame, so `Update` and `Destroy` are weakly fair, and the poller thread keeps
running, so `Harvest` and `MarkKey` are. The callback waits for a mutex that the
logic thread takes and releases every frame, so it is enabled again and again rather
than always: strong fairness, which a mutex on an otherwise sleeping frame loop
gives in practice (the loop sleeps outside the lock). Nothing is asked of the peer, except in
`OutputIsSent` and `DisconnectDestroys`, which assume that it reads what it is sent (`PeerReads`). In `frame`, only the logic thread is fair. In
`shutdown` and `shutdown_quit` each of the three threads is weakly fair
as a whole, and a connection attempt is answered (TCP gives up in the end); nobody has to
type quit or cc, to connect, or to close, not even after the server has: this side's
shutdown is enough to end a session. Two of the threads wait
for a lock there: the poller thread in OnAccepted and the logic thread's Update; the
first is what `Obstructed` names.

### What the runs found

* **A Send that does not fit the last Message is corrupted** (`sendqueue_echo`).
  `_send` copies from `data` in each round of its loop and never advances it
  (`session.cpp:26-28`), so the second Message begins with the first byte again. The
  test client compares the echo with what it sent (`test/session.js:71`). The counts
  stay right, so the stream properties hold for `queued`, what was copied, and
  fail for `accepted`, what was given.
* **The response timeout may not close anything** (`session_timeout`): Disconnect
  waits for an empty queue, and a peer that does not read keeps it full.
* **COMPLETED may be written too late** (`session_key`): `netbase.h:33` calls it
  "CALLBACK completed", and a callback can be due.
* **quit may not quit** (`shutdown_quit`): Abort closes the socket of a connection that
  is being set up and leaves the status CONNECTING (`connector.cpp:309`), the close takes
  it out of epoll, and End waits for `Disposable()` for ever (`netmgr.cpp:37`). The
  console calls the command "quit this program." (`commandInput.cpp:10`).
* **Some negative numbers arrive positive** (`services_numbers`): one that needs 32 bits is
  given the type u32 (`LuaTable.cpp:142`); `ScriptParam.h:17` lists "number" without
  exceptions.

Facts that no text of the repository contradicts, but that a reader should know:

* `OwnerIsAlive` excludes the Messages that a cut-off drain loop left in the queue; for
  those `msg->_ptr` may be dangling or name another connection.
* An event that was harvested before a session closed is delivered to it after its
  deletion; the model lets this happen and leaves the freed memory untouched.
* `QuietQuitEnds` excludes (`Obstructed`) a client that is being accepted while End tells
  the sessions to leave: End holds `_mutex_clients` while it waits (`netmgr.cpp:69`), the
  poller thread waits for it in OnAccepted, and the events End waits for are not
  delivered. A client listed after End's round and before it waits (`late`) is waited for
  without being told to leave. One listed when End has returned (`missed`) is never deleted,
  which `OrderlyExit` excludes.
* The session that `OnConnected` makes is in no list (`netmgr.cpp:123`): it is never updated,
  disconnected or deleted, and its descriptor stays open until the process has ended.
* `OnConnected` deletes the connector inside its own callback, which then writes to it.
* A timer runs while `count_time + interval >= now`, that is before it is due and never
  after (`timer.cpp:138`), and ScriptTimer hands its `loop` on as `once`.
* A ByteBuffer that is full drops what is written to it with a warning
  (`byteBuffer.cpp:103`); Serialize returns true all the same, and Deserialize of such a
  stream reads with the wrong types, or an uninitialised type byte beyond the end, in a loop
  that may not end. `RoundTrips` speaks of tables of which nothing was lost. It also leaves
  out tables with a metatable, arrays with holes, and the numbers and the layer of the
  finding above, and the layer of the next fact.
* Fifteen layers of nested tables arrive, not the sixteen of `ScriptParam.h:20`: the depth
  starts at 1 (`LuaTable.cpp:323`), contents are written while it is below 16 (line 274),
  and `RoundTrips` leaves the last layer out (`Portable[MAX_DEPTH - 1]`).
* A new month is announced only with a new week and a new year only with such a month
  (`ScheduleBase.cpp:65`); `AnnouncedOnce` counts those, and the others are not announced.
* A Windows session whose RegisterHandler failed keeps the status NONE
  (`session_win32.cpp:63`) and is never disposable.
* `AsyncTask::Update` has no caller, so finished tasks wait for the destructor; a `db`
  task that finds no free connection ends without a word; `~Database` reads `_free` without
  the lock it is changed under, so a worker can occupy the connection between that read and
  the release of its handler (`Database.cpp:10`); `HoldersAreWaitedFor` excludes exactly
  those workers (`intruders`).

## What is proved

TLC checks the values above; the theorems hold for all values that the named assumptions
of the modules allow, which say no more than that a bound is a natural number, a size
positive and a set finite or non-empty. None of the invariants is inductive as it stands.
Each proof strengthens it, proves that `Init` establishes the strengthening and that every
action keeps it (one step per action), and concludes by PTL.

| module | theorems (property) | the strengthening |
|---|---|---|
| SessionProofs (`SessionAssumption`) | `Typing` (`TypeOK`), `WakeUps` (`NoLostWakeup`), `Events` (`NoEventOverwritten`), `Closing` (`ClosesPromptly`), `ReadBeforeClose` (`AllReadBeforeClose`), `Implements` (Lifecycle) | `RegistrationInv`, `ClosingInv`, `PromptInv`, `ReadingInv` |
| FramingProofs (`MessageAssumption`, `FramingAssumption`) | `FramingTyping` (`TypeOK`), `PushedPackets` (`PushedArePackets`), `PushedComplete` (`PushedAreComplete`), `FillInBounds` (`InBounds`), `CapacityIsBounded` (`CapacityBounded`) | `SizeInv`, `Position`, `PushedInv`, `StopsAt` |
| SendQueueProofs (`MessageAssumption`, `SendQueueAssumption`) | `SendTyping` (`TypeOK`), `HoldersOnce` (`OneHolder`), `QueuedIsKept` (`NothingLost`), `SendsAStream` (ByteStream), `ShutdownFlushes` (`OrderlyShutdownFlushes`) | `SendTypes`, `HolderInv`, `PlaceInv`, `WireInv`, `CountInv` |
| GameFrameProofs (`GameFrameAssumption`) | `GameFrameTyping` (`TypeOK`), `MessagesInOnePlace` (`OnePlace`), `PacketsInOrder` (`InOrder`), `OwnersAreAlive` (`OwnerIsAlive`), `SessionsRespectLifecycle` (Lifecycle) | `FrameTypes`, `ListInv`, `ConnInv`, `PlacesInv`, `CountInv`, `OrderInv`, `OwnerInv`, `BusyInv` |
| ShutdownProofs (`ShutdownAssumption`) | `ShutdownDeletedIsUnwatched`, `ShutdownOrderlyExit` | `WatchInv`, `ListInv` |
| TimerProofs (`TimerAssumption`, `ScheduleAssumption`) | `TimerCanceledStaysSilent`, `TimerOwnerIsThere`, `TimerRunsAsCreated`, `AnnouncedEachOnce` (`AnnouncedOnce`) | `TimerListsOK`, `CanceledInv`, `OwnerInv`, `OnceInv`; `ScheduleInv` |
| ServicesProofs (`RingAssumption`, `SessionWinAssumption`, `FrameEventAssumption`, `TasksAssumption`, `CodecAssumption`) | `RingImplementsQueue` (BoundedQueue), `WinNoWriteAfterDelete`, `EventsOnce` (`EachEventOnce`), `TasksHoldersAreWaitedFor`, `TasksOnce` (`EachTaskOnce`), `TablesArrive` (`RoundTrips`) | `RingTypeOK`; `WinInv`; `EventInv`; `HolderInv`, `TaskInv`; `CodecInv` |

The arguments, in a sentence each:

* **Session.** `_in_epoll` is true exactly from RegisterHandler to the recording of the
  event, and an armed registration that is not ready has no news: readiness flags are
  cleared only when the kernel has said would-block, after which any change is an edge.
  CLOSED is reached at the end of an Update whose descriptor is gone; on the way there only
  one more event can arrive, since the registration is renewed in RUNNING alone
  (`PromptInv`). An event mask that
  closes a session contains EPOLLIN unless the connection was reset, so the Update that
  closes reads to the end.
* **Framing.** The header and the message hold a prefix of one packet, the cursor stands
  after it, and all packets before it have been pushed (`Position`, `PushedInv`);
  `StopsAt` says at which places `_on_recv` may return. The bound on the capacity comes
  from Reset: a buffer grows only when it is smaller than the packet, so its size before
  was below the limit.
* **Sending.** All Messages in the queue but the last are full, because `_send` takes a new
  one only when the last is (`InPlace`). So the i-th stands `(i - 1) * MaxBuffer` bytes
  after the first, and every byte inside the session has a fixed place in what was queued
  (`PlaceInv`), whichever Message holds it; a round of `_send` adds at the end, `send()`
  takes from the beginning. What is accepted and not yet queued is what `Send` still has
  to copy (`CountInv`), and that is nothing between two calls. That nothing queued is lost
  is then the statement that parts which lie one after the other make up the whole
  (`FlattenByPlaces`).
* **GameFrame.** A packet that waits names a session that runs, or one that left RUNNING
  in this very frame, behind Update's iterator: it takes another Update to delete it, and
  the drain loop comes first (`OwnerInv`). What waits of a connection are exactly the
  numbers after the last one handled, up to the last one delivered, in order (`OrderInv`).
* **Shutdown.** What is armed is open, and a listener that is closed or deleted is not
  open, whichever thread wrote the status last (`WatchInv`). Every session that exists is
  in the list End walks, and when End is done only those listed since are in it (`ListInv`).
* **Timers.** A timer is in one list, once; while it is listed it is marked as cancelled or
  in its owner's set, so that the owner's destructor reaches it; one that runs once and has
  run is listed only while its callback runs.
* **Schedule.** What was announced are the units that began between the making of the
  object and the last look (`ScheduleInv`). Two looks are no more than an hour apart, so in
  one unit or in one and the next (`DivWithin`), and a day begins with its first hour, a
  week with its first day; the months and years announced are the days on which both begin.
* **Tasks.** The flag `_free` is true exactly when no worker uses the connection, and there
  is one user at most; when `~Database` has read it as true, whoever uses the connection has
  occupied it since (`OnlyIntruders`). A task
  is in one of four places, and each step moves one task to the next place.
* **Ring, Windows session, events.** The indices are both -1 or both in the ring, and the
  contents between them follow the abstract queue step by step. A thread of the completion
  port is at work only on a pending operation, a direction that is over has none, and the
  switch closes only when both rest. A list holds the last numbers emitted to it, and
  those that have run are all before the walk's place (`InStep`).
* **LuaTable.** The proof lets a reader follow the writer: whenever the writer has finished a
  round, a reader that has come to the end of the stream is in the same tables, has of each
  the pairs that were written, and waits with the key of the table it is in (`Facing`). One
  round of the writer is one step of the reader (`WriterRound`), which does not look behind
  the place it comes to (`PrefixIsEnough`); `CodecInv` keeps the states that the reader goes
  through. Deserialize has no choice, so it goes through these states and ends in the last
  one, where the table is complete. All this holds as long as nothing was lost to a full
  buffer, from where on the invariant says nothing.

Only model-checked: the liveness properties, since fairness and ENABLED are out of the
prover's reach: `InputIsRead`, `PeerGoneDestroys`, `OutputIsSent`, `DisconnectDestroys`,
`PacketsAreHandled`, `ListenerCloses`, `QuietQuitEnds`. Every invariant, action property and
refinement that a run checks is proved.

Two things needed care. The library's induction theorems take the predicate as an operator,
which the installed provers cannot instantiate; `SetInduction` in ListLemmas takes it as a
set, and rests on the least counterexample that `WFMin` gives. And a module with a
RECURSIVE operator cannot be proved about: LuaTable steps through its tables on a stack
instead, and `Portable`, the only recursive definition that a theorem states, is a function
whose equations `PortableLevels` proves.

## The plan

The accept loop and the connector with failing `epoll_ctl`, once the code has an answer to it.

### Not modelled

* **MysqlService, Logger, the readers of files and configuration**: I/O and formatting.
* **The Lua glue** (LuaEngine, LuaReader, ScriptTable, ScriptParam, CSystemEvent's table):
  no state beyond the interpreter's, which is a library.
* **ByteBuffer** beyond In and Out on a buffer of a fixed size: Attach, Resize, growth.
* **obj_ref and holder**: no other file uses them, so there is no sequence of calls that
  the program makes.
* **SignalHander**: a thread that logs signals, stopped after everything else.
* **Listener, Connector and Poller on Windows**: the other half of the same files; the
  session's side of the completion port is SessionWin.
* **The game object shells** (Object, Unit, PlayerAI, ...): no rules in them yet.
* **C++ templates** (callback, binder, variant, singleton, AutoDeleter, MemoryPoll): no
  behaviour over time.
* **Failing system calls** other than those of the sockets: `epoll_ctl` and thread
  creation are taken as successes. `MessageQueue::_clean_up` runs after every thread.
* **Everything vendored under `public/depends`** (the headers and sources of MySQL, Lua
  and others): by far the larger part of the lines under `src/`, and none of it this
  program's logic. This is why the share of all lines that the modules map is small while
  the program's own network core, which is what runs concurrently, is mapped throughout.

## Running

    tlc -config MCSession.cfg Session
    tlc -config MCServices.cfg MCServices
    tlc -config MCShutdown.cfg Shutdown
    tlapm SessionProofs.tla
    tlapm GameFrameProofs.tla

Each `MC*.cfg` names its specification module's constants; `PROJECT.json` pairs the
configurations with the modules and lists, for every checked property, a plausible
bug (a definition such as `ArmsAlways` beside `Arms`) under which TLC finds it
violated.
