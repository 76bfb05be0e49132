# A verification project for websocket_proto

The repository holds a WebSocket server written directly on epoll
(`src/websocket_decoder`) and a small Qt client (`src/tcp_connector`). This
directory models the server (its event loop, the WebSocket protocol on top of
it, the application in `main.cpp`, the timing wheel it files timeouts in, and
the two threads that share that wheel when the heartbeat is on) and the
client's control (its single instance and its windows). The modules are
model-checked with TLC on small instances; their invariants are proved with
TLAPS for every value of the constants, except where "Proofs" says otherwise.

## The system

| Part | Source | State | Operations |
|---|---|---|---|
| Event loop | `tcp_server.cpp`, `tcp_client.h` | `clients_`, each client's `send_buffer_queue_`, the epoll registrations | `start` (hang-up, accept, input, output), `send_buffer`, `close_client`, `stop` |
| WebSocket server | `websocket_server.cpp` | per client: `is_connected_`, `wait_close_`, `time_wheel_id_`, `decode_buffer_` | `decode_proto_data`, handshake, `decode_websocket_data_frame`, `register_*_callback`, `~websocket_client` |
| HTTP parser | `http_server.cpp` | `http_header_` | `decode_http_header` |
| Application | `main.cpp` | `wb_clients`, a set of raw pointers | the connected, receive and disconnect callbacks |
| Time wheel | `private/time_wheel.h` | `tv_`, `id_map_`, `current_` | `add_task`, `erase_task`, `check`, `cascade` |
| Spin lock, wheel thread | `private/spin_lock.h`, `time_wheel.h` | the lock, the worker | `init_time_wheel`, `stop_time_wheel`, `run_time_wheel` |
| Server with heartbeat | `websocket_server.cpp`, `time_wheel.h` | per client: whether it lives, `time_wheel_heartbeat_id_`, `time_wheel_id_`, `wait_close_` | the handlers of the loop, the closures that the worker calls |
| Single instance | `SingleApplication.h`, `main.cpp` | `isRunning_`, `localServer_` or `lockFile_`; the name they share | start as primary or secondary, activate, exit |
| Client windows | `Connector.cpp`, `Mainwindow.cpp`, `EventBus.h` | `connections_`, each connector's socket and message boxes | create, close and delete connectors; connected, error, disconnected; quit |

How they interact. One thread runs `Tcp_server::start`. An event calls, by
virtual dispatch, `Websocket_server::decode_proto_data`, which calls
`Http_server::decode_proto_data` before the handshake; callbacks registered by
`main.cpp` run inside it and call back into `send_buffer`, for the client of the
event or, from the connected callback, for every connected client. Deleting a
client runs `~websocket_client`, which calls `time_wheel::erase_task`. When the
server is built with `start_heartbeat`, a second thread runs the wheel, whose
tasks send pings and close clients of the first; that is the constructor's
default, but `main.cpp` passes `false`. The client is a program of its own: a
second start of it connects to the local server of the first and returns, and
the first shows its main window.

What is hard. Registration is edge triggered, so every branch must leave either
nothing to do or an edge still to come. Callbacks change the very queues and
registrations the loop is in the middle of. A client can be deleted in four
places, and other structures (the batch of events, `wb_clients`, the wheel's
tasks, pointers in locals of `start`) refer to it. A peer's bytes arrive in any
chunks, and the decoder keeps what is left in three places. The wheel's slots
must be poured at the right tick, while the worker lags behind the clock and
repeated tasks are filed again. What makes each part correct:

- event loop: no lost wakeup, output armed exactly when queued, events find
  their client, a hung-up connection is closed;
- WebSocket: the 101 first, payloads in order and once, whole messages, the
  closing handshake;
- application: its set of pointers is exact;
- wheel: each task is called at the tick it is due, never early, never missed;
- wheel threads: mutual exclusion, a map that names the list of every task, no
  call long before its time;
- server with heartbeat: no id is erased that the map does not have, no task
  outlives its client;
- client: one instance, reachable by its name; an exact registry of connectors;
  a program that ends when its windows are closed.

`PROJECT.json` lists the hazards with the line each of them bites at and the
properties that cover it.

## Modules

| Module | Models |
|---|---|
| `EpollSockets` | the kernel, epoll and the peers: external to `src/`, from how `tcp_server.cpp` uses them |
| `WebsocketServer` | the event loop, the WebSocket server, the HTTP parser's outcome and `main.cpp`, with `heartbeat_` false; and its properties |
| `Sessions` | what the server promises `main.cpp` and the peers: the life of each session; `WebsocketServer` implements it |
| `MCWebsocketServer` | instances for TLC |
| `TimerQueue` | what a timer queue promises: tasks with the tick they are due at |
| `TimeWheel` | `time_wheel` as a data structure, which implements `TimerQueue` |
| `MCTimeWheel` | instances for TLC |
| `FrameHeader` | the length field of a frame, as `websocket_client::send` writes it and the decoder reads it |
| `Utf8` | `validate_utf8`, one byte a step |
| `WheelThreads` | `time_wheel` and `spin_lock` at the grain of the lock: the worker and a thread that files and erases |
| `HeartbeatServer` | the loop thread and the worker with `heartbeat_` true, over `WheelThreads`, which it implements |
| `SingleApplication` | `SingleApplication.h` in any number of processes |
| `MainWindow` | the main window, the connectors and the event bus of a process |
| `TcpConnector` | the client program: `SingleApplication` composed with the `MainWindow` of one process, and liveness |
| `WebsocketServerProofs` | type correctness and the invariants of the event loop; payloads are delivered in order and once; the refinement of `Sessions` |
| `TimerQueueProofs` | no filed task is missed |
| `TimeWheelProofs` | the wheel implements the timer queue, for any number of levels and any sizes |
| `FrameHeaderProofs` | lengths are written right and never read too short |
| `Utf8Proofs` | `validate_utf8` accepts exactly the strings of whole characters |
| `WheelThreadsProofs` | exclusion, the exact map, erased tasks stay erased, the bound on early calls |
| `HeartbeatProofs` | the refinement of `WheelThreads`; ids, one ping task for each client, orphans and the lost lock |
| `TcpConnectorProofs` | the single instance, the registry of connectors |

### EpollSockets and WebsocketServer

One action of `WebsocketServer` is one iteration of the loop over a batch of
events, with every call it makes: `HandleHup`, `HandleAccept`, one `Recv...`
action for each way through the input branch and `decode_proto_data`, `HandleSend`
and `HandleSendShake` for the output branch. System calls fail: `HandleAcceptFails`
is an `accept` for which no descriptor is left (the edge is used up, the connection
stays in the queue), `HandleSendError` a `send` that fails because the peer has
reset or for any other reason of the kernel's. `EpollWait`
takes the next batch. Between any two of them the peers connect, write, end or
reset their side, and read.

State: `clients` is the domain of `clients_`; `st`, `waitClose`, `timer`, `dbuf`,
`q`, `hdr` are the fields of a client; `registry` is `wb_clients`; `tasks` counts
the tasks that are filed for a connection. `interest` and `ready` are epoll's,
`batch` the part of an `epoll_wait` result that is still to be handled. `lastMsg`
and `lost` are ghosts. `mem` records an undefined access: after it the program
may do anything, and the model stops.

Data. What a peer writes is a sequence of numbered units: an HTTP request
(`hs` with the right headers, `badhs` with wrong ones, `nohs` with none of
them) or a frame (`text`, `badutf` invalid text, `frag` an unfinished frame,
`cont` its end, `bad` one whose length does not fit, `ping`, `pong`, `close`,
`other` a reserved opcode) or `short`, a lone first byte. A `recv` loop reads
all units there are, so a buffer holds any number of them. Each `Recv...` action
tests the first unit, as `decode_proto_data` looks at the first header, and
drops what the code drops.

Headers. `http_header_` is filled with `emplace`, which keeps the values of an earlier
request of the connection (`KeptHeaders`), also when `decode_http_header` gives up
half way (`RecvNotHttp`). A request brings the upgrade headers all together, right
(`good`), wrong (`bad`) or not at all; of a unit that is no request the scans may pick up any of
these. `HeadersDecide` says what follows: the first headers of a connection
decide, and no later request replaces wrong ones.

Restrictions, each a bound on the environment and not on the code: a `short`
unit is read alone and no HTTP request is written behind unread frames (both
would make the decoder read a frame from the middle of something); the headers
that an upgrade needs come in one request, not spread over several; no more
than 1024 descriptors are ready at once (`BATCH_SIZE`); a descriptor is named
by its connection, which is sound because the loop closes only the descriptor
whose event it is handling and a batch holds one event for each.

Undefined behaviour is a choice: an unbounded scan of `decode_http_header`
and the header read behind the last fragment either end in one of the code's
outcomes or set `mem`. Both use-after-free paths of `start` (end of file after
data, failed send) set `mem` always; no property is about `mem`, which would only
repeat when it is set.

The handlers require `c \in clients`: for other descriptors `start` finds no
client and does nothing. `EventsFindClients` shows that this never happens.
`HandleAccept`, the `Recv...` actions and the output branch likewise require a
waiting connection, something to read, and something to send:
`EventsHaveCause` shows that an event never comes to its turn in the batch
without them, so no way of the code through an empty `accept` or `recv` is left out.

`Sessions` says what all this is for, without descriptors, events or
registrations. A connection arrives, is accepted, shakes hands, joins, and ends;
a member is sent a `hello` for each one that joins and an echo of what it
wrote; nothing is handed over twice, and there is one 101. The mapping takes
`arrivals` from `backlog`, the phase of a session from `sock` and, while it is
open, from `is_connected_`, `members` from `wb_clients`, `written` and `delivered`
from the counts of units, and `outbox` from `send_buffer_queue_`. `IsSessions` says
that each iteration of the loop is one step of one session or none, though one
batch holds the events of many and a callback may queue data for all of them.

### TimerQueue and TimeWheel

`TimerQueue` keeps for each task the tick it is due at; `TimeWheel` keeps the
slot that holds it. A step `Tick` is one iteration of the loop in `check()`:
the cascades, `++current_`, the slot of the tick, and for each task in it the
count, the refiling and the call. `Check` reads the clock, which `Advance` moves
by any amount, so the worker lags as far as it likes. `AddTask` and
`EraseTask` are the calls of other threads, here between two iterations. The
refinement mapping finds a task's due tick from its slot: in the near wheel the
next time the slot comes round, in a level its `expire_`. The sizes 256, 64 and 4
of the code are constants, and so are the shifts of `INDEX`: `Width[k]` is the number of ticks
of a slot of wheel `k`.

`circle_count_` is a `uint32_t`: `Less` decrements modulo `FullCircle + 1`, and
`FullCircle` itself (`FULL_CIRCLE`) is never decremented. The clock is assumed
not to go back (`get_now` reads `system_clock`, which can be set back: then
`current_` simply waits for it, and a task's `expire_` computed from it may be
past, a case the model has). Ids are reused as soon as a task is gone, which
the code's ids are not; nothing in the model depends on old ids.

### WheelThreads and HeartbeatServer

`TimeWheel` takes an iteration of `check()` as one step. `WheelThreads` takes it
apart: what the code does under the spin lock is a step after the one that takes
the lock, and everything else falls between. A thread's call is in `op`, and
`step` says where in it: `place` (the slot is about to be computed from
`current_`), `wait` (for the lock), `in`. `pc` is the worker's place in
`run_time_wheel`, `cascade` and the walk over a slot. `list` and `where` are `tv_`
with the worker's local list, and `id_map_`; they are separate, so that `MapExact`
says something. `current_` is read by both threads without the lock, and set by both while the
server starts: the loop condition of `check` (`Turn`), the slot index (`Index`, kept in
`tick`), the cascade and `++current_` (`Advance`) are steps of their own, so `init_time_wheel` may
set it between any two, and the slot that is taken is that of the tick that was read.
`EraseUnknown` is the return of `erase_task` that keeps the lock.
`EraseElsewhere` is an erase of a node that the worker has moved out: `list_` still
names the list of `tv_`, and `erase` is called on a list that does not hold the node. The
node is unlinked all the same (`EraseKnown`) or, where iterators are checked, the program ends.
A repeated task whose node is erased between the count and `add_node` is copied
after it was freed: it is in `freed`, and either the memory still holds it or the
program crashes.

Kept small: two of the five levels, waits that they hold (`TimeWheel` has the
arithmetic), lists without order. The concurrent use of `id_map_` in `Forget` and
of `tv_` in `Cascade` are data races; the model has one of the two accesses come
first. `++current_`, and the reading of the clock together with the store of it in
`current_` or `now`, are single accesses.

`HeartbeatServer` composes it with the server. A client is whether it lives, its
two ids and `wait_close_`; frames and buffers are left to `WebsocketServer`. A
handler of the loop (`ShakeHands`, `ShortFrame`, `BadFrame`, `CloseFrame`,
`PongFrame`, `Hangup`) or a closure that the worker calls (`CallTask`) sets the
thread's `job`, and the job goes on step by step (`After`): erase a task, forget its
id, leave `clients_`, run the destructor. The steps of the two threads interleave
freely, so the worker may delete the client whose handler the loop is in;
`UseDeleted` is the outcome in which that ends the program. The steps of one client
otherwise find the memory as it was.

`UsesWheel` is the refinement: the server does to the wheel only what a caller of
`WheelThreads` may (`AnyUse`), which is everything: any thread files and erases
anything at any time. So what is proved of the wheel needs no discipline of its
callers, and what the server adds is stated separately: `EraseFindsBeat`,
`LostByTimeout`, `OrphanWasFreed` and `PingOfClient`.

### SingleApplication, MainWindow and TcpConnector

`SingleApplication` follows a process through the constructor (`Connect`,
`ConnectFails`, `Listen`, `AddressInUse`, `Remove`, `Relisten`, `ListenFails`, or `TryLock`),
`main` and the destructor, every call of Qt a step. Qt is external: a local server
is known by a socket file, which a killed process leaves behind, or by a pipe, which
several servers may share; `QLockFile::tryLock` is one step. `Unname` removes
the file that has the name, whosever it is. `ConnectTimesOut` is a live server that does
not answer within 100 ms: the new process takes its name from it. `disturbed` is a
ghost: a start or an exit fell into another one, a server answered too late, or
`listen()` failed for some other reason. In the disturbed case two primaries
are possible (two processes that both find nobody, or a second that did not wait long
enough), and `OneInstance` does not claim otherwise.

`MainWindow` has the main window from `shown` to `deleted` and for each connector
whether it is registered and open, closed and to be deleted (`deleteLater`), or
an `orphan` that `~MainWindow` has passed over while `connections_` shrank under its
loop, and the boxes that will emit `closeAllErrBox`. A main window that was closed is
to be deleted (`closing`), but until then an activation or the tray icon may show it again, and it
counts as visible. `QuitIfLast` is Qt's `lastWindowClosed`, asked after every close: external,
and so no property restates it; what the program makes of it is `CloseEnds`. `TcpConnector`
adds `exec()` and `newLocalConnect`, whose `showNormal` on a deleted window does
nothing or crashes.

### FrameHeader and Utf8

These two open what `WebsocketServer` takes as one unit. In `FrameHeader` a
`uint64_t` is its eight bytes, so that shifting, OR and sign extension move
bytes, and no number is too large for TLC. `ServerSend` is `websocket_client::send`;
`PeerSend` is a peer that uses any form that holds the size; `ReadOne`, `ReadTwo` and
`ReadNext` (one round of the loop) are lines 297-317 of `websocket_server.cpp`.
A `char` is signed, as on the x86 builds of the project. Headers that are cut in two
are left out.

`Utf8` reads a byte a step. Its reference, `WellFormed`, does not scan: it says of
every byte which others must stand around it. It describes the bit patterns in
the comments of the code; overlong forms and surrogates match these patterns and
are accepted by both.

## Runs

`CHECK_DEADLOCK FALSE` is set where the system may stop: peers may be silent for
ever, and then the loop rightly sleeps in `epoll_wait`; in the wheel's runs the
clock stops at its bound; a lost lock stops both threads. `tcp_connector` checks
for deadlock.

| Run | Checks | Instance |
|---|---|---|
| `server_one` | type, `InputNotLost`, `InOrderOnce`, `EventsHaveCause`, `ErasesFiledTask`, `HeadersDecide`, `IsSessions` | one connection, all kinds of units and all faults, 4 units |
| `server_two` | `PendingIsArmed`, `EventsFindClients`, `EventsHaveCause`, `RegistryExact`, `ShakeFirst`, `IsSessions`, `HangupCloses` | two connections, the broadcast between them, close, hang-up and failing accepts |
| `wheel` | type, `CascadedInTime`, `IsTimerQueue`, `NeverEarly` | 2 near slots, three levels of 2, two tasks that wait for 18 ticks, filed with a circle count of 2, or 0, which wraps; a clock from 1 to 16 |
| `timer_queue` | type, `NotMissed` | two tasks, horizon 4 |
| `utf8` | type, `Decides` | all strings of up to 5 of 8 boundary bytes |
| `frame_header` | `SentAsDrawn`, `ReadsPlainLengths`, `NeverCut` | sizes whose lower three bytes are at the borders, the upper five 0 or 255 |
| `heartbeat` | type, `OneInside`, `MapExact`, `EraseFindsBeat`, `LostByTimeout`, `OrphanWasFreed`, `UsesWheel`, `AtMostATurnEarly`, `ErasedStaysErased`, `PingOfClient` | one client, all events of its peer, 3 tasks, a clock of 3 ticks, near wheel of 2 and level of 4 |
| `tcp_connector` | type, `OneInstance`, `RegistryIsOpen`, `ActivationShows`, `CloseEnds` | two processes, two connectors, all three kinds of name, crashes everywhere |
| `server_full`, `server_queue` | expected violations, below | one connection |
| `header_length` | expected violation, below | as `frame_header` |
| `heartbeat_timers` | expected violation, below | two clients, whose peers send a short frame and answer the CLOSE |

Bounds. `MaxUnits` bounds what a peer writes on one connection. Four units
reach every branch of the decoder from every state of a client: one for the
handshake, one for a state that input leaves behind (`waitClose`, a residue in
`decode_buffer_`), one for the branch, and one more for the closing handshake
(`hs`, `short`, `close`, `pong`). Two connections suffice for the
broadcast: one that is greeted and one that greets; connections share nothing
else. The wheel of `wheel` has three levels so that a task is poured twice on its
way, its tasks wait longer than it holds, and its clock runs to the tick at which a full
turn ends and all wheels wrap at once. Two tasks are enough for a slot that is shared, since
tasks of a slot do not affect each other.

The eight bytes of `MCUtf8.cfg` are the first and last of the tails and one next
to each border between the forms; five bytes hold the longest character and one
more on either side of its end. The bytes of `MCHeader.cfg` make 125, 126, 127,
128, 255 and 65535, and their neighbours where a byte changes its sign.

One client has three tasks in `heartbeat`: its ping task and two close tasks, the
second of which overwrites the id of the first. Its waits (2 and 3 ticks) put the one
just beyond the near wheel, where it is cascaded, and the clock of 3 ticks calls both
and refiles the first. The two threads are all there are, and clients share
only the wheel; what a second client adds is somebody who waits for the lock, which is
`heartbeat_timers`. The proofs hold for any number of clients.

Two processes meet in every step of start, exit and crash; a third only repeats
one of the two. Two connectors are the fewest of which `~MainWindow` can pass one
over.

Fairness. `Spec` of `WebsocketServer` assumes weak fairness of `Loop`, that is of the
thread that runs `start`: it never blocks except in `epoll_wait`, which returns while a
descriptor is ready. Peers are under no obligation. `HangupCloses` and the
counterexample of `QueueIsSent` use it. `Spec` of `TcpConnector` assumes that
the event loop of the process gets to what was posted to it: the deletion of a closed
main window, the return of `exec()` after it was told to quit, and a pending
connection of the local server. Users, peers and other processes may do
nothing, and any process may be killed. The specifications of the wheels and of
the server with heartbeat are safety only.

### Where the code and its comments disagree

- `FullBufferWaits` (`tcp_server.cpp:128`): the comment waits for `EPOLLOUT`; the
  code drops the rest of the message.
- `QueueIsSent` (`tcp_client.h:19`): input that arrives with the output edge takes
  the edge away; the queue stays until the next event with output.
- `CloseTimersRun` (`websocket_server.cpp:69`): a client is closed 10 seconds after
  its task was filed. The first task that runs out closes its client, whose
  destructor erases the task once more; `check()` has already taken it off the
  map, and `erase_task` returns with the lock. The property is about the others: the close
  task of a second client, still open, none of whose own tasks has run out, lies in a list of the
  wheel that nobody can take any more. (Tasks that the worker has already taken out are
  called without the lock and are not counted. If the loop thread needs the lock next, it waits too.)
- `LengthAsDrawn` (`websocket_server.cpp:305`): a byte of 128 or more in an extended
  length sets all bits above it.

Two more are visible in the modules and have no run: a fragment and a control frame
that are read together are delivered as a message (`Joined`, against the comment at
`websocket_server.cpp:96`), and the close task is filed when the answer to the
server's CLOSE has come, not when the CLOSE is sent (`RecvCloseReply`, against
`websocket_server.cpp:69`).

## Proofs

The proofs about the server are for any set of connections, any kinds and
faults, any `MaxUnits`; their only assumption is `SocketAssumption` (the listening
descriptor is no connection, the constants have their types).

`WebsocketServerProofs`. `TypeInv` is `TypeOK` with `TimerHasTask`, without which
the count of filed tasks could drop below zero: `erase_task` is called for a
client whose `time_wheel_id_` is set, and only the invariant says that a task
is then filed. `LoopInv` is inductive relative to it. `PendingIsArmed`,
`InputNotLost`, `RegistryExact` and `ShakeFirst` are not inductive alone: they
need that the accept queue holds waiting connections only and each once
(`BacklogPending`), that `clients_` is the set of open descriptors
(`ClientsOpen`), that nothing is left of a connection without client (`Dormant`),
and that every registration has input (`Listens`). The actions fall into few
shapes (`Answer`, `Closing`, the handshake, two outputs, `EpollWait`, accept, the
peers), and there is one lemma for each. The theorems `OutputArmed`,
`NoLostWakeup`, `EventsFound`, `RegistryCorrect`, `HandshakeFirst`, `TasksFiled`
follow. `HeadersCorrect` proves the action property `HeadersDecide`, which needs
that whoever is past `NONE` has the right headers (`HeadersInv`), `Dormant` for a connection that is
accepted (its client starts without headers) and `ShakeFirst` for the 101.

`CausesRemain` proves `EventsHaveCause`, relative to `LoopInv`: epoll reports an
event because of its cause, for output by `PendingIsArmed`, and every handler
spares the other descriptors of the batch (`Spares`: it reads none of their
input, fills none of their send buffers, empties none of their queues). The peers
only add to the causes, and the client that `accept` adds has no event yet (`Dormant`).

`DeliveryInOrder` proves `InOrderOnce`. The invariant is about the stream
`decode_buffer_` followed by the unread input: it ascends, and lies behind what
was delivered. A step keeps the stream, appends to it, or replaces it by a
prefix of itself, kept or delivered.

`ImplementsSessions` proves `IsSessions`, one lemma for each shape of action. The
invariants above give the guards of `Sessions`: `BacklogPending` that the first of
the queue has arrived and is not accepted yet, `ClientsOpen` that a client is in
the phase its field says, `Dormant` that a closed one has nothing to say,
`RegistryExact` that the broadcast goes to members, and the order of the stream
that what is delivered is new and was written.

`TimerQueueProofs` proves from `TimerAssumption` that a filed task is always due
at a tick that is still to come and within the horizon, and type correctness.

`TimeWheelProofs` proves that `TimeWheel` implements `TimerQueue`
(`ImplementsTimerQueue`), `CascadedInTime`, `NeverEarly` and the types, for any number
of levels and wheels of any sizes, from `WheelAssumption`, which says that a slot of a wheel
stands for a turn of the wheel before it. The invariant, `AllHeld`, says where a filed
task is: in the near wheel, in the slot of a tick of this turn that is not before its
time; or in a level, in the slot that covers its time, whose first tick is still to
come and is less than a turn ahead. `Filing` shows that `add_node` puts a task there; a
level is used only if the time is at least one of its slots away, so that the slot's
first tick is not past already. `CascadesAtSlots` shows that a level is poured out at
just the ticks that begin one of its slots, `SlotSole` that of these only one per turn has
the index, and `HeldTick` combines them: the cascades of a tick bring a task into
the slot that is taken if and only if it is due.

`Utf8Proofs` proves `Decides` for any bytes and any length. While scanning, every
first byte so far has room up to `i + remaining`, the last one ends exactly there,
each tail belongs to a first byte, and what they announce are tails
(`GoodSoFar`): this turns the one counter into the statement about all bytes.

`FrameHeaderProofs` proves `SentAsDrawn`, `ReadsPlainLengths` and `NeverCut` for sizes
of any eight bytes. The invariant of the loop, `ReadSoFar`, says that the `k` bytes
read are the lowest of `payload_len`, each as it was or raised by a sign behind
it.

`WheelThreadsProofs` is for any wheel of two levels, any tasks and any callers;
its only assumption is `ThreadsAssumption`. `WheelInv` is the type with `OneInside`,
`MapExact`, what a call is about (`TasksMade`) and the worker's place in its work (`Roles`:
only the worker takes lists, and its own list is empty when it takes one, or the
move would lose tasks). `OneInside` allows the lock to be taken with nobody inside, which is
what `erase_task` leaves behind; `LostForEver` says that this state has no way out.
`NeverFarEarly` needs `SoonInv`: whatever lies in the near wheel, was taken from it, or is
about to be put into a slot of it that was computed before the lock, expires before
`current_ + NearSlots`. This holds when `add_node` computes the slot, and `current_` never
goes back once there are tasks, which is a fact about `init_time_wheel` (`Clocks`, `Filing`). `ErasedIsGone` proves
`ErasedStaysErased`: only `File` adds to the map, and what the worker files again is
still in the map or was freed in its hand (`Handed`). That exception is real: without
it TLC finds the step.

`HeartbeatProofs` first proves that every step of the server is one of
`WheelThreads` (`ServerUsesWheel`), and inherits its theorems. `ServerInv` is about
who holds which id. The core is `Kinds`: a close task exists only for a client whose
ping task is over (`BeatOver`), because every way to file one leads through a short
frame that has erased it. So the closure of a close task, the only part of the server that
erases on the worker's thread, never finds a ping id, and a ping task is erased by
the loop alone, once, while it is in the map (`WheelJob`, `Erasing`, `Kept`). `Setting` covers
the id that `add_task` has returned and that is in no field yet, `Belongs` and the wheel's `Handed`
say that the map's ping tasks belong to living clients unless they were freed in the
worker's hand. `PingIdsAreKnown` and `OrphansWereFreed` follow for any number of
clients, and so does `OnePingEach`: a client keeps the id of its task until the loop
begins to erase it (`Kept`), and a ping task in the map that is not freed is the
one whose id its client keeps, also while the worker has it in hand (`Held`).
`LockIsLostByTimeout` follows because the other ids are of close tasks, and until
one has run out those too are erased by the loop alone and in the map.

`TcpConnectorProofs` proves that the program implements `SingleApplication`
(`ImplementsSingle`), `OneInstance` for any number of processes, and
`RegistryIsOpen` and the types for any number of connectors. The invariant behind
`OneInstance` says, while nothing is disturbed, which process may be changing the
name, that nobody else is primary meanwhile, and that a file without a server is
a dead one's.

Only model-checked: `HangupCloses`, `ActivationShows` and `CloseEnds` (liveness is out
of TLAPS's reach).

## Not modelled

- `Unmask` and `HttpHeader`: the mask by words and its tail, the scans of
  `decode_http_header`, headers and frames that are cut in two, the bytes of the CLOSE
  frame. `WebsocketServer` has their outcomes.
- `stop()` and the destructors of the servers, `stop_time_wheel`, a `connected_f` on a
  plain `Tcp_server`: nothing in the repository calls them, or they run after
  a loop that never ends.
- `HeartbeatServer` leaves out the queues and registrations, so it says nothing of
  the races of the two threads on `send_buffer_queue_`, `clients_` and `wb_clients`;
  the model has them as interleavings of whole accesses, or not at all.
- The value of `flag` that the closure of a close task reads through a dead
  reference (`websocket_server.cpp:250`): it goes into a CLOSE frame that is not modelled.
- The client's send box, its echo of `HEARTBEAT`, its fields, texts and layout; the
  server of this repository sends no such message.
- Build files, form layouts, installer scripts, icons: no state of the program.
