# A TLA+ model of libbase

libbase (`src/base/base`) is the library an instant messaging server is linked with: a reactor over
epoll, connections that exchange PDUs, timers, a thread pool, a logger. Around it the repository
keeps services and fragments of services (`src/base/ws`, `im_dobetter`, `thread`, `socket_sever`,
`utils`). This directory holds specifications of its core, the TLC runs that check small instances
of them, and TLAPS proofs for every size.

    tlc -workers 2 -config MCNetLib_memory.cfg MCNetLib.tla     # one run
    tlapm NetLibProofs.tla                                      # one module of proofs

## 1. The parts of the system

| Part | Source | State | Operations | Modules |
|---|---|---|---|---|
| Reactor | `netlib.cpp`, `BaseSocket.cpp`, `EventDispatch.cpp` | `g_socket_map`, the `CBaseSocket` objects with state and reference count, the epoll batch | listen, connect, close, recv, option; `StartDispatch` with `OnRead`, `OnWrite`, `OnClose` | `NetLib`, `NetLibProofs` |
| Timers and loops | `EventDispatch.cpp` | `m_timer_list`, `m_loop_list`, the clock | add and remove a timer, add a loop, `_CheckTimer`, `_CheckLoop` | `EventTimer`, `EventTimerProofs` |
| Connections and PDUs | `imconn.cpp`, `ImPduBase.cpp`, `UtilPdu.cpp` | `m_busy`, `m_in_buf`, `m_out_buf` | `Send`, `OnConfirm`, `OnRead`, `OnWrite`, `HandlePdu` | `ImConn`, `PduChannel`, `ImConnProofs` |
| Thread pool | `ThreadPool.cpp`, `Thread.h` | per worker: list, mutex and condition, counters | `Init`, `AddTask`, `PushTask`, `Execute` | `ThreadPool`, `TaskPool`, `ThreadPoolProofs` |
| Logger | `log4z.cpp` | `_runing`, the queue `_logs`, the attributes and file of each logger | `start`, `stop`, `pushLog`, `enableLogger`, `setLogger...`, `updateConfig`, `run` | `Log4z`, `Log4zProofs` |
| Sensitive words | `segment/seg_word_api.cpp`, `FileMonitor.cpp` | two copies of a segmentation and of a dictionary, the pointers to those in use, the inotify descriptor | `hasUserWord`, `update`, the loop of `fileMonitor` | `WordCutter`, `WordCutterProofs` |
| WebSocket server | `ws/uWebSocketServer.cpp` | connections and their user data, users per room, the message queue | connect, log in, disconnect, kick, broadcast; `pushMsgQueue`, the consumers | `WebSocketServer`, `WebSocketProofs` |
| Acknowledgements | `im_dobetter/do_better_msql.c` | the cache of last read ids, the statements under way | `readMessageAck`, `StartConsumer` | `AckCache`, `AckCacheProofs` |
| Threads, conditions, reconnection, thread timer, chat server, HTTP wrapper, Redis lock, codecs, segmentation algorithms | see `PROJECT.json` | | | section 5 |

How they interact: `StartDispatch` is one loop on one thread. It serves a batch of epoll events, then
the timers, then the loop callbacks. The sockets call the application's callback with CONNECT,
CONFIRM, READ, WRITE or CLOSE; for a `CImConn` that callback is `imconn_callback`, which calls
`OnConfirm`, `OnRead`, `OnWrite`, `OnClose`. Callbacks call back into the reactor: they open and close
handles and set timers while the batch, or the list, that called them is being walked. The pool and
the logger have threads of their own and share lists with their callers under a mutex. The services
stand alone: the words are reloaded by one monitor thread and read by any thread without a lock; the
WebSocket server has listener threads, each with the connections it accepted, and consumer threads, and
they share the map of users; the acknowledgements pass from handlers to one consumer through a map.

What is hard in each, and what makes it correct:

* **Reactor.** Close, descriptor reuse and object reuse inside a callback, with the rest of the batch
  still naming old descriptors; one edge for many bytes or connections; the state of the socket
  changing between `epoll_wait` and the callback. Correct: no use of a deleted object, exact reference
  counts, the map, the kernel and the application agree about each handle, a message is about the
  socket it was opened for and true of it, no data, connection, reset or connect result is forgotten.
* **Timers.** Callbacks change the list being walked; late walks. Correct: the iterator stays on the
  list, one timer per key, no call too early, none twice in a walk, none skipped, loops not starved.
* **Connections.** Short writes and reads at any byte, with edges that come once. Correct: the bytes
  arrive in order and once, the PDUs are cut where they were joined, and a busy connection always
  has an event to come.
* **Thread pool.** Mutex and condition with spurious wake-ups, tasks that add tasks, threads that do
  not start. Correct: no lost wake-up, each task runs once, first in first out per worker.
* **Logger.** The writer stops when it finds `_runing` false and the queue empty, with callers between
  their test and their push; attributes are read without a lock. Correct: what `pushLog` accepted is
  written or filtered, not to a file already replaced, and `stop` returns.
* **Sensitive words.** Dictionaries are refilled while readers, who take no lock, may still use them;
  updates fail half-way; the file changes during an update; the watched directory disappears. Correct: a
  call with no swap in it is answered from complete dictionaries in use, and the last version of the
  file reaches the readers.
* **WebSocket server.** A user logs in twice, on two listeners, while the first connection ends; kicks;
  `onDisconnection` takes no lock. Correct: the map of users and the user data of the connections
  agree, no entry is a freed connection, messages are handled in order and all of them.
* **Acknowledgements.** The cache is turned into statements and cleared while handlers fill it;
  handlers overtake each other; a full cache is written through; statements fail. Correct: no
  acknowledgement is lost and none becomes unread.

Every hazard found in the code, at its line and with the properties that cover it or the reason why
none does, is in `PROJECT.json` under "hazards".

## 2. The modules

Each action names the function it models; `PROJECT.json` gives the lines. The mutated operators
(`X_Something`, each before the `X` it changes) are plausible bugs of that code; each property is
violated when one of them takes the place of `X`.

**NetLib.** `g_socket_map`, `m_state`, `m_socket` and `m_refCount` are the maps and fields of the
code. A step of the loop is `EpollWait` (a batch of at most `MaxEvents`), `TakeEvent`
(`FindBaseSocket`, which adds a reference, and the flags of the event), `OnClose`, `OnWrite`, `OnRead`,
`_AcceptNewSocket`, `ReleaseEvent`, `CheckTimers`. `pc` says where `StartDispatch` is; `cb` is the
callback that is running, and while it runs the application may take the actions `netlib_...`. The
kernel is a separate actor: the state `kst` of each descriptor, unread chunks `avail`, the descriptors
with `urgent` data, and the ready list `rdy` of edge-triggered epoll, which loses an entry when it is
reported and gets one when readiness changes. `Mask` is what epoll then reports; "EXC" stands for
EPOLLERR, EPOLLHUP and EPOLLPRI, which the dispatcher treats alike. Urgent data may hide what lies behind
it from FIONREAD (`Drained`), and reading may pass it. The application is bounded by constants: `CloseOwnIn`, `CloseAnyIn` and
`ConnectIn` name the callbacks from which it may close its own handle, close any, or connect;
`LikeImConn` makes it read until nothing is left and close on CLOSE, as a `CImConn` does.

**EventTimer.** `m_timer_list` is a sequence of nodes, `item` the `TimerItem` of each; `it` and `pItem`
are the local variables of `_CheckTimer`. `After(n)` is `it++`. A step on an erased node leads to
`pc = "undefined"`, after which nothing is said. The clock only moves forward.

**ImConn** has one sending and one receiving end, two kernel buffers smaller than a PDU, and the edges
of both. A system call is one step; the kernel (`Transfer`, `WriteSpace`) moves between any two.
A PDU is a sequence of numbered units, so a unit that is lost, doubled or moved shows. `Refuses` is
EAGAIN, or the refusal of `CBaseSocket::Send` before CONFIRM. `early` records that the application
sent before CONFIRM. `HandlePdu` is a handler that returns, `HandlerThrows` one that throws a `CPduException`
for a PDU in `Throwing`: the `Read` behind it is skipped, so the PDU stays in front of `m_in_buf`, and if
`OnClose` does nothing it is handed over again with the next bytes. `Throw` is the exception of `ReadPdu`.
**PduChannel** is what it promises: PDUs handled in the order sent and whole, each until its handler returns:
once, or again if it threw, and then before any behind it.

**ThreadPool.** One action per critical point of `Execute` (lock, test, wait, take, run, finish) and of
`PushTask` (lock, push, signal, unlock). A thread that runs a task may itself call `AddTask`.
**TaskPool** is the abstract pool: `Add`, `Take`, `Execute`; `Pool` in `ThreadPool` is the refinement
mapping, in which a task is added when it enters a list.

**Log4z.** `mpc` is main in `start` and `stop`, `wpc` the writer in `run`, `tpc` each caller in `pushLog`,
which is two steps: the tests, and the push under `_logLock`. `_path` counts the changes of a logger's
path or name, `_handle` holds the count at which its file was opened. A change is two statements under
`_hotLock`: `setLoggerPath` (and setLoggerName) sets the path, `PathChanged` the flag `_hotChange`, which
`OpenLogger` tests without the lock; `CreateFile` takes the lock to read the path and clear the flag. `Settled` is the last
change whose two statements are done, and a log notes it when its pushLog begins. The lines the writer logs about
itself are one LogData, `Hello`. Each of the writer's tests reads the attributes anew, and
`SetAttribute` may change them between any two steps; the reads of one test are taken together.
Day changes and full files are the free choice `roll` in `OpenLogger`.

**WordCutter.** The content of a copy is the version of the file it was filled from, or `Torn` while it is
empty or being filled. `pc` is the monitor's thread: it reads a batch of inotify events, handles each
(`dataUpdate`), and `update` fills the spare segmentation, the spare dictionary, and swaps one pointer and
then the other. `update` holds `_rwlock` for its swaps, but no reader takes it, so it orders nothing.
`hasUserWord` reads one pointer in `Cut` and the other in `Find`; a reader whose copy is torn is "undefined".
`Disturb` says so of the readers whose copy is refilled under them; `quiet` holds those during whose call
nothing was swapped. `missed` says that
the last change cannot arrive: its update failed, or nobody was watching. The file and its directory
are external.

**WebSocketServer.** Each listener works on one job at a time: a login under `conn_q_lock`, or a
disconnection in the steps of the code (read the user data, read it again, erase the entry, drop an
empty room) without it. Two threads in the maps at once, a freed connection used, or user data that
is gone between test and use lead to `outcome = "undefined"`, after which nothing is said. A consumer
holds `msg_q_lock` from the pop to the end of `handleLiveMsg`. Two histories name what the code breaks:
`raced`, the seats of a room where a login met a disconnection, and `orphaned`, the seats whose connection was
kicked or logged in a second time.

**AckCache.** `map_message_ack` holds an id per member (user and group), `vc` and `todo` the consumer's
statements, one per table; the rows a statement sets are computed as its CASE and its two IN lists do,
and `WellFormed` says which lists the database can parse. `overtaken`, `through` and `failed` are
histories: ids that came after a greater one, rows written by a handler because the cache was full,
and statements that failed.

## 3. The runs

| Run | Instance | What it shows |
|---|---|---|
| `netlib_memory` | 4 objects, 2 descriptors, all callbacks may close and open anything, `epoll_ctl` may fail, batches of 1 | types, no use after free, exact counts (with the reference `netlib_option` leaks on its early return), one meaning per handle |
| `netlib_delivery` | 4 objects, 3 descriptors, batches of 2, callbacks of a batch close their own handle, timers close any and connect, urgent data on one connection at a time | no message for another socket, CONFIRM only when established, CONFIRM before READ, CLOSE only when the peer is gone or sent urgent data |
| `netlib_live` | 3 objects, 2 descriptors, 2 chunks, urgent data on one connection at a time | data read, connect results reported, resets and separate ends of stream closed |
| `netlib_accept` | 4 objects, 3 descriptors, backlog of 2 | the whole backlog is accepted for one edge |
| `eventtimer` | 2 keys, 2 nodes, intervals 1 and 2, time to 2, callbacks remove any timer, two loop callbacks | one timer per key, never early, once per walk, iterator valid while callbacks remove their own timer only, calls catch up, loops served |
| `imconn` | PDUs of 2, 3 and 4 units, headers of 2, kernel buffers of 3, reads and sends of 2; one PDU is malformed, the handler of one closes and that of one may throw | byte stream and framing refine `PduChannel`; a busy connection has an edge to come; nothing behind a malformed PDU; no byte is left behind but behind a malformed PDU or one whose handler threw |
| `threadpool` | 2 workers, 1 other thread, 3 tasks | the pool refines `TaskPool`; no lost wake-up; every task of a live worker runs |
| `log4z_join` | 1 logger, 1 caller, its log and the writer's, 1 change of path | `start` means running; nothing lost when callers are joined before `stop`; no file whose replacement had returned before the call; everything accepted is treated; `stop` returns |
| `log4z_race` (violation) | the same, callers not joined | `pushLog` returns true for a log nobody writes |
| `ackconsumer` | 3 members in one table, two ids for two of them, 2 handlers, a cache of 1 | no acknowledgement lost, no row goes back, everything reaches the database, unless a statement failed or an id was overtaken |
| `websocket` | 2 connections of 2 listeners, 2 seats of a room, 2 consumers, 2 of a logout, a notification and a kick | the map and the user data agree, no freed connection in the map (but for the histories); messages in order, all handled |
| `wordcutter` | 1 reader, versions 0 to 3, the directory removed once, updates may fail | a quiet call is answered right; every change is under way; the last one arrives |

Bounds. One descriptor beyond the one in use is enough for reuse within a batch, and two objects
beyond it for an object that is held, deleted or reused meanwhile; a third descriptor lets a listener
and two connections meet. `MaxEvents` below the number of descriptors makes batches leave events
behind; the model does not order the ready list as the kernel does, so the runs for liveness take
batches that hold all of it. `MaxUrgent` bounds the descriptors with urgent data at a time; it is 0 where urgent data changes nothing
the properties see (`netlib_memory`, where any event may close anything, and `netlib_accept`, where only the
listener matters), and the proofs are for every bound. Symmetry is used in runs without liveness only; `LowestFirst` in
`MCNetLib` gives the others the lowest free descriptor, which POSIX promises, and the lowest free
address. Two timers let one be removed and added again behind the iterator, or ahead of it, by the other. PDUs longer than every
buffer split at every place; one is a bare header. With three tasks a list of two grows behind a
running one. One log of a caller and the writer's own make the queue longer than one and open the
file before a change of path. Three members make an IN list the database refuses, and two of them name
the row of a third one; a cache of one is full. Two connections are enough to replace, to race and
to free; two seats of one room keep it from being empty. Three changes of the file let one come during
an update and one during the next. Deadlock is checked except where the program may come to rest: all
tasks, PDUs, acknowledgements or messages done, the logger stopped, the file at its last version, or
the outcome undefined.

Discipline. `netlib_delivery` is restricted to callbacks as `imconn.cpp` and `ServInfo.h` write them: a
handle is closed by one of its own callbacks or by a timer, and connections are opened by
main and by timers. `OnRead` may still query a descriptor that the CONFIRM or WRITE callback of the same event
closed, and reports CLOSE, but for a handle that is nobody's any more. Without the discipline the code does
tell a handle things that are not true of it (an event of the batch may be served for a new socket with the
old number); the reference counts and the map still hold, which is what
`netlib_memory` and the proofs say for any callbacks. `BacklogAccepted` assumes that descriptors do
not run out. `LoopsServed` and `CallsCatchUp` are about positive intervals. `BusyHasEdge` and
`EveryPduHandled` are about applications that send after CONFIRM: an earlier Send is refused without
EAGAIN, so the kernel owes it no edge. `EveryTaskRuns` excepts workers whose thread did not start. `IteratorValid` is about
walks whose callbacks remove no timer but their own. `SeatsAgree` and `EntriesLive` except the seats in `raced` and
`orphaned`, `NoAckLost` and `ReadNeverUnread` the members in `overtaken`, `through` and `failed`, `ChangePending` and
`FreshEventually` a change in `missed` (and a monitor that has ended, as it does when the directory is gone or cannot be watched): what these name is what the code does wrong or cannot help, and
each property fails without its exception. `EveryPduHandled` likewise excepts what is behind a malformed PDU,
behind one whose handler threw, or behind a close.

Fairness. The dispatcher runs on: `epoll_wait` has a timeout, so `Dispatch` is weakly fair, callbacks
return, and an application like `CImConn` reads on READ and closes on CLOSE. Threads of the pool are
weakly fair and get a mutex that is released again and again (strong fairness of `Lock` and
`PushLock` only). The kernel moves bytes while there is room. The writer of the logger runs, calls of
`pushLog`, `setLoggerPath` and `pthread_join` return. Nothing obliges the application to send, add, log, stop or change
anything, nor the peer to do anything. The monitor's thread and the consumer of acknowledgements are
scheduled; their readers and handlers need not be. In `websocket` a callback returns and some consumer
that can move does; strong fairness of `LockConn` alone says that a mutex released again and again by
the listeners is got by the one consumer that waits for it.

### Disagreements with the repository's own words

* `log4z_race`: `log4z.h:96` says no log is lost on normal exit.

### Observed while modelling

These follow from the code and are outside what the properties claim.

* `EPOLLRDHUP` is tested at `EventDispatch.cpp:375` and never requested at `:338`: a peer's close that
  arrives together with data gives one READ and no CLOSE. `EofEdgeReported` is about an end of stream with
  an edge of its own.
* EPOLLPRI is requested at `:338` and leads to `OnClose` at `:384`: urgent data closes a healthy connection.
* A handler that throws a `CPduException` leaves its PDU in `m_in_buf` (`imconn.cpp:150` is skipped). If
  `OnClose` does not end the connection the PDU is handled again with the next bytes, and what is complete
  behind it waits for them.
* A log that is pushed between the two statements of a change of path may go to the old file although the path is
  already the new one (`log4z.cpp:1579`, `:1580`); the change has not returned then.
* The comment at `EventDispatch.cpp:86` says that the iterator is moved before the callback because the
  callback may delete it; a callback that deletes the *next* timer then breaks the walk.
* An IN list of three or more values is malformed (`do_better_msql.c:79`): a comma is written before the
  last value and after every inner one. The statement fails, its acknowledgements are gone, and the
  result is not looked at (`ListsOfTwo`, `LongListFails`).
* An acknowledgement overtaken by a greater one that the consumer has taken meanwhile makes the row go back.
* `dataUpdate` has no branch for the live words: they are loaded once, by `init`.
* `hasUserWord` and its like take no lock: a call beside two updates may read a dictionary that is being
  refilled, and the words of one version may be looked up in another.
* `onDisconnection` takes no lock: a login in the same room may lose its seat, and maps are changed by two
  threads at once. `kickUser` leaves the entry of a connection that is then freed. A second login leaves
  the first seat behind. `else if (CID_LIVE_KICK_USER)` in `handleLiveMsg` is a constant: every unknown
  command kicks.
* `terminated` sets a flag and notifies nobody: a consumer that waits would not see it.

## 4. The proofs

All are for any values of the constants that satisfy the named assumption of each module
(`NetLibAssumption`, `WebSocketAssumption`, ...), which say no more than that model values differ, bounds
are numbers, and lengths and buffers are positive. The types of every component are proved.

**NetLibProofs**: `Invariance`, and from it `TypeCorrect`, `NoUseAfterFree`, `ExactCounts`,
`OneMeaningPerHandle`. The invariant is `TypeOK`, `RefsAccounted`, `HandlesAgree` and
`ServedWhileBusy`. `PointersLive` alone is not inductive: that a close in a callback leaves the
served object alive follows only from the exact count (one reference for the map, one for the
dispatcher, one per leak), and the map can be trusted to hold the right object only because it, the
kernel, epoll and the application agree. `ServedWhileBusy` ties the dispatcher's reference to `pc`.
Of the application only the bound on events is used here: the callbacks may do anything.

What the callbacks may believe rests on a second invariant, `Delivery`. `Filed` says that the application
knows every connection and no listener, `Batch` and `Service` what the event array and `StartDispatch` know of
a socket before its first callback, `Frame` where `StartDispatch` stands while a callback runs. From
there on the discipline of the callbacks matters, and each theorem has only the part of it that it needs:

| theorem | property | what the callbacks must respect | part of the invariant |
|---|---|---|---|
| `RightRecipient` | `NoMisdelivery` | none connects during a batch | `StillServed` |
| `ConfirmedIsEstablished` | `ConfirmMeansEstablished` | none connects during a batch | `Established` |
| `ReadIsConfirmed` | `ReadAfterConfirm` | they read to the end, and close when told CLOSE | `Confirmed` |
| `CloseIsEnd` | `NoSpuriousClose` | in a batch none connects, or closes a handle not its own | `Meaning` |

`CloseIsEnd` allows CLOSE at the end of stream, after an error and for urgent data, as the code does.

Without its condition TLC refutes each of them with three descriptors and three objects. `StillServed`
says that a descriptor closed while it is served is not open again before it is released: within a batch
only an accept could reopen it, and then the listener is what is served. An accept may still give a new
socket the number, and the stale event, of another one closed in the batch: `Kind` says that even a stale
event tells a connection from a listener, and an accepted connection is established, as its flags say.

`NoLostWakeup` and `NoLostBacklog` are the reason why the liveness properties hold with edges
that are reported once: whatever is still to be done on a registered descriptor (data, the end of a
connect, a reset, a backlog) is on the ready list, in the batch, in the event being served or in the
hands of a callback that must see to it. The first is about callbacks that read to the end and close when told
CLOSE, the second about any callbacks while descriptors do not run out. `SleepsWhenServed` follows: in `epoll_wait` with an empty ready list there is nothing left to do. The proofs need `None` not to
be a frame of a callback (`NetLibAssumption`).

**EventTimerProofs**: `Invariance`, and from it `TypeCorrect`, `OneTimer`, `NeverTooEarly`,
`OnceAWalk`, and `OwnRemovalIsSafe`: while the callbacks of a walk remove only their own timer, the
iterator is a node of the list or its end. The invariant adds `Scheduled` (each deadline follows its
last call by one interval, so a call is never early), `NotAgain` (no timer from the iterator on was called in this walk and is due in
it still; a timer set by a callback is due after `curr_tick`, which was read before), `Current` (the
item whose callback runs is listed unless that callback removed it) and `OwnOnly` (the iterator has
left the timer whose callback runs). That a key is at one position is what lets `After` and
`RemoveTimer` be followed from position to position; `RemoveAtProperties` says what `erase` does.

**ThreadPoolProofs**: `Invariance`, and from it `TypeCorrect`, `WakeupsNotLost`, `TasksRunAtMostOnce`,
and `ImplementsTaskPool`, the refinement. The invariant adds to the checked properties `MutexHeld` (the
owner of a mutex is the thread inside it), `Local` (what each program counter implies), `Waiting` (a
task in a hand or a list has not run), `OnePlace` (a task is in one place only) and `ListCounted` (the
hand-kept counter is the length of the list, so it does not wrap). No wake-up is lost because a worker
goes from its test to its wait without giving up the mutex; a task runs once because there is one copy
of it and it has not run while it waits. `RestMeansRun` adds `Kept` (a task is never dropped), and that the thread
that holds a mutex can always go on.

**ImConnProofs**: `Invariance`, and from it `TypeCorrect`, `BusyWhileBufferedHolds`, `BusyHasEdgeHolds`,
`NothingAfterMalformedHolds` and `ImplementsChannel`, the refinement of `PduChannel`. The invariant reads the bytes
of the five buffers between the two ends as one stream. `Whole` says that each byte is followed by the
rest of its PDU, `Successive` that after a PDU comes the one sent next, `Begins` and `Ends` that the stream
starts with the first PDU whose handler has not returned and ends with the last one sent. A handler that
throws leaves the stream as it is (`ThrownLast` follows what it threw on). The stream as a whole does not
change when a system call moves any number of bytes (`StreamKept`), grows at its end by a sent PDU
(`OrderedSend`) and shrinks at its front by a handled one (`OrderedHandle`). None of the four is
inductive alone, nor is "handled is a prefix of sent": it needs what is in flight. `RestMeansHandled` adds `Attended`:
a connect under way has its edge, unread bytes have theirs unless `OnRead` is about to read them, and it does not
return with a complete PDU in front unless it is malformed or its handler threw.

**Log4zProofs**: `Invariance`, and from it `TypeCorrect`, `StartedMeansRunningHolds`, `NotToOldFileHolds` and
`NoLogLostHolds`. The invariant adds `Files` (an open file without `_hotChange` is the one of
the last change that returned: between the two statements of a change the path is already another), `Writer` (a file opened for a log is not older than the log), `Starting` (the semaphore comes after
`_runing`), `Joined` (with callers joined nobody pushes once `_runing` is reset, so the queue the writer
found empty stays empty) and `Kept` (an accepted log is in the queue, in the writer's hands, or treated).
`NoLogLostHolds` is about `JoinFirst`; without it the run `log4z_race` refutes the property. `TreatedOnce`, for
any callers, says that the writer treats a log, and so frees it, at most once: a log is in one place, and
what is in the queue or in a hand has no outcome yet (`OnePlace`).

**WebSocketProofs**: `TypeCorrect`, `SeatsAgreeHolds`, `EntriesLiveHolds`, `MsgsInOrderHolds`. `SeatsClaimed` and
`ClaimsSeated` say that who sits on a seat has it as user data, in whatever state the connection is, and the
reverse, outside the seats in `raced` and `orphaned`; `DataOK` and `RoomEmpty` what a disconnection has read and may still rely on. For the messages,
`Numbered` gives each its number from its place: handled, in the one hand that holds `msg_q_lock`, or queued.
`RestMeansHandled` adds `Watched` (while there are messages some consumer does not wait, though `notify_one` wakes
one only) and `Holders` (who has `conn_q_lock` is where it can go on), so the two locks never close a circle.

**WordCutterProofs**: `TypeCorrect`, `QuietAnswerHolds`, `ChangePendingHolds`. The invariant: copies in use are filled
(`Filled`), a quiet reader reads copies in use (`QuietInUse`; they may be of two versions of the file, when it
changes between the two reads of an update), and an update that runs has read the file as
it is, or an event is queued (`UpdateFresh`). `ChangePendingHolds`
excepts a failed update and a change nobody watched. `RestMeansFresh`: a monitor asleep in `read` with no event queued has
left the dictionaries of the file in use.

**AckCacheProofs**: `TypeCorrect`, `NoAckLostHolds`, `ReadNeverUnreadHolds`. `WhereGreatest` says where the greatest
acknowledged id of a member is (map, statements, database; a member whose statement failed or whose id came
late is excepted), `Behind` that the other two places are not
ahead of it, `StatementsTodo` that an id in a statement has its statement still to come. `RestMeansWritten`: when the
map is empty and no statement is left, all is in the database. `ListsOfTwo` and `LongListFails` prove what
is observed above about IN lists: exactly those of at most two values are well formed, and a statement with
more writes nothing and drops the acknowledgements of all its members.

**At rest.** `RestMeansHandled` (twice), `RestMeansRun`, `RestMeansWritten`, `RestMeansFresh` and `SleepsWhenServed` are
the safety half of the liveness properties: where no step is left that the scheduler owes, what was
promised has happened, so no thread waits for another for good. `AtRest` writes out what no step being
enabled means; TLC finds it equivalent to the negated ENABLED of the fair actions in `imconn`,
`threadpool` and `websocket`. What remains to TLC is that, with the fairness of section 3, the rest is
reached or the promise kept before.

Out of the prover's reach, and left to TLC: liveness under fairness (every property with `~>` or
`<>`), statements with ENABLED, and induction over data (what a recursive function computes for every
input).

## 5. Not modelled

The limits of the modelled parts: the Windows and Apple branches; socket options, addresses and getters;
formatting and display of logs, the synchronous build of log4z, month directories and sizes, a second
start; the allocation inside `CSimpleBuffer`, and `CByteStream`; the map of connections with
`imconn_callback`'s reference (the reactor's callbacks stand for it); heartbeats of the WebSocket server,
whose time nobody reads; three of the four kinds of words, which have the code of the one modelled, but that
the monitor reloads no live words; that uWS may call `onDisconnection` from
within `close`, on the thread that closes (in the model it comes later, from the listener); timers with an interval
of zero, for which two timers that re-add themselves keep a walk going; a failed `pthread_create` of a worker
beyond what `EveryTaskRuns` excepts; an `accept` that runs out of descriptors.

What nothing in the repository calls, so that its use could only be invented: `CThreadPool::Destory`,
`CRefObject::SetLock`, `CThread` and `CEventThread` with `StartThread`, `CCondition::waitTime`, `CTimer`
(`thread/timer.h`), the templates of `ServInfo.h`, whose connection classes are elsewhere, `idtourl` and
`urltoid`, `uWebSocketServer::terminated`.

What does not compile or is a fragment: `socket_sever/server.cc`, `src/base/thread/*.c`,
`utils/redis_lock.cc`. `logger/uWebSocketServer_bk` is a copy.

Sequential algorithms on data without state that outlives a call: the trie and the dynamic programmes of
`segment`, codecs, configuration files, strings, the callbacks that collect an HTTP request.

Vendored and generated code (`http_parser`, `jsonxx`, `jsoncpp`, `ex3`, `pb`), headers of binary libraries
and wrappers of libcurl and log4cxx; the generated `pb` alone is most of the repository's lines.
`PROJECT.json` lists every component with its status.
