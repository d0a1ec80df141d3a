------------------------------- MODULE NetLib -------------------------------
(***************************************************************************)
(* The reactor of libbase on Linux: netlib.cpp (the C interface),          *)
(* BaseSocket.cpp (one reference counted object per descriptor, found      *)
(* through g_socket_map) and the epoll loop of EventDispatch.cpp.          *)
(*                                                                         *)
(* Everything runs on the thread that called netlib_eventloop.  The kernel *)
(* changes the readiness of a descriptor at any time; epoll is edge        *)
(* triggered, and epoll_wait hands over a batch whose events are           *)
(* dispatched one after the other while the callbacks of the application   *)
(* close and open handles.                                                 *)
(***************************************************************************)
EXTENDS Naturals, FiniteSets

CONSTANTS
  Objs,          \* addresses of CBaseSocket objects (reused after delete)
  Fds,           \* descriptors of the process (reused after close)
  None,          \* no object, no descriptor, no callback running
  MaxEvents,     \* size of the array given to epoll_wait (1024 in the code)
  MaxAvail,      \* bound: unread chunks of a connection, backlog of a listener
  MaxNullOpts,   \* bound: objects netlib_option is called for with a null
                 \* result pointer (once each)
  MaxListeners,  \* bound: sockets opened by netlib_listen
  AddEventMayFail, \* may epoll_ctl(EPOLL_CTL_ADD) fail?
  CloseOwnIn,    \* callbacks in which the application may close the handle
                 \* it is called for
  CloseAnyIn,    \* callbacks in which it may close any of its handles
  ConnectIn,     \* callbacks in which it may call netlib_connect; "MAIN" is
                 \* main() before the loop
  MaxUrgent,     \* bound: descriptors with urgent data at a time
  LikeImConn,    \* does it, as a CImConn, read until nothing is left when
                 \* told READ and close the handle when told CLOSE?
  MayStop        \* may it call netlib_stop_event?

Flags == {"IN", "OUT", "EXC"}           \* EXC: EPOLLPRI, EPOLLERR or EPOLLHUP
Msgs  == {"CONNECT", "CONFIRM", "READ", "WRITE", "CLOSE", "TIMER"}
SocketStates == {"IDLE", "LISTENING", "CONNECTING", "CONNECTED", "CLOSING"}
KernelStates == {"closed", "listen", "syn", "est", "eof", "reset"}

\* A callback of the application that is running: what it was told, about
\* which handle, and whether it has read all there was.
Frames == [msg : Msgs, fd : Fds \cup {None}, drained : BOOLEAN]

ASSUME NetLibAssumption ==
  /\ None \notin Objs /\ None \notin Fds /\ None \notin Frames
  /\ MaxEvents \in Nat \ {0}
  /\ MaxAvail \in Nat /\ MaxNullOpts \in Nat
  /\ MaxListeners \in Nat /\ MaxUrgent \in Nat
  /\ CloseOwnIn \subseteq Msgs /\ CloseAnyIn \subseteq Msgs
  /\ ConnectIn \subseteq Msgs \cup {"MAIN"}
  /\ AddEventMayFail \in BOOLEAN
  /\ LikeImConn \in BOOLEAN /\ MayStop \in BOOLEAN

VARIABLES
  g_socket_map,  \* hash_map: descriptor -> object
  m_state,       \* per object: its SOCKET_STATE
  m_socket,      \* per object: its descriptor (kept after Close)
  m_refCount,    \* per object: references, 0 once deleted
  leaked,        \* per object: references nobody will release
  running,       \* CEventDispatch::running
  pc,            \* where StartDispatch is
  events,        \* rest of the batch: descriptor -> flags, {} when absent
  pSocket,       \* the object being served
  flags,         \* the flags of the event being served
  cb,            \* the callback of the application that is running
  conns,         \* application: handle -> the object it was opened with
  kst,           \* kernel: state of each descriptor
  avail,         \* kernel: unread chunks, or connections to accept
  urgent,        \* kernel: descriptors with urgent data not yet passed
  epoll,         \* kernel: registered descriptors
  rdy            \* kernel: ready list of the edge triggered epoll

objVars  == <<g_socket_map, m_state, m_socket, m_refCount, leaked>>
loopVars == <<running, pc, events, pSocket, flags>>
kernVars == <<kst, avail, urgent, epoll, rdy>>
vars     == <<objVars, loopVars, cb, conns, kernVars>>

-----------------------------------------------------------------------------
(* The kernel, as far as this library relies on it.                        *)

\* What epoll reports for a descriptor at this moment (EPOLLRDHUP is not
\* requested, so an orderly shutdown of the peer is only readable; EPOLLPRI is,
\* so urgent data on a healthy connection is reported as an error would be).
Mask(fd) ==
  {x \in Flags :
     \/ x = "IN" /\ (\/ kst[fd] \in {"eof", "reset"}
                     \/ kst[fd] \in {"listen", "est"} /\ avail[fd] > 0)
     \/ x = "OUT" /\ kst[fd] \in {"est", "eof", "reset"}
     \/ x = "EXC" /\ (\/ kst[fd] = "reset"
                      \/ kst[fd] \in {"est", "eof"} /\ fd \in urgent)}

\* FIONREAD finds nothing: it fails, or counts nothing; what lies behind unread
\* urgent data may not be counted.
Drained(fd) ==
  {kst[fd] \in {"closed", "listen"} \/ avail[fd] = 0}
    \cup (IF fd \in urgent THEN {TRUE} ELSE {})

\* An edge puts a registered descriptor on the ready list.
Edge(fd) == rdy' = IF fd \in epoll THEN rdy \cup {fd} ELSE rdy

KernelStep(fd, from, to) ==
  /\ kst[fd] \in from
  /\ kst' = [kst EXCEPT ![fd] = to]
  /\ Edge(fd)
  /\ UNCHANGED <<objVars, loopVars, cb, conns, epoll>>

\* The handshake of an outgoing connection ends.
KEstablish(fd) == KernelStep(fd, {"syn"}, "est") /\ UNCHANGED <<avail, urgent>>

\* Refused or reset; what was received before may be lost with it.
KReset(fd) ==
  /\ KernelStep(fd, {"syn", "est", "eof"}, "reset")
  /\ avail' \in {avail, [avail EXCEPT ![fd] = 0]}
  /\ UNCHANGED urgent

KPeerClose(fd) == KernelStep(fd, {"est"}, "eof") /\ UNCHANGED <<avail, urgent>>

\* Data arrives on a connection, or a connection on a listener.
KArrive(fd) ==
  /\ avail[fd] < MaxAvail
  /\ avail' = [avail EXCEPT ![fd] = @ + 1]
  /\ \E s \in {"est", "listen"} : KernelStep(fd, {s}, s)
  /\ UNCHANGED urgent

KUrgent(fd) ==
  /\ Cardinality(urgent \ {fd}) < MaxUrgent
  /\ KernelStep(fd, {"est"}, "est")
  /\ urgent' = urgent \cup {fd}
  /\ UNCHANGED avail

-----------------------------------------------------------------------------
(* CBaseSocket and g_socket_map                                            *)

Live(o)  == m_refCount[o] > 0
InMap(o) == \E fd \in Fds : g_socket_map[fd] = o

AddRef(o) == m_refCount' = [m_refCount EXCEPT ![o] = @ + 1]

\* The last release deletes the object, and its fields with it.
ReleaseRef(o) ==
  /\ m_refCount' = [m_refCount EXCEPT ![o] = @ - 1]
  /\ IF m_refCount[o] > 1
     THEN UNCHANGED <<m_state, m_socket>>
     ELSE /\ m_state' = [m_state EXCEPT ![o] = "IDLE"]
          /\ m_socket' = [m_socket EXCEPT ![o] = None]

\* new CBaseSocket() on descriptor fd, AddBaseSocket and AddEvent.  The
\* insert of hash_map leaves an entry that is already there.
Open(o, fd, state, kernel) ==
  /\ ~Live(o) /\ kst[fd] = "closed"
  /\ m_refCount' = [m_refCount EXCEPT ![o] = 1]
  /\ m_state' = [m_state EXCEPT ![o] = state]
  /\ m_socket' = [m_socket EXCEPT ![o] = fd]
  /\ g_socket_map' = [g_socket_map EXCEPT ![fd] = IF @ = None THEN o ELSE @]
  /\ kst' = [kst EXCEPT ![fd] = kernel]
  /\ \/ /\ epoll' = epoll \cup {fd}
        /\ rdy' = IF kernel = "est" THEN rdy \cup {fd} ELSE rdy
     \/ AddEventMayFail /\ UNCHANGED <<epoll, rdy>>
  /\ UNCHANGED <<leaked, urgent>>

\* Mutants of CloseSocket: RemoveBaseSocket is forgotten; only the descriptor
\* is closed.
CloseSocket_NoRemove(o) ==
  LET fd == m_socket[o] IN
  /\ epoll' = epoll \ {fd} /\ rdy' = rdy \ {fd}
  /\ kst' = [kst EXCEPT ![fd] = "closed"]
  /\ avail' = [avail EXCEPT ![fd] = 0] /\ urgent' = urgent \ {fd}
  /\ ReleaseRef(o)
  /\ UNCHANGED <<g_socket_map, leaked>>

CloseSocket_OnlyDescriptor(o) ==
  LET fd == m_socket[o] IN
  /\ epoll' = epoll \ {fd} /\ rdy' = rdy \ {fd}
  /\ kst' = [kst EXCEPT ![fd] = "closed"]
  /\ avail' = [avail EXCEPT ![fd] = 0] /\ urgent' = urgent \ {fd}
  /\ UNCHANGED objVars

\* CBaseSocket::Close, with the reference netlib_close took and gives back.
CloseSocket(o) ==
  LET fd == m_socket[o] IN
  /\ epoll' = epoll \ {fd}
  /\ rdy' = rdy \ {fd}
  /\ g_socket_map' = [g_socket_map EXCEPT ![fd] = None]
  /\ kst' = [kst EXCEPT ![fd] = "closed"]
  /\ avail' = [avail EXCEPT ![fd] = 0] /\ urgent' = urgent \ {fd}
  /\ ReleaseRef(o)
  /\ UNCHANGED leaked

\* m_callback(m_callback_data, msg, m_socket): the application now runs.
Callback(msg, fd) == cb' = [msg |-> msg, fd |-> fd, drained |-> FALSE]

-----------------------------------------------------------------------------
(* The application: code that runs in a callback, or in main() before the  *)
(* loop.  It only uses handles it was given and has not closed, as         *)
(* imconn.cpp does through its connection map.                             *)

In(kinds) == cb # None /\ cb.msg \in kinds
InMain    == pc = "stopped" /\ cb = None

\* netlib_listen, called from main().
netlib_listen(o, fd) ==
  /\ InMain
  /\ Cardinality({x \in Fds : kst[x] = "listen"}) < MaxListeners
  /\ Open(o, fd, "LISTENING", "listen")
  /\ UNCHANGED <<loopVars, cb, conns, avail>>

\* netlib_connect: the application files the connection under the handle.
\* A failing socket() or connect() leaves nothing behind.
netlib_connect(o, fd) ==
  /\ (InMain /\ "MAIN" \in ConnectIn) \/ In(ConnectIn)
  /\ Open(o, fd, "CONNECTING", "syn")
  /\ conns' = [conns EXCEPT ![fd] = o]
  /\ UNCHANGED <<loopVars, cb, avail>>

\* netlib_close(h); the application forgets the handle.
netlib_close(h) ==
  /\ conns[h] # None
  /\ In(CloseAnyIn) \/ (In(CloseOwnIn) /\ cb.fd = h)
  /\ IF g_socket_map[h] = None
     THEN UNCHANGED <<objVars, kernVars>>
     ELSE CloseSocket(g_socket_map[h])
  /\ conns' = [conns EXCEPT ![h] = None]
  /\ UNCHANGED <<loopVars, cb>>

\* netlib_recv until it returns no more, as CImConn::OnRead does; that may pass
\* the urgent data.
netlib_recv(h) ==
  /\ In({"READ"}) /\ cb.fd = h /\ conns[h] # None
  /\ g_socket_map[h] # None
  /\ LET fd == m_socket[g_socket_map[h]]
     IN  /\ avail' = [avail EXCEPT ![fd] = 0]
         /\ urgent' \in {urgent, urgent \ {fd}}
  /\ cb' = [cb EXCEPT !.drained = TRUE]
  /\ UNCHANGED <<objVars, loopVars, conns, kst, epoll, rdy>>

\* netlib_option with a GET option and no place for the result returns
\* without releasing the reference FindBaseSocket took.
netlib_option_null(h) ==
  LET o == g_socket_map[h] IN
  /\ cb # None /\ conns[h] # None /\ o # None
  /\ leaked[o] = 0 /\ Cardinality({x \in Objs : leaked[x] > 0}) < MaxNullOpts
  /\ AddRef(o)
  /\ leaked' = [leaked EXCEPT ![o] = @ + 1]
  /\ UNCHANGED <<g_socket_map, m_state, m_socket, loopVars, cb, conns, kernVars>>

netlib_stop_event ==
  /\ MayStop /\ cb # None
  /\ running' = FALSE
  /\ UNCHANGED <<objVars, pc, events, pSocket, flags, cb, conns, kernVars>>

CallbackReturn ==
  /\ cb # None
  /\ (LikeImConn /\ cb.msg \in {"READ", "CLOSE"}) =>
       conns[cb.fd] = None \/ (cb.msg = "READ" /\ cb.drained)
  /\ cb' = None
  /\ UNCHANGED <<objVars, loopVars, conns, kernVars>>

-----------------------------------------------------------------------------
(* CEventDispatch::StartDispatch and the handlers it calls                 *)

At(l) == pc = l /\ cb = None
GoTo(l) == pc' = l

StartDispatch ==
  /\ At("stopped") /\ ~running
  /\ running' = TRUE
  /\ GoTo("wait")
  /\ UNCHANGED <<objVars, events, pSocket, flags, cb, conns, kernVars>>

StopLoop ==
  /\ At("wait") /\ ~running
  /\ GoTo("stopped")
  /\ UNCHANGED <<objVars, running, events, pSocket, flags, cb, conns, kernVars>>

\* epoll_wait takes up to MaxEvents descriptors off the ready list and
\* reports their current mask; with none it times out.
EpollWait ==
  /\ At("wait") /\ running
  /\ \E R \in SUBSET rdy :
       /\ R = rdy \/ (Cardinality(rdy) > MaxEvents /\ Cardinality(R) = MaxEvents)
       /\ events' = [fd \in Fds |-> IF fd \in R THEN Mask(fd) ELSE {}]
       /\ rdy' = rdy \ R
  /\ GoTo("event")
  /\ UNCHANGED <<objVars, running, pSocket, flags, cb, conns, kst, avail, urgent, epoll>>

\* Mutants of TakeEvent: the object is used without a reference; EPOLLERR and
\* EPOLLHUP get no treatment of their own.
TakeEvent_NoAddRef(fd) ==
  LET o == g_socket_map[fd] IN
  /\ At("event") /\ events[fd] # {}
  /\ events' = [events EXCEPT ![fd] = {}]
  /\ IF o = None
     THEN UNCHANGED <<pc, pSocket, flags>>
     ELSE /\ pSocket' = o
          /\ flags' = events[fd]
          /\ GoTo(IF "EXC" \in events[fd] THEN "close" ELSE "write")
  /\ UNCHANGED <<objVars, running, cb, conns, kernVars>>

TakeEvent_NoExc(fd) ==
  LET o == g_socket_map[fd] IN
  /\ At("event") /\ events[fd] # {}
  /\ events' = [events EXCEPT ![fd] = {}]
  /\ IF o = None
     THEN UNCHANGED <<m_refCount, pc, pSocket, flags>>
     ELSE AddRef(o) /\ pSocket' = o /\ flags' = events[fd] /\ GoTo("write")
  /\ UNCHANGED <<g_socket_map, m_state, m_socket, leaked, running, cb, conns,
                 kernVars>>

\* The next event of the batch, in the order of the array (any order here).
\* FindBaseSocket: a descriptor without an object is skipped.
TakeEvent(fd) ==
  LET o == g_socket_map[fd] IN
  /\ At("event") /\ events[fd] # {}
  /\ events' = [events EXCEPT ![fd] = {}]
  /\ IF o = None
     THEN UNCHANGED <<m_refCount, pc, pSocket, flags>>
     ELSE /\ AddRef(o)
          /\ pSocket' = o
          /\ flags' = events[fd]
          /\ GoTo(IF "EXC" \in events[fd] THEN "close" ELSE "write")
  /\ UNCHANGED <<g_socket_map, m_state, m_socket, leaked, running, cb, conns,
                 kernVars>>

\* Mutant of OnClose: the dispatcher continues without ReleaseRef.
OnClose_NoRelease ==
  /\ At("close")
  /\ m_state' = [m_state EXCEPT ![pSocket] = "CLOSING"]
  /\ Callback("CLOSE", m_socket[pSocket])
  /\ GoTo("event") /\ pSocket' = None
  /\ UNCHANGED <<g_socket_map, m_socket, m_refCount, leaked, running, events,
                 flags, conns, kernVars>>

OnClose ==
  /\ At("close")
  /\ m_state' = [m_state EXCEPT ![pSocket] = "CLOSING"]
  /\ Callback("CLOSE", m_socket[pSocket])
  /\ GoTo("release")
  /\ UNCHANGED <<g_socket_map, m_socket, m_refCount, leaked, running, events,
                 pSocket, flags, conns, kernVars>>

\* Mutants of OnWrite: the state stays CONNECTING; EPOLLIN only in the else
\* branch of EPOLLOUT.
OnWrite_NoState ==
  LET fd == m_socket[pSocket] IN
  /\ At("write")
  /\ GoTo("read")
  /\ IF "OUT" \notin flags THEN UNCHANGED cb
     ELSE Callback(IF m_state[pSocket] # "CONNECTING" THEN "WRITE"
                   ELSE IF kst[fd] = "reset" THEN "CLOSE" ELSE "CONFIRM", fd)
  /\ UNCHANGED <<objVars, running, events, pSocket, flags, conns, kernVars>>

OnWrite_ElseRead ==
  LET fd == m_socket[pSocket] IN
  /\ At("write")
  /\ GoTo(IF "OUT" \in flags THEN "release" ELSE "read")
  /\ IF "OUT" \notin flags
     THEN UNCHANGED <<m_state, cb>>
     ELSE IF m_state[pSocket] # "CONNECTING"
     THEN Callback("WRITE", fd) /\ UNCHANGED m_state
     ELSE IF kst[fd] = "reset"
     THEN Callback("CLOSE", fd) /\ UNCHANGED m_state
     ELSE /\ m_state' = [m_state EXCEPT ![pSocket] = "CONNECTED"]
          /\ Callback("CONFIRM", fd)
  /\ UNCHANGED <<g_socket_map, m_socket, m_refCount, leaked, running, events,
                 pSocket, flags, conns, kernVars>>

\* EPOLLOUT: the end of a connect (SO_ERROR decides), or room to send.
OnWrite ==
  LET fd == m_socket[pSocket] IN
  /\ At("write")
  /\ GoTo("read")
  /\ IF "OUT" \notin flags
     THEN UNCHANGED <<m_state, cb>>
     ELSE IF m_state[pSocket] # "CONNECTING"
     THEN Callback("WRITE", fd) /\ UNCHANGED m_state
     ELSE IF kst[fd] = "reset"
     THEN Callback("CLOSE", fd) /\ UNCHANGED m_state
     ELSE /\ m_state' = [m_state EXCEPT ![pSocket] = "CONNECTED"]
          /\ Callback("CONFIRM", fd)
  /\ UNCHANGED <<g_socket_map, m_socket, m_refCount, leaked, running, events,
                 pSocket, flags, conns, kernVars>>

\* Mutants of OnRead: called for every event; FIONREAD is not consulted.
OnRead_AnyEvent ==
  LET fd == m_socket[pSocket] IN
  /\ At("read")
  /\ IF m_state[pSocket] = "LISTENING"
     THEN GoTo("accept") /\ UNCHANGED cb
     ELSE /\ GoTo("release")
          /\ \E none \in Drained(fd) : Callback(IF none THEN "CLOSE" ELSE "READ", fd)
  /\ UNCHANGED <<objVars, running, events, pSocket, flags, conns, kernVars>>

OnRead_NoAvailCheck ==
  /\ At("read")
  /\ IF "IN" \notin flags
     THEN GoTo("release") /\ UNCHANGED cb
     ELSE IF m_state[pSocket] = "LISTENING"
     THEN GoTo("accept") /\ UNCHANGED cb
     ELSE GoTo("release") /\ Callback("READ", m_socket[pSocket])
  /\ UNCHANGED <<objVars, running, events, pSocket, flags, conns, kernVars>>

\* EPOLLIN: new connections, data, or (FIONREAD says nothing) the end.
\* m_socket may have been closed, and even reused, by the WRITE or CONFIRM
\* callback of the same event.
OnRead ==
  LET fd == m_socket[pSocket] IN
  /\ At("read")
  /\ IF "IN" \notin flags
     THEN GoTo("release") /\ UNCHANGED cb
     ELSE IF m_state[pSocket] = "LISTENING"
     THEN GoTo("accept") /\ UNCHANGED cb
     ELSE /\ GoTo("release")
          /\ \E none \in Drained(fd) : Callback(IF none THEN "CLOSE" ELSE "READ", fd)
  /\ UNCHANGED <<objVars, running, events, pSocket, flags, conns, kernVars>>

\* Mutant of _AcceptNewSocket: one connection per event.
_AcceptNewSocket_Once(o, fd) ==
  LET l == m_socket[pSocket] IN
  /\ At("accept") /\ kst[l] = "listen" /\ avail[l] > 0
  /\ Open(o, fd, "CONNECTED", "est")
  /\ avail' = [avail EXCEPT ![l] = @ - 1]
  /\ conns' = [conns EXCEPT ![fd] = o]
  /\ Callback("CONNECT", fd)
  /\ GoTo("release")
  /\ UNCHANGED <<running, events, pSocket, flags>>

\* One turn of the accept loop; the CONNECT callback files the connection.
_AcceptNewSocket(o, fd) ==
  LET l == m_socket[pSocket] IN
  /\ At("accept") /\ kst[l] = "listen" /\ avail[l] > 0
  /\ Open(o, fd, "CONNECTED", "est")
  /\ avail' = [avail EXCEPT ![l] = @ - 1]
  /\ conns' = [conns EXCEPT ![fd] = o]
  /\ Callback("CONNECT", fd)
  /\ UNCHANGED loopVars

\* accept fails: nothing is left in the backlog, or no descriptor is free.
AcceptEnd ==
  LET l == m_socket[pSocket] IN
  /\ At("accept")
  /\ kst[l] # "listen" \/ avail[l] = 0 \/ \A fd \in Fds : kst[fd] # "closed"
  /\ GoTo("release")
  /\ UNCHANGED <<objVars, running, events, pSocket, flags, cb, conns, kernVars>>

ReleaseEvent ==
  /\ At("release")
  /\ ReleaseRef(pSocket)
  /\ pSocket' = None
  /\ flags' = {}
  /\ GoTo("event")
  /\ UNCHANGED <<g_socket_map, leaked, running, events, cb, conns, kernVars>>

\* Mutant of CheckTimers: timers are checked between two events of a batch.
CheckTimers_InBatch ==
  /\ At("event")
  /\ GoTo(IF \A fd \in Fds : events[fd] = {} THEN "wait" ELSE "event")
  /\ \/ UNCHANGED cb
     \/ Callback("TIMER", None)
  /\ UNCHANGED <<objVars, running, events, pSocket, flags, conns, kernVars>>

\* After the batch: _CheckTimer and _CheckLoop, with or without a callback
\* that is due.
CheckTimers ==
  /\ At("event") /\ \A fd \in Fds : events[fd] = {}
  /\ GoTo("wait")
  /\ \/ UNCHANGED cb
     \/ Callback("TIMER", None)
  /\ UNCHANGED <<objVars, running, events, pSocket, flags, conns, kernVars>>

-----------------------------------------------------------------------------
Init ==
  /\ g_socket_map = [fd \in Fds |-> None]
  /\ m_state = [o \in Objs |-> "IDLE"]
  /\ m_socket = [o \in Objs |-> None]
  /\ m_refCount = [o \in Objs |-> 0]
  /\ leaked = [o \in Objs |-> 0]
  /\ running = FALSE
  /\ pc = "stopped"
  /\ events = [fd \in Fds |-> {}]
  /\ pSocket = None
  /\ flags = {}
  /\ cb = None
  /\ conns = [fd \in Fds |-> None]
  /\ kst = [fd \in Fds |-> "closed"]
  /\ avail = [fd \in Fds |-> 0]
  /\ urgent = {}
  /\ epoll = {}
  /\ rdy = {}

Dispatch ==
  \/ StartDispatch \/ StopLoop \/ EpollWait
  \/ \E fd \in Fds : TakeEvent(fd)
  \/ OnClose \/ OnWrite \/ OnRead
  \/ \E o \in Objs, fd \in Fds : _AcceptNewSocket(o, fd)
  \/ AcceptEnd \/ ReleaseEvent \/ CheckTimers

Application ==
  \/ \E o \in Objs, fd \in Fds : netlib_listen(o, fd) \/ netlib_connect(o, fd)
  \/ \E h \in Fds : netlib_close(h) \/ netlib_recv(h) \/ netlib_option_null(h)
  \/ netlib_stop_event
  \/ CallbackReturn

Kernel ==
  \E fd \in Fds : KEstablish(fd) \/ KReset(fd) \/ KPeerClose(fd)
               \/ KArrive(fd) \/ KUrgent(fd)

Next == Dispatch \/ Application \/ Kernel

Spec == Init /\ [][Next]_vars

\* The thread of the loop keeps running (epoll_wait has a timeout), a callback
\* returns, and an application that owes a read or a close performs it.
Fairness ==
  /\ WF_vars(Dispatch)
  /\ WF_vars(CallbackReturn)
  /\ WF_vars(\E h \in Fds : netlib_recv(h))
  /\ WF_vars(\E h \in Fds : In({"CLOSE"}) /\ netlib_close(h))

FairSpec == Spec /\ Fairness

-----------------------------------------------------------------------------
(* Properties                                                              *)

\* Types of all variables.
TypeOK ==
  /\ g_socket_map \in [Fds -> Objs \cup {None}]
  /\ m_state \in [Objs -> SocketStates]
  /\ m_socket \in [Objs -> Fds \cup {None}]
  /\ m_refCount \in [Objs -> Nat]
  /\ leaked \in [Objs -> 0 .. 1]
  /\ running \in BOOLEAN
  /\ pc \in {"stopped", "wait", "event", "close", "write", "read", "accept",
             "release"}
  /\ events \in [Fds -> SUBSET Flags]
  /\ pSocket \in Objs \cup {None}
  /\ flags \in SUBSET Flags
  /\ cb \in Frames \cup {None}
  /\ conns \in [Fds -> Objs \cup {None}]
  /\ kst \in [Fds -> KernelStates]
  /\ avail \in [Fds -> 0 .. MaxAvail]
  /\ urgent \in SUBSET Fds
  /\ epoll \in SUBSET Fds
  /\ rdy \in SUBSET epoll

\* Use after free never happens: g_socket_map and the dispatcher only hold
\* objects that have not been deleted, whatever the callbacks close.
PointersLive ==
  /\ \A fd \in Fds : g_socket_map[fd] # None => Live(g_socket_map[fd])
  /\ pSocket # None => Live(pSocket)

\* The reference count is exact: one for the map, one for the event being
\* served, and those netlib_option lost.  So an object that is in neither
\* place is deleted, except after the early return of netlib_option.
RefsAccounted ==
  \A o \in Objs :
    m_refCount[o] = leaked[o] + (IF InMap(o) THEN 1 ELSE 0)
                              + (IF pSocket = o THEN 1 ELSE 0)

\* A handle means the same socket to the map, to the object, to epoll and to
\* the application: an entry of the map is an open descriptor of that very
\* object, every open descriptor has one, and no reuse of a number slips in
\* between.
HandlesAgree ==
  \A fd \in Fds :
    /\ g_socket_map[fd] # None => m_socket[g_socket_map[fd]] = fd
    /\ g_socket_map[fd] = None <=> kst[fd] = "closed"
    /\ fd \in epoll => g_socket_map[fd] # None
    /\ conns[fd] # None => conns[fd] = g_socket_map[fd]

\* A callback about an open handle comes from the socket the application got
\* that handle for, not from an earlier one with the same number.
NoMisdelivery ==
  (cb # None /\ cb.msg \notin {"TIMER", "CONNECT"} /\ conns[cb.fd] # None)
    => conns[cb.fd] = pSocket

\* CONFIRM is only reported when the handshake is over.
ConfirmMeansEstablished ==
  (cb # None /\ cb.msg = "CONFIRM") => kst[cb.fd] # "syn"

\* Data and room to send are only reported on a connection that was confirmed
\* or accepted.
ReadAfterConfirm ==
  (cb # None /\ cb.msg \in {"READ", "WRITE"}) => m_state[pSocket] = "CONNECTED"

\* "Nothing to read" is only taken for the end of a connection that ended: CLOSE
\* is reported at the end of stream, after an error and for urgent data, which the
\* dispatcher treats as one, and on no other connection.
NoSpuriousClose ==
  (cb # None /\ cb.msg = "CLOSE" /\ conns[cb.fd] # None)
    => kst[cb.fd] \in {"eof", "reset"} \/ cb.fd \in urgent

\* Every connection waiting in the backlog is accepted although the listener
\* is only reported once, as long as descriptors do not run out.
BacklogAccepted ==
  [](\E fd \in Fds : kst[fd] = "closed") =>
    \A l \in Fds : (kst[l] = "listen" /\ avail[l] > 0) ~>
                    (kst[l] # "listen" \/ avail[l] = 0)

\* Whatever arrives on a connection is read, or the connection is given up.
DataRead ==
  \A fd \in Fds : (kst[fd] \in {"est", "eof"} /\ avail[fd] > 0) ~>
                   (kst[fd] \in {"closed", "reset"} \/ avail[fd] = 0)

\* A connect that ended, well or badly, is reported.
ConnectReported ==
  \A fd \in Fds :
    LET connecting == /\ g_socket_map[fd] # None
                      /\ m_state[g_socket_map[fd]] = "CONNECTING"
    IN  (connecting /\ kst[fd] # "syn") ~> ~connecting

\* A connection that was reset ends up closed.
ResetClosed == \A fd \in Fds : kst[fd] = "reset" ~> kst[fd] = "closed"

\* An end of stream with nothing unread whose edge epoll has not delivered yet
\* is reported; one that shares its edge with data is not.
EofEdgeReported ==
  \A fd \in Fds : (kst[fd] = "eof" /\ avail[fd] = 0 /\ fd \in rdy) ~>
                   kst[fd] \in {"closed", "reset"}

=============================================================================
