---------------------------- MODULE NetLibProofs ----------------------------
(***************************************************************************)
(* Proofs about NetLib, for any number of descriptors and objects and any  *)
(* behaviour of the application's callbacks.                               *)
(***************************************************************************)
EXTENDS NetLib, TLAPS

Serving == {"close", "write", "read", "accept", "release"}

\* The dispatcher refers to an object exactly while it serves an event.
ServedWhileBusy == pSocket # None <=> pc \in Serving

\* The inductive invariant: reference counts stay exact because a handle
\* stands for one object only, and a new socket never meets an old entry of
\* g_socket_map because the entries are the open descriptors.
IInv == TypeOK /\ RefsAccounted /\ HandlesAgree /\ ServedWhileBusy

-----------------------------------------------------------------------------
\* An entry of the map belongs to one descriptor only.
LEMMA MapInjective ==
  ASSUME TypeOK, HandlesAgree, NEW f \in Fds, NEW g \in Fds,
         g_socket_map[f] # None, g_socket_map[f] = g_socket_map[g]
  PROVE  f = g
  BY DEF HandlesAgree

\* Exact counts keep whatever is referred to alive.
LEMMA CountedIsLive ==
  ASSUME TypeOK, RefsAccounted
  PROVE  PointersLive
<1> SUFFICES ASSUME NEW o \in Objs, InMap(o) \/ pSocket = o
             PROVE  Live(o)
  BY NetLibAssumption DEF TypeOK, PointersLive, InMap
<1> m_refCount[o] \in Nat /\ leaked[o] \in Nat
  BY DEF TypeOK
<1> QED
  BY DEF RefsAccounted, Live

\* Opening a socket (listen, connect, accept) preserves the object part.
LEMMA OpenStep ==
  ASSUME IInv, NEW o \in Objs, NEW fd \in Fds, NEW state \in SocketStates,
         NEW kernel \in KernelStates \ {"closed"},
         Open(o, fd, state, kernel), pSocket' = pSocket,
         conns' = conns \/ conns' = [conns EXCEPT ![fd] = o]
  PROVE  /\ RefsAccounted' /\ HandlesAgree'
         /\ g_socket_map' \in [Fds -> Objs \cup {None}]
         /\ m_state' \in [Objs -> SocketStates]
         /\ m_socket' \in [Objs -> Fds \cup {None}]
         /\ m_refCount' \in [Objs -> Nat]
         /\ leaked' \in [Objs -> 0 .. 1]
         /\ conns' \in [Fds -> Objs \cup {None}]
         /\ kst' \in [Fds -> KernelStates] /\ urgent' = urgent
         /\ epoll' \in SUBSET Fds /\ rdy' \in SUBSET epoll'
<1> USE NetLibAssumption DEF IInv
<1>1. g_socket_map[fd] = None /\ ~Live(o) /\ ~InMap(o) /\ pSocket # o
  <2>1. m_refCount[o] = 0 /\ leaked[o] \in Nat
    BY DEF Open, Live, TypeOK
  <2>2. QED
    BY <2>1 DEF Open, HandlesAgree, RefsAccounted, Live
<1>2. g_socket_map' = [g_socket_map EXCEPT ![fd] = o]
  BY <1>1 DEF Open, TypeOK
<1>3. \A x \in Objs : InMap(x)' <=> (InMap(x) \/ x = o)
  BY <1>1, <1>2 DEF InMap, TypeOK
<1>4. RefsAccounted'
  <2> SUFFICES ASSUME NEW x \in Objs
               PROVE  m_refCount'[x] = leaked'[x] + (IF InMap(x)' THEN 1 ELSE 0)
                                       + (IF pSocket' = x THEN 1 ELSE 0)
    BY DEF RefsAccounted
  <2>1. leaked[x] \in Nat /\ m_refCount[x] \in Nat
    BY DEF TypeOK
  <2>2. CASE x = o
    <3>1. leaked[o] = 0
      BY <1>1, <2>1, <2>2 DEF RefsAccounted, Live
    <3>2. QED
      BY <1>1, <1>3, <2>2, <3>1 DEF Open, TypeOK
  <2>3. CASE x # o
    BY <1>3, <2>1, <2>3 DEF Open, RefsAccounted, TypeOK
  <2>4. QED
    BY <2>2, <2>3
<1>5. HandlesAgree'
  <2> SUFFICES ASSUME NEW f \in Fds
               PROVE  /\ g_socket_map'[f] # None => m_socket'[g_socket_map'[f]] = f
                      /\ g_socket_map'[f] = None <=> kst'[f] = "closed"
                      /\ f \in epoll' => g_socket_map'[f] # None
                      /\ conns'[f] # None => conns'[f] = g_socket_map'[f]
    BY DEF HandlesAgree
  <2>1. CASE f = fd
    BY <1>1, <1>2, <2>1 DEF Open, TypeOK, HandlesAgree
  <2>2. CASE f # fd
    <3>1. g_socket_map[f] # o
      BY <1>1 DEF InMap
    <3>2. QED
      BY <1>2, <2>2, <3>1 DEF Open, TypeOK, HandlesAgree
  <2>3. QED
    BY <2>1, <2>2
<1>6. QED
  BY <1>2, <1>4, <1>5 DEF Open, TypeOK

\* Closing a handle that is in the map preserves the object part.
LEMMA CloseStep ==
  ASSUME IInv, NEW h \in Fds, g_socket_map[h] # None,
         CloseSocket(g_socket_map[h]), pSocket' = pSocket,
         conns' = [conns EXCEPT ![h] = None]
  PROVE  /\ RefsAccounted' /\ HandlesAgree'
         /\ g_socket_map' \in [Fds -> Objs \cup {None}]
         /\ m_state' \in [Objs -> SocketStates]
         /\ m_socket' \in [Objs -> Fds \cup {None}]
         /\ m_refCount' \in [Objs -> Nat]
         /\ leaked' \in [Objs -> 0 .. 1]
         /\ conns' \in [Fds -> Objs \cup {None}]
         /\ kst' \in [Fds -> KernelStates]
         /\ avail' \in [Fds -> 0 .. MaxAvail] /\ urgent' \in SUBSET Fds
         /\ epoll' \in SUBSET Fds /\ rdy' \in SUBSET epoll'
<1> USE NetLibAssumption DEF IInv
<1> DEFINE o == g_socket_map[h]
<1>1. o \in Objs /\ m_socket[o] = h /\ InMap(o)
  BY DEF TypeOK, HandlesAgree, InMap
<1>2. m_refCount[o] \in Nat /\ leaked[o] \in Nat /\ m_refCount[o] >= 1
  BY <1>1 DEF TypeOK, RefsAccounted
<1>3. \A x \in Objs : InMap(x)' <=> (InMap(x) /\ x # o)
  BY <1>1, MapInjective DEF CloseSocket, InMap, TypeOK
<1>4. \A x \in Objs : x # o => /\ m_refCount'[x] = m_refCount[x]
                               /\ m_socket'[x] = m_socket[x]
  BY <1>1 DEF CloseSocket, ReleaseRef, TypeOK
<1>5. RefsAccounted'
  <2> SUFFICES ASSUME NEW x \in Objs
               PROVE  m_refCount'[x] = leaked'[x] + (IF InMap(x)' THEN 1 ELSE 0)
                                       + (IF pSocket' = x THEN 1 ELSE 0)
    BY DEF RefsAccounted
  <2>1. leaked[x] \in Nat /\ m_refCount[x] \in Nat
    BY DEF TypeOK
  <2>2. CASE x = o
    <3>1. m_refCount'[o] = m_refCount[o] - 1 /\ leaked' = leaked
      BY <1>1 DEF CloseSocket, ReleaseRef, TypeOK
    <3>2. QED
      BY <1>1, <1>2, <1>3, <2>2, <3>1 DEF RefsAccounted
  <2>3. CASE x # o
    BY <1>3, <1>4, <2>1, <2>3 DEF CloseSocket, RefsAccounted
  <2>4. QED
    BY <2>2, <2>3
<1>6. HandlesAgree'
  <2> SUFFICES ASSUME NEW f \in Fds
               PROVE  /\ g_socket_map'[f] # None => m_socket'[g_socket_map'[f]] = f
                      /\ g_socket_map'[f] = None <=> kst'[f] = "closed"
                      /\ f \in epoll' => g_socket_map'[f] # None
                      /\ conns'[f] # None => conns'[f] = g_socket_map'[f]
    BY DEF HandlesAgree
  <2>1. CASE f = h
    BY <1>1, <2>1 DEF CloseSocket, TypeOK, HandlesAgree
  <2>2. CASE f # h
    <3>1. g_socket_map'[f] = g_socket_map[f] /\ g_socket_map[f] # o
      BY <1>1, <2>2, MapInjective DEF CloseSocket, TypeOK
    <3>2. kst'[f] = kst[f] /\ conns'[f] = conns[f] /\ epoll' \subseteq epoll
      BY <1>1, <2>2 DEF CloseSocket, TypeOK
    <3>3. QED
      BY <1>4, <3>1, <3>2 DEF TypeOK, HandlesAgree
  <2>3. QED
    BY <2>1, <2>2
<1>7. /\ g_socket_map' \in [Fds -> Objs \cup {None}]
      /\ conns' \in [Fds -> Objs \cup {None}]
      /\ leaked' \in [Objs -> 0 .. 1]
      /\ kst' \in [Fds -> KernelStates] /\ urgent' \in SUBSET Fds
      /\ epoll' \in SUBSET Fds /\ rdy' \in SUBSET epoll'
  BY DEF CloseSocket, TypeOK, KernelStates
<1>8. /\ m_state' \in [Objs -> SocketStates]
      /\ m_socket' \in [Objs -> Fds \cup {None}]
  BY DEF CloseSocket, ReleaseRef, TypeOK, SocketStates
<1>9. m_refCount' \in [Objs -> Nat]
  BY <1>1, <1>2 DEF CloseSocket, ReleaseRef, TypeOK
<1>10. avail' \in [Fds -> 0 .. MaxAvail]
  <2>1. 0 \in 0 .. MaxAvail /\ avail \in [Fds -> 0 .. MaxAvail]
    BY DEF TypeOK
  <2>2. QED
    BY <1>1, <2>1 DEF CloseSocket
<1>11. QED
  BY <1>5, <1>6, <1>7, <1>8, <1>9, <1>10

-----------------------------------------------------------------------------
\* A step that leaves the objects alone and opens or closes no descriptor.
LEMMA FrameStep ==
  ASSUME IInv,
         UNCHANGED <<g_socket_map, m_socket, m_refCount, leaked, pSocket, conns,
                     epoll>>,
         \A fd \in Fds : kst'[fd] = "closed" <=> kst[fd] = "closed"
  PROVE  RefsAccounted' /\ HandlesAgree'
  BY DEF IInv, RefsAccounted, HandlesAgree, InMap

\* What the kernel does on its own preserves the invariant.
LEMMA KernelInv ==
  ASSUME IInv, Kernel
  PROVE  IInv'
<1> PICK fd \in Fds :
      KEstablish(fd) \/ KReset(fd) \/ KPeerClose(fd) \/ KArrive(fd) \/ KUrgent(fd)
  BY DEF Kernel
<1> USE NetLibAssumption
<1>1. \E from \in SUBSET (KernelStates \ {"closed"}) :
      \E to \in KernelStates \ {"closed"} : KernelStep(fd, from, to)
  <2>1. KernelStep(fd, {"syn"}, "est") \/ KernelStep(fd, {"est"}, "eof")
        \/ KernelStep(fd, {"syn", "est", "eof"}, "reset")
        \/ KernelStep(fd, {"est"}, "est") \/ KernelStep(fd, {"listen"}, "listen")
    BY DEF KEstablish, KReset, KPeerClose, KArrive, KUrgent
  <2>2. QED
    BY <2>1, Zenon DEF KernelStates
<1>2. PICK from \in SUBSET (KernelStates \ {"closed"}),
           to \in KernelStates \ {"closed"} : KernelStep(fd, from, to)
  BY <1>1
<1>3. avail' \in [Fds -> 0 .. MaxAvail] /\ urgent' \in SUBSET Fds
  <2> USE DEF IInv, TypeOK
  <2>1. CASE KReset(fd)
    <3>1. 0 \in 0 .. MaxAvail
      OBVIOUS
    <3>2. QED
      BY <2>1, <3>1 DEF KReset
  <2>2. CASE KArrive(fd)
    BY <2>2 DEF KArrive
  <2>3. QED
    BY <2>1, <2>2 DEF KEstablish, KPeerClose, KUrgent
<1>4. /\ UNCHANGED <<objVars, loopVars, cb, conns, epoll>>
      /\ kst' \in [Fds -> KernelStates]
      /\ \A f \in Fds : kst'[f] = "closed" <=> kst[f] = "closed"
      /\ rdy' \in SUBSET epoll'
  BY <1>2 DEF KernelStep, Edge, IInv, TypeOK
<1>5. TypeOK' /\ ServedWhileBusy'
  BY <1>3, <1>4 DEF IInv, TypeOK, ServedWhileBusy, objVars, loopVars
<1>6. RefsAccounted' /\ HandlesAgree'
  BY <1>4, FrameStep DEF objVars, loopVars
<1>7. QED
  BY <1>5, <1>6 DEF IInv

\* Calls of the application preserve the invariant.
LEMMA ApplicationInv ==
  ASSUME IInv, Application
  PROVE  IInv'
<1> USE NetLibAssumption
<1>1. ASSUME NEW o \in Objs, NEW fd \in Fds, netlib_listen(o, fd)
      PROVE  IInv'
  <2>1. Open(o, fd, "LISTENING", "listen") /\ UNCHANGED <<loopVars, cb, conns, avail>>
    BY <1>1 DEF netlib_listen
  <2>2. "LISTENING" \in SocketStates /\ "listen" \in KernelStates \ {"closed"}
    BY DEF SocketStates, KernelStates
  <2>3. QED
    BY <2>1, <2>2, OpenStep DEF IInv, TypeOK, ServedWhileBusy, loopVars
<1>2. ASSUME NEW o \in Objs, NEW fd \in Fds, netlib_connect(o, fd)
      PROVE  IInv'
  <2>1. /\ Open(o, fd, "CONNECTING", "syn") /\ UNCHANGED <<loopVars, cb, avail>>
        /\ conns' = [conns EXCEPT ![fd] = o]
    BY <1>2 DEF netlib_connect
  <2>2. "CONNECTING" \in SocketStates /\ "syn" \in KernelStates \ {"closed"}
    BY DEF SocketStates, KernelStates
  <2>3. QED
    BY <2>1, <2>2, OpenStep DEF IInv, TypeOK, ServedWhileBusy, loopVars
<1>3. ASSUME NEW h \in Fds, netlib_close(h)
      PROVE  IInv'
  <2>1. g_socket_map[h] # None
    BY <1>3 DEF netlib_close, IInv, HandlesAgree
  <2>2. /\ CloseSocket(g_socket_map[h]) /\ UNCHANGED <<loopVars, cb>>
        /\ conns' = [conns EXCEPT ![h] = None]
    BY <1>3, <2>1 DEF netlib_close
  <2>3. QED
    BY <2>1, <2>2, CloseStep DEF IInv, TypeOK, ServedWhileBusy, loopVars
<1>4. ASSUME NEW h \in Fds, netlib_recv(h)
      PROVE  IInv'
  <2>1. UNCHANGED <<objVars, loopVars, conns, kst, epoll, rdy>>
    BY <1>4 DEF netlib_recv
  <2>2. avail' \in [Fds -> 0 .. MaxAvail] /\ urgent' \in SUBSET Fds
    <3>1. 0 \in 0 .. MaxAvail
      OBVIOUS
    <3>2. QED
      BY <1>4, <3>1 DEF netlib_recv, IInv, TypeOK
  <2>3. cb' \in Frames
    BY <1>4 DEF netlib_recv, In, IInv, TypeOK, Frames
  <2>4. RefsAccounted' /\ HandlesAgree'
    BY <2>1, FrameStep DEF objVars, loopVars
  <2>5. QED
    BY <2>1, <2>2, <2>3, <2>4
       DEF IInv, TypeOK, ServedWhileBusy, objVars, loopVars
<1>5. ASSUME NEW h \in Fds, netlib_option_null(h)
      PROVE  IInv'
  <2> DEFINE o == g_socket_map[h]
  <2>1. /\ o \in Objs /\ leaked[o] = 0
        /\ m_refCount' = [m_refCount EXCEPT ![o] = @ + 1]
        /\ leaked' = [leaked EXCEPT ![o] = @ + 1]
        /\ UNCHANGED <<g_socket_map, m_state, m_socket, loopVars, cb, conns,
                       kernVars>>
    BY <1>5 DEF netlib_option_null, AddRef, IInv, TypeOK
  <2>2. m_refCount' \in [Objs -> Nat] /\ leaked' \in [Objs -> 0 .. 1]
    BY <2>1 DEF IInv, TypeOK
  <2>3. RefsAccounted'
    BY <2>1 DEF IInv, TypeOK, RefsAccounted, InMap, loopVars
  <2>4. HandlesAgree'
    BY <2>1 DEF IInv, HandlesAgree, kernVars
  <2>5. QED
    BY <2>1, <2>2, <2>3, <2>4 DEF IInv, TypeOK, ServedWhileBusy, loopVars, kernVars
<1>6. CASE netlib_stop_event
  <2>1. RefsAccounted' /\ HandlesAgree'
    BY <1>6, FrameStep DEF netlib_stop_event, objVars, kernVars
  <2>2. QED
    BY <1>6, <2>1
       DEF netlib_stop_event, IInv, TypeOK, ServedWhileBusy, objVars, kernVars
<1>7. CASE CallbackReturn
  <2>1. RefsAccounted' /\ HandlesAgree'
    BY <1>7, FrameStep DEF CallbackReturn, objVars, loopVars, kernVars
  <2>2. QED
    BY <1>7, <2>1
       DEF CallbackReturn, IInv, TypeOK, ServedWhileBusy, objVars, loopVars, kernVars
<1>8. QED
  BY <1>1, <1>2, <1>3, <1>4, <1>5, <1>6, <1>7 DEF Application

-----------------------------------------------------------------------------
\* Callback leaves a well-formed frame of the application.
LEMMA CallbackType ==
  ASSUME NEW msg \in Msgs, NEW fd \in Fds \cup {None}, Callback(msg, fd)
  PROVE  cb' \in Frames
  BY DEF Callback, Frames

\* Steps of the dispatcher preserve the invariant.
LEMMA DispatchInv ==
  ASSUME IInv, Dispatch
  PROVE  IInv'
<1> USE NetLibAssumption
<1>1. CASE StartDispatch \/ StopLoop
  <2>1. /\ UNCHANGED <<objVars, events, pSocket, flags, cb, conns, kernVars>>
        /\ pc' \in {"wait", "stopped"} /\ pc \in {"wait", "stopped"}
        /\ running' \in BOOLEAN
    BY <1>1 DEF StartDispatch, StopLoop, At, GoTo, IInv, TypeOK
  <2>2. RefsAccounted' /\ HandlesAgree'
    BY <2>1, FrameStep DEF objVars, kernVars
  <2>3. QED
    BY <2>1, <2>2 DEF IInv, TypeOK, ServedWhileBusy, Serving, objVars, kernVars
<1>2. CASE EpollWait
  <2>1. PICK R \in SUBSET rdy :
          /\ events' = [fd \in Fds |-> IF fd \in R THEN Mask(fd) ELSE {}]
          /\ rdy' = rdy \ R
    BY <1>2 DEF EpollWait
  <2>2. /\ UNCHANGED <<objVars, running, pSocket, flags, cb, conns, kst, avail, urgent,
                       epoll>>
        /\ pc = "wait" /\ pc' = "event"
    BY <1>2 DEF EpollWait, At, GoTo
  <2>3. events' \in [Fds -> SUBSET Flags]
    <3>1. \A fd \in Fds : Mask(fd) \in SUBSET Flags
      BY DEF Mask
    <3>2. QED
      BY <2>1, <3>1
  <2>4. RefsAccounted' /\ HandlesAgree'
    BY <2>2, FrameStep DEF objVars
  <2>5. QED
    BY <2>1, <2>2, <2>3, <2>4 DEF IInv, TypeOK, ServedWhileBusy, Serving, objVars
<1>3. ASSUME NEW fd \in Fds, TakeEvent(fd)
      PROVE  IInv'
  <2>1. /\ pc = "event" /\ pSocket = None
        /\ events' = [events EXCEPT ![fd] = {}]
        /\ UNCHANGED <<g_socket_map, m_state, m_socket, leaked, running, cb,
                       conns, kernVars>>
    BY <1>3 DEF TakeEvent, At, IInv, ServedWhileBusy, Serving
  <2>2. CASE g_socket_map[fd] = None
    <3>1. UNCHANGED <<m_refCount, pc, pSocket, flags>>
      BY <1>3, <2>2 DEF TakeEvent
    <3>2. RefsAccounted' /\ HandlesAgree'
      BY <2>1, <3>1, FrameStep DEF kernVars
    <3>3. QED
      BY <2>1, <3>1, <3>2 DEF IInv, TypeOK, ServedWhileBusy, kernVars
  <2>3. CASE g_socket_map[fd] # None
    <3> DEFINE o == g_socket_map[fd]
    <3>1. /\ o \in Objs
          /\ m_refCount' = [m_refCount EXCEPT ![o] = @ + 1]
          /\ pSocket' = o /\ flags' = events[fd]
          /\ pc' \in {"close", "write"}
      BY <1>3, <2>3 DEF TakeEvent, AddRef, GoTo, IInv, TypeOK
    <3>2. RefsAccounted'
      BY <2>1, <3>1 DEF IInv, TypeOK, RefsAccounted, InMap
    <3>3. HandlesAgree'
      BY <2>1 DEF IInv, HandlesAgree, kernVars
    <3>4. TypeOK'
      BY <2>1, <3>1 DEF IInv, TypeOK, kernVars
    <3>5. QED
      BY <3>1, <3>2, <3>3, <3>4 DEF IInv, TypeOK, ServedWhileBusy, Serving
  <2>4. QED
    BY <2>2, <2>3
<1>4. CASE OnClose \/ OnWrite \/ OnRead
  <2>1. /\ UNCHANGED <<g_socket_map, m_socket, m_refCount, leaked, running,
                       events, pSocket, flags, conns, kernVars>>
        /\ pc \in Serving /\ pc' \in {"read", "release", "accept"}
    BY <1>4 DEF OnClose, OnWrite, OnRead, At, GoTo, Serving, objVars
  <2>2. m_socket[pSocket] \in Fds \cup {None}
    BY <2>1 DEF IInv, TypeOK, ServedWhileBusy
  <2>3. m_state' \in [Objs -> SocketStates]
    BY <1>4 DEF OnClose, OnWrite, OnRead, IInv, TypeOK, SocketStates, objVars
  <2>4. cb' \in Frames \cup {None}
    <3>1. \/ UNCHANGED cb
          \/ \E msg \in Msgs : Callback(msg, m_socket[pSocket])
      BY <1>4 DEF OnClose, OnWrite, OnRead, Msgs
    <3>2. QED
      BY <2>2, <3>1, CallbackType DEF IInv, TypeOK, Frames
  <2>5. RefsAccounted' /\ HandlesAgree'
    BY <2>1, FrameStep DEF kernVars
  <2>6. QED
    BY <2>1, <2>3, <2>4, <2>5
       DEF IInv, TypeOK, ServedWhileBusy, Serving, kernVars, Frames
<1>5. ASSUME NEW o \in Objs, NEW fd \in Fds, _AcceptNewSocket(o, fd)
      PROVE  IInv'
  <2>1. /\ Open(o, fd, "CONNECTED", "est") /\ UNCHANGED loopVars
        /\ conns' = [conns EXCEPT ![fd] = o]
        /\ Callback("CONNECT", fd)
    BY <1>5 DEF _AcceptNewSocket
  <2>2. "CONNECTED" \in SocketStates /\ "est" \in KernelStates \ {"closed"}
    BY DEF SocketStates, KernelStates
  <2>3. avail' \in [Fds -> 0 .. MaxAvail]
    <3> DEFINE l == m_socket[pSocket]
    <3>1. avail' = [avail EXCEPT ![l] = @ - 1] /\ avail[l] > 0
      BY <1>5 DEF _AcceptNewSocket
    <3>2. CASE l \in Fds
      <4>1. avail[l] \in 0 .. MaxAvail
        BY <3>2 DEF IInv, TypeOK
      <4>2. avail[l] - 1 \in 0 .. MaxAvail
        BY <3>1, <4>1
      <4>3. QED
        BY <3>1, <3>2, <4>2 DEF IInv, TypeOK
    <3>3. CASE l \notin Fds
      BY <3>1, <3>3 DEF IInv, TypeOK
    <3>4. QED
      BY <3>2, <3>3
  <2>4. cb' \in Frames
    BY <2>1, CallbackType DEF Msgs
  <2>5. QED
    BY <2>1, <2>2, <2>3, <2>4, OpenStep
       DEF IInv, TypeOK, ServedWhileBusy, loopVars, Frames
<1>6. CASE AcceptEnd
  <2>1. /\ UNCHANGED <<objVars, running, events, pSocket, flags, cb, conns, kernVars>>
        /\ pc \in Serving /\ pc' \in Serving
    BY <1>6 DEF AcceptEnd, At, GoTo, Serving
  <2>2. RefsAccounted' /\ HandlesAgree'
    BY <2>1, FrameStep DEF objVars, kernVars
  <2>3. QED
    BY <2>1, <2>2 DEF IInv, TypeOK, ServedWhileBusy, Serving, objVars, kernVars
<1>7. CASE ReleaseEvent
  <2> DEFINE o == pSocket
  <2>1. /\ o \in Objs /\ ReleaseRef(o)
        /\ pSocket' = None /\ flags' = {} /\ pc' = "event"
        /\ UNCHANGED <<g_socket_map, leaked, running, events, cb, conns, kernVars>>
    BY <1>7 DEF ReleaseEvent, At, GoTo, IInv, TypeOK, ServedWhileBusy, Serving
  <2>2. /\ m_refCount' = [m_refCount EXCEPT ![o] = @ - 1]
        /\ m_refCount[o] = leaked[o] + (IF InMap(o) THEN 1 ELSE 0) + 1
        /\ leaked[o] \in Nat
    BY <2>1 DEF ReleaseRef, IInv, TypeOK, RefsAccounted
  <2>3. m_refCount' \in [Objs -> Nat]
    BY <2>1, <2>2 DEF IInv, TypeOK
  <2>4. /\ m_state' \in [Objs -> SocketStates]
        /\ m_socket' \in [Objs -> Fds \cup {None}]
        /\ \A x \in Objs : InMap(x) => m_socket'[x] = m_socket[x]
    BY <2>1, <2>2 DEF ReleaseRef, IInv, TypeOK, SocketStates
  <2>5. RefsAccounted'
    BY <2>1, <2>2, NetLibAssumption DEF IInv, TypeOK, RefsAccounted, InMap
  <2>6. HandlesAgree'
    BY <2>1, <2>4 DEF IInv, TypeOK, HandlesAgree, InMap, kernVars
  <2>7. QED
    BY <2>1, <2>3, <2>4, <2>5, <2>6
       DEF IInv, TypeOK, ServedWhileBusy, Serving, kernVars
<1>8. CASE CheckTimers
  <2>1. /\ UNCHANGED <<objVars, running, events, pSocket, flags, conns, kernVars>>
        /\ pc = "event" /\ pc' = "wait"
    BY <1>8 DEF CheckTimers, At, GoTo
  <2>2. cb' \in Frames \cup {None}
    <3>1. UNCHANGED cb \/ Callback("TIMER", None)
      BY <1>8 DEF CheckTimers
    <3>2. QED
      BY <3>1, CallbackType DEF Msgs, IInv, TypeOK, Frames
  <2>3. RefsAccounted' /\ HandlesAgree'
    BY <2>1, FrameStep DEF objVars, kernVars
  <2>4. QED
    BY <2>1, <2>2, <2>3
       DEF IInv, TypeOK, ServedWhileBusy, Serving, objVars, kernVars, Frames
<1>9. QED
  BY <1>1, <1>2, <1>3, <1>4, <1>5, <1>6, <1>7, <1>8 DEF Dispatch

-----------------------------------------------------------------------------
\* The invariant holds initially.
LEMMA InitInv == Init => IInv
<1> USE NetLibAssumption
<1>1. ASSUME Init PROVE TypeOK
  <2>1. 0 \in Nat /\ 0 \in 0 .. 1 /\ 0 \in 0 .. MaxAvail
    BY DEF NetLibAssumption
  <2>2. "IDLE" \in SocketStates /\ "closed" \in KernelStates
    BY DEF SocketStates, KernelStates
  <2>3. avail \in [Fds -> 0 .. MaxAvail] /\ leaked \in [Objs -> 0 .. 1]
    BY <1>1, <2>1 DEF Init
  <2>4. m_state \in [Objs -> SocketStates] /\ kst \in [Fds -> KernelStates]
    BY <1>1, <2>2 DEF Init
  <2>5. QED
    BY <1>1, <2>1, <2>3, <2>4 DEF Init, TypeOK
<1>2. Init => RefsAccounted /\ HandlesAgree /\ ServedWhileBusy
  BY DEF Init, RefsAccounted, HandlesAgree, ServedWhileBusy, Serving, InMap
<1>3. QED
  BY <1>1, <1>2 DEF IInv

\* Every step preserves the invariant.
LEMMA StepInv == IInv /\ [Next]_vars => IInv'
<1> SUFFICES ASSUME IInv, [Next]_vars
             PROVE  IInv'
  OBVIOUS
<1>1. CASE Next
  BY <1>1, DispatchInv, ApplicationInv, KernelInv DEF Next
<1>2. CASE UNCHANGED vars
  <2>1. RefsAccounted' /\ HandlesAgree'
    BY <1>2, FrameStep DEF vars, objVars, loopVars, kernVars
  <2>2. TypeOK' /\ ServedWhileBusy'
    BY <1>2 DEF vars, objVars, loopVars, kernVars, IInv, TypeOK, ServedWhileBusy
  <2>3. QED
    BY <2>1, <2>2 DEF IInv
<1>3. QED
  BY <1>1, <1>2

\* The reactor keeps its types, its reference counts exact, and one meaning
\* for every handle.
THEOREM Invariance == Spec => []IInv
  BY InitInv, StepInv, PTL DEF Spec

\* netlib.cpp: every variable has its type in every reachable state.
THEOREM TypeCorrect == Spec => []TypeOK
<1>1. IInv => TypeOK
  BY DEF IInv
<1>2. QED
  BY <1>1, Invariance, PTL

\* BaseSocket.cpp, util.cpp: whatever the callbacks close and reopen, no
\* deleted CBaseSocket is reachable from g_socket_map or in use by the loop.
THEOREM NoUseAfterFree == Spec => []PointersLive
<1>1. IInv => PointersLive
  BY CountedIsLive DEF IInv
<1>2. QED
  BY <1>1, Invariance, PTL

\* util.cpp: the reference count of a CBaseSocket is the number of its users,
\* so only netlib_option's early return can keep an unused object.
THEOREM ExactCounts == Spec => []RefsAccounted
<1>1. IInv => RefsAccounted
  BY DEF IInv
<1>2. QED
  BY <1>1, Invariance, PTL

\* g_socket_map, the descriptors, epoll and the application agree on what a
\* handle stands for.
THEOREM OneMeaningPerHandle == Spec => []HandlesAgree
<1>1. IInv => HandlesAgree
  BY DEF IInv
<1>2. QED
  BY <1>1, Invariance, PTL

-----------------------------------------------------------------------------
(* What the callbacks are told.  The delivery properties need discipline   *)
(* of the application, each only as much as its theorem says.              *)

\* No connection is opened while a batch is being served.
ConnectsBetweenBatches == ConnectIn \subseteq {"MAIN", "TIMER"}

\* While a batch is being served a callback closes no handle but its own.
ClosesOwnInBatch == CloseAnyIn \subseteq {"TIMER"}

\* The descriptor of the object being served.
Served == m_socket[pSocket]

\* The application has every connection on file, and never a listener.
Filed ==
  \A fd \in Fds : g_socket_map[fd] # None =>
    /\ conns[fd] = IF kst[fd] = "listen" THEN None ELSE g_socket_map[fd]
    /\ m_state[g_socket_map[fd]] = "LISTENING" <=> kst[fd] = "listen"
    /\ m_state[g_socket_map[fd]] # "IDLE"

\* The flags tell a listener from a connection, even when they are stale: a
\* listener stays one, and only it is readable without being writable.
Kind(fl, fd) ==
  /\ "OUT" \in fl \/ "EXC" \in fl => kst[fd] # "listen"
  /\ "IN" \in fl /\ kst[fd] # "listen" => "OUT" \in fl

Batch ==
  /\ pc \in {"stopped", "wait"} => \A fd \in Fds : events[fd] = {}
  /\ \A fd \in Fds : Kind(events[fd], fd)

\* What StartDispatch knows of the object it serves: until the first callback
\* it is the one in the map.
Service ==
  pSocket # None =>
    /\ Served \in Fds
    /\ pc \in {"close", "write"} =>
         cb = None /\ g_socket_map[Served] = pSocket /\ Kind(flags, Served)
    /\ pc = "close" => "EXC" \in flags
    /\ pc = "accept" => m_state[pSocket] = "LISTENING"
    /\ m_state[pSocket] = "LISTENING" => g_socket_map[Served] = pSocket
    /\ kst[Served] = "listen" => g_socket_map[Served] = pSocket
    /\ m_state[pSocket] # "IDLE"

\* Where StartDispatch is while a callback runs, and whom the callback is about.
Place ==
  \/ cb.msg = "TIMER" /\ pc = "wait"
  \/ cb.msg = "CONNECT" /\ pc = "accept"
  \/ cb.msg \in {"CONFIRM", "WRITE"} /\ pc = "read"
  \/ cb.msg = "READ" /\ pc = "release"
  \/ cb.msg = "CLOSE" /\ pc \in {"read", "release"}

Frame ==
  cb # None =>
    /\ Place
    /\ cb.msg \notin {"TIMER", "CONNECT"} => cb.fd = Served
    /\ cb.msg = "CONNECT" => cb.fd \in Fds

\* A descriptor closed while it is served is not open again before it is released.
StillServed ==
  ConnectsBetweenBatches /\ pSocket # None =>
    g_socket_map[Served] = pSocket \/ kst[Served] = "closed"

\* EPOLLOUT never belongs to a handshake under way.
Established ==
  ConnectsBetweenBatches =>
    /\ \A fd \in Fds : "OUT" \in events[fd] => kst[fd] # "syn"
    /\ pc = "write" /\ "OUT" \in flags => kst[Served] # "syn"
    /\ ConfirmMeansEstablished

\* Between callbacks no open socket is CLOSING, and OnRead finds the state
\* OnWrite has left: CONNECTED for every connection that is still open.
Confirmed ==
  LikeImConn =>
    /\ \A fd \in Fds : g_socket_map[fd] # None /\ m_state[g_socket_map[fd]] = "CLOSING" =>
         pc = "release" /\ cb # None /\ cb.msg = "CLOSE" /\ pSocket = g_socket_map[fd]
    /\ (/\ pc = "read" /\ "IN" \in flags
        /\ IF cb = None THEN kst[Served] # "closed" ELSE cb.msg # "CLOSE")
         => m_state[pSocket] \in {"LISTENING", "CONNECTED"}
    /\ ReadAfterConfirm

\* The flags of an event are true of the socket it is served for.
Meant(fl, fd) ==
  /\ "EXC" \in fl => kst[fd] = "reset" \/ fd \in urgent
  /\ "OUT" \in fl => kst[fd] \in {"est", "eof", "reset"}
  /\ "IN" \in fl /\ kst[fd] = "est" => avail[fd] > 0

Meaning ==
  ClosesOwnInBatch /\ ConnectsBetweenBatches =>
    /\ \A fd \in Fds : events[fd] # {} => kst[fd] # "closed" /\ Meant(events[fd], fd)
    /\ pSocket # None => events[Served] = {}
    /\ pc \in {"close", "write"} => Meant(flags, Served)
    /\ pc = "read" /\ "IN" \in flags /\ kst[Served] # "closed" =>
         kst[Served] # "syn" /\ (kst[Served] = "est" => avail[Served] > 0)
    /\ cb # None /\ cb.msg = "CONNECT" => events[cb.fd] = {}
    /\ NoSpuriousClose

Delivers ==
  /\ Filed /\ Batch /\ Service /\ Frame
  /\ StillServed /\ Established /\ Confirmed /\ Meaning

DInv == IInv /\ Delivers

-----------------------------------------------------------------------------
(* What the actions do, as far as the parts of Delivers look at it.            *)

\* A socket is opened on a closed descriptor, with an object nobody has.
LEMMA OpenEffect ==
  ASSUME IInv, NEW o \in Objs, NEW fd \in Fds, NEW state, NEW kernel,
         Open(o, fd, state, kernel)
  PROVE  /\ kst[fd] = "closed" /\ g_socket_map[fd] = None /\ conns[fd] = None
         /\ pSocket # o /\ \A f \in Fds : g_socket_map[f] # o
         /\ g_socket_map' = [g_socket_map EXCEPT ![fd] = o]
         /\ m_state' = [m_state EXCEPT ![o] = state]
         /\ m_socket' = [m_socket EXCEPT ![o] = fd]
         /\ kst' = [kst EXCEPT ![fd] = kernel] /\ urgent' = urgent
         /\ fd \notin epoll /\ epoll \subseteq epoll' /\ epoll' \subseteq epoll \cup {fd}
         /\ rdy \subseteq rdy' /\ (kernel = "est" /\ fd \in epoll' => fd \in rdy')
<1> USE NetLibAssumption DEF IInv
<1>1. m_refCount[o] = 0 /\ leaked[o] \in Nat
  BY DEF Open, Live, TypeOK
<1>2. kst[fd] = "closed" /\ g_socket_map[fd] = None /\ conns[fd] = None
  BY DEF Open, HandlesAgree
<1>3. ~InMap(o) /\ pSocket # o
  BY <1>1 DEF RefsAccounted
<1>4. g_socket_map' = [g_socket_map EXCEPT ![fd] = o]
  BY <1>2 DEF Open, TypeOK
<1>5. /\ fd \notin epoll /\ epoll \subseteq epoll' /\ epoll' \subseteq epoll \cup {fd}
      /\ rdy \subseteq rdy' /\ (kernel = "est" /\ fd \in epoll' => fd \in rdy')
  BY <1>2 DEF Open, HandlesAgree
<1>6. QED
  BY <1>2, <1>3, <1>4, <1>5 DEF Open, InMap

\* netlib_close takes one socket out of the map and the kernel; the object
\* that is being served keeps its fields.
LEMMA CloseEffect ==
  ASSUME IInv, NEW h \in Fds, netlib_close(h)
  PROVE  /\ cb # None /\ (cb.msg \in CloseAnyIn \/ (cb.msg \in CloseOwnIn /\ cb.fd = h))
         /\ g_socket_map[h] \in Objs /\ conns[h] = g_socket_map[h]
         /\ m_socket[g_socket_map[h]] = h /\ kst[h] # "closed"
         /\ g_socket_map' = [g_socket_map EXCEPT ![h] = None]
         /\ conns' = [conns EXCEPT ![h] = None]
         /\ kst' = [kst EXCEPT ![h] = "closed"]
         /\ avail' = [avail EXCEPT ![h] = 0] /\ urgent' = urgent \ {h}
         /\ epoll' = epoll \ {h} /\ rdy' = rdy \ {h}
         /\ UNCHANGED <<loopVars, cb>>
         /\ \A x \in Objs : x # g_socket_map[h] \/ x = pSocket =>
              m_state'[x] = m_state[x] /\ m_socket'[x] = m_socket[x]
<1> USE NetLibAssumption DEF IInv
<1> DEFINE o == g_socket_map[h]
<1>1. /\ o \in Objs /\ conns[h] = o /\ m_socket[o] = h /\ kst[h] # "closed" /\ InMap(o)
  BY DEF netlib_close, TypeOK, HandlesAgree, InMap
<1>2. CloseSocket(o) /\ UNCHANGED <<loopVars, cb>> /\ conns' = [conns EXCEPT ![h] = None]
  BY <1>1 DEF netlib_close
<1>3. pSocket = o => m_refCount[o] > 1
  <2>1. leaked[o] \in Nat
    BY <1>1 DEF TypeOK
  <2>2. QED
    BY <1>1, <2>1 DEF RefsAccounted
<1>4. \A x \in Objs : x # o \/ x = pSocket =>
        m_state'[x] = m_state[x] /\ m_socket'[x] = m_socket[x]
  BY <1>1, <1>2, <1>3 DEF CloseSocket, ReleaseRef, TypeOK
<1>5. cb # None /\ (cb.msg \in CloseAnyIn \/ (cb.msg \in CloseOwnIn /\ cb.fd = h))
  BY DEF netlib_close, In
<1>6. /\ g_socket_map' = [g_socket_map EXCEPT ![h] = None]
      /\ kst' = [kst EXCEPT ![h] = "closed"]
      /\ avail' = [avail EXCEPT ![h] = 0] /\ urgent' = urgent \ {h}
      /\ epoll' = epoll \ {h} /\ rdy' = rdy \ {h}
  BY <1>1, <1>2 DEF CloseSocket
<1>7. QED
  BY <1>1, <1>2, <1>4, <1>5, <1>6

\* ReleaseRef after an event leaves the objects in the map alone.
LEMMA ReleaseEffect ==
  ASSUME IInv, ReleaseEvent
  PROVE  /\ pc = "release" /\ cb = None
         /\ pSocket' = None /\ flags' = {} /\ pc' = "event"
         /\ UNCHANGED <<g_socket_map, events, cb, conns, kernVars>>
         /\ \A fd \in Fds : g_socket_map[fd] # None =>
              /\ m_state'[g_socket_map[fd]] = m_state[g_socket_map[fd]]
              /\ m_socket'[g_socket_map[fd]] = m_socket[g_socket_map[fd]]
<1> USE NetLibAssumption DEF IInv
<1>1. /\ pSocket \in Objs /\ ReleaseRef(pSocket)
      /\ pc = "release" /\ cb = None
      /\ pSocket' = None /\ flags' = {} /\ pc' = "event"
      /\ UNCHANGED <<g_socket_map, events, cb, conns, kernVars>>
  BY DEF ReleaseEvent, At, GoTo, TypeOK, ServedWhileBusy, Serving
<1>2. leaked[pSocket] \in Nat /\ m_refCount[pSocket] =
        leaked[pSocket] + (IF InMap(pSocket) THEN 1 ELSE 0) + 1
  BY <1>1 DEF TypeOK, RefsAccounted
<1>3. ASSUME NEW fd \in Fds, g_socket_map[fd] # None
      PROVE  /\ m_state'[g_socket_map[fd]] = m_state[g_socket_map[fd]]
             /\ m_socket'[g_socket_map[fd]] = m_socket[g_socket_map[fd]]
  <2>1. g_socket_map[fd] \in Objs /\ InMap(g_socket_map[fd])
    BY <1>3 DEF TypeOK, InMap
  <2>2. CASE g_socket_map[fd] = pSocket
    BY <1>1, <1>2, <2>1, <2>2 DEF ReleaseRef
  <2>3. CASE g_socket_map[fd] # pSocket
    BY <1>1, <2>1, <2>3 DEF ReleaseRef, TypeOK
  <2>4. QED
    BY <2>2, <2>3
<1>4. QED
  BY <1>1, <1>3

\* What epoll reports is true when it is reported.
LEMMA MaskMeaning ==
  ASSUME NEW fd \in Fds
  PROVE  /\ Kind(Mask(fd), fd) /\ Meant(Mask(fd), fd)
         /\ "OUT" \in Mask(fd) => kst[fd] # "syn"
         /\ kst[fd] = "reset" => "EXC" \in Mask(fd)
         /\ kst[fd] \in {"est", "eof", "reset"} => "OUT" \in Mask(fd)
         /\ kst[fd] \in {"listen", "est", "eof", "reset"} /\ avail[fd] > 0 =>
              "IN" \in Mask(fd)
<1>1. /\ "IN" \in Flags /\ "OUT" \in Flags /\ "EXC" \in Flags
      /\ "IN" # "OUT" /\ "IN" # "EXC" /\ "OUT" # "EXC"
  BY DEF Flags
<1>2. "IN" \in Mask(fd) <=>
        \/ kst[fd] \in {"eof", "reset"}
        \/ kst[fd] \in {"listen", "est"} /\ avail[fd] > 0
  BY <1>1 DEF Mask
<1>3. "OUT" \in Mask(fd) <=> kst[fd] \in {"est", "eof", "reset"}
  BY <1>1 DEF Mask
<1>4. "EXC" \in Mask(fd) <=>
        \/ kst[fd] = "reset"
        \/ kst[fd] \in {"est", "eof"} /\ fd \in urgent
  BY <1>1 DEF Mask
<1>5. Kind(Mask(fd), fd)
  BY <1>2, <1>3, <1>4 DEF Kind
<1>6. Meant(Mask(fd), fd)
  BY <1>2, <1>3, <1>4 DEF Meant
<1>7. QED
  BY <1>2, <1>3, <1>4, <1>5, <1>6

\* A callback runs after Callback.
LEMMA CallbackFrame ==
  ASSUME NEW msg \in Msgs, NEW fd \in Fds \cup {None}, Callback(msg, fd)
  PROVE  cb' # None /\ cb'.msg = msg /\ cb'.fd = fd /\ ~cb'.drained
<1>1. cb' \in Frames
  BY CallbackType
<1>2. QED
  BY <1>1, NetLibAssumption DEF Callback

-----------------------------------------------------------------------------
(* One lemma per action, one step per part of Delivers.                    *)

\* Steps that leave alone what Delivers speaks of.
LEMMA DeliversSame ==
  ASSUME Delivers,
         UNCHANGED <<g_socket_map, m_state, m_socket, pc, events, pSocket, flags,
                     cb, conns, kst, avail, urgent>>
  PROVE  Delivers'
<1>1. Filed'
  BY DEF Delivers, Filed
<1>2. Batch'
  BY DEF Delivers, Batch, Kind
<1>3. Service'
  BY DEF Delivers, Service, Served, Kind
<1>4. Frame'
  BY DEF Delivers, Frame, Place, Served
<1>5. StillServed'
  BY DEF Delivers, StillServed, Served
<1>6. Established'
  BY DEF Delivers, Established, ConfirmMeansEstablished, Served
<1>7. Confirmed'
  BY DEF Delivers, Confirmed, ReadAfterConfirm, Served
<1>8. Meaning'
  BY DEF Delivers, Meaning, Meant, NoSpuriousClose, Served
<1>9. QED
  BY <1>1, <1>2, <1>3, <1>4, <1>5, <1>6, <1>7, <1>8 DEF Delivers

\* StartDispatch begins and ends between two batches.
LEMMA LoopDelivers ==
  ASSUME DInv, StartDispatch \/ StopLoop
  PROVE  Delivers'
<1> USE DEF DInv, Delivers
<1>1. /\ UNCHANGED <<g_socket_map, m_state, m_socket, events, pSocket, flags, cb,
                     conns, kst, avail, urgent>>
      /\ pc \in {"stopped", "wait"} /\ pc' \in {"stopped", "wait"}
      /\ cb = None /\ pSocket = None
  BY DEF StartDispatch, StopLoop, At, GoTo, objVars, kernVars, IInv,
         ServedWhileBusy, Serving
<1>2. Filed'
  BY <1>1 DEF Filed
<1>3. Batch'
  BY <1>1 DEF Batch, Kind
<1>4. Service' /\ Frame' /\ StillServed'
  BY <1>1 DEF Service, Frame, StillServed
<1>5. Established'
  BY <1>1 DEF Established, ConfirmMeansEstablished
<1>6. Confirmed'
  BY <1>1 DEF Confirmed, ReadAfterConfirm
<1>7. Meaning'
  BY <1>1 DEF Meaning, Meant, NoSpuriousClose
<1>8. QED
  BY <1>2, <1>3, <1>4, <1>5, <1>6, <1>7

\* epoll_wait starts a batch: its flags are those of this moment.
LEMMA EpollWaitDelivers ==
  ASSUME DInv, EpollWait
  PROVE  Delivers'
<1> USE DEF DInv, Delivers
<1>1. /\ UNCHANGED <<g_socket_map, m_state, m_socket, pSocket, flags, cb, conns,
                     kst, avail, urgent>>
      /\ pc' = "event" /\ cb = None /\ pSocket = None
  BY DEF EpollWait, At, GoTo, objVars, IInv, ServedWhileBusy, Serving
<1>2. PICK R \in SUBSET rdy :
        events' = [fd \in Fds |-> IF fd \in R THEN Mask(fd) ELSE {}]
  BY DEF EpollWait
<1>3. \A fd \in Fds :
        \/ events'[fd] = {}
        \/ events'[fd] = Mask(fd) /\ kst[fd] # "closed"
  BY <1>2 DEF IInv, TypeOK, HandlesAgree
<1>4. Filed'
  BY <1>1 DEF Filed
<1>5. Batch'
  BY <1>1, <1>3, MaskMeaning DEF Batch, Kind
<1>6. Service' /\ Frame' /\ StillServed'
  BY <1>1 DEF Service, Frame, StillServed
<1>7. Established'
  BY <1>1, <1>3, MaskMeaning DEF Established, ConfirmMeansEstablished
<1>8. Confirmed'
  BY <1>1 DEF Confirmed, ReadAfterConfirm
<1>9. Meaning'
  BY <1>1, <1>3, MaskMeaning DEF Meaning, Meant, NoSpuriousClose
<1>10. QED
  BY <1>4, <1>5, <1>6, <1>7, <1>8, <1>9

\* The event that is taken is served for the socket in the map.
LEMMA TakeEventDelivers ==
  ASSUME DInv, NEW fd \in Fds, TakeEvent(fd)
  PROVE  Delivers'
<1> USE DEF DInv, Delivers
<1> DEFINE o == g_socket_map[fd]
<1>1. /\ UNCHANGED <<g_socket_map, m_state, m_socket, cb, conns, kst, avail, urgent>>
      /\ events' = [events EXCEPT ![fd] = {}]
      /\ pc = "event" /\ cb = None /\ pSocket = None
  BY DEF TakeEvent, At, GoTo, kernVars, IInv, ServedWhileBusy, Serving
<1>2. \A f \in Fds : events'[f] = IF f = fd THEN {} ELSE events[f]
  BY <1>1 DEF IInv, TypeOK
<1>3. \/ o = None /\ pc' = "event" /\ pSocket' = None
      \/ /\ o # None /\ pSocket' = o /\ flags' = events[fd]
         /\ m_socket[o] = fd /\ m_state[o] # "IDLE"
         /\ m_state[o] = "LISTENING" <=> kst[fd] = "listen"
         /\ pc' = IF "EXC" \in events[fd] THEN "close" ELSE "write"
  BY <1>1 DEF TakeEvent, GoTo, IInv, HandlesAgree, Filed
<1>4. Filed'
  BY <1>1 DEF Filed
<1>5. Batch'
  BY <1>1, <1>2, <1>3 DEF Batch, Kind
<1>6. Service'
  BY <1>1, <1>3 DEF Service, Served, Kind, Batch
<1>7. Frame'
  BY <1>1 DEF Frame
<1>8. StillServed'
  BY <1>1, <1>3 DEF StillServed, Served
<1>9. Established'
  BY <1>1, <1>2, <1>3 DEF Established, ConfirmMeansEstablished, Served
<1>10. Confirmed'
  BY <1>1, <1>3 DEF Confirmed, ReadAfterConfirm
<1>11. Meaning'
  BY <1>1, <1>2, <1>3 DEF Meaning, Meant, NoSpuriousClose, Served, TakeEvent
<1>12. QED
  BY <1>4, <1>5, <1>6, <1>7, <1>8, <1>9, <1>10, <1>11

\* OnClose serves a connection: its EXC flag does not belong to a listener.
LEMMA OnCloseDelivers ==
  ASSUME DInv, OnClose
  PROVE  Delivers'
<1> USE DEF DInv, Delivers
<1>1. /\ UNCHANGED <<g_socket_map, m_socket, events, pSocket, flags, conns, kst,
                     avail, urgent>>
      /\ m_state' = [m_state EXCEPT ![pSocket] = "CLOSING"]
      /\ Callback("CLOSE", Served)
      /\ pc = "close" /\ pc' = "release" /\ pSocket # None /\ pSocket \in Objs
  BY DEF OnClose, At, GoTo, kernVars, IInv, TypeOK, ServedWhileBusy, Serving, Served
<1>2. /\ Served' = Served /\ Served \in Fds
      /\ g_socket_map[Served] = pSocket /\ kst[Served] # "listen"
      /\ "EXC" \in flags
  BY <1>1 DEF Service, Kind, Served
<1>3. /\ m_state' \in [Objs -> SocketStates]
      /\ \A x \in Objs : m_state'[x] = IF x = pSocket THEN "CLOSING" ELSE m_state[x]
  BY <1>1 DEF IInv, TypeOK, SocketStates
<1>4. cb' # None /\ cb'.msg = "CLOSE" /\ cb'.fd = Served
  BY <1>1, <1>2, CallbackFrame DEF Msgs
<1>5. \A fd \in Fds : g_socket_map[fd] = pSocket => fd = Served
  BY <1>1, <1>2, MapInjective DEF IInv
<1>6. Filed'
  BY <1>1, <1>2, <1>3, <1>5 DEF Filed, IInv, TypeOK
<1>7. Batch'
  BY <1>1 DEF Batch, Kind
<1>8. Service'
  BY <1>1, <1>2, <1>3 DEF Service, Kind
<1>9. Frame'
  BY <1>1, <1>2, <1>4 DEF Frame, Place
<1>10. StillServed'
  BY <1>1, <1>2 DEF StillServed
<1>11. Established'
  BY <1>1, <1>4 DEF Established, ConfirmMeansEstablished
<1>12. Confirmed'
  BY <1>1, <1>3, <1>4 DEF Confirmed, ReadAfterConfirm, IInv, TypeOK
<1>13. Meaning'
  BY <1>1, <1>2, <1>4 DEF Meaning, Meant, NoSpuriousClose
<1>14. QED
  BY <1>6, <1>7, <1>8, <1>9, <1>10, <1>11, <1>12, <1>13

\* OnWrite: room to send, or the end of a connect.
LEMMA OnWriteDelivers ==
  ASSUME DInv, OnWrite
  PROVE  Delivers'
<1> USE DEF DInv, Delivers
<1>1. /\ UNCHANGED <<g_socket_map, m_socket, events, pSocket, flags, conns, kst,
                     avail, urgent>>
      /\ pc = "write" /\ pc' = "read" /\ pSocket # None /\ pSocket \in Objs
      /\ cb = None
  BY DEF OnWrite, At, GoTo, kernVars, IInv, TypeOK, ServedWhileBusy, Serving
<1>2. /\ Served' = Served /\ Served \in Fds /\ Kind(flags, Served)
      /\ g_socket_map[Served] = pSocket
      /\ kst[Served] # "closed"
      /\ m_state[pSocket] = "LISTENING" <=> kst[Served] = "listen"
      /\ m_state[pSocket] # "IDLE"
  BY <1>1 DEF Service, Filed, IInv, HandlesAgree, Served
<1>3. \/ "OUT" \notin flags /\ UNCHANGED <<m_state, cb>>
      \/ /\ "OUT" \in flags /\ m_state[pSocket] # "CONNECTING" /\ UNCHANGED m_state
         /\ Callback("WRITE", Served)
      \/ /\ "OUT" \in flags /\ m_state[pSocket] = "CONNECTING" /\ UNCHANGED m_state
         /\ kst[Served] = "reset" /\ Callback("CLOSE", Served)
      \/ /\ "OUT" \in flags /\ m_state[pSocket] = "CONNECTING"
         /\ m_state' = [m_state EXCEPT ![pSocket] = "CONNECTED"]
         /\ Callback("CONFIRM", Served)
  BY DEF OnWrite, Served
<1>4. /\ m_state' \in [Objs -> SocketStates]
      /\ \A x \in Objs \ {pSocket} : m_state'[x] = m_state[x]
      /\ m_state'[pSocket] \in {m_state[pSocket], "CONNECTED"}
      /\ m_state[pSocket] = "LISTENING" => m_state'[pSocket] = m_state[pSocket]
  BY <1>1, <1>3 DEF IInv, TypeOK, SocketStates
<1>5. \/ "OUT" \notin flags /\ cb' = None /\ m_state' = m_state
      \/ /\ "OUT" \in flags /\ cb' # None /\ cb'.fd = Served
         /\ \/ /\ cb'.msg = "WRITE" /\ m_state[pSocket] # "CONNECTING"
               /\ m_state' = m_state
            \/ cb'.msg = "CLOSE" /\ kst[Served] = "reset" /\ m_state' = m_state
            \/ cb'.msg = "CONFIRM" /\ m_state'[pSocket] = "CONNECTED"
  BY <1>1, <1>2, <1>3, CallbackFrame DEF Msgs, IInv, TypeOK
<1>6. \A fd \in Fds : g_socket_map[fd] = pSocket => fd = Served
  BY <1>1, <1>2, MapInjective DEF IInv
<1>7. Filed'
  BY <1>1, <1>2, <1>4, <1>6 DEF Filed, IInv, TypeOK
<1>8. Batch'
  BY <1>1 DEF Batch, Kind
<1>9. Service'
  BY <1>1, <1>2, <1>4 DEF Service, Kind
<1>10. Frame'
  BY <1>1, <1>2, <1>5 DEF Frame, Place
<1>11. StillServed'
  BY <1>1, <1>2 DEF StillServed
<1>12. Established'
  BY <1>1, <1>2, <1>5 DEF Established, ConfirmMeansEstablished
<1>13. Confirmed'
  <2> SUFFICES ASSUME LikeImConn
               PROVE  /\ \A fd \in Fds : g_socket_map[fd] # None =>
                           m_state'[g_socket_map[fd]] # "CLOSING"
                      /\ "IN" \in flags /\ (cb' = None \/ cb'.msg # "CLOSE") =>
                           m_state'[pSocket] \in {"LISTENING", "CONNECTED"}
                      /\ cb' # None /\ cb'.msg \in {"READ", "WRITE"} =>
                           m_state'[pSocket] = "CONNECTED"
    BY <1>1 DEF Confirmed, ReadAfterConfirm
  <2>1. \A fd \in Fds : g_socket_map[fd] # None => m_state[g_socket_map[fd]] # "CLOSING"
    BY <1>1 DEF Confirmed
  <2>2. m_state[pSocket] \in {"LISTENING", "CONNECTING", "CONNECTED"}
    BY <1>1, <1>2, <2>1 DEF IInv, TypeOK, SocketStates
  <2>3. "OUT" \in flags => m_state[pSocket] # "LISTENING"
    BY <1>2 DEF Kind
  <2>4. "IN" \in flags /\ "OUT" \notin flags => m_state[pSocket] = "LISTENING"
    BY <1>2 DEF Kind
  <2>5. \A fd \in Fds : g_socket_map[fd] # None => m_state'[g_socket_map[fd]] # "CLOSING"
    BY <1>4, <2>1, <2>2 DEF IInv, TypeOK
  <2>6. QED
    BY <1>5, <2>2, <2>3, <2>4, <2>5
<1>14. Meaning'
  BY <1>1, <1>2, <1>5 DEF Meaning, Meant, Kind, NoSpuriousClose
<1>15. QED
  BY <1>7, <1>8, <1>9, <1>10, <1>11, <1>12, <1>13, <1>14

\* OnRead: new connections, data, or the end.
LEMMA OnReadDelivers ==
  ASSUME DInv, OnRead
  PROVE  Delivers'
<1> USE DEF DInv, Delivers
<1>1. /\ UNCHANGED <<g_socket_map, m_state, m_socket, events, pSocket, flags,
                     conns, kst, avail, urgent>>
      /\ pc = "read" /\ pSocket # None /\ pSocket \in Objs /\ cb = None
  BY DEF OnRead, At, GoTo, objVars, kernVars, IInv, TypeOK, ServedWhileBusy, Serving
<1>2. Served' = Served /\ Served \in Fds
  BY <1>1 DEF Service, Served
<1>3. \/ "IN" \notin flags /\ pc' = "release" /\ cb' = None
      \/ m_state[pSocket] = "LISTENING" /\ pc' = "accept" /\ cb' = None
      \/ /\ "IN" \in flags /\ m_state[pSocket] # "LISTENING" /\ pc' = "release"
         /\ Callback("CLOSE", Served)
         /\ kst[Served] \in {"closed", "listen"} \/ avail[Served] = 0 \/ Served \in urgent
      \/ /\ "IN" \in flags /\ m_state[pSocket] # "LISTENING" /\ pc' = "release"
         /\ Callback("READ", Served)
         /\ kst[Served] \notin {"closed", "listen"}
  BY <1>1 DEF OnRead, Drained, GoTo, Served
<1>4. \/ pc' \in {"release", "accept"} /\ cb' = None
         /\ (pc' = "accept" => m_state[pSocket] = "LISTENING")
      \/ /\ "IN" \in flags /\ m_state[pSocket] # "LISTENING" /\ pc' = "release"
         /\ cb' # None /\ cb'.fd = Served
         /\ \/ /\ cb'.msg = "CLOSE"
               /\ kst[Served] \in {"closed", "listen"} \/ avail[Served] = 0 \/ Served \in urgent
            \/ cb'.msg = "READ" /\ kst[Served] \notin {"closed", "listen"}
  BY <1>1, <1>2, <1>3, CallbackFrame DEF Msgs
<1>5. Filed'
  BY <1>1 DEF Filed
<1>6. Batch'
  BY <1>1, <1>4 DEF Batch, Kind
<1>7. Service'
  BY <1>1, <1>2, <1>4 DEF Service, Kind
<1>8. Frame'
  BY <1>1, <1>2, <1>4 DEF Frame, Place
<1>9. StillServed'
  BY <1>1, <1>2 DEF StillServed
<1>10. Established'
  BY <1>1, <1>2, <1>4 DEF Established, ConfirmMeansEstablished
<1>11. Confirmed'
  <2> SUFFICES ASSUME LikeImConn
               PROVE  /\ \A fd \in Fds : g_socket_map[fd] # None =>
                           m_state[g_socket_map[fd]] # "CLOSING"
                      /\ cb' # None /\ cb'.msg \in {"READ", "WRITE"} =>
                           m_state[pSocket] = "CONNECTED"
    BY <1>1, <1>4 DEF Confirmed, ReadAfterConfirm
  <2>1. \A fd \in Fds : g_socket_map[fd] # None => m_state[g_socket_map[fd]] # "CLOSING"
    BY <1>1 DEF Confirmed
  <2>3. "IN" \in flags /\ kst[Served] # "closed" =>
          m_state[pSocket] \in {"LISTENING", "CONNECTED"}
    BY <1>1 DEF Confirmed
  <2>4. QED
    BY <1>4, <2>1, <2>3
<1>12. Meaning'
  <2> SUFFICES ASSUME ClosesOwnInBatch, ConnectsBetweenBatches
               PROVE  (cb' # None /\ cb'.msg = "CLOSE" /\ conns[cb'.fd] # None)
                        => kst[cb'.fd] \in {"eof", "reset"} \/ cb'.fd \in urgent
    BY <1>1, <1>2, <1>4 DEF Meaning, Meant, NoSpuriousClose
  <2>1. SUFFICES ASSUME cb' # None, cb'.msg = "CLOSE", conns[Served] # None
                 PROVE  kst[Served] \in {"eof", "reset"} \/ Served \in urgent
    BY <1>4
  <2>2. kst[Served] \notin {"closed", "listen"}
    BY <1>2, <2>1 DEF IInv, HandlesAgree, Filed
  <2>3. kst[Served] # "syn" /\ (kst[Served] = "est" => avail[Served] > 0)
    BY <1>1, <1>4, <2>1, <2>2 DEF Meaning
  <2>4. "IN" \in flags /\ (avail[Served] = 0 \/ Served \in urgent)
    BY <1>4, <2>1, <2>2
  <2>5. kst[Served] \in KernelStates
    BY <1>2 DEF IInv, TypeOK
  <2>6. QED
    BY <2>2, <2>3, <2>4, <2>5 DEF KernelStates
<1>13. QED
  BY <1>5, <1>6, <1>7, <1>8, <1>9, <1>10, <1>11, <1>12

\* A turn of the accept loop opens a descriptor; the listener is still served.
LEMMA AcceptDelivers ==
  ASSUME DInv, NEW o \in Objs, NEW fd \in Fds, _AcceptNewSocket(o, fd)
  PROVE  Delivers'
<1> USE DEF DInv, Delivers
<1>1. /\ Open(o, fd, "CONNECTED", "est") /\ Callback("CONNECT", fd)
      /\ conns' = [conns EXCEPT ![fd] = o]
      /\ avail' = [avail EXCEPT ![Served] = @ - 1]
      /\ UNCHANGED loopVars
      /\ pc = "accept" /\ cb = None /\ kst[Served] = "listen"
  BY DEF _AcceptNewSocket, At, Served
<1>2. /\ pSocket # None /\ pSocket \in Objs /\ Served \in Fds
      /\ m_state[pSocket] = "LISTENING" /\ g_socket_map[Served] = pSocket
  BY <1>1 DEF Service, IInv, TypeOK, ServedWhileBusy, Serving
<1>3. /\ kst[fd] = "closed" /\ g_socket_map[fd] = None /\ conns[fd] = None
      /\ pSocket # o /\ \A f \in Fds : g_socket_map[f] # o
      /\ g_socket_map' = [g_socket_map EXCEPT ![fd] = o]
      /\ m_state' = [m_state EXCEPT ![o] = "CONNECTED"]
      /\ m_socket' = [m_socket EXCEPT ![o] = fd]
      /\ kst' = [kst EXCEPT ![fd] = "est"] /\ urgent' = urgent
  BY <1>1, OpenEffect
<1>4. /\ UNCHANGED <<pc, events, pSocket, flags>>
      /\ pc = "accept" /\ fd # Served /\ Served' = Served
      /\ m_state'[pSocket] = m_state[pSocket]
      /\ g_socket_map'[Served] = pSocket
  BY <1>1, <1>2, <1>3 DEF loopVars, Served, IInv, TypeOK
<1>5. /\ \A f \in Fds \ {fd} : /\ g_socket_map'[f] = g_socket_map[f]
                               /\ kst'[f] = kst[f] /\ conns'[f] = conns[f]
                               /\ f # Served => avail'[f] = avail[f]
      /\ \A x \in Objs \ {o} : m_state'[x] = m_state[x]
      /\ g_socket_map'[fd] = o /\ kst'[fd] = "est" /\ conns'[fd] = o
      /\ m_state'[o] = "CONNECTED"
      /\ m_state' \in [Objs -> SocketStates]
  BY <1>1, <1>3 DEF IInv, TypeOK, SocketStates
<1>6. cb' # None /\ cb'.msg = "CONNECT" /\ cb'.fd = fd
  BY <1>1, CallbackFrame DEF Msgs
<1>7. Filed'
  BY <1>3, <1>5 DEF Filed, IInv, TypeOK
<1>8. Batch'
  BY <1>3, <1>4, <1>5 DEF Batch, Kind
<1>9. Service'
  BY <1>2, <1>4 DEF Service
<1>10. Frame'
  BY <1>4, <1>6 DEF Frame, Place
<1>11. StillServed'
  BY <1>4 DEF StillServed
<1>12. Established'
  BY <1>4, <1>5, <1>6 DEF Established, ConfirmMeansEstablished
<1>13. Confirmed'
  BY <1>1, <1>2, <1>3, <1>4, <1>5, <1>6 DEF Confirmed, ReadAfterConfirm, IInv, TypeOK
<1>14. Meaning'
  <2> SUFFICES ASSUME ClosesOwnInBatch, ConnectsBetweenBatches
               PROVE  /\ \A f \in Fds : events[f] # {} =>
                           kst'[f] # "closed" /\ Meant(events[f], f)'
                      /\ events[Served] = {} /\ events[fd] = {}
    BY <1>4, <1>6 DEF Meaning, NoSpuriousClose, Meant
  <2>1. events[Served] = {} /\ events[fd] = {}
    BY <1>2, <1>3 DEF Meaning
  <2>2. ASSUME NEW f \in Fds, events[f] # {}
        PROVE  kst'[f] # "closed" /\ Meant(events[f], f)'
    BY <1>3, <1>4, <1>5, <2>1, <2>2 DEF Meaning, Meant
  <2>3. QED
    BY <2>1, <2>2
<1>15. QED
  BY <1>7, <1>8, <1>9, <1>10, <1>11, <1>12, <1>13, <1>14

\* The accept loop ends.
LEMMA AcceptEndDelivers ==
  ASSUME DInv, AcceptEnd
  PROVE  Delivers'
<1> USE DEF DInv, Delivers
<1>1. /\ UNCHANGED <<g_socket_map, m_state, m_socket, events, pSocket, flags, cb,
                     conns, kst, avail, urgent>>
      /\ pc = "accept" /\ pc' = "release" /\ cb = None
  BY DEF AcceptEnd, At, GoTo, objVars, kernVars
<1>2. Filed'
  BY <1>1 DEF Filed
<1>3. Batch'
  BY <1>1 DEF Batch, Kind
<1>4. Service'
  BY <1>1 DEF Service, Served, Kind
<1>5. Frame'
  BY <1>1 DEF Frame
<1>6. StillServed'
  BY <1>1 DEF StillServed, Served
<1>7. Established'
  BY <1>1 DEF Established, ConfirmMeansEstablished, Served
<1>8. Confirmed'
  BY <1>1 DEF Confirmed, ReadAfterConfirm, Served
<1>9. Meaning'
  BY <1>1 DEF Meaning, Meant, NoSpuriousClose, Served
<1>10. QED
  BY <1>2, <1>3, <1>4, <1>5, <1>6, <1>7, <1>8, <1>9

\* The event is done with.
LEMMA ReleaseDelivers ==
  ASSUME DInv, ReleaseEvent
  PROVE  Delivers'
<1> USE DEF DInv, Delivers
<1>1. /\ pc = "release" /\ cb = None
      /\ pSocket' = None /\ flags' = {} /\ pc' = "event"
      /\ UNCHANGED <<g_socket_map, events, cb, conns, kst, avail, urgent>>
      /\ \A fd \in Fds : g_socket_map[fd] # None =>
           m_state'[g_socket_map[fd]] = m_state[g_socket_map[fd]]
  BY ReleaseEffect DEF kernVars
<1>2. Filed'
  BY <1>1 DEF Filed
<1>3. Batch'
  BY <1>1 DEF Batch, Kind
<1>4. Service' /\ Frame' /\ StillServed'
  BY <1>1 DEF Service, Frame, StillServed
<1>5. Established'
  BY <1>1 DEF Established, ConfirmMeansEstablished
<1>6. Confirmed'
  BY <1>1 DEF Confirmed, ReadAfterConfirm
<1>7. Meaning'
  BY <1>1 DEF Meaning, Meant, NoSpuriousClose
<1>8. QED
  BY <1>2, <1>3, <1>4, <1>5, <1>6, <1>7

\* Timers run when the batch is used up.
LEMMA CheckTimersDelivers ==
  ASSUME DInv, CheckTimers
  PROVE  Delivers'
<1> USE DEF DInv, Delivers
<1>1. /\ UNCHANGED <<g_socket_map, m_state, m_socket, events, pSocket, flags,
                     conns, kst, avail, urgent>>
      /\ pc = "event" /\ pc' = "wait" /\ cb = None /\ pSocket = None
      /\ \A fd \in Fds : events[fd] = {}
  BY DEF CheckTimers, At, GoTo, objVars, kernVars, IInv, ServedWhileBusy, Serving
<1>2. cb' = None \/ (cb' # None /\ cb'.msg = "TIMER")
  BY <1>1, CallbackFrame DEF CheckTimers, Msgs
<1>3. Filed'
  BY <1>1 DEF Filed
<1>4. Batch'
  BY <1>1 DEF Batch, Kind
<1>5. Service' /\ StillServed'
  BY <1>1 DEF Service, StillServed
<1>6. Frame'
  BY <1>1, <1>2 DEF Frame, Place
<1>7. Established'
  BY <1>1, <1>2 DEF Established, ConfirmMeansEstablished
<1>8. Confirmed'
  BY <1>1, <1>2 DEF Confirmed, ReadAfterConfirm
<1>9. Meaning'
  BY <1>1, <1>2 DEF Meaning, Meant, NoSpuriousClose
<1>10. QED
  BY <1>3, <1>4, <1>5, <1>6, <1>7, <1>8, <1>9

\* Outside a batch nothing is served and no event is left.
LEMMA BetweenBatches ==
  ASSUME DInv, pc \in {"stopped", "wait"}
  PROVE  pSocket = None /\ \A fd \in Fds : events[fd] = {}
  BY DEF DInv, IInv, ServedWhileBusy, Serving, Delivers, Batch

\* netlib_listen comes before the loop.
LEMMA ListenDelivers ==
  ASSUME DInv, NEW o \in Objs, NEW fd \in Fds, netlib_listen(o, fd)
  PROVE  Delivers'
<1> USE DEF DInv, Delivers
<1>1. /\ Open(o, fd, "LISTENING", "listen")
      /\ UNCHANGED <<pc, events, pSocket, flags, cb, conns, avail>>
      /\ pc = "stopped" /\ cb = None
  BY DEF netlib_listen, InMain, loopVars
<1>2. pSocket = None /\ \A f \in Fds : events[f] = {}
  BY <1>1, BetweenBatches
<1>3. /\ g_socket_map[fd] = None /\ conns[fd] = None
      /\ \A f \in Fds : g_socket_map[f] # o
      /\ g_socket_map' = [g_socket_map EXCEPT ![fd] = o]
      /\ m_state' = [m_state EXCEPT ![o] = "LISTENING"]
      /\ kst' = [kst EXCEPT ![fd] = "listen"] /\ urgent' = urgent
  BY <1>1, OpenEffect
<1>4. Filed'
  BY <1>1, <1>3 DEF Filed, IInv, TypeOK
<1>5. Batch'
  BY <1>1, <1>2 DEF Batch, Kind
<1>6. Service' /\ Frame' /\ StillServed'
  BY <1>1, <1>2 DEF Service, Frame, StillServed
<1>7. Established'
  BY <1>1, <1>2 DEF Established, ConfirmMeansEstablished
<1>8. Confirmed'
  BY <1>1, <1>3 DEF Confirmed, ReadAfterConfirm, IInv, TypeOK
<1>9. Meaning'
  BY <1>1, <1>2 DEF Meaning, NoSpuriousClose
<1>10. QED
  BY <1>4, <1>5, <1>6, <1>7, <1>8, <1>9

\* netlib_connect: if it comes during a batch the flags that are left may be
\* about an earlier connection, and nothing is claimed of them.
LEMMA ConnectDelivers ==
  ASSUME DInv, NEW o \in Objs, NEW fd \in Fds, netlib_connect(o, fd)
  PROVE  Delivers'
<1> USE DEF DInv, Delivers
<1>1. /\ Open(o, fd, "CONNECTING", "syn")
      /\ conns' = [conns EXCEPT ![fd] = o]
      /\ UNCHANGED <<pc, events, pSocket, flags, cb, avail>>
      /\ (pc = "stopped" /\ cb = None) \/ (cb # None /\ cb.msg \in ConnectIn)
  BY DEF netlib_connect, InMain, In, loopVars
<1>2. ConnectsBetweenBatches =>
        /\ pc \in {"stopped", "wait"} /\ pSocket = None
        /\ \A f \in Fds : events[f] = {}
        /\ cb # None => cb.msg = "TIMER"
  <2>1. cb # None => cb.msg \in Msgs
    BY DEF IInv, TypeOK, Frames
  <2>2. ConnectsBetweenBatches =>
          pc \in {"stopped", "wait"} /\ (cb # None => cb.msg = "TIMER")
    BY <1>1, <2>1 DEF ConnectsBetweenBatches, Frame, Place, Msgs
  <2>3. QED
    BY <2>2, BetweenBatches
<1>3. /\ kst[fd] = "closed" /\ g_socket_map[fd] = None /\ conns[fd] = None
      /\ pSocket # o /\ \A f \in Fds : g_socket_map[f] # o
      /\ g_socket_map' = [g_socket_map EXCEPT ![fd] = o]
      /\ m_state' = [m_state EXCEPT ![o] = "CONNECTING"]
      /\ m_socket' = [m_socket EXCEPT ![o] = fd]
      /\ kst' = [kst EXCEPT ![fd] = "syn"] /\ urgent' = urgent
  BY <1>1, OpenEffect
<1>4. pSocket # None => /\ Served' = Served /\ m_state'[pSocket] = m_state[pSocket]
                        /\ g_socket_map[Served] = pSocket =>
                             g_socket_map'[Served] = pSocket
  BY <1>1, <1>3 DEF Served, IInv, TypeOK
<1>5. Filed'
  BY <1>1, <1>3 DEF Filed, IInv, TypeOK
<1>6. Batch'
  BY <1>1, <1>3 DEF Batch, Kind, IInv, TypeOK
<1>7. Service'
  <2>1. pSocket # None /\ pc \in {"close", "write"} => cb = None
    BY DEF Service
  <2>2. ~(pSocket # None /\ pc \in {"close", "write"})
    BY <1>1, <2>1
  <2>3. pSocket # None /\ kst'[Served] = "listen" => kst[Served] = "listen"
    BY <1>3 DEF Service, IInv, TypeOK
  <2>4. QED
    BY <1>1, <1>4, <2>2, <2>3 DEF Service
<1>8. Frame'
  <2>1. cb # None /\ cb.msg \notin {"TIMER", "CONNECT"} => pSocket # None
    BY DEF Frame, Place, IInv, ServedWhileBusy, Serving
  <2>2. QED
    BY <1>1, <1>4, <2>1 DEF Frame, Place
<1>9. StillServed'
  BY <1>1, <1>2 DEF StillServed
<1>10. Established'
  BY <1>1, <1>2 DEF Established, ConfirmMeansEstablished
<1>11. Confirmed'
  <2>1. cb = None => pc = "stopped"
    BY <1>1
  <2>2. pc \in {"read", "release"} => pSocket # None
    BY DEF IInv, ServedWhileBusy, Serving
  <2>3. cb # None /\ cb.msg \in {"READ", "WRITE"} => pc \in {"read", "release"}
    BY DEF Frame, Place
  <2>4. QED
    BY <1>1, <1>3, <1>4, <2>1, <2>2, <2>3
       DEF Confirmed, ReadAfterConfirm, IInv, TypeOK
<1>12. Meaning'
  BY <1>1, <1>2 DEF Meaning, NoSpuriousClose
<1>13. QED
  BY <1>5, <1>6, <1>7, <1>8, <1>9, <1>10, <1>11, <1>12

\* netlib_close takes a connection away, never a listener.
LEMMA CloseDelivers ==
  ASSUME DInv, NEW h \in Fds, netlib_close(h)
  PROVE  Delivers'
<1> USE DEF DInv, Delivers
<1>1. /\ cb # None /\ (cb.msg \in CloseAnyIn \/ cb.fd = h)
      /\ g_socket_map[h] \in Objs /\ conns[h] = g_socket_map[h]
      /\ g_socket_map' = [g_socket_map EXCEPT ![h] = None]
      /\ conns' = [conns EXCEPT ![h] = None]
      /\ kst' = [kst EXCEPT ![h] = "closed"]
      /\ avail' = [avail EXCEPT ![h] = 0] /\ urgent' = urgent \ {h}
      /\ UNCHANGED <<pc, events, pSocket, flags, cb>>
      /\ \A x \in Objs : x # g_socket_map[h] \/ x = pSocket =>
           m_state'[x] = m_state[x] /\ m_socket'[x] = m_socket[x]
  BY CloseEffect DEF loopVars
<1>2. kst[h] # "listen" /\ m_state[g_socket_map[h]] # "LISTENING"
  <2>1. g_socket_map[h] # None
    BY <1>1, NetLibAssumption
  <2>2. QED
    BY <1>1, <2>1 DEF Filed
<1>3. \A f \in Fds : f # h /\ g_socket_map[f] # None =>
        m_state'[g_socket_map[f]] = m_state[g_socket_map[f]]
  BY <1>1, MapInjective DEF IInv, TypeOK
<1>4. \A f \in Fds \ {h} : /\ g_socket_map'[f] = g_socket_map[f]
                           /\ conns'[f] = conns[f] /\ kst'[f] = kst[f]
                           /\ avail'[f] = avail[f]
                           /\ (f \in urgent' <=> f \in urgent)
  BY <1>1 DEF IInv, TypeOK
<1>5. g_socket_map'[h] = None /\ conns'[h] = None /\ kst'[h] = "closed"
  BY <1>1 DEF IInv, TypeOK
<1>6. pSocket # None => /\ Served \in Fds /\ Served' = Served
                        /\ m_state'[pSocket] = m_state[pSocket]
                        /\ pc \notin {"close", "write"}
  BY <1>1 DEF Service, Served, IInv, TypeOK
<1>7. Filed'
  BY <1>1, <1>3, <1>4, <1>5 DEF Filed
<1>8. Batch'
  BY <1>1, <1>2, <1>4, <1>5 DEF Batch, Kind
<1>9. Service'
  BY <1>1, <1>2, <1>4, <1>6 DEF Service
<1>10. Frame'
  <2>1. cb.msg \notin {"TIMER", "CONNECT"} => pSocket # None
    BY <1>1 DEF Frame, Place, IInv, ServedWhileBusy, Serving
  <2>2. QED
    BY <1>1, <1>6, <2>1 DEF Frame, Place
<1>11. StillServed'
  BY <1>1, <1>4, <1>5, <1>6 DEF StillServed
<1>12. Established'
  <2>1. cb.msg = "CONFIRM" => cb.fd \in Fds
    BY <1>1, <1>6 DEF Frame, Place, IInv, ServedWhileBusy, Serving
  <2>2. pc # "write"
    BY <1>6 DEF IInv, ServedWhileBusy, Serving
  <2>3. QED
    BY <1>1, <1>4, <1>5, <2>1, <2>2 DEF Established, ConfirmMeansEstablished
<1>13. Confirmed'
  <2> SUFFICES ASSUME LikeImConn
               PROVE  /\ \A fd \in Fds :
                           g_socket_map'[fd] # None
                             /\ m_state'[g_socket_map'[fd]] = "CLOSING" =>
                           pc = "release" /\ cb.msg = "CLOSE"
                             /\ pSocket = g_socket_map'[fd]
                      /\ pc = "read" /\ "IN" \in flags /\ cb.msg # "CLOSE" =>
                           m_state'[pSocket] \in {"LISTENING", "CONNECTED"}
                      /\ cb.msg \in {"READ", "WRITE"} =>
                           m_state'[pSocket] = "CONNECTED"
    BY <1>1 DEF Confirmed, ReadAfterConfirm
  <2>1. pc \in {"read", "release"} => pSocket # None
    BY DEF IInv, ServedWhileBusy, Serving
  <2>2. cb.msg \in {"READ", "WRITE"} => pc \in {"read", "release"}
    BY <1>1 DEF Frame, Place
  <2>3. QED
    BY <1>1, <1>3, <1>4, <1>5, <1>6, <2>1, <2>2 DEF Confirmed, ReadAfterConfirm
<1>14. Meaning'
  <2> SUFFICES ASSUME ClosesOwnInBatch, ConnectsBetweenBatches
               PROVE  /\ \A f \in Fds : events[f] # {} =>
                           kst'[f] # "closed" /\ Meant(events[f], f)'
                      /\ pSocket # None => events[Served] = {}
                      /\ pc = "read" /\ "IN" \in flags /\ kst'[Served] # "closed" =>
                           /\ kst'[Served] # "syn"
                           /\ kst'[Served] = "est" => avail'[Served] > 0
                      /\ cb # None /\ cb.msg = "CONNECT" => events[cb.fd] = {}
                      /\ (cb # None /\ cb.msg = "CLOSE" /\ conns'[cb.fd] # None)
                           => kst'[cb.fd] \in {"eof", "reset"} \/ cb.fd \in urgent'
    BY <1>1, <1>6 DEF Meaning, NoSpuriousClose, Meant, IInv, ServedWhileBusy, Serving
  <2>1. events[h] = {}
    <3>1. CASE cb.msg = "TIMER"
      <4>1. pc = "wait"
        BY <1>1, <3>1 DEF Frame, Place
      <4>2. QED
        BY <4>1, BetweenBatches
    <3>2. CASE cb.msg # "TIMER"
      <4>1. cb.fd = h
        BY <1>1, <3>2 DEF ClosesOwnInBatch
      <4>2. CASE cb.msg = "CONNECT"
        BY <1>1, <4>1, <4>2 DEF Meaning
      <4>3. CASE cb.msg # "CONNECT"
        <5>1. cb.fd = Served /\ pSocket # None
          BY <1>1, <3>2, <4>3 DEF Frame, Place, IInv, ServedWhileBusy, Serving
        <5>2. QED
          BY <4>1, <5>1 DEF Meaning
      <4>4. QED
        BY <4>2, <4>3
    <3>3. QED
      BY <3>1, <3>2
  <2>2. \A f \in Fds : events[f] # {} => kst'[f] # "closed" /\ Meant(events[f], f)'
    BY <1>1, <1>4, <2>1 DEF Meaning, Meant
  <2>3. pc = "read" /\ "IN" \in flags /\ kst'[Served] # "closed" =>
          kst'[Served] # "syn" /\ (kst'[Served] = "est" => avail'[Served] > 0)
    BY <1>4, <1>5, <1>6 DEF Meaning, IInv, ServedWhileBusy, Serving
  <2>4. cb.msg = "CLOSE" => cb.fd \in Fds
    BY <1>1, <1>6 DEF Frame, Place, IInv, ServedWhileBusy, Serving
  <2>5. (cb.msg = "CLOSE" /\ conns'[cb.fd] # None) => kst'[cb.fd] \in {"eof", "reset"} \/ cb.fd \in urgent'
    BY <1>1, <1>4, <1>5, <2>4 DEF Meaning, NoSpuriousClose
  <2>6. /\ pSocket # None => events[Served] = {}
        /\ cb # None /\ cb.msg = "CONNECT" => events[cb.fd] = {}
    BY DEF Meaning
  <2>7. QED
    BY <2>2, <2>3, <2>5, <2>6
<1>15. QED
  BY <1>7, <1>8, <1>9, <1>10, <1>11, <1>12, <1>13, <1>14

\* netlib_recv empties the descriptor of the event, of which no flag is left.
LEMMA RecvDelivers ==
  ASSUME DInv, NEW h \in Fds, netlib_recv(h)
  PROVE  Delivers'
<1> USE DEF DInv, Delivers
<1>1. /\ UNCHANGED <<g_socket_map, m_state, m_socket, pc, events, pSocket, flags,
                     conns, kst>>
      /\ cb # None /\ cb.msg = "READ" /\ cb.fd = h
      /\ avail' = [avail EXCEPT ![h] = 0] /\ urgent \ {h} \subseteq urgent'
      /\ cb' = [cb EXCEPT !.drained = TRUE]
  BY DEF netlib_recv, In, objVars, loopVars, IInv, HandlesAgree
<1>2. cb' # None /\ cb'.msg = cb.msg /\ cb'.fd = cb.fd
  <2>1. cb \in Frames /\ cb' \in Frames
    BY <1>1 DEF IInv, TypeOK, Frames
  <2>2. QED
    BY <1>1, <2>1, NetLibAssumption DEF Frames
<1>3. pc = "release" /\ pSocket # None /\ Served = h
  BY <1>1 DEF Frame, Place, IInv, ServedWhileBusy, Serving
<1>4. Filed'
  BY <1>1 DEF Filed
<1>5. Batch'
  BY <1>1 DEF Batch, Kind
<1>6. Service'
  BY <1>1, <1>3 DEF Service, Served
<1>7. Frame'
  BY <1>1, <1>2 DEF Frame, Place, Served
<1>8. StillServed'
  BY <1>1 DEF StillServed, Served
<1>9. Established'
  BY <1>1, <1>2, <1>3 DEF Established, ConfirmMeansEstablished
<1>10. Confirmed'
  BY <1>1, <1>2, <1>3 DEF Confirmed, ReadAfterConfirm
<1>11. Meaning'
  <2>1. \A f \in Fds \ {h} : avail'[f] = avail[f]
    BY <1>1 DEF IInv, TypeOK
  <2>2. QED
    BY <1>1, <1>2, <1>3, <2>1 DEF Meaning, Meant, NoSpuriousClose, Served
<1>12. QED
  BY <1>4, <1>5, <1>6, <1>7, <1>8, <1>9, <1>10, <1>11

\* A callback returns; as a CImConn it has closed the handle it was told CLOSE
\* for, so that no open socket stays CLOSING.
LEMMA ReturnDelivers ==
  ASSUME DInv, CallbackReturn
  PROVE  Delivers'
<1> USE DEF DInv, Delivers
<1>1. /\ UNCHANGED <<g_socket_map, m_state, m_socket, pc, events, pSocket, flags,
                     conns, kst, avail, urgent>>
      /\ cb # None /\ cb' = None
      /\ LikeImConn /\ cb.msg = "CLOSE" => conns[cb.fd] = None
  BY DEF CallbackReturn, objVars, loopVars, kernVars
<1>2. Filed'
  BY <1>1 DEF Filed
<1>3. Batch'
  BY <1>1 DEF Batch, Kind
<1>4. Service'
  BY <1>1 DEF Service, Served, Kind
<1>5. Frame'
  BY <1>1 DEF Frame
<1>6. StillServed'
  BY <1>1 DEF StillServed, Served
<1>7. Established'
  BY <1>1 DEF Established, ConfirmMeansEstablished, Served
<1>8. Confirmed'
  <2> SUFFICES ASSUME LikeImConn
               PROVE  /\ \A fd \in Fds : g_socket_map[fd] # None =>
                           m_state[g_socket_map[fd]] # "CLOSING"
                      /\ pc = "read" /\ "IN" \in flags /\ kst[Served] # "closed"
                           => m_state[pSocket] \in {"LISTENING", "CONNECTED"}
    BY <1>1 DEF Confirmed, ReadAfterConfirm, Served
  <2>1. ASSUME NEW fd \in Fds, cb.msg = "CLOSE", g_socket_map[fd] # None, fd = Served
        PROVE  m_state[g_socket_map[fd]] = "LISTENING"
    <3>1. cb.fd = fd
      BY <1>1, <2>1 DEF Frame
    <3>2. conns[fd] = None
      BY <1>1, <2>1, <3>1
    <3>3. QED
      BY <2>1, <3>2 DEF Filed
  <2>2. ASSUME NEW fd \in Fds, g_socket_map[fd] # None
        PROVE  m_state[g_socket_map[fd]] # "CLOSING"
    <3>1. g_socket_map[fd] = pSocket => fd = Served
      BY <2>2 DEF Served, IInv, HandlesAgree
    <3>2. QED
      BY <2>1, <2>2, <3>1 DEF Confirmed
  <2>3. ASSUME pc = "read", "IN" \in flags, kst[Served] # "closed"
        PROVE  m_state[pSocket] \in {"LISTENING", "CONNECTED"}
    <3>1. pSocket # None /\ Served \in Fds
      BY <2>3 DEF Service, IInv, ServedWhileBusy, Serving
    <3>2. g_socket_map[Served] # None
      BY <2>3, <3>1 DEF IInv, HandlesAgree
    <3>3. CASE cb.msg = "CLOSE"
      <4>1. m_state[g_socket_map[Served]] = "LISTENING"
        BY <2>1, <3>1, <3>2, <3>3
      <4>2. kst[Served] = "listen"
        BY <3>1, <3>2, <4>1 DEF Filed
      <4>3. g_socket_map[Served] = pSocket
        BY <3>1, <4>2 DEF Service
      <4>4. QED
        BY <4>1, <4>3
    <3>4. CASE cb.msg # "CLOSE"
      BY <1>1, <2>3, <3>4 DEF Confirmed
    <3>5. QED
      BY <3>3, <3>4
  <2>4. QED
    BY <2>2, <2>3
<1>9. Meaning'
  BY <1>1 DEF Meaning, Meant, NoSpuriousClose, Served
<1>10. QED
  BY <1>2, <1>3, <1>4, <1>5, <1>6, <1>7, <1>8, <1>9

\* The kernel moves a connection on: what a flag says of it stays true.
LEMMA KernelEffect ==
  ASSUME IInv, Kernel
  PROVE  /\ UNCHANGED <<objVars, loopVars, cb, conns, epoll>>
         /\ rdy \subseteq rdy' /\ urgent \subseteq urgent'
         /\ \A f \in epoll : f \in rdy' \/ (kst'[f] = kst[f] /\ avail'[f] = avail[f])
         /\ \A f \in Fds : kst[f] = "closed" => avail'[f] = avail[f]
         /\ \A f \in Fds :
              /\ kst'[f] = "closed" <=> kst[f] = "closed"
              /\ kst'[f] = "listen" <=> kst[f] = "listen"
              /\ kst'[f] = "syn" => kst[f] = "syn"
              /\ kst[f] = "reset" => kst'[f] = "reset"
              /\ kst[f] \in {"eof", "reset"} => kst'[f] \in {"eof", "reset"}
              /\ kst[f] \in {"est", "eof", "reset"} =>
                   kst'[f] \in {"est", "eof", "reset"}
              /\ kst'[f] = "est" =>
                   kst[f] = "syn" \/ (kst[f] = "est" /\ avail'[f] >= avail[f])
<1> PICK fd \in Fds :
      KEstablish(fd) \/ KReset(fd) \/ KPeerClose(fd) \/ KArrive(fd) \/ KUrgent(fd)
  BY DEF Kernel
<1> USE DEF IInv, TypeOK
<1>1. CASE KEstablish(fd)
  BY <1>1 DEF KEstablish, KernelStep, Edge
<1>2. CASE KReset(fd)
  BY <1>2 DEF KReset, KernelStep, Edge
<1>3. CASE KPeerClose(fd)
  BY <1>3 DEF KPeerClose, KernelStep, Edge
<1>4. CASE KArrive(fd)
  <2>1. PICK s \in {"est", "listen"} : KernelStep(fd, {s}, s)
    BY <1>4 DEF KArrive
  <2>2. /\ kst' = [kst EXCEPT ![fd] = s] /\ kst[fd] = s
        /\ UNCHANGED <<objVars, loopVars, cb, conns, epoll>>
    BY <2>1 DEF KernelStep
  <2>3. kst' = kst
    BY <2>2
  <2>4. \A f \in Fds : avail[f] \in Nat /\ avail'[f] >= avail[f]
    BY <1>4, NetLibAssumption DEF KArrive
  <2>5. /\ rdy \subseteq rdy' /\ (fd \in epoll => fd \in rdy')
        /\ \A f \in Fds \ {fd} : avail'[f] = avail[f]
        /\ urgent' = urgent
    BY <1>4, <2>1 DEF KArrive, KernelStep, Edge
  <2>6. QED
    BY <2>2, <2>3, <2>4, <2>5
<1>5. CASE KUrgent(fd)
  BY <1>5 DEF KUrgent, KernelStep, Edge
<1>6. QED
  BY <1>1, <1>2, <1>3, <1>4, <1>5

LEMMA KernelDelivers ==
  ASSUME DInv, Kernel
  PROVE  Delivers'
<1> USE DEF DInv, Delivers
<1>1. /\ UNCHANGED <<g_socket_map, m_state, m_socket, pc, events, pSocket, flags, cb,
                     conns>>
      /\ urgent \subseteq urgent'
  BY KernelEffect DEF objVars, loopVars
<1>2. \A f \in Fds :
        /\ kst'[f] = "closed" <=> kst[f] = "closed"
        /\ kst'[f] = "listen" <=> kst[f] = "listen"
        /\ kst'[f] = "syn" => kst[f] = "syn"
        /\ kst[f] = "reset" => kst'[f] = "reset"
        /\ kst[f] \in {"eof", "reset"} => kst'[f] \in {"eof", "reset"}
        /\ kst[f] \in {"est", "eof", "reset"} => kst'[f] \in {"est", "eof", "reset"}
        /\ kst'[f] = "est" =>
             kst[f] = "syn" \/ (kst[f] = "est" /\ avail'[f] >= avail[f])
  BY KernelEffect
<1>3. pSocket # None => Served \in Fds /\ Served' = Served
  BY <1>1 DEF Service, Served
<1>4. \A fl \in SUBSET Flags, f \in Fds : Kind(fl, f) => Kind(fl, f)'
  BY <1>2 DEF Kind
<1>5. \A fl \in SUBSET Flags, f \in Fds :
        Kind(fl, f) /\ Meant(fl, f) => Meant(fl, f)'
  <2> SUFFICES ASSUME NEW fl \in SUBSET Flags, NEW f \in Fds,
                      Kind(fl, f), Meant(fl, f)
               PROVE  Meant(fl, f)'
    OBVIOUS
  <2>1. avail[f] \in Nat /\ avail'[f] \in Nat
    <3>1. IInv'
      BY KernelInv
    <3>2. QED
      BY <3>1, NetLibAssumption DEF IInv, TypeOK
  <2>2. QED
    BY <1>1, <1>2, <2>1 DEF Kind, Meant
<1>6. Filed'
  BY <1>1, <1>2 DEF Filed
<1>7. Batch'
  BY <1>1, <1>4 DEF Batch, IInv, TypeOK
<1>8. Service'
  BY <1>1, <1>2, <1>3, <1>4 DEF Service, IInv, TypeOK
<1>9. Frame'
  BY <1>1 DEF Frame, Place, Served
<1>10. StillServed'
  BY <1>1, <1>2, <1>3 DEF StillServed
<1>11. Established'
  <2>1. pc = "write" => pSocket # None
    BY DEF IInv, ServedWhileBusy, Serving
  <2>2. cb # None /\ cb.msg = "CONFIRM" => cb.fd \in Fds
    BY <1>3 DEF Frame, Place, IInv, ServedWhileBusy, Serving
  <2>3. QED
    BY <1>1, <1>2, <1>3, <2>1, <2>2 DEF Established, ConfirmMeansEstablished
<1>12. Confirmed'
  <2>1. pc = "read" => pSocket # None
    BY DEF IInv, ServedWhileBusy, Serving
  <2>2. QED
    BY <1>1, <1>2, <1>3, <2>1 DEF Confirmed, ReadAfterConfirm
<1>13. Meaning'
  <2> SUFFICES ASSUME ClosesOwnInBatch, ConnectsBetweenBatches
               PROVE  /\ \A f \in Fds : events[f] # {} =>
                           kst'[f] # "closed" /\ Meant(events[f], f)'
                      /\ pSocket # None => events[Served] = {}
                      /\ pc \in {"close", "write"} => Meant(flags, Served)'
                      /\ pc = "read" /\ "IN" \in flags /\ kst'[Served] # "closed" =>
                           kst'[Served] # "syn"
                             /\ (kst'[Served] = "est" => avail'[Served] > 0)
                      /\ cb # None /\ cb.msg = "CONNECT" => events[cb.fd] = {}
                      /\ (cb # None /\ cb.msg = "CLOSE" /\ conns[cb.fd] # None)
                           => kst'[cb.fd] \in {"eof", "reset"} \/ cb.fd \in urgent'
    BY <1>1, <1>3 DEF Meaning, NoSpuriousClose, Meant, IInv, ServedWhileBusy, Serving
  <2>1. pc \in {"close", "write", "read"} => Served \in Fds /\ pSocket # None
    BY <1>3 DEF IInv, ServedWhileBusy, Serving
  <2>2. ASSUME NEW f \in Fds, events[f] # {}
        PROVE  kst'[f] # "closed" /\ Meant(events[f], f)'
    <3>1. /\ Kind(events[f], f) /\ Meant(events[f], f) /\ kst[f] # "closed"
          /\ events[f] \in SUBSET Flags
      BY <2>2 DEF Meaning, Batch, IInv, TypeOK
    <3>2. QED
      BY <1>1, <1>2, <1>5, <3>1 DEF Meant
  <2>3. pc \in {"close", "write"} => Meant(flags, Served)'
    <3>1. pc \in {"close", "write"} =>
            Meant(flags, Served) /\ Kind(flags, Served) /\ Served' = Served
      BY <1>3, <2>1 DEF Meaning, Service
    <3>2. QED
      BY <1>1, <1>5, <2>1, <3>1 DEF IInv, TypeOK, Meant
  <2>4. pc = "read" /\ "IN" \in flags /\ kst'[Served] # "closed" =>
          kst'[Served] # "syn" /\ (kst'[Served] = "est" => avail'[Served] > 0)
    <3>1. pc = "read" => avail[Served] \in Nat /\ avail'[Served] \in Nat
      <4>1. IInv'
        BY KernelInv
      <4>2. QED
        BY <2>1, <4>1, NetLibAssumption DEF IInv, TypeOK
    <3>2. QED
      BY <1>2, <2>1, <3>1 DEF Meaning
  <2>5. cb # None /\ cb.msg = "CLOSE" => cb.fd \in Fds
    BY <1>3 DEF Frame, Place, IInv, ServedWhileBusy, Serving
  <2>6. (cb # None /\ cb.msg = "CLOSE" /\ conns[cb.fd] # None)
          => kst'[cb.fd] \in {"eof", "reset"} \/ cb.fd \in urgent'
    BY <1>1, <1>2, <2>5 DEF Meaning, NoSpuriousClose
  <2>7. /\ pSocket # None => events[Served] = {}
        /\ cb # None /\ cb.msg = "CONNECT" => events[cb.fd] = {}
    BY DEF Meaning
  <2>8. QED
    BY <2>2, <2>3, <2>4, <2>6, <2>7
<1>14. QED
  BY <1>6, <1>7, <1>8, <1>9, <1>10, <1>11, <1>12, <1>13

-----------------------------------------------------------------------------
\* Before the loop nothing is open.
LEMMA InitDelivers == Init => DInv
<1> SUFFICES ASSUME Init PROVE Delivers
  BY InitInv DEF DInv
<1>1. Filed /\ Batch /\ Service /\ Frame /\ StillServed
  BY DEF Init, Filed, Batch, Kind, Service, Frame, StillServed
<1>2. Established /\ Confirmed
  BY DEF Init, Established, ConfirmMeansEstablished, Confirmed, ReadAfterConfirm
<1>3. Meaning
  BY DEF Init, Meaning, NoSpuriousClose
<1>4. QED
  BY <1>1, <1>2, <1>3 DEF Delivers

LEMMA StepDelivers == DInv /\ [Next]_vars => DInv'
<1> SUFFICES ASSUME DInv, [Next]_vars
             PROVE  Delivers'
  BY StepInv DEF DInv
<1>1. CASE Dispatch
  BY <1>1, LoopDelivers, EpollWaitDelivers, TakeEventDelivers, OnCloseDelivers,
     OnWriteDelivers, OnReadDelivers, AcceptDelivers, AcceptEndDelivers,
     ReleaseDelivers, CheckTimersDelivers DEF Dispatch
<1>2. CASE Application
  <2>1. ASSUME NEW h \in Fds, netlib_option_null(h)
        PROVE  Delivers'
    BY <2>1, DeliversSame DEF netlib_option_null, loopVars, kernVars, DInv
  <2>2. CASE netlib_stop_event
    BY <2>2, DeliversSame DEF netlib_stop_event, objVars, kernVars, DInv
  <2>3. QED
    BY <1>2, <2>1, <2>2, ListenDelivers, ConnectDelivers, CloseDelivers,
       RecvDelivers, ReturnDelivers DEF Application
<1>3. CASE Kernel
  BY <1>3, KernelDelivers
<1>4. CASE UNCHANGED vars
  BY <1>4, DeliversSame DEF vars, objVars, loopVars, kernVars, DInv
<1>5. QED
  BY <1>1, <1>2, <1>3, <1>4 DEF Next

\* The parts of the delivery invariant hold in every reachable state.
THEOREM Delivery == Spec => []DInv
  BY InitDelivers, StepDelivers, PTL DEF Spec

\* EventDispatch.cpp, BaseSocket.cpp: if no callback of a batch connects, a
\* callback about an open handle comes from the socket the application got it
\* for, whatever the callbacks close.
THEOREM RightRecipient == Spec => [](ConnectsBetweenBatches => NoMisdelivery)
<1>1. DInv => (ConnectsBetweenBatches => NoMisdelivery)
  <2> SUFFICES ASSUME DInv, ConnectsBetweenBatches, cb # None,
                      cb.msg \notin {"TIMER", "CONNECT"}, conns[cb.fd] # None
               PROVE  conns[cb.fd] = pSocket
    BY DEF NoMisdelivery
  <2>1. cb.fd = Served /\ pSocket # None
    BY DEF DInv, Delivers, Frame, Place, IInv, ServedWhileBusy, Serving
  <2>2. Served \in Fds /\ (g_socket_map[Served] = pSocket \/ kst[Served] = "closed")
    BY <2>1 DEF DInv, Delivers, Service, StillServed
  <2>3. QED
    BY <2>1, <2>2 DEF DInv, IInv, HandlesAgree
<1>2. QED
  BY <1>1, Delivery, PTL

\* CBaseSocket::OnWrite: if no callback of a batch connects, CONFIRM is only
\* reported when the handshake is over.
THEOREM ConfirmedIsEstablished == Spec => [](ConnectsBetweenBatches => ConfirmMeansEstablished)
<1>1. DInv => (ConnectsBetweenBatches => ConfirmMeansEstablished)
  BY DEF DInv, Delivers, Established
<1>2. QED
  BY <1>1, Delivery, PTL

\* CBaseSocket::OnRead, OnWrite: READ and WRITE are only reported on a connection
\* that was confirmed or accepted, if the callbacks close a connection they are
\* told CLOSE for, as imconn.cpp does.
THEOREM ReadIsConfirmed == Spec => [](LikeImConn => ReadAfterConfirm)
<1>1. DInv => (LikeImConn => ReadAfterConfirm)
  BY DEF DInv, Delivers, Confirmed
<1>2. QED
  BY <1>1, Delivery, PTL

\* CBaseSocket::OnRead, StartDispatch: CLOSE is reported only at the end of stream,
\* after an error or for urgent data, which counts as one, if no callback of a
\* batch connects or closes a handle other than its own.
THEOREM CloseIsEnd ==
  Spec => [](ClosesOwnInBatch /\ ConnectsBetweenBatches => NoSpuriousClose)
<1>1. DInv => (ClosesOwnInBatch /\ ConnectsBetweenBatches => NoSpuriousClose)
  BY DEF DInv, Delivers, Meaning
<1>2. QED
  BY <1>1, Delivery, PTL

-----------------------------------------------------------------------------
(* No wakeup is lost.  epoll reports an edge once: whatever still has to be *)
(* dealt with on a registered descriptor is on the ready list, in the batch, *)
(* in the event being served, or in the hands of a callback that must see   *)
(* to it.                                                                   *)

\* The event of fd is being served, for the socket that is open on it.
On(fd) == pSocket # None /\ g_socket_map[fd] = pSocket

\* Its owner has been told CLOSE.
Closing(fd) == cb # None /\ cb.msg = "CLOSE" /\ cb.fd = fd

DataKnown ==
  \A fd \in epoll : (kst[fd] \in {"est", "eof", "reset"} /\ avail[fd] > 0) =>
    \/ fd \in rdy \/ "IN" \in events[fd]
    \/ On(fd) /\ pc \in {"close", "write", "read"} /\ "IN" \in flags
    \/ Closing(fd)
    \/ cb # None /\ cb.msg = "READ" /\ cb.fd = fd /\ ~cb.drained

ConnectKnown ==
  \A fd \in epoll : (m_state[g_socket_map[fd]] = "CONNECTING" /\ kst[fd] # "syn") =>
    \/ fd \in rdy \/ "OUT" \in events[fd]
    \/ On(fd) /\ pc \in {"close", "write"} /\ "OUT" \in flags
    \/ Closing(fd)

ResetKnown ==
  \A fd \in epoll : kst[fd] = "reset" =>
    \/ fd \in rdy \/ "EXC" \in events[fd]
    \/ On(fd) /\ pc = "close"
    \/ Closing(fd)

ClosedEmpty == \A fd \in Fds : kst[fd] = "closed" => avail[fd] = 0

Notified ==
  /\ ClosedEmpty
  /\ LikeImConn => DataKnown /\ ConnectKnown /\ ResetKnown

BacklogKnown ==
  \A fd \in epoll : (kst[fd] = "listen" /\ avail[fd] > 0) =>
    \/ fd \in rdy \/ "IN" \in events[fd]
    \/ On(fd) /\ pc \in {"write", "read"} /\ "IN" \in flags
    \/ On(fd) /\ pc = "accept"

FreeDescriptor == \E fd \in Fds : kst[fd] = "closed"

\* A registered descriptor is in the map, and its object is its own.
LEMMA Registered ==
  ASSUME DInv, NEW fd \in epoll
  PROVE  /\ fd \in Fds /\ g_socket_map[fd] # None /\ g_socket_map[fd] \in Objs
         /\ kst[fd] # "closed"
         /\ m_state[g_socket_map[fd]] = "LISTENING" <=> kst[fd] = "listen"
         /\ On(fd) <=> pSocket # None /\ g_socket_map[fd] = pSocket /\ Served = fd
  BY DEF DInv, IInv, TypeOK, HandlesAgree, Delivers, Filed, On, Served

\* Steps that leave the kernel, the batch and the map alone, and the event and
\* the callback unless they have nothing left to see to.
LEMMA NotifiedSame ==
  ASSUME DInv, Notified,
         UNCHANGED <<g_socket_map, events, kst, avail, epoll, rdy>>,
         \A fd \in Fds : g_socket_map[fd] # None =>
           m_state'[g_socket_map[fd]] = m_state[g_socket_map[fd]],
         cb' = cb \/ cb = None,
         UNCHANGED <<pc, pSocket, flags>> \/ pc \notin {"close", "write", "read"}
  PROVE  /\ Notified'
         /\ BacklogKnown /\ (UNCHANGED <<pc, pSocket, flags>> \/ pc # "accept")
              => BacklogKnown'
<1>1. ClosedEmpty'
  BY DEF Notified, ClosedEmpty
<1>2. LikeImConn => DataKnown'
  BY DEF Notified, DataKnown, On, Closing
<1>3. LikeImConn => ConnectKnown'
  BY Registered DEF Notified, ConnectKnown, On, Closing
<1>4. LikeImConn => ResetKnown'
  BY DEF Notified, ResetKnown, On, Closing
<1>5. BacklogKnown /\ (UNCHANGED <<pc, pSocket, flags>> \/ pc # "accept")
        => BacklogKnown'
  BY DEF BacklogKnown, On
<1>6. QED
  BY <1>1, <1>2, <1>3, <1>4, <1>5 DEF Notified

\* epoll_wait reports all that is true of a descriptor it takes off the list.
LEMMA EpollWaitNotifies ==
  ASSUME DInv, Notified, EpollWait
  PROVE  Notified' /\ (BacklogKnown => BacklogKnown')
<1>1. /\ UNCHANGED <<g_socket_map, m_state, kst, avail, epoll>>
      /\ cb = None /\ pSocket = None /\ \A fd \in Fds : events[fd] = {}
  BY BetweenBatches DEF EpollWait, At, objVars
<1>2. PICK R \in SUBSET rdy :
        /\ events' = [fd \in Fds |-> IF fd \in R THEN Mask(fd) ELSE {}]
        /\ rdy' = rdy \ R
  BY DEF EpollWait
<1>3. \A fd \in epoll : fd \in rdy => fd \in rdy' \/ events'[fd] = Mask(fd)
  BY <1>2, Registered
<1>4. \A fd \in epoll :
        /\ kst[fd] = "reset" => "EXC" \in Mask(fd)
        /\ kst[fd] \in {"est", "eof", "reset"} => "OUT" \in Mask(fd)
        /\ kst[fd] \in {"listen", "est", "eof", "reset"} /\ avail[fd] > 0 =>
             "IN" \in Mask(fd)
  BY MaskMeaning, Registered
<1>5. ClosedEmpty'
  BY <1>1 DEF Notified, ClosedEmpty
<1>6. LikeImConn => DataKnown'
  BY <1>1, <1>3, <1>4, Registered DEF Notified, DataKnown, On, Closing
<1>7. LikeImConn => ConnectKnown'
  <2> SUFFICES ASSUME LikeImConn, NEW fd \in epoll,
                      m_state[g_socket_map[fd]] = "CONNECTING", kst[fd] # "syn"
               PROVE  fd \in rdy' \/ "OUT" \in events'[fd]
    BY <1>1 DEF ConnectKnown
  <2>1. kst[fd] \in {"est", "eof", "reset"}
    BY Registered DEF DInv, IInv, TypeOK, KernelStates
  <2>2. fd \in rdy
    BY <1>1, Registered DEF Notified, ConnectKnown, On, Closing
  <2>3. QED
    BY <1>3, <1>4, <2>1, <2>2
<1>8. LikeImConn => ResetKnown'
  BY <1>1, <1>3, <1>4, Registered DEF Notified, ResetKnown, On, Closing
<1>9. BacklogKnown => BacklogKnown'
  BY <1>1, <1>3, <1>4, Registered DEF BacklogKnown, On
<1>10. QED
  BY <1>5, <1>6, <1>7, <1>8, <1>9 DEF Notified

\* The event leaves the batch and is served.
LEMMA TakeEventNotifies ==
  ASSUME DInv, Notified, NEW fd \in Fds, TakeEvent(fd)
  PROVE  Notified' /\ (BacklogKnown => BacklogKnown')
<1>1. /\ UNCHANGED <<g_socket_map, m_state, cb, kst, avail, epoll, rdy>>
      /\ pc = "event" /\ cb = None /\ pSocket = None
  BY DEF TakeEvent, At, kernVars, DInv, IInv, ServedWhileBusy, Serving
<1>2. \A f \in epoll : f # fd => events'[f] = events[f]
  BY Registered DEF TakeEvent, DInv, IInv, TypeOK
<1>3. fd \in epoll =>
        /\ pSocket' = g_socket_map[fd] /\ pSocket' # None /\ flags' = events[fd]
        /\ pc' = IF "EXC" \in events[fd] THEN "close" ELSE "write"
        /\ kst[fd] = "listen" => "EXC" \notin events[fd]
  BY Registered DEF TakeEvent, GoTo, DInv, Delivers, Batch, Kind
<1>4. ClosedEmpty'
  BY <1>1 DEF Notified, ClosedEmpty
<1>5. LikeImConn => DataKnown'
  BY <1>1, <1>2, <1>3 DEF Notified, DataKnown, On, Closing
<1>6. LikeImConn => ConnectKnown'
  BY <1>1, <1>2, <1>3 DEF Notified, ConnectKnown, On, Closing
<1>7. LikeImConn => ResetKnown'
  BY <1>1, <1>2, <1>3 DEF Notified, ResetKnown, On, Closing
<1>8. BacklogKnown => BacklogKnown'
  BY <1>1, <1>2, <1>3 DEF BacklogKnown, On
<1>9. QED
  BY <1>4, <1>5, <1>6, <1>7, <1>8 DEF Notified

\* OnClose tells the owner.
LEMMA OnCloseNotifies ==
  ASSUME DInv, Notified, OnClose
  PROVE  Notified' /\ (BacklogKnown => BacklogKnown')
<1>1. /\ UNCHANGED <<g_socket_map, events, pSocket, flags, kst, avail, epoll, rdy>>
      /\ m_state' = [m_state EXCEPT ![pSocket] = "CLOSING"]
      /\ Callback("CLOSE", Served)
      /\ pc = "close" /\ cb = None /\ pSocket # None /\ Served \in Fds
  BY DEF OnClose, At, kernVars, DInv, IInv, ServedWhileBusy, Serving, Delivers,
         Service, Served
<1>2. cb' # None /\ cb'.msg = "CLOSE" /\ cb'.fd = Served
  BY <1>1, CallbackFrame DEF Msgs
<1>3. \A fd \in epoll : m_state'[g_socket_map[fd]] = "CONNECTING" =>
                          m_state[g_socket_map[fd]] = "CONNECTING"
  BY <1>1, Registered DEF DInv, IInv, TypeOK
<1>4. ClosedEmpty'
  BY <1>1 DEF Notified, ClosedEmpty
<1>5. LikeImConn => DataKnown'
  BY <1>1, <1>2, Registered DEF Notified, DataKnown, Closing
<1>6. LikeImConn => ConnectKnown'
  BY <1>1, <1>2, <1>3, Registered DEF Notified, ConnectKnown, Closing
<1>7. LikeImConn => ResetKnown'
  BY <1>1, <1>2, Registered DEF Notified, ResetKnown, Closing
<1>8. BacklogKnown => BacklogKnown'
  BY <1>1 DEF BacklogKnown
<1>9. QED
  BY <1>4, <1>5, <1>6, <1>7, <1>8 DEF Notified

\* OnWrite ends the handshake and passes the event on to OnRead.
LEMMA OnWriteNotifies ==
  ASSUME DInv, Notified, OnWrite
  PROVE  Notified' /\ (BacklogKnown => BacklogKnown')
<1>1. /\ UNCHANGED <<g_socket_map, events, pSocket, flags, kst, avail, epoll, rdy>>
      /\ pc = "write" /\ pc' = "read" /\ cb = None /\ pSocket # None
      /\ pSocket \in Objs /\ Served \in Fds
  BY DEF OnWrite, At, GoTo, kernVars, DInv, IInv, TypeOK, ServedWhileBusy, Serving,
         Delivers, Service, Served
<1>2. "OUT" \in flags => \/ m_state'[pSocket] # "CONNECTING"
                         \/ cb' # None /\ cb'.msg = "CLOSE" /\ cb'.fd = Served
  <2>1. m_state \in [Objs -> SocketStates] /\ "CLOSE" \in Msgs
    BY DEF DInv, IInv, TypeOK, Msgs
  <2>2. QED
    BY <1>1, <2>1, CallbackFrame DEF OnWrite, Served
<1>3. \A fd \in epoll : m_state'[g_socket_map[fd]] = "CONNECTING" =>
                          m_state[g_socket_map[fd]] = "CONNECTING"
  BY <1>1, Registered DEF OnWrite, DInv, IInv, TypeOK
<1>4. ClosedEmpty'
  BY <1>1 DEF Notified, ClosedEmpty
<1>5. LikeImConn => DataKnown'
  BY <1>1 DEF Notified, DataKnown, On, Closing
<1>6. LikeImConn => ConnectKnown'
  BY <1>1, <1>2, <1>3, Registered DEF Notified, ConnectKnown, Closing
<1>7. LikeImConn => ResetKnown'
  BY <1>1 DEF Notified, ResetKnown, Closing
<1>8. BacklogKnown => BacklogKnown'
  BY <1>1 DEF BacklogKnown, On
<1>9. QED
  BY <1>4, <1>5, <1>6, <1>7, <1>8 DEF Notified

\* OnRead hands the data to the owner, or starts to accept.
LEMMA OnReadNotifies ==
  ASSUME DInv, Notified, OnRead
  PROVE  Notified' /\ (BacklogKnown => BacklogKnown')
<1>1. /\ UNCHANGED <<g_socket_map, m_state, events, pSocket, flags, kst, avail,
                     epoll, rdy>>
      /\ pc = "read" /\ cb = None /\ pSocket # None /\ Served \in Fds
  BY DEF OnRead, At, objVars, kernVars, DInv, IInv, ServedWhileBusy, Serving,
         Delivers, Service, Served
<1>2. "IN" \in flags =>
        IF m_state[pSocket] = "LISTENING"
        THEN pc' = "accept"
        ELSE cb' # None /\ cb'.fd = Served /\ ~cb'.drained /\ cb'.msg \in {"CLOSE", "READ"}
  <2>1. "CLOSE" \in Msgs /\ "READ" \in Msgs
    BY DEF Msgs
  <2>2. "IN" \in flags /\ m_state[pSocket] # "LISTENING" =>
          Callback("CLOSE", Served) \/ Callback("READ", Served)
    BY DEF OnRead, Served
  <2>3. QED
    BY <1>1, <2>1, <2>2, CallbackFrame DEF OnRead, GoTo
<1>3. ClosedEmpty'
  BY <1>1 DEF Notified, ClosedEmpty
<1>4. LikeImConn => DataKnown'
  BY <1>1, <1>2, Registered DEF Notified, DataKnown, Closing
<1>5. LikeImConn => ConnectKnown'
  BY <1>1 DEF Notified, ConnectKnown, Closing
<1>6. LikeImConn => ResetKnown'
  BY <1>1 DEF Notified, ResetKnown, Closing
<1>7. BacklogKnown => BacklogKnown'
  BY <1>1, <1>2, Registered DEF BacklogKnown, On
<1>8. QED
  BY <1>3, <1>4, <1>5, <1>6, <1>7 DEF Notified

\* A connection that is accepted is registered with an edge of its own.
LEMMA AcceptNotifies ==
  ASSUME DInv, Notified, NEW o \in Objs, NEW fd \in Fds, _AcceptNewSocket(o, fd)
  PROVE  Notified' /\ (BacklogKnown => BacklogKnown')
<1>1. /\ Open(o, fd, "CONNECTED", "est")
      /\ avail' = [avail EXCEPT ![Served] = @ - 1]
      /\ UNCHANGED <<pc, events, pSocket, flags>>
      /\ pc = "accept" /\ cb = None /\ kst[Served] = "listen"
  BY DEF _AcceptNewSocket, At, Served, loopVars
<1>2. /\ kst[fd] = "closed" /\ \A f \in Fds : g_socket_map[f] # o
      /\ g_socket_map' = [g_socket_map EXCEPT ![fd] = o]
      /\ m_state' = [m_state EXCEPT ![o] = "CONNECTED"]
      /\ kst' = [kst EXCEPT ![fd] = "est"]
      /\ epoll' \subseteq epoll \cup {fd} /\ rdy \subseteq rdy'
      /\ fd \in epoll' => fd \in rdy'
  BY <1>1, OpenEffect DEF DInv
<1>3. /\ \A f \in Fds \ {fd} : g_socket_map'[f] = g_socket_map[f] /\ kst'[f] = kst[f]
      /\ kst'[fd] = "est"
      /\ \A f \in Fds : f # Served => avail'[f] = avail[f]
  BY <1>1, <1>2 DEF DInv, IInv, TypeOK
<1>4. \A f \in epoll : f # fd => m_state'[g_socket_map[f]] = m_state[g_socket_map[f]]
  BY <1>2, Registered DEF DInv, IInv, TypeOK
<1>5. ClosedEmpty'
  BY <1>1, <1>3 DEF Notified, ClosedEmpty
<1>6. LikeImConn => DataKnown'
  BY <1>1, <1>2, <1>3, Registered DEF Notified, DataKnown, On, Closing
<1>7. LikeImConn => ConnectKnown'
  BY <1>1, <1>2, <1>3, <1>4, Registered DEF Notified, ConnectKnown, On, Closing
<1>8. LikeImConn => ResetKnown'
  BY <1>1, <1>2, <1>3, Registered DEF Notified, ResetKnown, On, Closing
<1>9. BacklogKnown => BacklogKnown'
  <2> SUFFICES ASSUME BacklogKnown, NEW f \in epoll', kst'[f] = "listen", avail'[f] > 0
               PROVE  \/ f \in rdy' \/ "IN" \in events'[f]
                      \/ On(f)' /\ pc' = "accept"
    BY <1>1 DEF BacklogKnown
  <2>1. f \in epoll /\ f # fd /\ f \in Fds
    BY <1>2, <1>3, Registered
  <2>2. CASE f = Served
    <3>1. pSocket # None /\ g_socket_map[Served] = pSocket
      BY <1>1, <2>1, <2>2 DEF DInv, IInv, ServedWhileBusy, Serving, Delivers, Service
    <3>2. QED
      BY <1>1, <1>3, <2>1, <2>2, <3>1 DEF On
  <2>3. CASE f # Served
    BY <1>1, <1>2, <1>3, <2>1, <2>3, Registered DEF BacklogKnown, On
  <2>4. QED
    BY <2>2, <2>3
<1>10. QED
  BY <1>5, <1>6, <1>7, <1>8, <1>9 DEF Notified

\* The accept loop only ends with an empty backlog or without a descriptor.
LEMMA AcceptEndNotifies ==
  ASSUME DInv, Notified, AcceptEnd
  PROVE  Notified' /\ (BacklogKnown /\ FreeDescriptor => BacklogKnown')
<1>1. /\ UNCHANGED <<g_socket_map, m_state, events, pSocket, flags, cb, kst, avail,
                     epoll, rdy>>
      /\ pc = "accept" /\ cb = None
      /\ kst[Served] # "listen" \/ avail[Served] = 0 \/ ~FreeDescriptor
  BY DEF AcceptEnd, At, objVars, kernVars, Served, FreeDescriptor
<1>2. Notified'
  BY <1>1, NotifiedSame
<1>3. BacklogKnown /\ FreeDescriptor => BacklogKnown'
  <2>1. \A fd \in epoll : avail[fd] > 0 => avail[fd] # 0
    OBVIOUS
  <2>2. QED
    BY <1>1, <2>1, Registered DEF BacklogKnown, On
<1>4. QED
  BY <1>2, <1>3

\* A new listener or connection has nothing to see to.
LEMMA OpenNotifies ==
  ASSUME DInv, Notified, NEW o \in Objs, NEW fd \in Fds,
         netlib_listen(o, fd) \/ netlib_connect(o, fd)
  PROVE  Notified' /\ (BacklogKnown => BacklogKnown')
<1>1. PICK state \in {"LISTENING", "CONNECTING"}, kernel \in {"listen", "syn"} :
        /\ Open(o, fd, state, kernel)
        /\ state = "CONNECTING" => kernel = "syn"
        /\ UNCHANGED <<pc, events, pSocket, flags, cb, avail>>
  BY DEF netlib_listen, netlib_connect, loopVars
<1>2. /\ kst[fd] = "closed" /\ \A f \in Fds : g_socket_map[f] # o
      /\ g_socket_map' = [g_socket_map EXCEPT ![fd] = o]
      /\ m_state' = [m_state EXCEPT ![o] = state]
      /\ kst' = [kst EXCEPT ![fd] = kernel]
      /\ epoll' \subseteq epoll \cup {fd} /\ rdy \subseteq rdy'
  BY <1>1, OpenEffect DEF DInv
<1>3. avail[fd] = 0
  BY <1>2 DEF Notified, ClosedEmpty
<1>4. \A f \in epoll :
        /\ f # fd /\ g_socket_map'[f] = g_socket_map[f] /\ kst'[f] = kst[f]
        /\ m_state'[g_socket_map[f]] = m_state[g_socket_map[f]]
  BY <1>2, Registered DEF DInv, IInv, TypeOK
<1>5. kst'[fd] = kernel /\ m_state'[g_socket_map'[fd]] = state
  BY <1>2 DEF DInv, IInv, TypeOK
<1>6. ClosedEmpty'
  BY <1>1, <1>2, <1>3 DEF Notified, ClosedEmpty, DInv, IInv, TypeOK
<1>7. LikeImConn => DataKnown'
  BY <1>1, <1>2, <1>4, <1>5 DEF Notified, DataKnown, On, Closing
<1>8. LikeImConn => ConnectKnown'
  BY <1>1, <1>2, <1>4, <1>5 DEF Notified, ConnectKnown, On, Closing
<1>9. LikeImConn => ResetKnown'
  BY <1>1, <1>2, <1>4, <1>5 DEF Notified, ResetKnown, On, Closing
<1>10. BacklogKnown => BacklogKnown'
  BY <1>1, <1>2, <1>3, <1>4, <1>5 DEF BacklogKnown, On
<1>11. QED
  BY <1>6, <1>7, <1>8, <1>9, <1>10 DEF Notified

\* Closing a handle takes its own business away and no other.
LEMMA CloseNotifies ==
  ASSUME DInv, Notified, NEW h \in Fds, netlib_close(h)
  PROVE  Notified' /\ (BacklogKnown => BacklogKnown')
<1>1. /\ g_socket_map[h] \in Objs
      /\ g_socket_map' = [g_socket_map EXCEPT ![h] = None]
      /\ kst' = [kst EXCEPT ![h] = "closed"]
      /\ avail' = [avail EXCEPT ![h] = 0]
      /\ epoll' = epoll \ {h} /\ rdy' = rdy \ {h}
      /\ UNCHANGED <<pc, events, pSocket, flags, cb>>
      /\ \A x \in Objs : x # g_socket_map[h] => m_state'[x] = m_state[x]
  BY CloseEffect DEF loopVars, DInv
<1>2. \A f \in Fds \ {h} :
        g_socket_map'[f] = g_socket_map[f] /\ kst'[f] = kst[f] /\ avail'[f] = avail[f]
  BY <1>1 DEF DInv, IInv, TypeOK
<1>3. \A f \in epoll' : f \in epoll /\ f \in Fds \ {h}
                        /\ m_state'[g_socket_map[f]] = m_state[g_socket_map[f]]
  BY <1>1, Registered, MapInjective DEF DInv, IInv
<1>4. avail'[h] = 0
  BY <1>1 DEF DInv, IInv, TypeOK
<1>5. ClosedEmpty'
  BY <1>2, <1>4 DEF Notified, ClosedEmpty
<1>6. LikeImConn => DataKnown'
  BY <1>1, <1>2, <1>3 DEF Notified, DataKnown, On, Closing
<1>7. LikeImConn => ConnectKnown'
  BY <1>1, <1>2, <1>3 DEF Notified, ConnectKnown, On, Closing
<1>8. LikeImConn => ResetKnown'
  BY <1>1, <1>2, <1>3 DEF Notified, ResetKnown, On, Closing
<1>9. BacklogKnown => BacklogKnown'
  BY <1>1, <1>2, <1>3 DEF BacklogKnown, On
<1>10. QED
  BY <1>5, <1>6, <1>7, <1>8, <1>9 DEF Notified

\* netlib_recv leaves nothing unread on the handle the READ was about.
LEMMA RecvNotifies ==
  ASSUME DInv, Notified, NEW h \in Fds, netlib_recv(h)
  PROVE  Notified' /\ (BacklogKnown => BacklogKnown')
<1>1. /\ UNCHANGED <<g_socket_map, m_state, pc, events, pSocket, flags, conns, kst,
                     epoll, rdy>>
      /\ cb # None /\ cb.msg = "READ" /\ cb.fd = h
      /\ avail' = [avail EXCEPT ![h] = 0]
  BY DEF netlib_recv, In, objVars, loopVars, DInv, IInv, HandlesAgree
<1>2. avail'[h] = 0 /\ \A f \in Fds \ {h} : avail'[f] = avail[f]
  BY <1>1 DEF DInv, IInv, TypeOK
<1>3. ClosedEmpty'
  BY <1>1, <1>2 DEF Notified, ClosedEmpty
<1>4. LikeImConn => DataKnown'
  BY <1>1, <1>2, Registered DEF Notified, DataKnown, On, Closing
<1>5. LikeImConn => ConnectKnown'
  BY <1>1 DEF Notified, ConnectKnown, On, Closing
<1>6. LikeImConn => ResetKnown'
  BY <1>1 DEF Notified, ResetKnown, On, Closing
<1>7. BacklogKnown => BacklogKnown'
  BY <1>1, <1>2, Registered DEF BacklogKnown, On
<1>8. QED
  BY <1>3, <1>4, <1>5, <1>6, <1>7 DEF Notified

\* A CImConn does not return from READ or CLOSE before it has seen to it.
LEMMA ReturnNotifies ==
  ASSUME DInv, Notified, CallbackReturn
  PROVE  Notified' /\ (BacklogKnown => BacklogKnown')
<1>1. /\ UNCHANGED <<g_socket_map, m_state, pc, events, pSocket, flags, conns, kst,
                     avail, epoll, rdy>>
      /\ LikeImConn /\ cb.msg \in {"READ", "CLOSE"} =>
           conns[cb.fd] = None \/ (cb.msg = "READ" /\ cb.drained)
  BY DEF CallbackReturn, objVars, loopVars, kernVars
<1>2. \A fd \in epoll : conns[fd] = None => kst[fd] = "listen"
  BY Registered DEF DInv, Delivers, Filed
<1>3. ClosedEmpty'
  BY <1>1 DEF Notified, ClosedEmpty
<1>4. LikeImConn => DataKnown'
  BY <1>1, <1>2 DEF Notified, DataKnown, On, Closing
<1>5. LikeImConn => ConnectKnown'
  BY <1>1, <1>2, Registered DEF Notified, ConnectKnown, On, Closing
<1>6. LikeImConn => ResetKnown'
  BY <1>1, <1>2 DEF Notified, ResetKnown, On, Closing
<1>7. BacklogKnown => BacklogKnown'
  BY <1>1 DEF BacklogKnown, On
<1>8. QED
  BY <1>3, <1>4, <1>5, <1>6, <1>7 DEF Notified

\* Whatever the kernel changes comes with an edge.
LEMMA KernelNotifies ==
  ASSUME DInv, Notified, Kernel
  PROVE  Notified' /\ (BacklogKnown => BacklogKnown')
<1>1. /\ UNCHANGED <<g_socket_map, m_state, pc, events, pSocket, flags, cb, epoll>>
      /\ rdy \subseteq rdy'
      /\ \A f \in epoll : f \in rdy' \/ (kst'[f] = kst[f] /\ avail'[f] = avail[f])
      /\ \A f \in Fds : kst'[f] = "closed" => kst[f] = "closed" /\ avail'[f] = avail[f]
  BY KernelEffect DEF objVars, loopVars, DInv
<1>2. ClosedEmpty'
  BY <1>1 DEF Notified, ClosedEmpty
<1>3. LikeImConn => DataKnown'
  BY <1>1 DEF Notified, DataKnown, On, Closing
<1>4. LikeImConn => ConnectKnown'
  BY <1>1 DEF Notified, ConnectKnown, On, Closing
<1>5. LikeImConn => ResetKnown'
  BY <1>1 DEF Notified, ResetKnown, On, Closing
<1>6. BacklogKnown => BacklogKnown'
  BY <1>1 DEF BacklogKnown, On
<1>7. QED
  BY <1>2, <1>3, <1>4, <1>5, <1>6 DEF Notified

LEMMA StepNotifies ==
  ASSUME DInv, Notified, [Next]_vars
  PROVE  Notified' /\ (BacklogKnown /\ FreeDescriptor => BacklogKnown')
<1>1. CASE Dispatch
  <2>1. CASE StartDispatch \/ StopLoop
    BY <2>1, NotifiedSame
       DEF StartDispatch, StopLoop, At, GoTo, objVars, kernVars
  <2>2. CASE ReleaseEvent
    <3>1. /\ pc = "release" /\ cb = None
          /\ UNCHANGED <<g_socket_map, events, cb, kst, avail, epoll, rdy>>
          /\ \A fd \in Fds : g_socket_map[fd] # None =>
               m_state'[g_socket_map[fd]] = m_state[g_socket_map[fd]]
      BY <2>2, ReleaseEffect DEF kernVars, DInv
    <3>2. QED
      BY <3>1, NotifiedSame
  <2>3. CASE CheckTimers
    BY <2>3, NotifiedSame DEF CheckTimers, At, GoTo, objVars, kernVars
  <2>4. QED
    BY <1>1, <2>1, <2>2, <2>3, EpollWaitNotifies, TakeEventNotifies,
       OnCloseNotifies, OnWriteNotifies, OnReadNotifies, AcceptNotifies,
       AcceptEndNotifies DEF Dispatch
<1>2. CASE Application
  <2>1. ASSUME NEW h \in Fds, netlib_option_null(h)
        PROVE  Notified' /\ (BacklogKnown => BacklogKnown')
    BY <2>1, NotifiedSame DEF netlib_option_null, loopVars, kernVars
  <2>2. CASE netlib_stop_event
    BY <2>2, NotifiedSame DEF netlib_stop_event, objVars, kernVars
  <2>3. QED
    BY <1>2, <2>1, <2>2, OpenNotifies, CloseNotifies, RecvNotifies, ReturnNotifies
       DEF Application
<1>3. CASE Kernel
  BY <1>3, KernelNotifies
<1>4. CASE UNCHANGED vars
  BY <1>4, NotifiedSame DEF vars, objVars, loopVars, kernVars
<1>5. QED
  BY <1>1, <1>2, <1>3, <1>4 DEF Next

\* EventDispatch.cpp, BaseSocket.cpp, imconn.cpp: although an edge is reported
\* once, unread data, the end of a connect and a reset are never forgotten, if
\* the callbacks read until nothing is left and close what they are told CLOSE
\* for.  (That they are then dealt with is the liveness the runs check.)
THEOREM NoLostWakeup ==
  Spec => [](LikeImConn => DataKnown /\ ConnectKnown /\ ResetKnown)
<1>1. Init => Notified
  BY DEF Init, Notified, ClosedEmpty, DataKnown, ConnectKnown, ResetKnown
<1>2. DInv /\ Notified /\ [Next]_vars => Notified'
  BY StepNotifies
<1>3. Notified => (LikeImConn => DataKnown /\ ConnectKnown /\ ResetKnown)
  BY DEF Notified
<1>4. QED
  BY <1>1, <1>2, <1>3, Delivery, PTL DEF Spec

\* CBaseSocket::_AcceptNewSocket: the one report of a listener is enough for
\* every connection in its backlog, whatever the callbacks do, as long as
\* descriptors do not run out.
THEOREM NoLostBacklog == Spec /\ []FreeDescriptor => []BacklogKnown
<1>1. Init => Notified /\ BacklogKnown
  BY DEF Init, Notified, ClosedEmpty, DataKnown, ConnectKnown, ResetKnown,
         BacklogKnown
<1>2. DInv /\ Notified /\ [Next]_vars => Notified'
  BY StepNotifies
<1>3. DInv /\ Notified /\ BacklogKnown /\ FreeDescriptor /\ [Next]_vars
        => BacklogKnown'
  BY StepNotifies
<1>4. QED
  BY <1>1, <1>2, <1>3, Delivery, PTL DEF Spec

\* epoll_wait has nothing to report and no callback runs.
Resting == pc = "wait" /\ cb = None /\ rdy = {}

\* Every registered connection is up, read to the end of its data, or still
\* waiting for its peer.
AllServed ==
  \A fd \in epoll :
    /\ kst[fd] \in {"est", "eof", "reset"} => avail[fd] = 0
    /\ m_state[g_socket_map[fd]] = "CONNECTING" => kst[fd] = "syn"
    /\ kst[fd] # "reset"

\* When the dispatcher sleeps in epoll_wait there is nothing left for it to do:
\* it never waits for an edge the kernel has already reported.
THEOREM SleepsWhenServed == Spec => [](LikeImConn /\ Resting => AllServed)
<1>1. DInv /\ (LikeImConn => DataKnown /\ ConnectKnown /\ ResetKnown)
        => (LikeImConn /\ Resting => AllServed)
  <2> SUFFICES ASSUME DInv, DataKnown, ConnectKnown, ResetKnown, Resting, NEW fd \in epoll
               PROVE  /\ kst[fd] \in {"est", "eof", "reset"} => avail[fd] = 0
                      /\ m_state[g_socket_map[fd]] = "CONNECTING" => kst[fd] = "syn"
                      /\ kst[fd] # "reset"
    BY DEF AllServed
  <2>1. fd \notin rdy /\ events[fd] = {} /\ pSocket = None /\ cb = None /\ pc = "wait"
    BY BetweenBatches, Registered DEF Resting
  <2>2. avail[fd] \in Nat
    BY Registered DEF DInv, IInv, TypeOK
  <2>3. QED
    BY <2>1, <2>2 DEF DataKnown, ConnectKnown, ResetKnown, On, Closing
<1>2. QED
  BY <1>1, Delivery, NoLostWakeup, PTL

=============================================================================
