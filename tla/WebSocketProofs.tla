-------------------------- MODULE WebSocketProofs --------------------------
(***************************************************************************)
(* Proofs about WebSocketServer for any connections, listeners, seats and  *)
(* consumers.  A connection claims the seat that its disconnection will    *)
(* free.  The argument is that claims and seats agree except where the     *)
(* history variables say so: the steps of onDisconnection, which read the  *)
(* user data first and erase later, keep the claim they have read.         *)
(***************************************************************************)
EXTENDS WebSocketServer, TLAPS

USE WebSocketAssumption

\* A job belongs to its listener; a login holds conn_q_lock, and a connection
\* whose disconnection is handled is closed and not yet freed.
JobsOK ==
  \A l \in Loops : ~Idle(l) =>
    /\ Loop[job[l].ws] = l
    /\ job[l].step = "message" =>
         conn[job[l].ws] = "open" /\ conn_q_lock = l /\ job[l].seat # None
    /\ job[l].step # "message" => conn[job[l].ws] = "closed"
    /\ job[l].step \in {"erase", "room"} => job[l].seat # None

ClosedHasJob ==
  \A w \in Ws : conn[w] = "closed" =>
    ~Idle(Loop[w]) /\ job[Loop[w]].ws = w /\ job[Loop[w]].step # "message"

\* A consumer with a message holds msg_q_lock, and the locks it says.
ConsumersOK ==
  \A c \in Consumers :
    /\ cpc[c] \in {"handle", "inside"} => live_msg[c] # None /\ msg_q_lock = c
    /\ cpc[c] = "inside" => conn_q_lock = c

\* The connection w will free seat k when it is disconnected.
Claims(w, k) ==
  \/ conn[w] \in {"open", "closing"} /\ userData[w] = k
  \/ /\ conn[w] = "closed"
     /\ \/ job[Loop[w]].step \in {"check", "data"} /\ userData[w] = k
        \/ job[Loop[w]].step = "erase" /\ job[Loop[w]].seat = k

SeatsClaimed ==
  \A k \in Seats \ orphaned, w \in Ws : seat[k] = w => Claims(w, k)

ClaimsSeated ==
  \A k \in Seats \ (raced \cup orphaned), w \in Ws : Claims(w, k) => seat[k] = w

\* What a connection with a seat may have as user data.
DataOK ==
  \A k \in Seats, w \in Ws : seat[k] = w =>
    /\ conn[w] # "new"
    /\ conn[w] = "open" => userData[w] # None
    /\ userData[w] \in orphaned \cup {k, None}

NewEmpty == \A w \in Ws : conn[w] = "new" => userData[w] = None

\* delRoom finds nobody but those who came since the room was found empty.
RoomEmpty ==
  \A l \in Loops : At(l, "room") =>
    \A k \in Room(job[l].seat) : seat[k] = None \/ k \in raced

Inv ==
  /\ TypeOK /\ JobsOK /\ ClosedHasJob /\ ConsumersOK
  /\ SeatsClaimed /\ ClaimsSeated /\ DataOK /\ NewEmpty /\ RoomEmpty

-----------------------------------------------------------------------------
(* Type correctness                                                        *)

LEMMA InitType == Init => TypeOK
BY DEF Init, TypeOK

LEMMA TypeListener ==
  ASSUME TypeOK, listener PROVE TypeOK'
<1>1. ASSUME NEW w \in Ws, onConnection(w) PROVE TypeOK'
  BY <1>1 DEF TypeOK, onConnection, msgVars
<1>2. ASSUME NEW w \in Ws, Disconnected(w) PROVE TypeOK'
  BY <1>2 DEF TypeOK, Disconnected, msgVars, Jobs
<1>3. ASSUME NEW w \in Ws, OtherCommand(w) PROVE TypeOK'
  BY <1>3 DEF TypeOK, OtherCommand, msgVars
<1>4. ASSUME NEW w \in Ws, NEW k \in Logins[w], onMessage(w, k) PROVE TypeOK'
  BY <1>4 DEF TypeOK, onMessage, msgVars, roomVars, Jobs
<1> QED BY <1>1, <1>2, <1>3, <1>4 DEF listener

LEMMA TypeCallback ==
  ASSUME TypeOK, JobsOK, callback PROVE TypeOK'
<1> SUFFICES ASSUME NEW l \in Loops, handleWsMsg(l) \/ onDisconnection(l) PROVE TypeOK'
  BY DEF callback
<1>j. ASSUME ~Idle(l)
      PROVE /\ job[l] \in Jobs /\ job[l].ws \in Ws /\ job[l].seat \in Seats \cup {None}
            /\ job[l].step \in {"message", "erase", "room"} => job[l].seat \in Seats
  BY <1>j DEF TypeOK, JobsOK, Idle, Jobs
<1>u. CASE Undefined
  BY <1>u DEF Undefined, TypeOK, roomVars, msgVars
<1>f. ASSUME ~Idle(l), Freed(l), seat' \in [Seats -> Ws \cup {None}] PROVE TypeOK'
  BY <1>f, <1>j DEF Freed, TypeOK, msgVars
<1>1. CASE LoginFree(l)
  BY <1>1, <1>j DEF LoginFree, EndOfMessage, LoginHistory, TypeOK, msgVars, At
<1>2. CASE LoginTaken(l) /\ ~Undefined
  <2> DEFINE w == job[l].ws  k == job[l].seat  pre == seat[k]
  <2>1. w \in Ws /\ k \in Seats /\ pre \in Ws /\ conn[pre] \in {"new", "open", "closing", "closed", "freed"}
    BY <1>2, <1>j DEF LoginTaken, At, TypeOK
  <2>2. /\ userData' = [userData EXCEPT ![w] = k, ![pre] = None]
        /\ seat' = [seat EXCEPT ![k] = w]
        /\ conn' = [conn EXCEPT ![pre] = IF @ = "open" THEN "closing" ELSE @]
        /\ EndOfMessage(l) /\ LoginHistory(w, k, userData[w] # None) /\ UNCHANGED anonymous
    BY <1>2 DEF LoginTaken
  <2> HIDE DEF w, k, pre
  <2>3. raced' \subseteq Seats /\ orphaned' \subseteq Seats
    BY <2>1, <2>2 DEF LoginHistory, TypeOK
  <2>4. /\ userData' \in [Ws -> Seats \cup {None}] /\ seat' \in [Seats -> Ws \cup {None}]
        /\ conn' \in [Ws -> {"new", "open", "closing", "closed", "freed"}]
    BY <2>1, <2>2 DEF TypeOK
  <2>5. job' \in [Loops -> Jobs \cup {None}]
    BY <2>2 DEF TypeOK, EndOfMessage
  <2> QED BY <2>2, <2>3, <2>4, <2>5 DEF TypeOK, EndOfMessage, msgVars
<1>3. CASE LoginSent(l)
  BY <1>3, <1>j DEF LoginSent, EndOfMessage, LoginHistory, TypeOK, msgVars, At
<1>4. CASE CheckData(l)
  <2>1. CASE userData[job[l].ws] = None
    BY <1>4, <1>f, <2>1 DEF CheckData, At, TypeOK
  <2>2. CASE userData[job[l].ws] # None
    <3>1. job' = [job EXCEPT ![l].step = "data"] /\ UNCHANGED <<roomVars, conn_q_lock, msgVars, outcome, raced, orphaned>>
      BY <1>4, <2>2 DEF CheckData
    <3>2. job' \in [Loops -> Jobs \cup {None}]
      BY <3>1, <1>4, <1>j DEF CheckData, At, TypeOK, Jobs
    <3> QED BY <3>1, <3>2 DEF TypeOK, roomVars, msgVars
  <2> QED BY <2>1, <2>2
<1>5. CASE ReadData(l) /\ ~Undefined
  <2>1. /\ job' = [job EXCEPT ![l].step = "erase", ![l].seat = userData[job[l].ws]]
        /\ UNCHANGED <<roomVars, conn_q_lock, msgVars, outcome, raced, orphaned>>
        /\ userData[job[l].ws] \in Seats
    BY <1>5, <1>j DEF ReadData, At, TypeOK
  <2>2. job' \in [Loops -> Jobs \cup {None}]
    BY <2>1, <1>5, <1>j DEF ReadData, At, TypeOK, Jobs
  <2> QED BY <2>1, <2>2 DEF TypeOK, roomVars, msgVars
<1>6. CASE EraseUser(l) /\ ~Undefined
  <2>1. seat' \in [Seats -> Ws \cup {None}]
    BY <1>6, <1>j DEF EraseUser, At, TypeOK
  <2>2. CASE Freed(l)
    BY <1>6, <2>1, <2>2, <1>f DEF EraseUser, At
  <2>3. CASE ~Freed(l)
    <3>1. /\ job' = [job EXCEPT ![l].step = "room"]
          /\ UNCHANGED <<conn, userData, anonymous, conn_q_lock, msgVars, outcome, raced, orphaned>>
      BY <1>6, <2>3 DEF EraseUser
    <3>2. job' \in [Loops -> Jobs \cup {None}]
      BY <3>1, <1>6, <1>j DEF EraseUser, At, TypeOK, Jobs
    <3> QED BY <2>1, <3>1, <3>2 DEF TypeOK, msgVars
  <2> QED BY <2>2, <2>3
<1>7. CASE delRoom(l) /\ ~Undefined
  <2>1. seat' \in [Seats -> Ws \cup {None}]
    BY <1>7 DEF delRoom, TypeOK
  <2> QED BY <1>7, <2>1, <1>f DEF delRoom, At
<1> QED BY <1>u, <1>1, <1>2, <1>3, <1>4, <1>5, <1>6, <1>7 DEF handleWsMsg, onDisconnection

LEMMA TypeMessages ==
  ASSUME TypeOK, ConsumersOK,
         consumer \/ \E p \in Pushes : pushMsgQueue(p[1], p[2])
  PROVE  TypeOK'
<1>1. ASSUME NEW c \in Consumers, popMsgQueue(c) PROVE TypeOK'
  <2>1. CASE queue = <<>>
    BY <1>1, <2>1 DEF popMsgQueue, TypeOK, roomVars
  <2>2. CASE queue # <<>>
    <3>1. Head(queue) \in Msgs /\ Tail(queue) \in Seq(Msgs)
      BY <2>2 DEF TypeOK
    <3>2. /\ queue' = Tail(queue) /\ live_msg' = [live_msg EXCEPT ![c] = Head(queue)]
          /\ cpc' = [cpc EXCEPT ![c] = "handle"] /\ msg_q_lock' = c
          /\ UNCHANGED <<roomVars, job, conn_q_lock, pushed, handled, outcome, raced, orphaned>>
      BY <1>1, <2>2 DEF popMsgQueue
    <3>3. live_msg' \in [Consumers -> Msgs \cup {None}] /\ queue' \in Seq(Msgs)
      BY <3>1, <3>2 DEF TypeOK
    <3> QED BY <3>2, <3>3 DEF TypeOK, roomVars
  <2> QED BY <2>1, <2>2
<1>2. ASSUME NEW c \in Consumers, LockConn(c) PROVE TypeOK'
  BY <1>2 DEF LockConn, TypeOK, roomVars
<1>3. ASSUME NEW c \in Consumers, handleLiveMsg(c) PROVE TypeOK'
  <2>1. CASE Undefined
    BY <2>1 DEF Undefined, TypeOK, roomVars, msgVars
  <2>2. live_msg[c] \in Msgs
    BY <1>3 DEF handleLiveMsg, TypeOK, ConsumersOK
  <2>3. live_msg[c].no \in Nat /\ live_msg[c].seat \in Seats
    BY <2>2 DEF Msgs
  <2>4. CASE ~Undefined
    <3>1. /\ handled' = Append(handled, live_msg[c].no)
          /\ msg_q_lock' \in {None, msg_q_lock} /\ conn_q_lock' = None
          /\ cpc' = [cpc EXCEPT ![c] = "lock"] /\ live_msg' = [live_msg EXCEPT ![c] = None]
          /\ UNCHANGED <<anonymous, seat, job, queue, pushed, outcome, raced>>
      BY <1>3, <2>4 DEF handleLiveMsg
    <3>2. handled' \in Seq(Nat)
      BY <3>1, <2>3 DEF TypeOK
    <3>3. conn' \in [Ws -> {"new", "open", "closing", "closed", "freed"}]
      BY <1>3, <2>4 DEF handleLiveMsg, TypeOK
    <3>4. userData' \in [Ws -> Seats \cup {None}]
      BY <1>3, <2>4 DEF handleLiveMsg, TypeOK
    <3>5. orphaned' \subseteq Seats
      BY <1>3, <2>3, <2>4 DEF handleLiveMsg, TypeOK
    <3> QED BY <3>1, <3>2, <3>3, <3>4, <3>5 DEF TypeOK
  <2> QED BY <2>1, <2>4
<1>4. ASSUME NEW p \in Pushes, pushMsgQueue(p[1], p[2]) PROVE TypeOK'
  <2>0. p[1] \in Kinds /\ p[2] \in Seats /\ pushed + 1 \in 1 .. MaxMsgs
    BY <1>4 DEF pushMsgQueue, TypeOK
  <2>1. [no |-> pushed + 1, cmd |-> p[1], seat |-> p[2]] \in Msgs
    BY <2>0 DEF Msgs
  <2>2. queue' \in Seq(Msgs)
    BY <1>4, <2>1 DEF pushMsgQueue, TypeOK
  <2>3. cpc' \in [Consumers -> {"lock", "wait", "handle", "inside"}]
    <3>1. cpc' = cpc \/ \E c \in Consumers : cpc' = [cpc EXCEPT ![c] = "lock"]
      BY <1>4 DEF pushMsgQueue, Notify
    <3> QED BY <3>1 DEF TypeOK
  <2> QED BY <1>4, <2>0, <2>2, <2>3 DEF pushMsgQueue, TypeOK, roomVars
<1> QED BY <1>1, <1>2, <1>3, <1>4 DEF consumer

-----------------------------------------------------------------------------
(* Jobs, locks and connections                                             *)

Guards == JobsOK /\ ClosedHasJob /\ ConsumersOK /\ NewEmpty

LEMMA GuardsListener ==
  ASSUME TypeOK, Guards, listener PROVE Guards'
<1>1. ASSUME NEW w \in Ws, onConnection(w) PROVE Guards'
  BY <1>1 DEF onConnection, Guards, JobsOK, ClosedHasJob, ConsumersOK, NewEmpty, Idle, TypeOK,
     Jobs, msgVars
<1>2. ASSUME NEW w \in Ws, Disconnected(w) PROVE Guards'
  BY <1>2 DEF Disconnected, Guards, JobsOK, ClosedHasJob, ConsumersOK, NewEmpty, Idle, TypeOK,
     Jobs, msgVars
<1>3. ASSUME NEW w \in Ws, OtherCommand(w) PROVE Guards'
  BY <1>3 DEF OtherCommand, Guards, JobsOK, ClosedHasJob, ConsumersOK, NewEmpty, Idle, TypeOK,
     Jobs, msgVars
<1>4. ASSUME NEW w \in Ws, NEW k \in Logins[w], onMessage(w, k) PROVE Guards'
  BY <1>4 DEF onMessage, Guards, JobsOK, ClosedHasJob, ConsumersOK, NewEmpty, Idle, TypeOK,
     Jobs, msgVars, roomVars
<1> QED BY <1>1, <1>2, <1>3, <1>4 DEF listener

LEMMA GuardsUndefined ==
  ASSUME Guards, Undefined PROVE Guards'
BY DEF Undefined, Guards, JobsOK, ClosedHasJob, ConsumersOK, NewEmpty, Idle, msgVars, roomVars

LEMMA GuardsLogin ==
  ASSUME TypeOK, Guards, NEW l \in Loops, handleWsMsg(l) PROVE Guards'
<1>j. At(l, "message")
  BY DEF handleWsMsg, LoginFree, LoginTaken, LoginSent
<1>k. /\ job[l].ws \in Ws /\ job[l].seat \in Seats /\ Loop[job[l].ws] = l
      /\ conn[job[l].ws] = "open" /\ conn_q_lock = l /\ job[l] # None
  BY <1>j DEF At, Idle, TypeOK, Jobs, Guards, JobsOK
<1>e. ASSUME EndOfMessage(l),
             \A w \in Ws : conn'[w] = conn[w] \/ (conn[w] = "open" /\ conn'[w] = "closing"),
             \A w \in Ws : conn[w] = "new" => userData'[w] = userData[w]
      PROVE  Guards'
  <2>0. /\ conn_q_lock' = None /\ job' = [job EXCEPT ![l] = None]
        /\ cpc' = cpc /\ live_msg' = live_msg /\ msg_q_lock' = msg_q_lock
    BY <1>e DEF EndOfMessage, msgVars
  <2>1. JobsOK'
    BY <2>0, <1>e, <1>k DEF Guards, JobsOK, Idle, TypeOK, Jobs
  <2>2. ClosedHasJob'
    BY <2>0, <1>e, <1>k DEF Guards, ClosedHasJob, Idle, TypeOK, Jobs
  <2>3. ConsumersOK'
    BY <2>0, <1>k DEF Guards, ConsumersOK
  <2>4. NewEmpty'
    BY <1>e DEF Guards, NewEmpty, TypeOK
  <2> QED BY <2>1, <2>2, <2>3, <2>4 DEF Guards
<1>1. CASE LoginFree(l)
  BY <1>1, <1>e, <1>k DEF LoginFree, TypeOK
<1>2. CASE LoginTaken(l) /\ ~Undefined
  <2> DEFINE w == job[l].ws  k == job[l].seat  pre == seat[k]
  <2>1. pre \in Ws
    BY <1>2, <1>k DEF LoginTaken, TypeOK
  <2>2. /\ userData' = [userData EXCEPT ![w] = k, ![pre] = None]
        /\ conn' = [conn EXCEPT ![pre] = IF @ = "open" THEN "closing" ELSE @]
        /\ EndOfMessage(l)
    BY <1>2 DEF LoginTaken
  <2>3. \A v \in Ws : conn[v] = "new" => userData'[v] = userData[v]
    BY <2>1, <2>2, <1>k DEF TypeOK, Guards, NewEmpty
  <2>4. \A v \in Ws : conn'[v] = conn[v] \/ (conn[v] = "open" /\ conn'[v] = "closing")
    BY <2>1, <2>2 DEF TypeOK
  <2> QED BY <2>2, <2>3, <2>4, <1>e
<1>3. CASE LoginSent(l)
  BY <1>3, <1>e, <1>k DEF LoginSent, TypeOK
<1> QED BY <1>1, <1>2, <1>3, GuardsUndefined DEF handleWsMsg

LEMMA GuardsDisconnection ==
  ASSUME TypeOK, Guards, NEW l \in Loops, onDisconnection(l), ~Undefined PROVE Guards'
<1>j. ~Idle(l) /\ job[l].step # "message"
  BY DEF onDisconnection, CheckData, ReadData, EraseUser, delRoom, At
<1>k. /\ job[l] \in Jobs /\ job[l].ws \in Ws /\ Loop[job[l].ws] = l
      /\ conn[job[l].ws] = "closed"
  BY <1>j DEF Idle, TypeOK, Jobs, Guards, JobsOK
<1>f. ASSUME Freed(l) PROVE Guards'
  <2>0. /\ conn' = [conn EXCEPT ![job[l].ws] = "freed"] /\ job' = [job EXCEPT ![l] = None]
        /\ UNCHANGED <<userData, conn_q_lock, cpc, live_msg, msg_q_lock>>
    BY <1>f DEF Freed, msgVars
  <2>1. JobsOK'
    BY <2>0, <1>k DEF Guards, JobsOK, Idle, TypeOK, Jobs
  <2>2. ClosedHasJob'
    BY <2>0, <1>k DEF Guards, ClosedHasJob, Idle, TypeOK, Jobs
  <2>3. ConsumersOK' /\ NewEmpty'
    BY <2>0, <1>k DEF Guards, ConsumersOK, NewEmpty, TypeOK
  <2> QED BY <2>1, <2>2, <2>3 DEF Guards
<1>s. ASSUME NEW j \in Jobs, job' = [job EXCEPT ![l] = j],
             j.ws = job[l].ws, j.step \in {"data", "erase", "room"},
             j.step \in {"erase", "room"} => j.seat # None,
             UNCHANGED <<conn, userData, conn_q_lock, cpc, live_msg, msg_q_lock>>
      PROVE  Guards'
  <2>1. JobsOK'
    BY <1>s, <1>k DEF Guards, JobsOK, Idle, TypeOK
  <2>2. ClosedHasJob'
    BY <1>s, <1>k DEF Guards, ClosedHasJob, Idle, TypeOK
  <2>3. ConsumersOK' /\ NewEmpty'
    BY <1>s DEF Guards, ConsumersOK, NewEmpty
  <2> QED BY <2>1, <2>2, <2>3 DEF Guards
<1>1. CASE CheckData(l) /\ ~Freed(l)
  <2> DEFINE j == [job[l] EXCEPT !.step = "data"]
  <2>1. job' = [job EXCEPT ![l] = j] /\ UNCHANGED <<conn, userData, conn_q_lock, cpc, live_msg, msg_q_lock>>
    BY <1>1 DEF CheckData, roomVars, msgVars
  <2>2. j \in Jobs /\ j.ws = job[l].ws /\ j.step = "data"
    BY <1>k DEF Jobs
  <2> QED BY <2>1, <2>2, <1>s
<1>2. CASE ReadData(l)
  <2> DEFINE j == [job[l] EXCEPT !.step = "erase", !.seat = userData[job[l].ws]]
  <2>1. /\ job' = [job EXCEPT ![l] = j]
        /\ UNCHANGED <<conn, userData, conn_q_lock, cpc, live_msg, msg_q_lock>>
        /\ userData[job[l].ws] \in Seats
    BY <1>2, <1>k DEF ReadData, roomVars, msgVars, TypeOK
  <2>2. j \in Jobs /\ j.ws = job[l].ws /\ j.step = "erase" /\ j.seat \in Seats
    BY <1>k, <2>1 DEF Jobs
  <2> QED BY <2>1, <2>2, <1>s
<1>3. CASE EraseUser(l) /\ ~Freed(l)
  <2> DEFINE j == [job[l] EXCEPT !.step = "room"]
  <2>1. job' = [job EXCEPT ![l] = j] /\ UNCHANGED <<conn, userData, conn_q_lock, cpc, live_msg, msg_q_lock>>
    BY <1>3 DEF EraseUser, roomVars, msgVars
  <2>2. j \in Jobs /\ j.ws = job[l].ws /\ j.step = "room" /\ j.seat = job[l].seat
    BY <1>k DEF Jobs
  <2>3. job[l].seat # None
    BY <1>3 DEF EraseUser, At, Guards, JobsOK
  <2> QED BY <2>1, <2>2, <2>3, <1>s
<1>4. CASE delRoom(l)
  BY <1>4, <1>f DEF delRoom
<1> QED BY <1>f, <1>1, <1>2, <1>3, <1>4 DEF onDisconnection

LEMMA GuardsMessages ==
  ASSUME TypeOK, Guards,
         consumer \/ \E p \in Pushes : pushMsgQueue(p[1], p[2])
  PROVE  Guards'
<1>r. ASSUME UNCHANGED <<conn, userData, job, conn_q_lock>>
      PROVE  JobsOK' /\ ClosedHasJob' /\ NewEmpty'
  BY <1>r DEF Guards, JobsOK, ClosedHasJob, NewEmpty, Idle
<1>1. ASSUME NEW c \in Consumers, popMsgQueue(c) PROVE Guards'
  <2>1. JobsOK' /\ ClosedHasJob' /\ NewEmpty'
    BY <1>1, <1>r DEF popMsgQueue, roomVars
  <2>2. CASE queue = <<>>
    <3>1. ConsumersOK'
      BY <1>1, <2>2 DEF popMsgQueue, ConsumersOK, Guards, TypeOK
    <3> QED BY <2>1, <3>1 DEF Guards
  <2>3. CASE queue # <<>>
    <3>1. Head(queue) \in Msgs
      BY <2>3 DEF TypeOK
    <3>2. /\ live_msg' = [live_msg EXCEPT ![c] = Head(queue)] /\ msg_q_lock = None
          /\ cpc' = [cpc EXCEPT ![c] = "handle"] /\ msg_q_lock' = c /\ conn_q_lock' = conn_q_lock
      BY <1>1, <2>3 DEF popMsgQueue
    <3>3. ConsumersOK'
      BY <3>1, <3>2 DEF ConsumersOK, Guards, TypeOK
    <3> QED BY <2>1, <3>3 DEF Guards
  <2> QED BY <2>2, <2>3
<1>2. ASSUME NEW c \in Consumers, LockConn(c) PROVE Guards'
  BY <1>2 DEF LockConn, Guards, JobsOK, ClosedHasJob, ConsumersOK, NewEmpty, Idle, TypeOK, roomVars
<1>3. ASSUME NEW c \in Consumers, handleLiveMsg(c) PROVE Guards'
  <2>1. CASE Undefined
    BY <2>1, GuardsUndefined
  <2>2. CASE ~Undefined
    <3>0. /\ conn_q_lock = c /\ conn_q_lock' = None /\ msg_q_lock = c /\ cpc[c] = "inside"
          /\ cpc' = [cpc EXCEPT ![c] = "lock"] /\ live_msg' = [live_msg EXCEPT ![c] = None]
          /\ job' = job /\ msg_q_lock' = None
      BY <1>3, <2>2 DEF handleLiveMsg, Guards, ConsumersOK
    <3>1. ConsumersOK'
      BY <3>0 DEF Guards, ConsumersOK, TypeOK
    <3>2. \A w \in Ws : conn'[w] = conn[w] \/ (conn[w] = "open" /\ conn'[w] = "closing")
      BY <1>3, <2>2 DEF handleLiveMsg, TypeOK
    <3>3. \A w \in Ws : userData'[w] \in {userData[w], None}
      BY <1>3, <2>2 DEF handleLiveMsg, TypeOK
    <3>4. JobsOK' /\ ClosedHasJob' /\ NewEmpty'
      BY <3>0, <3>2, <3>3 DEF Guards, JobsOK, ClosedHasJob, NewEmpty, Idle, TypeOK, Jobs
    <3> QED BY <3>1, <3>4 DEF Guards
  <2> QED BY <2>1, <2>2
<1>4. ASSUME NEW p \in Pushes, pushMsgQueue(p[1], p[2]) PROVE Guards'
  <2>1. JobsOK' /\ ClosedHasJob' /\ NewEmpty'
    BY <1>4, <1>r DEF pushMsgQueue, roomVars
  <2>2. ConsumersOK'
    BY <1>4 DEF pushMsgQueue, Notify, Guards, ConsumersOK, TypeOK
  <2> QED BY <2>1, <2>2 DEF Guards
<1> QED BY <1>1, <1>2, <1>3, <1>4 DEF consumer

-----------------------------------------------------------------------------
(* Seats and claims                                                        *)

SeatsOK == SeatsClaimed /\ ClaimsSeated /\ DataOK /\ RoomEmpty

\* What the claims are read from.
LEMMA ClaimFrame ==
  ASSUME TypeOK, ClosedHasJob, SeatsOK,
         conn' = conn, userData' = userData, seat' = seat,
         raced' = raced, orphaned' = orphaned,
         \A l \in Loops : ~Idle(l) => job'[l] = job[l],
         \A l \in Loops : At(l, "room")' => At(l, "room")
  PROVE  SeatsOK'
<1>1. \A w \in Ws, k \in Seats : Claims(w, k)' <=> Claims(w, k)
  BY DEF Claims, ClosedHasJob, TypeOK
<1>2. SeatsClaimed' /\ ClaimsSeated'
  BY <1>1 DEF SeatsOK, SeatsClaimed, ClaimsSeated
<1>3. DataOK'
  BY DEF SeatsOK, DataOK
<1>4. RoomEmpty'
  BY DEF SeatsOK, RoomEmpty, At, Room, Idle
<1> QED BY <1>2, <1>3, <1>4 DEF SeatsOK

\* Connections that open, close or are closed by another thread claim as before.
LEMMA SeatsListener ==
  ASSUME Inv, listener PROVE SeatsOK'
<1>0. TypeOK /\ SeatsOK /\ ClosedHasJob /\ NewEmpty /\ JobsOK
  BY DEF Inv, SeatsOK
<1>1. ASSUME NEW w \in Ws, onConnection(w) PROVE SeatsOK'
  <2>0. /\ conn[w] = "new" /\ conn' = [conn EXCEPT ![w] = "open"]
        /\ UNCHANGED <<userData, seat, job, raced, orphaned>>
    BY <1>1 DEF onConnection
  <2>1. \A v \in Ws, k \in Seats : Claims(v, k)' <=> Claims(v, k)
    BY <2>0, <1>0 DEF Claims, NewEmpty, TypeOK
  <2>2. SeatsClaimed' /\ ClaimsSeated'
    BY <2>0, <2>1, <1>0 DEF SeatsOK, SeatsClaimed, ClaimsSeated
  <2>3. DataOK'
    BY <2>0, <1>0 DEF SeatsOK, DataOK, TypeOK
  <2>4. RoomEmpty'
    BY <2>0, <1>0 DEF SeatsOK, RoomEmpty, At, Room, Idle
  <2> QED BY <2>2, <2>3, <2>4 DEF SeatsOK
<1>2. ASSUME NEW w \in Ws, Disconnected(w) PROVE SeatsOK'
  <2>0. /\ conn[w] \in {"open", "closing"} /\ conn' = [conn EXCEPT ![w] = "closed"]
        /\ job' = [job EXCEPT ![Loop[w]] = [step |-> "check", ws |-> w, seat |-> None]]
        /\ job[Loop[w]] = None /\ Loop[w] \in Loops
        /\ UNCHANGED <<userData, seat, raced, orphaned>>
    BY <1>2 DEF Disconnected, Idle
  <2>1. \A v \in Ws, k \in Seats : Claims(v, k)' <=> Claims(v, k)
    <3> SUFFICES ASSUME NEW v \in Ws, NEW k \in Seats PROVE Claims(v, k)' <=> Claims(v, k)
      OBVIOUS
    <3>1. CASE v = w
      BY <2>0, <3>1, <1>0 DEF Claims, TypeOK
    <3>2. CASE v # w
      BY <2>0, <3>2, <1>0 DEF Claims, TypeOK, ClosedHasJob, Idle
    <3> QED BY <3>1, <3>2
  <2>2. SeatsClaimed' /\ ClaimsSeated'
    BY <2>0, <2>1, <1>0 DEF SeatsOK, SeatsClaimed, ClaimsSeated
  <2>3. DataOK'
    BY <2>0, <1>0 DEF SeatsOK, DataOK, TypeOK
  <2>4. RoomEmpty'
    BY <2>0, <1>0 DEF SeatsOK, RoomEmpty, At, Room, Idle, TypeOK
  <2> QED BY <2>2, <2>3, <2>4 DEF SeatsOK
<1>3. ASSUME NEW w \in Ws, OtherCommand(w) PROVE SeatsOK'
  <2>0. /\ conn[w] = "open" /\ conn' = [conn EXCEPT ![w] = "closing"]
        /\ UNCHANGED <<userData, seat, job, raced, orphaned>>
    BY <1>3 DEF OtherCommand
  <2>1. \A v \in Ws, k \in Seats : Claims(v, k)' <=> Claims(v, k)
    BY <2>0, <1>0 DEF Claims, TypeOK
  <2>2. SeatsClaimed' /\ ClaimsSeated'
    BY <2>0, <2>1, <1>0 DEF SeatsOK, SeatsClaimed, ClaimsSeated
  <2>3. DataOK'
    BY <2>0, <1>0 DEF SeatsOK, DataOK, TypeOK
  <2>4. RoomEmpty'
    BY <2>0, <1>0 DEF SeatsOK, RoomEmpty, At, Room, Idle
  <2> QED BY <2>2, <2>3, <2>4 DEF SeatsOK
<1>4. ASSUME NEW w \in Ws, NEW k \in Logins[w], onMessage(w, k) PROVE SeatsOK'
  <2>0. /\ job' = [job EXCEPT ![Loop[w]] = [step |-> "message", ws |-> w, seat |-> k]]
        /\ job[Loop[w]] = None /\ Loop[w] \in Loops
        /\ UNCHANGED <<conn, userData, seat, raced, orphaned>>
    BY <1>4 DEF onMessage, Idle, roomVars
  <2>1. /\ \A l \in Loops : ~Idle(l) => job'[l] = job[l]
        /\ \A l \in Loops : At(l, "room")' => At(l, "room")
    BY <2>0, <1>0 DEF Idle, At, TypeOK
  <2> QED BY <2>0, <2>1, <1>0, ClaimFrame
<1> QED BY <1>1, <1>2, <1>3, <1>4 DEF listener

LEMMA SeatsMessages ==
  ASSUME Inv, consumer \/ \E p \in Pushes : pushMsgQueue(p[1], p[2]) PROVE SeatsOK'
<1>0. TypeOK /\ SeatsOK /\ ClosedHasJob /\ ConsumersOK
  BY DEF Inv, SeatsOK
<1>r. ASSUME UNCHANGED <<roomVars, job, raced, orphaned>> PROVE SeatsOK'
  <2>1. conn' = conn /\ userData' = userData /\ seat' = seat /\ job' = job
        /\ raced' = raced /\ orphaned' = orphaned
    BY <1>r DEF roomVars
  <2>2. \A l \in Loops : At(l, "room")' => At(l, "room")
    BY <2>1 DEF At, Idle
  <2> QED BY <2>1, <2>2, <1>0, ClaimFrame
<1>1. ASSUME NEW c \in Consumers, popMsgQueue(c) \/ LockConn(c) PROVE SeatsOK'
  BY <1>1, <1>r DEF popMsgQueue, LockConn
<1>2. ASSUME NEW p \in Pushes, pushMsgQueue(p[1], p[2]) PROVE SeatsOK'
  BY <1>2, <1>r DEF pushMsgQueue
<1>3. ASSUME NEW c \in Consumers, handleLiveMsg(c), ~Undefined PROVE SeatsOK'
  <2> DEFINE m == live_msg[c]  sender == seat[m.seat]
  <2>0. m \in Msgs /\ m.seat \in Seats /\ sender \in Ws \cup {None}
    BY <1>3, <1>0 DEF handleLiveMsg, ConsumersOK, TypeOK, Msgs
  <2>1. /\ conn' = [w \in Ws |-> IF w = sender /\ m.cmd \in {"logout", "kick"} /\ conn[w] = "open"
                                 THEN "closing" ELSE conn[w]]
        /\ userData' = [w \in Ws |-> IF w = sender /\ m.cmd = "kick" THEN None ELSE userData[w]]
        /\ orphaned' = IF m.cmd = "kick" /\ sender # None THEN orphaned \cup {m.seat} ELSE orphaned
        /\ UNCHANGED <<seat, job, raced>>
    BY <1>3 DEF handleLiveMsg
  <2> HIDE DEF m, sender
  <2>2. ASSUME NEW w \in Ws, NEW k \in Seats \ orphaned'
        PROVE Claims(w, k)' <=> Claims(w, k)
    <3>1. k \notin orphaned
      BY <2>1, <2>2
    <3>2. CASE w = sender /\ m.cmd = "kick"
      <4>1. k # m.seat /\ seat[m.seat] = w /\ userData[w] \in orphaned \cup {m.seat, None}
        BY <2>0, <2>1, <2>2, <3>2, <1>0 DEF SeatsOK, DataOK, sender
      <4>2. userData[w] # k /\ userData'[w] = None /\ None # k
        BY <4>1, <3>1, <3>2, <2>1
      <4> QED BY <4>2, <2>1, <3>2, <1>0 DEF Claims, TypeOK
    <3>3. CASE ~(w = sender /\ m.cmd = "kick")
      BY <3>3, <2>1, <1>0 DEF Claims, TypeOK
    <3> QED BY <3>2, <3>3
  <2>3. SeatsClaimed' /\ ClaimsSeated'
    BY <2>1, <2>2, <1>0 DEF SeatsOK, SeatsClaimed, ClaimsSeated
  <2>4. DataOK'
    BY <2>0, <2>1, <1>0 DEF SeatsOK, DataOK, TypeOK
  <2>5. RoomEmpty'
    BY <2>1, <1>0 DEF SeatsOK, RoomEmpty, At, Room, Idle
  <2> QED BY <2>3, <2>4, <2>5 DEF SeatsOK
<1>4. CASE Undefined
  BY <1>4, <1>r DEF Undefined
<1> QED BY <1>1, <1>2, <1>3, <1>4 DEF consumer

LEMMA SeatsLoginFree ==
  ASSUME Inv, NEW l \in Loops, LoginFree(l),
         NEW w \in Ws, NEW k \in Seats, w = job[l].ws, k = job[l].seat
  PROVE  SeatsOK'
<1>0. TypeOK /\ SeatsOK /\ ClosedHasJob /\ JobsOK
  BY DEF Inv, SeatsOK
<1>1. /\ Loop[w] = l /\ conn[w] = "open" /\ job[l].step = "message"
      /\ seat[k] = None
  BY <1>0 DEF LoginFree, At, Idle, TypeOK, Jobs, JobsOK
<1>2. /\ userData' = [userData EXCEPT ![w] = k] /\ seat' = [seat EXCEPT ![k] = w]
      /\ conn' \in {conn, [conn EXCEPT ![w] = IF @ = "open" THEN "closing" ELSE @]}
      /\ job' = [job EXCEPT ![l] = None]
      /\ raced \subseteq raced'
      /\ \A m \in Loops : At(m, "room") /\ k \in Room(job[m].seat) => k \in raced'
      /\ orphaned' = orphaned \cup (IF userData[w] # None THEN {userData[w], k} \ {None} ELSE {})
  BY DEF LoginFree, EndOfMessage, LoginHistory
<1>3. ASSUME NEW v \in Ws \ {w}, NEW s \in Seats PROVE Claims(v, s)' <=> Claims(v, s)
  BY <1>0, <1>1, <1>2 DEF Claims, TypeOK, ClosedHasJob, Idle
<1>4. /\ conn'[w] \in {"open", "closing"} /\ userData'[w] = k
      /\ \A s \in Seats : Claims(w, s)' <=> s = k
  <2>1. conn'[w] \in {"open", "closing"} /\ userData'[w] = k
    BY <1>0, <1>1, <1>2 DEF TypeOK
  <2> QED BY <2>1 DEF Claims
<1>5. ASSUME NEW s \in Seats \ (orphaned' \cup {k}) PROVE ~Claims(w, s) /\ seat[s] # w
  <2>1. userData[w] # s
    BY <1>1, <1>2, <1>5
  <2>2. ~Claims(w, s)
    BY <2>1, <1>1 DEF Claims
  <2> QED BY <2>2, <1>0, <1>1, <1>2, <1>5 DEF SeatsOK, SeatsClaimed
<1>6. SeatsClaimed'
  <2> SUFFICES ASSUME NEW s \in Seats \ orphaned', NEW v \in Ws, seat'[s] = v PROVE Claims(v, s)'
    BY DEF SeatsClaimed
  <2>1. CASE s = k
    BY <2>1, <1>0, <1>1, <1>2, <1>4 DEF TypeOK
  <2>2. CASE s # k
    <3>1. seat[s] = v /\ s \notin orphaned
      BY <2>2, <1>0, <1>2 DEF TypeOK
    <3> QED BY <3>1, <2>2, <1>0, <1>3, <1>5 DEF SeatsOK, SeatsClaimed
  <2> QED BY <2>1, <2>2
<1>7. ClaimsSeated'
  <2> SUFFICES ASSUME NEW s \in Seats \ (raced' \cup orphaned'), NEW v \in Ws, Claims(v, s)'
               PROVE seat'[s] = v
    BY DEF ClaimsSeated
  <2>0. s \notin raced \cup orphaned
    BY <1>2
  <2>1. CASE v = w
    BY <2>1, <1>0, <1>1, <1>2, <1>4 DEF TypeOK
  <2>2. CASE v # w
    <3>1. seat[s] = v
      BY <2>0, <2>2, <1>0, <1>3 DEF SeatsOK, ClaimsSeated
    <3>2. s # k
      BY <3>1, <1>1
    <3> QED BY <3>1, <3>2, <1>0, <1>2 DEF TypeOK
  <2> QED BY <2>1, <2>2
<1>8. DataOK'
  <2> SUFFICES ASSUME NEW s \in Seats, NEW v \in Ws, seat'[s] = v
               PROVE /\ conn'[v] # "new" /\ (conn'[v] = "open" => userData'[v] # None)
                     /\ userData'[v] \in orphaned' \cup {s, None}
    BY DEF DataOK
  <2>0. conn'[v] \in {conn[v], "closing"}
    BY <1>0, <1>1, <1>2 DEF TypeOK
  <2>1. CASE v # w
    <3>1. s # k /\ seat[s] = v /\ userData'[v] = userData[v]
      BY <2>1, <1>0, <1>1, <1>2 DEF TypeOK
    <3> QED BY <3>1, <2>0, <1>0, <1>2 DEF SeatsOK, DataOK
  <2>2. CASE v = w /\ s = k
    BY <2>0, <2>2, <1>0, <1>1, <1>2 DEF TypeOK
  <2>3. CASE v = w /\ s # k
    <3>1. seat[s] = w /\ userData'[w] = k
      BY <2>3, <1>0, <1>1, <1>2 DEF TypeOK
    <3>2. userData[w] # None
      BY <3>1, <1>0, <1>1 DEF SeatsOK, DataOK
    <3> QED BY <2>0, <2>3, <3>1, <3>2, <1>1, <1>2
  <2> QED BY <2>1, <2>2, <2>3
<1>9. RoomEmpty'
  <2> SUFFICES ASSUME NEW m \in Loops, At(m, "room")', NEW s \in Room(job'[m].seat)
               PROVE seat'[s] = None \/ s \in raced'
    BY DEF RoomEmpty, Room
  <2>1. m # l /\ job'[m] = job[m] /\ At(m, "room") /\ s \in Seats
    BY <1>0, <1>2 DEF At, Idle, TypeOK, Room
  <2>2. seat[s] = None \/ s \in raced
    BY <2>1, <1>0 DEF SeatsOK, RoomEmpty, Room
  <2>3. s = k => s \in raced'
    BY <2>1, <1>2
  <2> QED BY <2>1, <2>2, <2>3, <1>0, <1>1, <1>2 DEF TypeOK
<1> QED BY <1>6, <1>7, <1>8, <1>9 DEF SeatsOK

LEMMA SeatsLoginSent ==
  ASSUME Inv, NEW l \in Loops, LoginSent(l),
         NEW w \in Ws, NEW k \in Seats, w = job[l].ws, k = job[l].seat
  PROVE  SeatsOK'
<1>0. TypeOK /\ SeatsOK /\ ClosedHasJob /\ JobsOK
  BY DEF Inv, SeatsOK
<1>1. /\ Loop[w] = l /\ conn[w] = "open" /\ job[l].step = "message"
  BY <1>0 DEF LoginSent, At, Idle, TypeOK, Jobs, JobsOK
<1>2. /\ userData' = [userData EXCEPT ![w] = k] /\ seat' = seat /\ conn' = conn
      /\ job' = [job EXCEPT ![l] = None]
      /\ raced \subseteq raced'
      /\ orphaned' = orphaned \cup (IF userData[w] # k THEN {userData[w], k} \ {None} ELSE {})
  BY DEF LoginSent, EndOfMessage, LoginHistory
<1>3. ASSUME NEW v \in Ws \ {w}, NEW s \in Seats PROVE Claims(v, s)' <=> Claims(v, s)
  BY <1>0, <1>1, <1>2 DEF Claims, TypeOK, ClosedHasJob, Idle
<1>4. ASSUME NEW s \in Seats \ orphaned' PROVE Claims(w, s)' <=> Claims(w, s)
  <2>1. (Claims(w, s)' <=> s = k) /\ (Claims(w, s) <=> userData[w] = s)
    <3>1. conn'[w] = "open" /\ userData'[w] = k
      BY <1>0, <1>1, <1>2 DEF TypeOK
    <3> QED BY <3>1, <1>1 DEF Claims
  <2>2. s = k <=> userData[w] = s
    BY <1>1, <1>2, <1>4
  <2> QED BY <2>1, <2>2
<1>f. \A v \in Ws, s \in Seats \ orphaned' : Claims(v, s)' <=> Claims(v, s)
  BY <1>3, <1>4
<1>5. SeatsClaimed' /\ ClaimsSeated'
  BY <1>0, <1>2, <1>f DEF SeatsOK, SeatsClaimed, ClaimsSeated
<1>6. DataOK'
  <2> SUFFICES ASSUME NEW s \in Seats, NEW v \in Ws, seat[s] = v
               PROVE /\ conn[v] # "new" /\ (conn[v] = "open" => userData'[v] # None)
                     /\ userData'[v] \in orphaned' \cup {s, None}
    BY <1>2 DEF DataOK
  <2>1. CASE v # w
    BY <2>1, <1>0, <1>2 DEF SeatsOK, DataOK, TypeOK
  <2>2. CASE v = w
    <3>1. userData'[w] = k /\ userData[w] # None /\ userData[w] \in orphaned \cup {s, None}
      BY <2>2, <1>0, <1>1, <1>2 DEF SeatsOK, DataOK, TypeOK
    <3> QED BY <2>2, <3>1, <1>1, <1>2
  <2> QED BY <2>1, <2>2
<1>7. RoomEmpty'
  BY <1>0, <1>2 DEF SeatsOK, RoomEmpty, At, Room, Idle, TypeOK
<1> QED BY <1>5, <1>6, <1>7 DEF SeatsOK

LEMMA SeatsLoginTaken ==
  ASSUME Inv, NEW l \in Loops, LoginTaken(l), ~Undefined,
         NEW w \in Ws, NEW k \in Seats, NEW pre \in Ws,
         w = job[l].ws, k = job[l].seat, pre = seat[k]
  PROVE  SeatsOK'
<1>0. TypeOK /\ SeatsOK /\ ClosedHasJob /\ JobsOK
  BY DEF Inv, SeatsOK
<1>1. Loop[w] = l /\ conn[w] = "open" /\ job[l].step = "message" /\ conn[pre] # "freed"
  BY <1>0 DEF LoginTaken, At, Idle, JobsOK
<1>2. /\ userData' = [userData EXCEPT ![w] = k, ![pre] = None]
      /\ seat' = [seat EXCEPT ![k] = w]
      /\ conn' = [conn EXCEPT ![pre] = IF @ = "open" THEN "closing" ELSE @]
      /\ job' = [job EXCEPT ![l] = None]
      /\ raced \subseteq raced' /\ orphaned \subseteq orphaned'
      /\ userData[w] # None => {userData[w], k} \subseteq orphaned'
  BY DEF LoginTaken, EndOfMessage, LoginHistory
<1>r. \A m \in Loops : (At(m, "erase") \/ At(m, "room")) /\ k \in Room(job[m].seat) => k \in raced'
  BY DEF LoginTaken, LoginHistory
<1>d. userData[pre] \in orphaned \cup {k, None} /\ conn[pre] # "new"
      /\ (conn[pre] = "open" => userData[pre] # None)
  BY <1>0 DEF SeatsOK, DataOK
<1>3. ASSUME NEW v \in Ws \ {w, pre}, NEW s \in Seats PROVE Claims(v, s)' <=> Claims(v, s)
  BY <1>0, <1>1, <1>2 DEF Claims, TypeOK, ClosedHasJob, Idle
<1>4. \A s \in Seats \ orphaned' : ~(w = pre /\ s = k)
  BY <1>1, <1>2, <1>d
<1>5. ASSUME NEW s \in Seats \ orphaned', s # k PROVE ~Claims(w, s) /\ ~Claims(w, s)'
  <2>1. userData[w] # s /\ userData'[w] \in {k, None} /\ conn'[w] \in {"open", "closing"}
    BY <1>0, <1>1, <1>2, <1>5 DEF TypeOK
  <2> QED BY <2>1, <1>1, <1>5 DEF Claims
<1>6. w # pre => Claims(w, k)'
  BY <1>0, <1>1, <1>2 DEF Claims, TypeOK
<1>7. ASSUME pre # w, NEW s \in Seats \ orphaned', s # k PROVE Claims(pre, s)' <=> Claims(pre, s)
  <2>1. userData[pre] # s /\ userData'[pre] = None
    BY <1>0, <1>2, <1>7, <1>d DEF TypeOK
  <2>2. Claims(pre, s) <=> conn[pre] = "closed" /\ job[Loop[pre]].step = "erase" /\ job[Loop[pre]].seat = s
    BY <2>1 DEF Claims
  <2>3. Claims(pre, s)' <=> conn'[pre] = "closed" /\ job'[Loop[pre]].step = "erase" /\ job'[Loop[pre]].seat = s
    BY <2>1 DEF Claims
  <2>4. conn'[pre] = "closed" <=> conn[pre] = "closed"
    BY <1>0, <1>2 DEF TypeOK
  <2>5. conn[pre] = "closed" => job'[Loop[pre]] = job[Loop[pre]]
    BY <1>0, <1>1, <1>2 DEF ClosedHasJob, TypeOK
  <2> QED BY <2>2, <2>3, <2>4, <2>5
<1>8. ASSUME pre # w, Claims(pre, k)' PROVE k \in raced'
  <2>1. userData'[pre] = None
    BY <1>0, <1>2, <1>8 DEF TypeOK
  <2>2. conn'[pre] = "closed" /\ job'[Loop[pre]].step = "erase" /\ job'[Loop[pre]].seat = k
    BY <1>8, <2>1 DEF Claims
  <2>3. conn[pre] = "closed"
    BY <1>0, <1>2, <2>2 DEF TypeOK
  <2>4. Loop[pre] # l /\ job'[Loop[pre]] = job[Loop[pre]] /\ ~Idle(Loop[pre])
    BY <2>3, <1>0, <1>1, <1>2, <1>8 DEF ClosedHasJob, TypeOK
  <2>5. At(Loop[pre], "erase") /\ k \in Room(job[Loop[pre]].seat)
    BY <2>2, <2>4 DEF At, Room
  <2> QED BY <2>5, <1>r
<1>9. SeatsClaimed'
  <2> SUFFICES ASSUME NEW s \in Seats \ orphaned', NEW v \in Ws, seat'[s] = v PROVE Claims(v, s)'
    BY DEF SeatsClaimed
  <2>1. CASE s = k
    BY <2>1, <1>0, <1>2, <1>4, <1>6 DEF TypeOK
  <2>2. CASE s # k
    <3>1. Claims(v, s)
      BY <2>2, <1>0, <1>2 DEF TypeOK, SeatsOK, SeatsClaimed
    <3> QED BY <3>1, <2>2, <1>3, <1>5, <1>7
  <2> QED BY <2>1, <2>2
<1>10. ClaimsSeated'
  <2> SUFFICES ASSUME NEW s \in Seats \ (raced' \cup orphaned'), NEW v \in Ws, Claims(v, s)'
               PROVE seat'[s] = v
    BY DEF ClaimsSeated
  <2>0. s \notin raced \cup orphaned
    BY <1>2
  <2>1. CASE s = k
    <3>1. pre # w /\ v # pre
      BY <2>1, <1>4, <1>8
    <3>2. CASE v = w
      BY <3>2, <2>1, <1>0, <1>2 DEF TypeOK
    <3>3. CASE v # w
      <4>1. seat[k] = v
        BY <2>0, <2>1, <3>1, <3>3, <1>0, <1>3 DEF SeatsOK, ClaimsSeated
      <4> QED BY <4>1, <3>1
    <3> QED BY <3>2, <3>3
  <2>2. CASE s # k
    <3>1. seat[s] = v
      BY <2>0, <2>2, <1>0, <1>3, <1>5, <1>7 DEF SeatsOK, ClaimsSeated
    <3> QED BY <3>1, <2>2, <1>0, <1>2 DEF TypeOK
  <2> QED BY <2>1, <2>2
<1>11. DataOK'
  <2> SUFFICES ASSUME NEW s \in Seats, NEW v \in Ws, seat'[s] = v
               PROVE /\ conn'[v] # "new" /\ (conn'[v] = "open" => userData'[v] # None)
                     /\ userData'[v] \in orphaned' \cup {s, None}
    BY DEF DataOK
  <2>0. s = k => v = w
    BY <1>0, <1>2 DEF TypeOK
  <2>1. s # k => seat[s] = v
    BY <1>0, <1>2 DEF TypeOK
  <2>2. CASE v = pre
    <3>1. conn'[v] # "open" /\ conn'[v] # "new" /\ userData'[v] = None
      BY <2>2, <1>0, <1>2, <1>d DEF TypeOK
    <3> QED BY <3>1
  <2>3. CASE v = w /\ v # pre
    <3>1. conn'[v] = "open" /\ userData'[v] = k
      BY <2>3, <1>0, <1>1, <1>2 DEF TypeOK
    <3>2. s # k => userData[w] # None
      BY <2>1, <2>3, <1>0, <1>1 DEF SeatsOK, DataOK
    <3> QED BY <3>1, <3>2, <1>2
  <2>4. CASE v # w /\ v # pre
    <3>1. seat[s] = v /\ conn'[v] = conn[v] /\ userData'[v] = userData[v]
      BY <2>0, <2>1, <2>4, <1>0, <1>2 DEF TypeOK
    <3> QED BY <3>1, <1>0, <1>2 DEF SeatsOK, DataOK
  <2> QED BY <2>2, <2>3, <2>4
<1>12. RoomEmpty'
  <2> SUFFICES ASSUME NEW m \in Loops, At(m, "room")', NEW s \in Room(job'[m].seat)
               PROVE seat'[s] = None \/ s \in raced'
    BY DEF RoomEmpty, Room
  <2>1. m # l /\ job'[m] = job[m] /\ At(m, "room") /\ s \in Seats
    BY <1>0, <1>2 DEF At, Idle, TypeOK, Room
  <2>2. seat[s] = None \/ s \in raced
    BY <2>1, <1>0 DEF SeatsOK, RoomEmpty, Room
  <2>3. s = k => s \in raced'
    BY <2>1, <1>r
  <2> QED BY <2>1, <2>2, <2>3, <1>0, <1>2 DEF TypeOK
<1> QED BY <1>9, <1>10, <1>11, <1>12 DEF SeatsOK

\* A connection that is freed, or whose entry is erased, claims nothing.
LEMMA ClaimsLeft ==
  ASSUME Inv, NEW l \in Loops, ~Idle(l), job[l].step # "message",
         NEW w \in Ws, w = job[l].ws,
         Freed(l) \/ (conn' = conn /\ userData' = userData /\ job' = [job EXCEPT ![l].step = "room"])
  PROVE  \A v \in Ws, s \in Seats : Claims(v, s)' <=> v # w /\ Claims(v, s)
<1> SUFFICES ASSUME NEW v \in Ws, NEW s \in Seats PROVE Claims(v, s)' <=> v # w /\ Claims(v, s)
  OBVIOUS
<1>0. TypeOK /\ ClosedHasJob /\ JobsOK
  BY DEF Inv
<1>1. Loop[w] = l /\ conn[w] = "closed" /\ userData' = userData
  BY <1>0 DEF JobsOK, Freed
<1>2. CASE v = w
  <2>1. conn'[w] = "freed" \/ (conn'[w] = "closed" /\ job'[l].step = "room")
    BY <1>0, <1>1 DEF TypeOK, Freed, Idle, Jobs
  <2> QED BY <1>1, <1>2, <2>1 DEF Claims
<1>3. CASE v # w
  <2>1. conn'[v] = conn[v]
    BY <1>0, <1>3 DEF TypeOK, Freed
  <2>2. conn[v] = "closed" => Loop[v] # l
    BY <1>0, <1>3 DEF ClosedHasJob
  <2>3. \A m \in Loops \ {l} : job'[m] = job[m]
    BY <1>0 DEF TypeOK, Freed
  <2> QED BY <1>1, <1>3, <2>1, <2>2, <2>3 DEF Claims
<1> QED BY <1>2, <1>3

LEMMA SeatsReadData ==
  ASSUME Inv, NEW l \in Loops, CheckData(l) \/ ReadData(l), ~Undefined PROVE SeatsOK'
<1>0. TypeOK /\ SeatsOK /\ ClosedHasJob /\ JobsOK
  BY DEF Inv, SeatsOK
<1>1. /\ ~Idle(l) /\ job[l] \in Jobs /\ job[l].step \in {"check", "data"}
      /\ conn[job[l].ws] = "closed" /\ Loop[job[l].ws] = l /\ job[l].ws \in Ws
  BY <1>0 DEF CheckData, ReadData, At, Idle, TypeOK, JobsOK, Jobs
<1>2. UNCHANGED <<userData, seat, raced, orphaned>>
  BY DEF CheckData, ReadData, Freed, roomVars
<1>3. PICK w \in Ws : w = job[l].ws
  BY <1>1
<1>4. \A v \in Ws, s \in Seats : Claims(v, s)' <=> Claims(v, s)
  <2>1. CASE Freed(l)
    <3>1. userData[w] = None
      BY <1>1, <1>3, <2>1, <1>0 DEF CheckData, ReadData, Freed, roomVars, TypeOK
    <3>2. \A s \in Seats : ~Claims(w, s)
      BY <1>1, <1>3, <3>1 DEF Claims
    <3>3. \A v \in Ws, s \in Seats : Claims(v, s)' <=> v # w /\ Claims(v, s)
      BY <1>1, <1>3, <2>1, ClaimsLeft
    <3> QED BY <3>2, <3>3
  <2>2. CASE CheckData(l) /\ ~Freed(l)
    <3>1. job' = [job EXCEPT ![l].step = "data"] /\ conn' = conn
      BY <2>2 DEF CheckData, roomVars
    <3>2. /\ \A m \in Loops \ {l} : job'[m] = job[m]
          /\ job'[l].step = "data" /\ job'[l].ws = w /\ job'[l].seat = job[l].seat
      BY <3>1, <1>0, <1>1, <1>3 DEF TypeOK, Jobs
    <3> SUFFICES ASSUME NEW v \in Ws, NEW s \in Seats PROVE Claims(v, s)' <=> Claims(v, s)
      OBVIOUS
    <3> QED BY <1>1, <1>2, <3>1, <3>2, <1>0 DEF Claims, ClosedHasJob, TypeOK
  <2>3. CASE ReadData(l) /\ ~Freed(l)
    <3>1. /\ job' = [job EXCEPT ![l].step = "erase", ![l].seat = userData[job[l].ws]]
          /\ conn' = conn /\ job[l].step = "data"
      BY <2>3 DEF ReadData, roomVars, At
    <3>2. /\ \A m \in Loops \ {l} : job'[m] = job[m]
          /\ job'[l].step = "erase" /\ job'[l].ws = w /\ job'[l].seat = userData[w]
      BY <3>1, <1>0, <1>1, <1>3 DEF TypeOK, Jobs
    <3> SUFFICES ASSUME NEW v \in Ws, NEW s \in Seats PROVE Claims(v, s)' <=> Claims(v, s)
      OBVIOUS
    <3>3. CASE v = w
      BY <1>1, <1>2, <1>3, <3>1, <3>2, <3>3 DEF Claims
    <3>4. CASE v # w
      <4>1. conn[v] = "closed" => Loop[v] \in Loops \ {l}
        BY <1>0, <1>3, <3>4 DEF ClosedHasJob
      <4> QED BY <1>2, <3>1, <3>2, <4>1 DEF Claims
    <3> QED BY <3>3, <3>4
  <2> QED BY <2>1, <2>2, <2>3
<1>5. SeatsClaimed' /\ ClaimsSeated'
  BY <1>0, <1>2, <1>4 DEF SeatsOK, SeatsClaimed, ClaimsSeated
<1>6. DataOK'
  <2>1. \A v \in Ws : conn'[v] \in {conn[v], "freed"}
    BY <1>0 DEF CheckData, ReadData, Freed, roomVars, TypeOK
  <2> QED BY <2>1, <1>0, <1>2 DEF SeatsOK, DataOK
<1>7. RoomEmpty'
  <2>1. \A m \in Loops : At(m, "room")' => At(m, "room") /\ job'[m] = job[m]
    <3>1. \A m \in Loops \ {l} : job'[m] = job[m]
      BY <1>0 DEF CheckData, ReadData, Freed, TypeOK
    <3>2. job'[l] = None \/ job'[l].step \in {"data", "erase"}
      BY <1>0, <1>1 DEF CheckData, ReadData, Freed, TypeOK, Jobs
    <3> QED BY <3>1, <3>2 DEF At, Idle
  <2> QED BY <2>1, <1>0, <1>2 DEF SeatsOK, RoomEmpty, Room
<1> QED BY <1>5, <1>6, <1>7 DEF SeatsOK

LEMMA SeatsEraseUser ==
  ASSUME Inv, NEW l \in Loops, EraseUser(l), ~Undefined,
         NEW w \in Ws, NEW k \in Seats, w = job[l].ws, k = job[l].seat
  PROVE  SeatsOK'
<1>0. TypeOK /\ SeatsOK /\ ClosedHasJob /\ JobsOK
  BY DEF Inv, SeatsOK
<1>1. ~Idle(l) /\ job[l].step = "erase" /\ Loop[w] = l /\ conn[w] = "closed" /\ job[l] \in Jobs
  BY <1>0 DEF EraseUser, At, Idle, JobsOK, TypeOK
<1>2. /\ seat' = [seat EXCEPT ![k] = None] /\ UNCHANGED <<userData, raced, orphaned>>
      /\ \/ Freed(l)
         \/ conn' = conn /\ job' = [job EXCEPT ![l].step = "room"] /\ \A s \in Room(k) : seat'[s] = None
  BY DEF EraseUser, Freed
<1>3. \A v \in Ws, s \in Seats : Claims(v, s)' <=> v # w /\ Claims(v, s)
  BY <1>1, <1>2, ClaimsLeft
<1>4. \A s \in Seats : Claims(w, s) <=> s = k
  BY <1>1 DEF Claims
<1>5. SeatsClaimed'
  <2> SUFFICES ASSUME NEW s \in Seats \ orphaned', NEW v \in Ws, seat'[s] = v PROVE Claims(v, s)'
    BY DEF SeatsClaimed
  <2>1. s # k /\ seat[s] = v
    BY <1>0, <1>2 DEF TypeOK
  <2> QED BY <2>1, <1>0, <1>2, <1>3, <1>4 DEF SeatsOK, SeatsClaimed
<1>6. ClaimsSeated'
  <2> SUFFICES ASSUME NEW s \in Seats \ (raced' \cup orphaned'), NEW v \in Ws, Claims(v, s)'
               PROVE seat'[s] = v
    BY DEF ClaimsSeated
  <2>1. v # w /\ seat[s] = v
    BY <1>0, <1>2, <1>3 DEF SeatsOK, ClaimsSeated
  <2>2. s # k
    BY <2>1, <1>0, <1>2, <1>4 DEF SeatsOK, ClaimsSeated
  <2> QED BY <2>1, <2>2, <1>0, <1>2 DEF TypeOK
<1>7. DataOK'
  <2>1. \A v \in Ws : conn'[v] \in {conn[v], "freed"}
    BY <1>0, <1>2 DEF Freed, TypeOK
  <2>2. \A s \in Seats, v \in Ws : seat'[s] = v => seat[s] = v
    BY <1>0, <1>2 DEF TypeOK
  <2> QED BY <2>1, <2>2, <1>0, <1>2 DEF SeatsOK, DataOK
<1>8. RoomEmpty'
  <2> SUFFICES ASSUME NEW m \in Loops, At(m, "room")', NEW s \in Room(job'[m].seat)
               PROVE seat'[s] = None \/ s \in raced'
    BY DEF RoomEmpty, Room
  <2>0. s \in Seats
    BY DEF Room
  <2>1. CASE m = l
    <3>1. ~Freed(l)
      BY <2>1, <1>0 DEF Freed, At, Idle, TypeOK
    <3>2. job'[l].seat = k
      BY <3>1, <1>0, <1>1, <1>2 DEF TypeOK, Jobs
    <3> QED BY <2>1, <3>1, <3>2, <1>2
  <2>2. CASE m # l
    <3>1. job'[m] = job[m] /\ At(m, "room")
      BY <2>2, <1>0, <1>2 DEF Freed, At, Idle, TypeOK
    <3>2. seat[s] = None \/ s \in raced
      BY <3>1, <1>0 DEF SeatsOK, RoomEmpty, Room
    <3> QED BY <3>2, <2>0, <1>0, <1>2 DEF TypeOK
  <2> QED BY <2>1, <2>2
<1> QED BY <1>5, <1>6, <1>7, <1>8 DEF SeatsOK

LEMMA SeatsDelRoom ==
  ASSUME Inv, NEW l \in Loops, delRoom(l), ~Undefined,
         NEW w \in Ws, NEW k \in Seats, w = job[l].ws, k = job[l].seat
  PROVE  SeatsOK'
<1>0. TypeOK /\ SeatsOK /\ ClosedHasJob /\ JobsOK
  BY DEF Inv, SeatsOK
<1>1. ~Idle(l) /\ job[l].step = "room" /\ Loop[w] = l /\ conn[w] = "closed"
  BY <1>0 DEF delRoom, At, Idle, JobsOK, TypeOK
<1>2. /\ seat' = [s \in Seats |-> IF s \in Room(k) THEN None ELSE seat[s]]
      /\ Freed(l) /\ UNCHANGED <<userData, raced, orphaned>>
  BY DEF delRoom, Freed
<1>3. \A v \in Ws, s \in Seats : Claims(v, s)' <=> v # w /\ Claims(v, s)
  BY <1>1, <1>2, ClaimsLeft
<1>4. \A s \in Seats : ~Claims(w, s)
  BY <1>1 DEF Claims
<1>5. \A s \in Room(k) : seat[s] = None \/ s \in raced
  BY <1>0, <1>1 DEF SeatsOK, RoomEmpty, At
<1>6. \A s \in Seats, v \in Ws : seat'[s] = v => seat[s] = v
  BY <1>2
<1>7. SeatsClaimed'
  BY <1>0, <1>2, <1>3, <1>4, <1>6 DEF SeatsOK, SeatsClaimed
<1>8. ClaimsSeated'
  <2> SUFFICES ASSUME NEW s \in Seats \ (raced' \cup orphaned'), NEW v \in Ws, Claims(v, s)'
               PROVE seat'[s] = v
    BY DEF ClaimsSeated
  <2>1. seat[s] = v
    BY <1>0, <1>2, <1>3 DEF SeatsOK, ClaimsSeated
  <2>2. s \notin Room(k)
    BY <2>1, <1>2, <1>5
  <2> QED BY <2>1, <2>2, <1>2
<1>9. DataOK'
  <2>1. \A v \in Ws : conn'[v] \in {conn[v], "freed"}
    BY <1>0, <1>2 DEF Freed, TypeOK
  <2> QED BY <2>1, <1>0, <1>2, <1>6 DEF SeatsOK, DataOK
<1>10. RoomEmpty'
  <2> SUFFICES ASSUME NEW m \in Loops, At(m, "room")', NEW s \in Room(job'[m].seat)
               PROVE seat'[s] = None \/ s \in raced'
    BY DEF RoomEmpty, Room
  <2>1. job'[m] = job[m] /\ At(m, "room") /\ s \in Seats
    BY <1>0, <1>2 DEF Freed, At, Idle, TypeOK, Room
  <2>2. seat[s] = None \/ s \in raced
    BY <2>1, <1>0 DEF SeatsOK, RoomEmpty, Room
  <2> QED BY <2>1, <2>2, <1>2
<1> QED BY <1>7, <1>8, <1>9, <1>10 DEF SeatsOK

LEMMA SeatsUndefined ==
  ASSUME Inv, Undefined PROVE SeatsOK'
<1>0. TypeOK /\ SeatsOK /\ ClosedHasJob
  BY DEF Inv, SeatsOK
<1>1. conn' = conn /\ userData' = userData /\ seat' = seat /\ job' = job
      /\ raced' = raced /\ orphaned' = orphaned
  BY DEF Undefined, roomVars
<1>2. \A l \in Loops : At(l, "room")' => At(l, "room")
  BY <1>1 DEF At, Idle
<1> QED BY <1>0, <1>1, <1>2, ClaimFrame

LEMMA SeatsCallback ==
  ASSUME Inv, callback PROVE SeatsOK'
<1> SUFFICES ASSUME NEW l \in Loops, handleWsMsg(l) \/ onDisconnection(l), ~Undefined
             PROVE  SeatsOK'
  BY SeatsUndefined DEF callback
<1>0. ASSUME At(l, "message") \/ At(l, "erase") \/ At(l, "room")
      PROVE  job[l].ws \in Ws /\ job[l].seat \in Seats
  BY <1>0 DEF Inv, TypeOK, JobsOK, At, Idle, Jobs
<1>1. CASE LoginFree(l)
  BY <1>0, <1>1, SeatsLoginFree DEF LoginFree
<1>2. CASE LoginTaken(l)
  <2>1. job[l].ws \in Ws /\ job[l].seat \in Seats /\ seat[job[l].seat] \in Ws
    BY <1>0, <1>2 DEF LoginTaken, Inv, TypeOK
  <2> QED BY <1>2, <2>1, SeatsLoginTaken
<1>3. CASE LoginSent(l)
  BY <1>0, <1>3, SeatsLoginSent DEF LoginSent
<1>4. CASE CheckData(l) \/ ReadData(l)
  BY <1>4, SeatsReadData
<1>5. CASE EraseUser(l)
  BY <1>0, <1>5, SeatsEraseUser DEF EraseUser
<1>6. CASE delRoom(l)
  BY <1>0, <1>6, SeatsDelRoom DEF delRoom
<1> QED BY <1>1, <1>2, <1>3, <1>4, <1>5, <1>6 DEF handleWsMsg, onDisconnection

-----------------------------------------------------------------------------
(* The invariant                                                           *)

LEMMA InitInv == Init => Inv
<1> SUFFICES ASSUME Init PROVE Inv
  OBVIOUS
<1>1. \A w \in Ws, k \in Seats : ~Claims(w, k)
  BY DEF Init, Claims
<1>2. TypeOK
  BY InitType
<1>3. JobsOK /\ ClosedHasJob /\ ConsumersOK /\ NewEmpty /\ RoomEmpty
  BY DEF Init, JobsOK, ClosedHasJob, ConsumersOK, NewEmpty, RoomEmpty, At, Idle
<1>4. SeatsClaimed /\ ClaimsSeated /\ DataOK
  BY <1>1 DEF Init, SeatsClaimed, ClaimsSeated, DataOK
<1> QED BY <1>2, <1>3, <1>4 DEF Inv

LEMMA NextInv == Inv /\ [Next]_vars => Inv'
<1> SUFFICES ASSUME Inv, [Next]_vars PROVE Inv'
  OBVIOUS
<1>0. TypeOK /\ Guards /\ JobsOK /\ ConsumersOK
  BY DEF Inv, Guards
<1>i. ASSUME TypeOK', Guards', SeatsOK' PROVE Inv'
  BY <1>i DEF Inv, Guards, SeatsOK
<1>1. CASE listener
  BY <1>1, <1>0, <1>i, TypeListener, GuardsListener, SeatsListener
<1>2. CASE callback
  <2>1. Guards'
    <3> PICK l \in Loops : handleWsMsg(l) \/ onDisconnection(l)
      BY <1>2 DEF callback
    <3> QED BY <1>0, GuardsLogin, GuardsDisconnection, GuardsUndefined
  <2> QED BY <2>1, <1>2, <1>0, <1>i, TypeCallback, SeatsCallback
<1>3. CASE consumer \/ \E p \in Pushes : pushMsgQueue(p[1], p[2])
  BY <1>3, <1>0, <1>i, TypeMessages, GuardsMessages, SeatsMessages
<1>4. CASE UNCHANGED vars
  <2>1. UNCHANGED <<conn, userData, anonymous, seat, job, conn_q_lock, msg_q_lock, queue, pushed,
                    cpc, live_msg, handled, outcome, raced, orphaned>>
    BY <1>4 DEF vars, roomVars, msgVars
  <2>2. TypeOK' /\ Guards'
    BY <2>1, <1>0 DEF TypeOK, Guards, JobsOK, ClosedHasJob, ConsumersOK, NewEmpty, Idle
  <2>3. SeatsOK'
    <3>1. \A l \in Loops : At(l, "room")' => At(l, "room")
      BY <2>1 DEF At, Idle
    <3>2. SeatsOK /\ ClosedHasJob
      BY DEF Inv, SeatsOK
    <3> QED BY <2>1, <3>1, <3>2, <1>0, ClaimFrame
  <2> QED BY <2>2, <2>3, <1>i
<1> QED BY <1>1, <1>2, <1>3, <1>4 DEF Next

LEMMA Invariance == Spec => []Inv
BY InitInv, NextInv, PTL DEF Spec

\* All variables keep their types.
THEOREM TypeCorrect == Spec => []TypeOK
<1>1. Inv => TypeOK
  BY DEF Inv
<1> QED BY <1>1, Invariance, PTL

\* Who sits on a seat will free it and who will free it sits there, unless a
\* login raced a disconnection or the seat's connection was kicked or replaced
\* its own login: no other interleaving of the listeners breaks the agreement.
THEOREM SeatsAgreeHolds == Spec => []SeatsAgree
<1>1. Inv => SeatsAgree
  <2> SUFFICES ASSUME Inv, NEW k \in Seats \ (raced \cup orphaned), NEW w \in Ws,
                      conn[w] \in {"open", "closing"}
               PROVE  userData[w] = k <=> seat[k] = w
    BY DEF SeatsAgree
  <2>1. Claims(w, k) <=> userData[w] = k
    BY DEF Claims
  <2> QED BY <2>1 DEF Inv, SeatsClaimed, ClaimsSeated
<1> QED BY <1>1, Invariance, PTL

\* The map never holds a connection uWS has freed, unless the seat's connection
\* was kicked or logged in a second time: then broadcastMsg may use it.
THEOREM EntriesLiveHolds == Spec => []EntriesLive
<1>1. Inv => EntriesLive
  <2> SUFFICES ASSUME Inv, NEW k \in Seats \ orphaned, seat[k] # None, conn[seat[k]] = "freed"
               PROVE  FALSE
    BY DEF EntriesLive
  <2>1. seat[k] \in Ws
    BY DEF Inv, TypeOK
  <2>2. Claims(seat[k], k)
    BY <2>1 DEF Inv, SeatsClaimed
  <2> QED BY <2>2 DEF Claims
<1> QED BY <1>1, Invariance, PTL

-----------------------------------------------------------------------------
(* The order of the messages                                               *)

\* Messages are numbered as pushed.  One is in hand while msg_q_lock is held.
InHand == IF msg_q_lock = None THEN 0 ELSE 1

Numbered ==
  /\ msg_q_lock # None =>
       /\ cpc[msg_q_lock] \in {"handle", "inside"}
       /\ live_msg[msg_q_lock].no = Len(handled) + 1
  /\ pushed = Len(handled) + InHand + Len(queue)
  /\ \A i \in 1 .. Len(queue) : queue[i].no = Len(handled) + InHand + i
  /\ MsgsInOrder

OrderInv == Inv /\ Numbered

LEMMA NumberedPop ==
  ASSUME OrderInv, NEW c \in Consumers, popMsgQueue(c) PROVE Numbered'
<1>0. TypeOK /\ Numbered
  BY DEF OrderInv, Inv
<1>1. CASE queue = <<>>
  <2>1. UNCHANGED <<queue, live_msg, msg_q_lock, pushed, handled>> /\ msg_q_lock = None
    BY <1>1 DEF popMsgQueue
  <2> QED BY <2>1, <1>0 DEF Numbered, InHand, MsgsInOrder
<1>2. CASE queue # <<>>
  <2>1. /\ queue' = Tail(queue) /\ live_msg' = [live_msg EXCEPT ![c] = Head(queue)]
        /\ cpc' = [cpc EXCEPT ![c] = "handle"] /\ msg_q_lock' = c /\ msg_q_lock = None
        /\ pushed' = pushed /\ handled' = handled
    BY <1>2 DEF popMsgQueue
  <2>2. InHand = 0 /\ InHand' = 1 /\ c # None
    BY <2>1 DEF InHand
  <2>3. queue \in Seq(Msgs) /\ Len(queue) \in Nat \ {0} /\ Head(queue) = queue[1]
        /\ Len(queue') = Len(queue) - 1 /\ \A i \in 1 .. Len(queue') : queue'[i] = queue[i + 1]
    BY <1>2, <1>0, <2>1 DEF TypeOK
  <2>4. Len(handled) \in Nat
    BY <1>0 DEF TypeOK
  <2>5. Head(queue).no = Len(handled) + 1
    BY <1>0, <2>2, <2>3, <2>4 DEF Numbered
  <2>6. pushed' = Len(handled') + InHand' + Len(queue')
    BY <1>0, <2>1, <2>2, <2>3, <2>4 DEF Numbered
  <2>7. \A i \in 1 .. Len(queue') : queue'[i].no = Len(handled') + InHand' + i
    <3>1. \A i \in 1 .. Len(queue) : queue[i].no = Len(handled) + i
      BY <1>0, <2>2, <2>4 DEF Numbered
    <3>2. \A i \in 1 .. Len(queue') : i \in Nat /\ i + 1 \in 1 .. Len(queue) /\ queue'[i] = queue[i + 1]
      BY <2>3
    <3> SUFFICES ASSUME NEW i \in 1 .. Len(queue') PROVE queue'[i].no = Len(handled') + InHand' + i
      OBVIOUS
    <3>3. i \in Nat /\ queue'[i].no = Len(handled) + (i + 1)
      BY <3>1, <3>2
    <3>4. Len(handled') + InHand' + i = Len(handled) + (i + 1)
      BY <2>1, <2>2, <2>4, <3>3
    <3> QED BY <3>3, <3>4
  <2>8. cpc'[c] = "handle" /\ live_msg'[c] = Head(queue)
    BY <1>0, <2>1 DEF TypeOK
  <2> QED BY <1>0, <2>1, <2>5, <2>6, <2>7, <2>8 DEF Numbered, MsgsInOrder
<1> QED BY <1>1, <1>2

LEMMA NumberedHandle ==
  ASSUME OrderInv, NEW c \in Consumers, handleLiveMsg(c), ~Undefined PROVE Numbered'
<1>0. TypeOK /\ Numbered /\ ConsumersOK
  BY DEF OrderInv, Inv
<1>1. /\ cpc[c] = "inside" /\ msg_q_lock = c /\ c # None
      /\ handled' = Append(handled, live_msg[c].no) /\ msg_q_lock' = None
      /\ queue' = queue /\ pushed' = pushed
  BY <1>0 DEF handleLiveMsg, ConsumersOK
<1>2. InHand = 1 /\ InHand' = 0 /\ live_msg[c].no = Len(handled) + 1
  BY <1>0, <1>1 DEF InHand, Numbered
<1>3. handled \in Seq(Nat) /\ Len(handled) \in Nat /\ Len(queue) \in Nat
  BY <1>0 DEF TypeOK
<1>4. /\ Len(handled') = Len(handled) + 1
      /\ \A i \in DOMAIN handled' : handled'[i] = IF i = Len(handled) + 1 THEN Len(handled) + 1
                                                 ELSE handled[i]
      /\ DOMAIN handled' = 1 .. Len(handled) + 1 /\ DOMAIN handled = 1 .. Len(handled)
  BY <1>1, <1>2, <1>3
<1>5. MsgsInOrder'
  BY <1>0, <1>3, <1>4 DEF Numbered, MsgsInOrder
<1> QED BY <1>0, <1>1, <1>2, <1>3, <1>4, <1>5 DEF Numbered

LEMMA NumberedPush ==
  ASSUME OrderInv, NEW p \in Pushes, pushMsgQueue(p[1], p[2]) PROVE Numbered'
<1>0. TypeOK /\ Numbered
  BY DEF OrderInv, Inv
<1>1. /\ msg_q_lock = None /\ queue' = Append(queue, [no |-> pushed + 1, cmd |-> p[1], seat |-> p[2]])
      /\ pushed' = pushed + 1 /\ UNCHANGED <<msg_q_lock, live_msg, handled>>
  BY DEF pushMsgQueue
<1>2. InHand = 0 /\ InHand' = 0
  BY <1>1 DEF InHand
<1>3. Len(handled) \in Nat /\ Len(queue) \in Nat /\ queue \in Seq(Msgs)
  BY <1>0 DEF TypeOK
<1>4. Len(queue') = Len(queue) + 1
      /\ \A i \in 1 .. Len(queue') : queue'[i].no = IF i = Len(queue) + 1 THEN pushed + 1 ELSE queue[i].no
  BY <1>1, <1>3
<1>5. /\ pushed = Len(handled) + Len(queue) /\ MsgsInOrder
      /\ \A i \in 1 .. Len(queue) : queue[i].no = Len(handled) + i
  BY <1>0, <1>2, <1>3 DEF Numbered
<1>6. \A i \in 1 .. Len(queue') : queue'[i].no = Len(handled') + InHand' + i
  <2> SUFFICES ASSUME NEW i \in 1 .. Len(queue') PROVE queue'[i].no = Len(handled') + InHand' + i
    OBVIOUS
  <2>1. i \in Nat /\ Len(handled') + InHand' + i = Len(handled) + i
    BY <1>1, <1>2, <1>3, <1>4
  <2>2. CASE i = Len(queue) + 1
    BY <2>1, <2>2, <1>3, <1>4, <1>5
  <2>3. CASE i # Len(queue) + 1
    <3>1. i \in 1 .. Len(queue) /\ queue'[i].no = queue[i].no
      BY <2>3, <1>3, <1>4
    <3> QED BY <2>1, <3>1, <1>5
  <2> QED BY <2>2, <2>3
<1> QED BY <1>1, <1>2, <1>3, <1>4, <1>5, <1>6 DEF Numbered, MsgsInOrder

LEMMA NumberedNext == OrderInv /\ [Next]_vars => Numbered'
<1> SUFFICES ASSUME OrderInv, [Next]_vars PROVE Numbered'
  OBVIOUS
<1>0. Numbered
  BY DEF OrderInv
<1>r. ASSUME UNCHANGED msgVars PROVE Numbered'
  BY <1>r, <1>0 DEF msgVars, Numbered, InHand, MsgsInOrder
<1>u. CASE UNCHANGED vars \/ Undefined
  BY <1>u, <1>r DEF vars, Undefined
<1>1. CASE listener
  BY <1>1, <1>r DEF listener, onConnection, Disconnected, OtherCommand, onMessage
<1>2. CASE callback
  BY <1>2, <1>r, <1>u DEF callback, handleWsMsg, LoginFree, LoginTaken, LoginSent, EndOfMessage,
     onDisconnection, CheckData, ReadData, EraseUser, delRoom, Freed
<1>3. ASSUME NEW c \in Consumers, LockConn(c) PROVE Numbered'
  <2>1. UNCHANGED <<msg_q_lock, queue, pushed, live_msg, handled>> /\ cpc' = [cpc EXCEPT ![c] = "inside"]
    BY <1>3 DEF LockConn
  <2>2. \A d \in Consumers : cpc[d] \in {"handle", "inside"} => cpc'[d] \in {"handle", "inside"}
    BY <2>1 DEF OrderInv, Inv, TypeOK
  <2>3. msg_q_lock \in Consumers \cup {None}
    BY DEF OrderInv, Inv, TypeOK
  <2> QED BY <2>1, <2>2, <2>3, <1>0 DEF Numbered, InHand, MsgsInOrder
<1>4. CASE consumer
  BY <1>3, <1>4, <1>u, NumberedPop, NumberedHandle DEF consumer
<1>5. CASE \E p \in Pushes : pushMsgQueue(p[1], p[2])
  BY <1>5, NumberedPush
<1> QED BY <1>u, <1>1, <1>2, <1>4, <1>5 DEF Next

LEMMA OrderInvariance == Spec => []OrderInv
<1>1. Init => OrderInv
  <2>1. Init => Numbered
    BY DEF Init, Numbered, InHand, MsgsInOrder
  <2> QED BY <2>1, InitInv DEF OrderInv
<1>2. OrderInv /\ [Next]_vars => OrderInv'
  BY NextInv, NumberedNext DEF OrderInv
<1> QED BY <1>1, <1>2, PTL DEF Spec

\* Any number of consumers handle the messages in the order they were pushed,
\* each once: popMsgQueue keeps msg_q_lock until the message is handled.
THEOREM MsgsInOrderHolds == Spec => []MsgsInOrder
<1>1. OrderInv => MsgsInOrder
  BY DEF OrderInv, Numbered
<1> QED BY <1>1, OrderInvariance, PTL

-----------------------------------------------------------------------------
(* No message is left and no thread waits for another for good.            *)

\* conn_q_lock is held by a login or by a consumer that handles its message.
Holders ==
  /\ conn_q_lock \in Loops => At(conn_q_lock, "message")
  /\ conn_q_lock \in Consumers => cpc[conn_q_lock] = "inside"

\* While there are messages some consumer does not wait.
Watched == queue # <<>> /\ Consumers # {} => \E c \in Consumers : cpc[c] # "wait"

\* No step of a callback or a consumer is possible.
AtRest ==
  /\ outcome = "defined"
  /\ \A l \in Loops : Idle(l)
  /\ \A c \in Consumers :
       \/ cpc[c] = "wait"
       \/ cpc[c] = "lock" /\ msg_q_lock # None
       \/ cpc[c] = "handle" /\ conn_q_lock # None

AllHandled ==
  queue = <<>> /\ Len(handled) = pushed /\ conn_q_lock = None /\ msg_q_lock = None

LEMMA HoldersLoops ==
  ASSUME Inv, Holders, UNCHANGED cpc,
         \/ conn_q_lock' = None
         \/ /\ conn_q_lock' = conn_q_lock
            /\ \A l \in Loops : At(l, "message") => job'[l] = job[l]
  PROVE  Holders'
BY DEF Holders, At, Idle

LEMMA HoldersListener ==
  ASSUME Inv, Holders, listener PROVE Holders'
<1> USE DEF Inv, TypeOK, roomVars, msgVars
<1>1. ASSUME NEW w \in Ws, onConnection(w) \/ OtherCommand(w) PROVE Holders'
  BY <1>1, HoldersLoops DEF onConnection, OtherCommand
<1>2. ASSUME NEW w \in Ws, Disconnected(w) PROVE Holders'
  <2>1. \A l \in Loops : At(l, "message") => job'[l] = job[l]
    BY <1>2 DEF Disconnected, At
  <2> QED BY <1>2, <2>1, HoldersLoops DEF Disconnected
<1>3. ASSUME NEW w \in Ws, NEW k \in Logins[w], onMessage(w, k) PROVE Holders'
  <2>1. Loop[w] \in Loops /\ conn_q_lock' = Loop[w]
    BY <1>3 DEF onMessage
  <2>2. job'[Loop[w]] = [step |-> "message", ws |-> w, seat |-> k]
    BY <1>3, <2>1 DEF onMessage
  <2>3. [step |-> "message", ws |-> w, seat |-> k] \in Jobs
    BY DEF Jobs
  <2>4. At(Loop[w], "message")'
    BY <2>1, <2>2, <2>3 DEF At, Idle
  <2> QED BY <2>1, <2>4 DEF Holders
<1> QED BY <1>1, <1>2, <1>3 DEF listener

LEMMA HoldersCallback ==
  ASSUME Inv, Holders, callback PROVE Holders'
<1> USE DEF roomVars, msgVars
<1> PICK l \in Loops : handleWsMsg(l) \/ onDisconnection(l)
  BY DEF callback
<1>0. job \in [Loops -> Jobs \cup {None}]
  BY DEF Inv, TypeOK
<1>u. CASE Undefined
  BY <1>u, HoldersLoops DEF Undefined
<1>1. CASE handleWsMsg(l) /\ ~Undefined
  <2>1. conn_q_lock' = None /\ cpc' = cpc
    BY <1>1 DEF handleWsMsg, LoginFree, LoginTaken, LoginSent, EndOfMessage
  <2> QED BY <2>1, HoldersLoops
<1>2. CASE onDisconnection(l) /\ ~Undefined
  <2>1. ~At(l, "message")
    BY <1>2 DEF onDisconnection, CheckData, ReadData, EraseUser, delRoom, At
  <2>2. /\ UNCHANGED <<conn_q_lock, cpc>>
        /\ \A m \in Loops : m # l => job'[m] = job[m]
    BY <1>0, <1>2 DEF onDisconnection, CheckData, ReadData, EraseUser, delRoom, Freed
  <2> QED BY <2>1, <2>2, HoldersLoops
<1> QED BY <1>u, <1>1, <1>2

LEMMA HoldersMessages ==
  ASSUME Inv, Holders, consumer \/ \E p \in Pushes : pushMsgQueue(p[1], p[2])
  PROVE  Holders'
<1>0. cpc \in [Consumers -> {"lock", "wait", "handle", "inside"}]
  BY DEF Inv, TypeOK
<1>f. ASSUME UNCHANGED <<job, conn_q_lock>>,
             \A c \in Consumers : cpc[c] = "inside" => cpc'[c] = "inside"
      PROVE  Holders'
  BY <1>f DEF Holders, At, Idle
<1>1. ASSUME NEW c \in Consumers, popMsgQueue(c) PROVE Holders'
  <2>1. \A d \in Consumers : cpc[d] = "inside" => cpc'[d] = "inside"
    BY <1>0, <1>1 DEF popMsgQueue
  <2> QED BY <1>1, <1>f, <2>1 DEF popMsgQueue
<1>2. ASSUME NEW c \in Consumers, LockConn(c) PROVE Holders'
  BY <1>0, <1>2 DEF LockConn, Holders
<1>3. ASSUME NEW c \in Consumers, handleLiveMsg(c) PROVE Holders'
  <2>1. CASE Undefined
    BY <1>f, <2>1 DEF Undefined, msgVars
  <2>2. CASE ~Undefined
    <3>1. conn_q_lock' = None
      BY <1>3, <2>2 DEF handleLiveMsg
    <3> QED BY <3>1 DEF Holders
  <2> QED BY <2>1, <2>2
<1>4. ASSUME NEW p \in Pushes, pushMsgQueue(p[1], p[2]) PROVE Holders'
  <2>1. \A d \in Consumers : cpc[d] = "inside" => cpc'[d] = "inside"
    BY <1>0, <1>4 DEF pushMsgQueue, Notify
  <2> QED BY <1>4, <1>f, <2>1 DEF pushMsgQueue
<1> QED BY <1>1, <1>2, <1>3, <1>4 DEF consumer

LEMMA WatchedStep == Inv /\ Watched /\ [Next]_vars => Watched'
<1> SUFFICES ASSUME Inv, Watched, [Next]_vars PROVE Watched'
  OBVIOUS
<1>0. cpc \in [Consumers -> {"lock", "wait", "handle", "inside"}]
  BY DEF Inv, TypeOK
<1>r. ASSUME UNCHANGED <<queue, cpc>> PROVE Watched'
  BY <1>r DEF Watched
<1>u. CASE UNCHANGED vars \/ Undefined
  BY <1>u, <1>r DEF vars, Undefined, msgVars
<1>1. CASE listener
  BY <1>1, <1>r DEF listener, onConnection, Disconnected, OtherCommand, onMessage, msgVars
<1>2. CASE callback
  BY <1>2, <1>r, <1>u DEF callback, handleWsMsg, LoginFree, LoginTaken, LoginSent, EndOfMessage,
     onDisconnection, CheckData, ReadData, EraseUser, delRoom, Freed, msgVars
<1>3. ASSUME NEW c \in Consumers, popMsgQueue(c) PROVE Watched'
  <2>1. CASE queue = <<>>
    BY <1>3, <2>1 DEF popMsgQueue, Watched
  <2>2. CASE queue # <<>>
    <3>1. cpc'[c] = "handle"
      BY <1>0, <1>3, <2>2 DEF popMsgQueue
    <3> QED BY <3>1 DEF Watched
  <2> QED BY <2>1, <2>2
<1>4. ASSUME NEW c \in Consumers, LockConn(c) PROVE Watched'
  <2>1. cpc'[c] = "inside"
    BY <1>0, <1>4 DEF LockConn
  <2> QED BY <2>1 DEF Watched
<1>5. ASSUME NEW c \in Consumers, handleLiveMsg(c), ~Undefined PROVE Watched'
  <2>1. cpc'[c] = "lock"
    BY <1>0, <1>5 DEF handleLiveMsg
  <2> QED BY <2>1 DEF Watched
<1>6. ASSUME NEW p \in Pushes, pushMsgQueue(p[1], p[2]) PROVE Watched'
  <2>1. Notify
    BY <1>6 DEF pushMsgQueue
  <2>2. CASE \E c \in Consumers : cpc[c] = "wait"
    <3>1. PICK c \in Consumers : cpc' = [cpc EXCEPT ![c] = "lock"]
      BY <2>1, <2>2 DEF Notify
    <3>2. cpc'[c] # "wait"
      BY <1>0, <3>1
    <3> QED BY <3>2 DEF Watched
  <2>3. CASE ~\E c \in Consumers : cpc[c] = "wait"
    BY <2>1, <2>3 DEF Notify, Watched
  <2> QED BY <2>2, <2>3
<1> QED BY <1>u, <1>1, <1>2, <1>3, <1>4, <1>5, <1>6 DEF Next, consumer

LEMMA HoldersStep == Inv /\ Holders /\ [Next]_vars => Holders'
<1> SUFFICES ASSUME Inv, Holders, [Next]_vars PROVE Holders'
  OBVIOUS
<1>1. CASE UNCHANGED vars
  BY <1>1, HoldersLoops DEF vars, msgVars
<1> QED BY <1>1, HoldersListener, HoldersCallback, HoldersMessages DEF Next

LEMMA RestHandled ==
  ASSUME OrderInv, Holders, Watched, AtRest, Consumers # {}
  PROVE  AllHandled
<1>0. TypeOK /\ Numbered
  BY DEF OrderInv, Inv
<1>1. conn_q_lock = None
  <2>1. conn_q_lock \notin Loops
    BY DEF Holders, AtRest, At
  <2>2. conn_q_lock \notin Consumers
    BY DEF Holders, AtRest
  <2> QED BY <1>0, <2>1, <2>2 DEF TypeOK
<1>2. msg_q_lock = None
  <2>1. ASSUME msg_q_lock \in Consumers PROVE FALSE
    <3>1. cpc[msg_q_lock] \in {"handle", "inside"}
      BY <1>0, <2>1 DEF Numbered
    <3> QED BY <1>1, <2>1, <3>1 DEF AtRest
  <2> QED BY <1>0, <2>1 DEF TypeOK
<1>3. queue = <<>>
  BY <1>1, <1>2 DEF Watched, AtRest
<1>4. Len(queue) = 0 /\ Len(handled) \in Nat
  BY <1>0, <1>3 DEF TypeOK
<1>5. Len(handled) = pushed
  BY <1>0, <1>2, <1>4 DEF Numbered, InHand
<1> QED BY <1>1, <1>2, <1>3, <1>5 DEF AllHandled

\* uWebSocketServer.cpp, the safety half of EveryMsgHandled: although notify_one
\* wakes one consumer, and a consumer takes conn_q_lock while it holds msg_q_lock,
\* no message is left and no lock is held when neither the callbacks nor the
\* consumers can go on: they never wait for each other.
THEOREM RestMeansHandled == Spec => [](AtRest /\ Consumers # {} => AllHandled)
<1>1. Init => Holders /\ Watched
  BY DEF Init, Holders, Watched
<1>2. OrderInv => Inv
  BY DEF OrderInv
<1>3. OrderInv /\ Holders /\ Watched => (AtRest /\ Consumers # {} => AllHandled)
  BY RestHandled
<1> QED BY <1>1, <1>2, <1>3, HoldersStep, WatchedStep, OrderInvariance, PTL DEF Spec

=============================================================================
