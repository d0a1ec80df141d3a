-------------------------- MODULE WebSocketServer --------------------------
(***************************************************************************)
(* ws/uWebSocketServer.cpp: who sits in which live room, and the messages  *)
(* for them.  Every listener thread runs a uWS loop with connections of    *)
(* its own; consumer threads take messages from one queue.  The maps are   *)
(* guarded by conn_q_lock, except in onDisconnection, which takes no lock. *)
(*                                                                         *)
(* A seat is a room and a user.  uWS, external: a connection that is       *)
(* closing has no more messages; onDisconnection runs on its loop and then *)
(* it is freed.  What happens when a map is changed while another thread   *)
(* uses it, or a freed connection is used, is not defined: the model stops *)
(* there.  anonymous_conn_map is keyed by descriptor and onConnection      *)
(* overwrites what an older connection left: it is the set of connections  *)
(* that find themselves in it.  Heartbeats only set a time nobody reads,   *)
(* and nobody calls terminated.                                            *)
(***************************************************************************)
EXTENDS Naturals, Sequences

CONSTANTS
  Ws,          \* connections: each is opened once
  Loops,       \* listener threads
  Loop,        \* Loop[w]: the listener that has accepted w
  Seats,       \* pairs <<live_id, user_imid>>
  Logins,      \* Logins[w]: the seats connection w may log in to
  Consumers,   \* consumer threads
  Pushes,      \* the commands and seats of the messages pushed
  MaxMsgs,     \* bound: messages pushed
  None

Kinds == {"data", "logout", "notify", "kick"}
Msgs == [no : 1 .. MaxMsgs, cmd : Kinds, seat : Seats]
Jobs == [step : {"message", "check", "data", "erase", "room"}, ws : Ws, seat : Seats \cup {None}]

ASSUME WebSocketAssumption ==
  /\ Loop \in [Ws -> Loops] /\ Logins \in [Ws -> SUBSET Seats] /\ MaxMsgs \in Nat
  /\ None \notin Ws \cup Seats \cup Loops \cup Consumers \cup Msgs \cup Jobs
  /\ Loops \cap Consumers = {} /\ Pushes \subseteq Kinds \X Seats

VARIABLES
  conn,        \* per connection: "new", "open", "closing", "closed", "freed"
  userData,    \* per connection: the seat onDisconnection will free, or None
  anonymous,   \* connections in anonymous_conn_map
  seat,        \* live_imid_ws_map: per seat its connection, or None
  job,         \* per listener: what its loop works on, or None
  conn_q_lock, \* the thread that holds it, or None
  msg_q_lock,
  queue,       \* message_queue
  pushed,      \* how many messages were pushed
  cpc,         \* where each consumer is
  live_msg,    \* per consumer: the message in hand
  handled,     \* history: numbers of the messages handled, in order
  outcome,     \* "undefined" after a step whose effect is not defined
  raced,       \* history: seats of a login during a disconnection in the room
  orphaned     \* history: seats whose connection was kicked or logged in again

roomVars == <<conn, userData, anonymous, seat>>
msgVars == <<msg_q_lock, queue, pushed, cpc, live_msg, handled>>
vars == <<roomVars, job, conn_q_lock, msgVars, outcome, raced, orphaned>>

Room(k) == {s \in Seats : s[1] = k[1]}

Idle(l) == job[l] = None
At(l, step) == ~Idle(l) /\ job[l].step = step

Undefined ==
  /\ outcome' = "undefined"
  /\ UNCHANGED <<roomVars, job, conn_q_lock, msgVars, raced, orphaned>>

-----------------------------------------------------------------------------
(* The listeners                                                           *)

onConnection(w) ==
  /\ Idle(Loop[w]) /\ conn[w] = "new" /\ conn_q_lock = None
  /\ conn' = [conn EXCEPT ![w] = "open"]
  /\ anonymous' = anonymous \cup {w}
  /\ UNCHANGED <<userData, seat, job, conn_q_lock, msgVars, outcome, raced, orphaned>>

\* Any other command goes to the database server, and changes nothing here; when
\* there is no such server ws is closed.
OtherCommand(w) ==
  /\ Idle(Loop[w]) /\ conn[w] = "open" /\ conn_q_lock = None
  /\ conn' = [conn EXCEPT ![w] = "closing"]
  /\ UNCHANGED <<userData, anonymous, seat, job, conn_q_lock, msgVars, outcome, raced, orphaned>>

\* onMessage takes the lock for a login to seat k.
onMessage(w, k) ==
  /\ Idle(Loop[w]) /\ conn[w] = "open" /\ conn_q_lock = None
  /\ conn_q_lock' = Loop[w]
  /\ job' = [job EXCEPT ![Loop[w]] = [step |-> "message", ws |-> w, seat |-> k]]
  /\ UNCHANGED <<roomVars, msgVars, outcome, raced, orphaned>>

EndOfMessage(l) ==
  /\ conn_q_lock' = None
  /\ job' = [job EXCEPT ![l] = None]
  /\ UNCHANGED <<msgVars, outcome>>

\* What a login does to the excuses of the properties.
LoginHistory(w, k, again) ==
  /\ raced' = raced \cup {s \in {k} : \E l \in Loops :
       (At(l, "erase") \/ At(l, "room")) /\ s \in Room(job[l].seat)}
  /\ orphaned' = orphaned \cup (IF again THEN {userData[w], k} \ {None} ELSE {})

\* The seat is free; the login goes to the database server like other commands.
LoginFree(l) ==
  LET w == job[l].ws  k == job[l].seat IN
  /\ At(l, "message") /\ w \in anonymous /\ seat[k] = None
  /\ userData' = [userData EXCEPT ![w] = k]
  /\ seat' = [seat EXCEPT ![k] = w]
  /\ anonymous' = anonymous \ {w}
  /\ conn' \in {conn, [conn EXCEPT ![w] = IF @ = "open" THEN "closing" ELSE @]}
  /\ EndOfMessage(l)
  /\ LoginHistory(w, k, userData[w] # None)

\* Mutant of LoginTaken: the entry keeps the connection that is closed.
LoginTaken_Keep(l) ==
  LET w == job[l].ws  k == job[l].seat  pre == seat[k] IN
  /\ At(l, "message") /\ w \in anonymous /\ pre # None
  /\ conn[pre] # "freed"
  /\ userData' = [userData EXCEPT ![w] = k, ![pre] = None]
  /\ conn' = [conn EXCEPT ![pre] = IF @ = "open" THEN "closing" ELSE @]
  /\ EndOfMessage(l)
  /\ LoginHistory(w, k, userData[w] # None)
  /\ UNCHANGED <<anonymous, seat>>

\* The user sits there already: the new connection replaces the previous one,
\* which loses its user data and is closed.  The new one stays anonymous.
LoginTaken(l) ==
  LET w == job[l].ws  k == job[l].seat  pre == seat[k] IN
  /\ At(l, "message") /\ w \in anonymous /\ pre # None
  /\ IF conn[pre] = "freed" THEN Undefined
     ELSE /\ userData' = [userData EXCEPT ![w] = k, ![pre] = None]
          /\ seat' = [seat EXCEPT ![k] = w]
          /\ conn' = [conn EXCEPT ![pre] = IF @ = "open" THEN "closing" ELSE @]
          /\ EndOfMessage(l)
          /\ LoginHistory(w, k, userData[w] # None)
          /\ UNCHANGED anonymous

\* The login request was sent already: only the user data is replaced.
LoginSent(l) ==
  LET w == job[l].ws  k == job[l].seat IN
  /\ At(l, "message") /\ w \notin anonymous
  /\ userData' = [userData EXCEPT ![w] = k]
  /\ EndOfMessage(l)
  /\ LoginHistory(w, k, userData[w] # k)
  /\ UNCHANGED <<conn, anonymous, seat>>

handleWsMsg(l) == LoginFree(l) \/ LoginTaken(l) \/ LoginSent(l)

-----------------------------------------------------------------------------
(* onDisconnection                                                         *)

Disconnected(w) ==
  /\ Idle(Loop[w]) /\ conn[w] \in {"open", "closing"}
  /\ conn' = [conn EXCEPT ![w] = "closed"]
  /\ job' = [job EXCEPT ![Loop[w]] = [step |-> "check", ws |-> w, seat |-> None]]
  /\ UNCHANGED <<userData, anonymous, seat, conn_q_lock, msgVars, outcome, raced, orphaned>>

\* The handler returns and uWS frees the connection.
Freed(l) ==
  /\ conn' = [conn EXCEPT ![job[l].ws] = "freed"]
  /\ job' = [job EXCEPT ![l] = None]
  /\ UNCHANGED <<userData, anonymous, conn_q_lock, msgVars, outcome, raced, orphaned>>

\* The user data is read, and read again; another thread may clear it between.
CheckData(l) ==
  /\ At(l, "check")
  /\ IF userData[job[l].ws] = None THEN Freed(l) /\ UNCHANGED seat
     ELSE /\ job' = [job EXCEPT ![l].step = "data"]
          /\ UNCHANGED <<roomVars, conn_q_lock, msgVars, outcome, raced, orphaned>>

ReadData(l) ==
  /\ At(l, "data")
  /\ IF userData[job[l].ws] = None THEN Undefined
     ELSE /\ job' = [job EXCEPT ![l].step = "erase", ![l].seat = userData[job[l].ws]]
          /\ UNCHANGED <<roomVars, conn_q_lock, msgVars, outcome, raced, orphaned>>

\* Another thread is in the maps.
Overlap(l) ==
  \/ conn_q_lock # None
  \/ \E m \in Loops \ {l} : At(m, "erase") \/ At(m, "room")

\* Mutant of EraseUser: the entry is erased only when its room becomes empty.
EraseUser_LastOnly(l) ==
  LET left == [seat EXCEPT ![job[l].seat] = None]
      empty == \A k \in Room(job[l].seat) : left[k] = None IN
  /\ At(l, "erase")
  /\ seat' = IF empty THEN left ELSE seat
  /\ IF ~empty THEN Freed(l)
     ELSE /\ job' = [job EXCEPT ![l].step = "room"]
          /\ UNCHANGED <<conn, userData, anonymous, conn_q_lock, msgVars, outcome, raced, orphaned>>

\* The entry is erased, whichever connection it has now.
EraseUser(l) ==
  LET left == [seat EXCEPT ![job[l].seat] = None] IN
  /\ At(l, "erase")
  /\ \/ Overlap(l) /\ Undefined
     \/ /\ seat' = left
        /\ IF \E k \in Room(job[l].seat) : left[k] # None THEN Freed(l)
           ELSE /\ job' = [job EXCEPT ![l].step = "room"]
                /\ UNCHANGED <<conn, userData, anonymous, conn_q_lock, msgVars,
                               outcome, raced, orphaned>>

delRoom(l) ==
  /\ At(l, "room")
  /\ \/ Overlap(l) /\ Undefined
     \/ /\ seat' = [k \in Seats |-> IF k \in Room(job[l].seat) THEN None ELSE seat[k]]
        /\ Freed(l)

onDisconnection(l) == CheckData(l) \/ ReadData(l) \/ EraseUser(l) \/ delRoom(l)

-----------------------------------------------------------------------------
(* The queue and its consumers                                             *)

\* notify_one: a consumer that waits is woken, if there is one.
Notify ==
  IF \E c \in Consumers : cpc[c] = "wait"
  THEN \E c \in Consumers : cpc[c] = "wait" /\ cpc' = [cpc EXCEPT ![c] = "lock"]
  ELSE UNCHANGED cpc

\* Mutant of pushMsgQueue: somebody is notified only when the queue was not empty.
pushMsgQueue_First(cmd, k) ==
  /\ msg_q_lock = None /\ pushed < MaxMsgs
  /\ queue' = Append(queue, [no |-> pushed + 1, cmd |-> cmd, seat |-> k])
  /\ pushed' = pushed + 1
  /\ IF queue = <<>> THEN UNCHANGED cpc ELSE Notify
  /\ UNCHANGED <<roomVars, job, conn_q_lock, msg_q_lock, live_msg, handled,
                 outcome, raced, orphaned>>

pushMsgQueue(cmd, k) ==
  /\ msg_q_lock = None /\ pushed < MaxMsgs
  /\ queue' = Append(queue, [no |-> pushed + 1, cmd |-> cmd, seat |-> k])
  /\ pushed' = pushed + 1
  /\ Notify
  /\ UNCHANGED <<roomVars, job, conn_q_lock, msg_q_lock, live_msg, handled,
                 outcome, raced, orphaned>>

\* Mutant of popMsgQueue: msg_q_lock is released before the message is handled.
popMsgQueue_Release(c) ==
  /\ cpc[c] = "lock" /\ msg_q_lock = None
  /\ IF queue = <<>>
     THEN cpc' = [cpc EXCEPT ![c] = "wait"] /\ UNCHANGED <<queue, live_msg>>
     ELSE /\ queue' = Tail(queue)
          /\ live_msg' = [live_msg EXCEPT ![c] = Head(queue)]
          /\ cpc' = [cpc EXCEPT ![c] = "handle"]
  /\ UNCHANGED <<roomVars, job, conn_q_lock, msg_q_lock, pushed, handled,
                 outcome, raced, orphaned>>

\* With msg_q_lock: wait while the queue is empty, or take the first message
\* and keep the lock.
popMsgQueue(c) ==
  /\ cpc[c] = "lock" /\ msg_q_lock = None
  /\ IF queue = <<>>
     THEN cpc' = [cpc EXCEPT ![c] = "wait"] /\ UNCHANGED <<queue, live_msg, msg_q_lock>>
     ELSE /\ queue' = Tail(queue)
          /\ live_msg' = [live_msg EXCEPT ![c] = Head(queue)]
          /\ cpc' = [cpc EXCEPT ![c] = "handle"]
          /\ msg_q_lock' = c
  /\ UNCHANGED <<roomVars, job, conn_q_lock, pushed, handled, outcome, raced, orphaned>>

\* handleLiveMsg takes conn_q_lock.
LockConn(c) ==
  /\ cpc[c] = "handle" /\ conn_q_lock = None
  /\ conn_q_lock' = c
  /\ cpc' = [cpc EXCEPT ![c] = "inside"]
  /\ UNCHANGED <<roomVars, job, msg_q_lock, queue, pushed, live_msg, handled,
                 outcome, raced, orphaned>>

\* The connections handleLiveMsg looks at: broadcastMsg skips the sender.
LookedAt(m) ==
  {seat[k] : k \in IF m.cmd = "notify" THEN Room(m.seat) \ {m.seat} ELSE {m.seat}} \ {None}

\* A message is sent, which changes nothing here; logout closes the sender's
\* connection; kickUser clears its user data and closes it.  The entry stays.
handleLiveMsg(c) ==
  LET m == live_msg[c]  sender == seat[m.seat] IN
  /\ cpc[c] = "inside"
  /\ IF \E w \in LookedAt(m) : conn[w] = "freed" THEN Undefined
     ELSE /\ conn' = [w \in Ws |-> IF w = sender /\ m.cmd \in {"logout", "kick"} /\ conn[w] = "open"
                                   THEN "closing" ELSE conn[w]]
          /\ userData' = [w \in Ws |-> IF w = sender /\ m.cmd = "kick" THEN None ELSE userData[w]]
          /\ orphaned' = IF m.cmd = "kick" /\ sender # None THEN orphaned \cup {m.seat} ELSE orphaned
          /\ handled' = Append(handled, m.no)
          /\ conn_q_lock' = None
          /\ msg_q_lock' = IF msg_q_lock = c THEN None ELSE msg_q_lock
          /\ cpc' = [cpc EXCEPT ![c] = "lock"]
          /\ live_msg' = [live_msg EXCEPT ![c] = None]
          /\ UNCHANGED <<anonymous, seat, job, queue, pushed, outcome, raced>>

-----------------------------------------------------------------------------
Init ==
  /\ conn = [w \in Ws |-> "new"] /\ userData = [w \in Ws |-> None] /\ anonymous = {}
  /\ seat = [k \in Seats |-> None]
  /\ job = [l \in Loops |-> None] /\ conn_q_lock = None
  /\ msg_q_lock = None /\ queue = <<>> /\ pushed = 0
  /\ cpc = [c \in Consumers |-> "lock"] /\ live_msg = [c \in Consumers |-> None]
  /\ handled = <<>>
  /\ outcome = "defined" /\ raced = {} /\ orphaned = {}

listener ==
  \/ \E w \in Ws : onConnection(w) \/ Disconnected(w) \/ OtherCommand(w)
  \/ \E w \in Ws : \E k \in Logins[w] : onMessage(w, k)

callback == \E l \in Loops : handleWsMsg(l) \/ onDisconnection(l)

consumer == \E c \in Consumers : popMsgQueue(c) \/ LockConn(c) \/ handleLiveMsg(c)

Next ==
  /\ outcome = "defined"
  /\ \/ listener \/ callback \/ consumer
     \/ \E p \in Pushes : pushMsgQueue(p[1], p[2])

Spec == Init /\ [][Next]_vars

\* The threads are scheduled: a callback that runs returns, some consumer that
\* can move does, and a lock that is free again and again is got.
FairSpec ==
  /\ Spec
  /\ WF_vars(outcome = "defined" /\ callback)
  /\ WF_vars(outcome = "defined" /\ consumer)
  /\ SF_vars(outcome = "defined" /\ \E c \in Consumers : LockConn(c))

-----------------------------------------------------------------------------
(* Properties                                                              *)

\* Types of all variables.
TypeOK ==
  /\ conn \in [Ws -> {"new", "open", "closing", "closed", "freed"}]
  /\ userData \in [Ws -> Seats \cup {None}] /\ anonymous \subseteq Ws
  /\ seat \in [Seats -> Ws \cup {None}]
  /\ job \in [Loops -> Jobs \cup {None}]
  /\ conn_q_lock \in Loops \cup Consumers \cup {None}
  /\ msg_q_lock \in Consumers \cup {None}
  /\ queue \in Seq(Msgs) /\ pushed \in 0 .. MaxMsgs
  /\ cpc \in [Consumers -> {"lock", "wait", "handle", "inside"}]
  /\ live_msg \in [Consumers -> Msgs \cup {None}]
  /\ handled \in Seq(Nat)
  /\ outcome \in {"defined", "undefined"}
  /\ raced \subseteq Seats /\ orphaned \subseteq Seats

\* The map and the user data agree while connections log in, replace each other
\* and go: who sits on a seat will free it, and who will free it sits there.
\* Only a login that races a disconnection, a kick and a second login break it.
SeatsAgree ==
  \A k \in Seats \ (raced \cup orphaned), w \in Ws :
    conn[w] \in {"open", "closing"} => (userData[w] = k <=> seat[k] = w)

\* The map has no connection uWS has freed: broadcastMsg and the next login may
\* use every entry.  A kick and a second login break it, a race does not.
EntriesLive ==
  \A k \in Seats \ orphaned : seat[k] # None => conn[seat[k]] # "freed"

\* Several consumers handle the messages in the order they were pushed, each once.
MsgsInOrder == \A i \in DOMAIN handled : handled[i] = i

\* notify_one wakes one consumer, and a consumer holds both locks while it
\* handles a message: every message is handled all the same.
EveryMsgHandled ==
  \A n \in 1 .. MaxMsgs :
    pushed >= n ~> (Len(handled) >= n \/ outcome = "undefined")

=============================================================================
