------------------------------ MODULE AckCache ------------------------------
(***************************************************************************)
(* im_dobetter/do_better_msql.c: acknowledgements of group messages.       *)
(* readMessageAck keeps, per user and group, the greatest message a user   *)
(* has read in map_message_ack; every three seconds the consumer takes the *)
(* whole map and writes it with one UPDATE per table.  CSessionModel, the  *)
(* database behind it, and what calls readMessageAck are not in the        *)
(* repository: a statement sets the rows it names or fails as a whole.     *)
(***************************************************************************)
EXTENDS Integers, FiniteSets

CONSTANTS
  Handlers,    \* threads that call readMessageAck
  Members,     \* the (user, group) pairs: who isUserInGroup
  Table,       \* Table[user]: user % 16
  LastId,      \* bound: LastId[k] is the last message of member k; 0 is none
  CacheLimit,  \* 10000: a larger map is written through
  None         \* no acknowledgement in hand

ASSUME AckCacheAssumption ==
  /\ \A k \in Members : k = <<k[1], k[2]>>
  /\ LastId \in [Members -> Nat] /\ CacheLimit \in Nat
  /\ None \notin Members \X Nat

Users == {k[1] : k \in Members}
Tables == {Table[u] : u \in Users}

VARIABLES
  map_message_ack,  \* per member: the cached id, 0 when there is no entry
  msg,         \* per handler: the member and id it works on
  hpc,         \* where each handler is
  vc,          \* per member: the id in the consumer's statements, 0 for none
  todo,        \* the tables whose statement is still to be executed
  db,          \* per member: last_read_msgid
  sent,        \* per member: the last id its client has acknowledged
  acked,       \* history: per member, the greatest id put in the map
  overtaken,   \* history: members one of whose ids came after a greater one
  through,     \* history: members whose row was written by a handler
  failed       \* history: members whose statement failed

handlerVars == <<msg, hpc, sent>>
historyVars == <<acked, overtaken, through, failed>>
vars == <<map_message_ack, handlerVars, vc, todo, db, historyVars>>

Larger(a, b) == IF a < b THEN b ELSE a

Cached == {k \in Members : map_message_ack[k] # 0}

\* A handler that brings an id smaller than one already in the map.
Late(k, id) == overtaken' = overtaken \cup {x \in {k} : id < acked[k]}

-----------------------------------------------------------------------------
(* readMessageAck                                                          *)

\* A client acknowledges ever greater ids; the threads that handle them may
\* overtake each other.
Receive(h) ==
  /\ hpc[h] = "idle"
  /\ \E k \in Members : \E id \in 1 .. LastId[k] :
       /\ sent[k] < id
       /\ sent' = [sent EXCEPT ![k] = id]
       /\ msg' = [msg EXCEPT ![h] = <<k, id>>]
  /\ hpc' = [hpc EXCEPT ![h] = "size"]
  /\ UNCHANGED <<map_message_ack, vc, todo, db, historyVars>>

\* The size is read without the lock; updateReadGroupSession may fail, and the
\* id is cached all the same.
CheckSize(h) ==
  LET k == msg[h][1]  id == msg[h][2] IN
  /\ hpc[h] = "size"
  /\ hpc' = [hpc EXCEPT ![h] = "store"]
  /\ \/ /\ Cardinality(Cached) > CacheLimit
        /\ db' = [db EXCEPT ![k] = id]
        /\ through' = through \cup {k}
        /\ Late(k, id)
     \/ UNCHANGED <<db, through, overtaken>>
  /\ UNCHANGED <<map_message_ack, msg, sent, vc, todo, acked, failed>>

\* Mutant of Store: the entry is replaced.
Store_Replace(h) ==
  LET k == msg[h][1]  id == msg[h][2] IN
  /\ hpc[h] = "store"
  /\ map_message_ack' = [map_message_ack EXCEPT ![k] = id]
  /\ acked' = [acked EXCEPT ![k] = Larger(@, id)]
  /\ overtaken' = overtaken \cup {x \in {k} : id < acked[k] /\ map_message_ack[k] = 0}
  /\ hpc' = [hpc EXCEPT ![h] = "idle"] /\ msg' = [msg EXCEPT ![h] = None]
  /\ UNCHANGED <<sent, vc, todo, db, through, failed>>

\* Under map_mutex_lock.  An id that meets a greater one in the map is dropped;
\* one that comes when the greater was taken is entered.
Store(h) ==
  LET k == msg[h][1]  id == msg[h][2] IN
  /\ hpc[h] = "store"
  /\ map_message_ack' = [map_message_ack EXCEPT ![k] = Larger(@, id)]
  /\ acked' = [acked EXCEPT ![k] = Larger(@, id)]
  /\ overtaken' = overtaken \cup {x \in {k} : id < acked[k] /\ map_message_ack[k] = 0}
  /\ hpc' = [hpc EXCEPT ![h] = "idle"] /\ msg' = [msg EXCEPT ![h] = None]
  /\ UNCHANGED <<sent, vc, todo, db, through, failed>>

-----------------------------------------------------------------------------
(* The consumer                                                            *)

Nothing == [k \in Members |-> 0]

InTable(t) == {k \in Members : Table[k[1]] = t /\ vc[k] # 0}

\* getMessageAckSqls: the commas between the values i and i + 1 of an IN list of n.
\* The first value has none, the last one in front, every other one behind it.
Commas(n, i) == (IF i + 1 = n THEN 1 ELSE 0) + (IF 1 < i /\ i < n THEN 1 ELSE 0)

\* The database accepts a list with one comma between any two values.
WellFormed(n) == \A i \in 1 .. n - 1 : Commas(n, i) = 1

\* Mutant of Take: an entry that comes while the map is copied is cleared too.
Take_Unlocked ==
  /\ todo = {} /\ Cached # {}
  /\ \E S \in SUBSET Cached :
       /\ vc' = [k \in Members |-> IF k \in S THEN map_message_ack[k] ELSE 0]
       /\ todo' = {Table[k[1]] : k \in S}
  /\ map_message_ack' = Nothing
  /\ UNCHANGED <<handlerVars, db, historyVars>>

\* Under map_mutex_lock the statements are made and the map is cleared.  empty()
\* is asked before without the lock: only the consumer removes entries.
Take ==
  /\ todo = {} /\ Cached # {}
  /\ vc' = map_message_ack
  /\ todo' = {Table[k[1]] : k \in Cached}
  /\ map_message_ack' = Nothing
  /\ UNCHANGED <<handlerVars, db, historyVars>>

\* What is left of vc once the statement of table t was executed.
Executed(t) ==
  /\ todo' = todo \ {t}
  /\ vc' = [k \in Members |-> IF Table[k[1]] = t THEN 0 ELSE vc[k]]

\* Mutant of Execute: CASE without ELSE, which is NULL for the other rows.
Execute_NoElse(t) ==
  LET users == {k[1] : k \in InTable(t)}  groups == {k[2] : k \in InTable(t)} IN
  /\ t \in todo
  /\ Executed(t)
  /\ \/ /\ WellFormed(Cardinality(InTable(t)))
        /\ db' = [k \in Members |-> IF k[1] \in users /\ k[2] \in groups
                                    THEN vc[k] ELSE db[k]]
        /\ UNCHANGED failed
     \/ failed' = failed \cup InTable(t) /\ UNCHANGED db
  /\ UNCHANGED <<map_message_ack, handlerVars, acked, overtaken, through>>

\* UPDATE ... SET last_read_msgid = CASE WHEN ... ELSE last_read_msgid END WHERE
\* user_id IN (...) AND object_id IN (...): the rows named are those of any
\* user and any group of the batch.  The result is not looked at.
Execute(t) ==
  LET users == {k[1] : k \in InTable(t)}  groups == {k[2] : k \in InTable(t)} IN
  /\ t \in todo
  /\ Executed(t)
  /\ \/ /\ WellFormed(Cardinality(InTable(t)))
        /\ db' = [k \in Members |-> IF k[1] \in users /\ k[2] \in groups /\ vc[k] # 0
                                    THEN vc[k] ELSE db[k]]
        /\ UNCHANGED failed
     \/ failed' = failed \cup InTable(t) /\ UNCHANGED db
  /\ UNCHANGED <<map_message_ack, handlerVars, acked, overtaken, through>>

-----------------------------------------------------------------------------
Init ==
  /\ map_message_ack = Nothing /\ vc = Nothing /\ todo = {}
  /\ msg = [h \in Handlers |-> None] /\ hpc = [h \in Handlers |-> "idle"]
  /\ sent = Nothing /\ db = Nothing /\ acked = Nothing
  /\ overtaken = {} /\ through = {} /\ failed = {}

readMessageAck(h) == Receive(h) \/ CheckSize(h) \/ Store(h)

StartConsumer == Take \/ \E t \in Tables : Execute(t)

Next == StartConsumer \/ \E h \in Handlers : readMessageAck(h)

Spec == Init /\ [][Next]_vars

\* The consumer's thread wakes up every three seconds.
FairSpec == Spec /\ WF_vars(StartConsumer)

-----------------------------------------------------------------------------
(* Properties                                                              *)

\* Types of all variables.
TypeOK ==
  /\ map_message_ack \in [Members -> Nat]
  /\ msg \in [Handlers -> (Members \X Nat) \cup {None}]
  /\ hpc \in [Handlers -> {"idle", "size", "store"}]
  /\ \A h \in Handlers : hpc[h] # "idle" => msg[h] # None
  /\ vc \in [Members -> Nat] /\ todo \subseteq Tables
  /\ db \in [Members -> Nat] /\ sent \in [Members -> Nat]
  /\ acked \in [Members -> Nat]
  /\ overtaken \subseteq Members /\ through \subseteq Members /\ failed \subseteq Members

\* An acknowledgement is never between two chairs: while handlers store, the
\* consumer takes the map and writes it, and other handlers write through, the
\* greatest id is in the map, in the statements or in the database.
NoAckLost ==
  \A k \in Members \ (failed \cup overtaken) :
    \/ acked[k] <= map_message_ack[k]
    \/ vc[k] # 0 /\ acked[k] <= vc[k]
    \/ map_message_ack[k] = 0 /\ vc[k] = 0 /\ acked[k] <= db[k]

\* What a user has read does not become unread: a statement leaves the rows of
\* other members alone and never writes an older id, unless a handler wrote the
\* row through meanwhile or brought an id that had been overtaken.
ReadNeverUnread ==
  [][\A k \in Members : db'[k] < db[k] => k \in through' \cup overtaken']_vars

\* Every acknowledgement reaches the database, unless its statement fails.
AckWritten ==
  \A k \in Members : \A id \in 1 .. LastId[k] :
    (acked[k] >= id) ~> (db[k] >= id \/ k \in failed \cup overtaken)

=============================================================================
