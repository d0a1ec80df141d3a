--------------------------- MODULE AckCacheProofs ---------------------------
(***************************************************************************)
(* Proofs about AckCache for any members, tables, handlers and ids.  The   *)
(* strengthening says where the greatest id of a member is: in the map     *)
(* whenever it has an entry, else in the statements, else in the database. *)
(***************************************************************************)
EXTENDS AckCache, TLAPS

USE AckCacheAssumption

\* The consumer has statements only between Take and the last Execute.
StatementsTodo == \A k \in Members : vc[k] # 0 => Table[k[1]] \in todo

\* Nothing but what was acknowledged is in the map and in the statements.
OnlyAcked == \A k \in Members : map_message_ack[k] <= acked[k] /\ vc[k] <= acked[k]

WhereGreatest ==
  \A k \in Members \ overtaken :
    /\ map_message_ack[k] # 0 => acked[k] <= map_message_ack[k]
    /\ k \notin failed /\ map_message_ack[k] = 0 =>
         acked[k] <= IF vc[k] # 0 THEN vc[k] ELSE db[k]

\* The database is behind, unless a handler has written the row.
Behind ==
  \A k \in Members \ (overtaken \cup through) :
    db[k] <= acked[k] /\ (vc[k] # 0 => db[k] <= vc[k])

Inv == TypeOK /\ StatementsTodo /\ OnlyAcked /\ WhereGreatest /\ Behind

-----------------------------------------------------------------------------
LEMMA InitInv == Init => Inv
BY DEF Init, Inv, TypeOK, StatementsTodo, OnlyAcked, WhereGreatest, Behind, Nothing

LEMMA InvReceive ==
  ASSUME Inv, NEW h \in Handlers, Receive(h) PROVE Inv'
<1>0. TypeOK
  BY DEF Inv
<1>1. UNCHANGED <<map_message_ack, vc, todo, db, acked, overtaken, through, failed>>
  BY DEF Receive, historyVars
<1>2. PICK k \in Members : \E id \in 1 .. LastId[k] :
        sent' = [sent EXCEPT ![k] = id] /\ msg' = [msg EXCEPT ![h] = <<k, id>>]
  BY DEF Receive
<1>3. PICK id \in 1 .. LastId[k] :
        sent' = [sent EXCEPT ![k] = id] /\ msg' = [msg EXCEPT ![h] = <<k, id>>]
  BY <1>2
<1>4. id \in Nat /\ LastId[k] \in Nat
  OBVIOUS
<1>5. <<k, id>> \in Members \X Nat /\ <<k, id>> # None
  BY <1>4
<1>6. hpc' = [hpc EXCEPT ![h] = "size"]
  BY DEF Receive
<1>7. /\ sent' \in [Members -> Nat] /\ msg' \in [Handlers -> (Members \X Nat) \cup {None}]
      /\ hpc' \in [Handlers -> {"idle", "size", "store"}]
  BY <1>0, <1>3, <1>4, <1>5, <1>6 DEF TypeOK
<1>8. \A g \in Handlers : hpc'[g] # "idle" => msg'[g] # None
  BY <1>0, <1>3, <1>5, <1>6 DEF TypeOK
<1>9. TypeOK'
  BY <1>0, <1>1, <1>7, <1>8 DEF TypeOK
<1> QED BY <1>1, <1>9 DEF Inv, StatementsTodo, OnlyAcked, WhereGreatest, Behind

\* The member and the id a busy handler works on.
LEMMA InHand ==
  ASSUME TypeOK, NEW h \in Handlers, hpc[h] # "idle"
  PROVE  msg[h][1] \in Members /\ msg[h][2] \in Nat
<1>1. msg[h] \in Members \X Nat
  BY DEF TypeOK
<1> QED BY <1>1

LEMMA InvCheckSize ==
  ASSUME Inv, NEW h \in Handlers, CheckSize(h) PROVE Inv'
<1>0. TypeOK /\ OnlyAcked /\ WhereGreatest /\ Behind
  BY DEF Inv
<1>1. PICK k \in Members, id \in Nat : k = msg[h][1] /\ id = msg[h][2]
  BY <1>0, InHand DEF CheckSize
<1>2. /\ hpc' = [hpc EXCEPT ![h] = "store"] /\ hpc[h] = "size"
      /\ UNCHANGED <<map_message_ack, msg, sent, vc, todo, acked, failed>>
      /\ \/ UNCHANGED <<db, through, overtaken>>
         \/ /\ db' = [db EXCEPT ![k] = id] /\ through' = through \cup {k}
            /\ overtaken' = overtaken \cup {x \in {k} : id < acked[k]}
  BY <1>1 DEF CheckSize, Late
<1>3. TypeOK'
  <2>1. /\ db' \in [Members -> Nat] /\ overtaken' \subseteq Members /\ through' \subseteq Members
    BY <1>0, <1>2 DEF TypeOK
  <2>2. /\ hpc' \in [Handlers -> {"idle", "size", "store"}]
        /\ \A g \in Handlers : hpc'[g] # "idle" => hpc[g] # "idle"
    BY <1>0, <1>2 DEF TypeOK
  <2> QED BY <1>0, <1>2, <2>1, <2>2 DEF TypeOK
<1>4. StatementsTodo' /\ OnlyAcked'
  BY <1>2 DEF Inv, StatementsTodo, OnlyAcked
<1>5. WhereGreatest'
  <2>1. \A x \in Members \ overtaken' : x \notin overtaken /\ (db'[x] = db[x] \/ acked[x] <= db'[x])
    BY <1>0, <1>2 DEF TypeOK
  <2> QED BY <1>0, <1>2, <2>1 DEF WhereGreatest
<1>6. Behind'
  <2>1. \A x \in Members \ (overtaken' \cup through') : x \notin overtaken \cup through /\ db'[x] = db[x]
    BY <1>0, <1>2 DEF TypeOK
  <2> QED BY <1>0, <1>2, <2>1 DEF Behind
<1> QED BY <1>3, <1>4, <1>5, <1>6 DEF Inv

LEMMA InvStore ==
  ASSUME Inv, NEW h \in Handlers, Store(h) PROVE Inv'
<1>0. TypeOK /\ OnlyAcked /\ WhereGreatest /\ Behind
  BY DEF Inv
<1>1. PICK k \in Members, id \in Nat : k = msg[h][1] /\ id = msg[h][2]
  BY <1>0, InHand DEF Store
<1>2. /\ map_message_ack' = [map_message_ack EXCEPT ![k] = Larger(@, id)]
      /\ acked' = [acked EXCEPT ![k] = Larger(@, id)]
      /\ overtaken' = overtaken \cup {x \in {k} : id < acked[k] /\ map_message_ack[k] = 0}
      /\ hpc' = [hpc EXCEPT ![h] = "idle"] /\ msg' = [msg EXCEPT ![h] = None]
      /\ UNCHANGED <<sent, vc, todo, db, through, failed>>
  BY <1>1 DEF Store
<1>3. /\ map_message_ack[k] \in Nat /\ acked[k] \in Nat /\ vc[k] \in Nat /\ db[k] \in Nat
      /\ map_message_ack'[k] = Larger(map_message_ack[k], id) /\ acked'[k] = Larger(acked[k], id)
      /\ map_message_ack' \in [Members -> Nat] /\ acked' \in [Members -> Nat]
      /\ \A x \in Members \ {k} : map_message_ack'[x] = map_message_ack[x] /\ acked'[x] = acked[x]
  BY <1>0, <1>2 DEF TypeOK, Larger
<1>4. TypeOK'
  BY <1>0, <1>2, <1>3 DEF TypeOK
<1>5. StatementsTodo'
  BY <1>2 DEF Inv, StatementsTodo
<1>6. OnlyAcked'
  BY <1>0, <1>2, <1>3 DEF OnlyAcked, Larger
<1>7. WhereGreatest'
  <2> SUFFICES ASSUME NEW x \in Members \ overtaken'
               PROVE  /\ map_message_ack'[x] # 0 => acked'[x] <= map_message_ack'[x]
                      /\ x \notin failed /\ map_message_ack'[x] = 0 =>
                           acked'[x] <= IF vc[x] # 0 THEN vc[x] ELSE db[x]
    BY <1>2 DEF WhereGreatest
  <2>1. x \notin overtaken /\ (x = k => ~(id < acked[k] /\ map_message_ack[k] = 0))
    BY <1>2
  <2>2. CASE x # k
    BY <1>0, <1>3, <2>1, <2>2 DEF WhereGreatest
  <2>3. CASE x = k
    BY <1>0, <1>3, <2>1, <2>3 DEF WhereGreatest, Larger
  <2> QED BY <2>2, <2>3
<1>8. Behind'
  <2>1. \A x \in Members \ (overtaken' \cup through') : x \notin overtaken \cup through
    BY <1>2
  <2>2. \A x \in Members : db[x] \in Nat /\ acked[x] \in Nat /\ acked'[x] \in Nat /\ acked[x] <= acked'[x]
    BY <1>0, <1>3 DEF TypeOK, Larger
  <2> QED BY <1>0, <1>2, <2>1, <2>2 DEF Behind
<1> QED BY <1>4, <1>5, <1>6, <1>7, <1>8 DEF Inv

LEMMA InvTake ==
  ASSUME Inv, Take PROVE Inv'
<1>0. TypeOK /\ StatementsTodo /\ OnlyAcked /\ WhereGreatest /\ Behind
  BY DEF Inv
<1>1. /\ todo = {} /\ vc' = map_message_ack /\ todo' = {Table[k[1]] : k \in Cached}
      /\ map_message_ack' = [k \in Members |-> 0]
      /\ UNCHANGED <<msg, hpc, sent, db, acked, overtaken, through, failed>>
  BY DEF Take, Nothing, handlerVars, historyVars
<1>2. \A k \in Members : vc[k] = 0
  BY <1>0, <1>1 DEF StatementsTodo
<1>3. StatementsTodo' /\ todo' \subseteq Tables
  BY <1>1 DEF StatementsTodo, Cached, Tables, Users
<1>4. TypeOK'
  BY <1>0, <1>1, <1>3 DEF TypeOK
<1>5. OnlyAcked'
  BY <1>0, <1>1 DEF OnlyAcked, TypeOK
<1>6. WhereGreatest'
  BY <1>0, <1>1, <1>2 DEF WhereGreatest
<1>7. Behind'
  <2>1. \A k \in Members : db[k] \in Nat /\ acked[k] \in Nat /\ map_message_ack[k] \in Nat
    BY <1>0 DEF TypeOK
  <2> QED BY <1>0, <1>1, <2>1 DEF Behind, WhereGreatest
<1> QED BY <1>3, <1>4, <1>5, <1>6, <1>7 DEF Inv

\* What a statement does to the rows and to the statements that are left.
LEMMA Executes ==
  ASSUME TypeOK, NEW t \in Tables, Execute(t)
  PROVE  /\ \A k \in Members : vc'[k] = IF Table[k[1]] = t THEN 0 ELSE vc[k]
         /\ \A k \in Members : k \notin failed' =>
              db'[k] = IF k \in InTable(t) THEN vc[k] ELSE db[k]
         /\ \A k \in Members : db'[k] = db[k] \/ (k \in InTable(t) /\ db'[k] = vc[k])
         /\ db' \in [Members -> Nat] /\ failed \subseteq failed' /\ failed' \subseteq Members
<1>1. \A k \in Members : vc'[k] = IF Table[k[1]] = t THEN 0 ELSE vc[k]
  BY DEF Execute, Executed
<1>2. ASSUME UNCHANGED db, failed' = failed \cup InTable(t)
      PROVE  /\ \A k \in Members : k \notin failed' =>
                  db'[k] = IF k \in InTable(t) THEN vc[k] ELSE db[k]
             /\ \A k \in Members : db'[k] = db[k] \/ (k \in InTable(t) /\ db'[k] = vc[k])
             /\ db' \in [Members -> Nat] /\ failed \subseteq failed' /\ failed' \subseteq Members
  BY <1>2 DEF TypeOK, InTable
<1>p. PICK users, groups : users = {x[1] : x \in InTable(t)} /\ groups = {x[2] : x \in InTable(t)}
  OBVIOUS
<1>3. ASSUME db' = [k \in Members |-> IF k[1] \in users /\ k[2] \in groups /\ vc[k] # 0
                                      THEN vc[k] ELSE db[k]]
      PROVE  /\ \A k \in Members : db'[k] = IF k \in InTable(t) THEN vc[k] ELSE db[k]
             /\ db' \in [Members -> Nat]
  <2>1. ASSUME NEW k \in Members
        PROVE  k[1] \in users /\ k[2] \in groups /\ vc[k] # 0 <=> k \in InTable(t)
    <3>1. CASE k \in InTable(t)
      BY <1>p, <3>1 DEF InTable
    <3>2. CASE k[1] \in users /\ vc[k] # 0
      <4>1. PICK m \in InTable(t) : k[1] = m[1]
        BY <1>p, <3>2
      <4>2. Table[k[1]] = t
        BY <4>1 DEF InTable
      <4>3. k \in InTable(t)
        BY <3>2, <4>2 DEF InTable
      <4> QED BY <3>1, <4>3
    <3> QED BY <3>1, <3>2
  <2>2. \A k \in Members : db'[k] = IF k \in InTable(t) THEN vc[k] ELSE db[k]
    BY <1>3, <2>1
  <2>3. db' \in [Members -> Nat]
    BY <1>3 DEF TypeOK
  <2> QED BY <2>2, <2>3
<1>4. \/ UNCHANGED db /\ failed' = failed \cup InTable(t)
      \/ /\ db' = [k \in Members |-> IF k[1] \in users /\ k[2] \in groups /\ vc[k] # 0
                                     THEN vc[k] ELSE db[k]]
         /\ failed' = failed
  BY <1>p DEF Execute
<1>5. CASE UNCHANGED db /\ failed' = failed \cup InTable(t)
  BY <1>1, <1>2, <1>5
<1>6. CASE ~(UNCHANGED db /\ failed' = failed \cup InTable(t))
  <2>1. /\ \A k \in Members : db'[k] = IF k \in InTable(t) THEN vc[k] ELSE db[k]
        /\ db' \in [Members -> Nat] /\ failed' = failed
    BY <1>3, <1>4, <1>6
  <2>2. failed \subseteq Members
    BY DEF TypeOK
  <2> QED BY <1>1, <2>1, <2>2
<1> QED BY <1>5, <1>6

LEMMA InvExecute ==
  ASSUME Inv, NEW t \in Tables, Execute(t) PROVE Inv'
<1>0. TypeOK /\ StatementsTodo /\ OnlyAcked /\ WhereGreatest /\ Behind
  BY DEF Inv
<1>1. /\ todo' = todo \ {t} /\ vc' = [k \in Members |-> IF Table[k[1]] = t THEN 0 ELSE vc[k]]
      /\ UNCHANGED <<map_message_ack, msg, hpc, sent, acked, overtaken, through>>
  BY DEF Execute, Executed, handlerVars
<1>2. /\ \A k \in Members : vc'[k] = IF Table[k[1]] = t THEN 0 ELSE vc[k]
      /\ \A k \in Members : k \notin failed' =>
           db'[k] = IF k \in InTable(t) THEN vc[k] ELSE db[k]
      /\ \A k \in Members : db'[k] = db[k] \/ (k \in InTable(t) /\ db'[k] = vc[k])
      /\ db' \in [Members -> Nat] /\ failed \subseteq failed' /\ failed' \subseteq Members
  BY <1>0, Executes
<1>3. \A k \in Members : k \in InTable(t) <=> Table[k[1]] = t /\ vc[k] # 0
  BY DEF InTable
<1>4. TypeOK'
  BY <1>0, <1>1, <1>2 DEF TypeOK
<1>5. StatementsTodo'
  BY <1>0, <1>1, <1>2 DEF StatementsTodo
<1>6. \A k \in Members : /\ map_message_ack[k] \in Nat /\ acked[k] \in Nat
                         /\ vc[k] \in Nat /\ db[k] \in Nat
  BY <1>0 DEF TypeOK
<1>7. OnlyAcked'
  BY <1>0, <1>1, <1>2, <1>6 DEF OnlyAcked
<1>8. WhereGreatest'
  BY <1>0, <1>1, <1>2, <1>3, <1>6 DEF WhereGreatest
<1>9. Behind'
  BY <1>0, <1>1, <1>2, <1>3, <1>6 DEF Behind, OnlyAcked
<1> QED BY <1>4, <1>5, <1>7, <1>8, <1>9 DEF Inv

LEMMA NextInv == Inv /\ [Next]_vars => Inv'
<1> SUFFICES ASSUME Inv, [Next]_vars PROVE Inv'
  OBVIOUS
<1>1. CASE UNCHANGED vars
  BY <1>1 DEF vars, handlerVars, historyVars, Inv, TypeOK, StatementsTodo, OnlyAcked, WhereGreatest, Behind
<1> QED BY <1>1, InvReceive, InvCheckSize, InvStore, InvTake, InvExecute
    DEF Next, StartConsumer, readMessageAck

LEMMA Invariance == Spec => []Inv
BY InitInv, NextInv, PTL DEF Spec

\* All variables keep their types.
THEOREM TypeCorrect == Spec => []TypeOK
<1>1. Inv => TypeOK
  BY DEF Inv
<1> QED BY <1>1, Invariance, PTL

\* The greatest id of a member is in the map, in the statements or in the
\* database, for any handlers, tables and cross products the statements name, but
\* for a member whose statement failed or whose id came after a greater one.
THEOREM NoAckLostHolds == Spec => []NoAckLost
<1>1. Inv => NoAckLost
  <2> SUFFICES ASSUME Inv, NEW k \in Members \ (failed \cup overtaken)
               PROVE  \/ acked[k] <= map_message_ack[k]
                      \/ vc[k] # 0 /\ acked[k] <= vc[k]
                      \/ map_message_ack[k] = 0 /\ vc[k] = 0 /\ acked[k] <= db[k]
    BY DEF NoAckLost
  <2>1. /\ map_message_ack[k] # 0 => acked[k] <= map_message_ack[k]
        /\ map_message_ack[k] = 0 => acked[k] <= IF vc[k] # 0 THEN vc[k] ELSE db[k]
    BY DEF Inv, WhereGreatest
  <2> QED BY <2>1
<1> QED BY <1>1, Invariance, PTL

\* A statement never writes an older id than the row has, although it names the
\* rows of any user and any group of its batch, but for a member that a handler
\* wrote through or whose id came after a greater one.
THEOREM ReadNeverUnreadHolds == Spec => ReadNeverUnread
<1>1. Inv /\ [Next]_vars => [\A k \in Members : db'[k] < db[k] => k \in through' \cup overtaken']_vars
  <2> SUFFICES ASSUME Inv, Next, NEW k \in Members, db'[k] < db[k]
               PROVE  k \in through' \cup overtaken'
    OBVIOUS
  <2>0. TypeOK /\ Behind /\ db[k] \in Nat
    BY DEF Inv, TypeOK
  <2>1. CASE Take \/ \E h \in Handlers : Receive(h) \/ Store(h)
    BY <2>0, <2>1 DEF Take, Receive, Store
  <2>2. ASSUME NEW h \in Handlers, CheckSize(h) PROVE k \in through'
    <3>1. PICK m \in Members, id \in Nat : m = msg[h][1] /\ id = msg[h][2]
      BY <2>0, <2>2, InHand DEF CheckSize
    <3>2. db' = db \/ (db' = [db EXCEPT ![m] = id] /\ through' = through \cup {m})
      BY <2>2, <3>1 DEF CheckSize
    <3> QED BY <2>0, <3>2 DEF TypeOK
  <2>3. ASSUME NEW t \in Tables, Execute(t) PROVE k \in through' \cup overtaken'
    <3>1. k \in InTable(t) /\ db'[k] = vc[k] /\ through' = through /\ overtaken' = overtaken
      BY <2>0, <2>3, Executes DEF Execute
    <3> QED BY <2>0, <3>1 DEF Behind, InTable, TypeOK
  <2> QED BY <2>1, <2>2, <2>3 DEF Next, StartConsumer, readMessageAck
<1> QED BY <1>1, Invariance, PTL DEF Spec, ReadNeverUnread

\* The rows hold what was acknowledged and, unless a handler wrote one through,
\* nothing newer.
AllWritten ==
  \A k \in Members \ (failed \cup overtaken) :
    acked[k] <= db[k] /\ (k \notin through => db[k] = acked[k])

\* do_better_msql.c, the safety half of AckWritten: when the consumer finds the
\* map empty and no statement is left, all that was acknowledged is in the
\* database, but for members whose statement failed or whose ids overtook.
THEOREM RestMeansWritten == Spec => [](todo = {} /\ Cached = {} => AllWritten)
<1>1. Inv => (todo = {} /\ Cached = {} => AllWritten)
  <2> SUFFICES ASSUME Inv, todo = {}, Cached = {}, NEW k \in Members \ (failed \cup overtaken)
               PROVE  acked[k] <= db[k] /\ (k \notin through => db[k] = acked[k])
    BY DEF AllWritten
  <2>1. map_message_ack[k] = 0 /\ vc[k] = 0
    BY DEF Cached, Inv, StatementsTodo
  <2>2. acked[k] <= db[k]
    BY <2>1 DEF Inv, WhereGreatest
  <2>3. k \notin through => db[k] <= acked[k]
    BY DEF Inv, Behind
  <2>4. acked[k] \in Nat /\ db[k] \in Nat
    BY DEF Inv, TypeOK
  <2> QED BY <2>2, <2>3, <2>4
<1> QED BY <1>1, Invariance, PTL

-----------------------------------------------------------------------------
(* The commas of getMessageAckSqls                                          *)

\* Only a list of at most two values is one the database accepts: the first
\* value of a longer one is followed by none.
THEOREM ListsOfTwo == \A n \in Nat : WellFormed(n) <=> n <= 2
<1>1. ASSUME NEW n \in Nat, n <= 2 PROVE WellFormed(n)
  <2> SUFFICES ASSUME NEW i \in 1 .. n - 1 PROVE Commas(n, i) = 1
    BY DEF WellFormed
  <2>1. n = 2 /\ i = 1
    BY <1>1
  <2> QED BY <2>1 DEF Commas
<1>2. ASSUME NEW n \in Nat, n > 2 PROVE ~WellFormed(n)
  <2>1. 1 \in 1 .. n - 1 /\ Commas(n, 1) = 0
    BY <1>2 DEF Commas
  <2> QED BY <2>1 DEF WellFormed
<1> QED BY <1>1, <1>2

\* Hence a statement that names three or more members always fails and, its
\* result being ignored, their acknowledgements are dropped.
THEOREM LongListFails ==
  Spec => [][\A t \in Tables :
               Execute(t) /\ Cardinality(InTable(t)) \in Nat \ 0 .. 2 =>
                 UNCHANGED db /\ InTable(t) \subseteq failed' \ {k \in Members : vc'[k] # 0}]_vars
<1>1. ASSUME TypeOK, NEW t \in Tables, Execute(t), Cardinality(InTable(t)) \in Nat \ 0 .. 2
      PROVE  UNCHANGED db /\ InTable(t) \subseteq failed' \ {k \in Members : vc'[k] # 0}
  <2>1. ~WellFormed(Cardinality(InTable(t)))
    BY <1>1, ListsOfTwo
  <2>2. UNCHANGED db /\ failed' = failed \cup InTable(t)
    BY <1>1, <2>1 DEF Execute
  <2>3. \A k \in InTable(t) : vc'[k] = 0
    BY <1>1, Executes DEF InTable
  <2> QED BY <2>2, <2>3
<1>2. TypeOK /\ [Next]_vars =>
        [\A t \in Tables :
           Execute(t) /\ Cardinality(InTable(t)) \in Nat \ 0 .. 2 =>
             UNCHANGED db /\ InTable(t) \subseteq failed' \ {k \in Members : vc'[k] # 0}]_vars
  BY <1>1
<1> QED BY <1>2, TypeCorrect, PTL DEF Spec

=============================================================================
