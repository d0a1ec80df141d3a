-------------------------- MODULE EventTimerProofs --------------------------
(***************************************************************************)
(* Proofs about EventTimer, for any keys, nodes and intervals.  For them   *)
(* the number of list nodes and the clock are without a bound.             *)
(***************************************************************************)
EXTENDS EventTimer, SequenceTheorems, TLAPS

\* The fires-th deadline after AddTimer of the timer in node n.
Deadline(n) == since[item[n].key] + fires[item[n].key] * item[n].interval

\* A listed timer is set to the deadline that follows its last call.
Scheduled ==
  \A n \in Listed :
    /\ item[n].next_tick = Deadline(n) + item[n].interval
    /\ Deadline(n) <= now

\* Walking: no timer from the iterator on was called in this walk and is due in
\* it still.  What a timer's own callback re-adds is set after curr_tick.
NotAgain ==
  pc \in {"walk", "timer"} =>
    \A i \in 1 .. Len(m_timer_list) :
      LET n == m_timer_list[i]
      IN  item[n].key \in called /\ item[n].interval # 0 /\ item[n].next_tick <= curr_tick =>
            \A j \in 1 .. i : m_timer_list[j] # it

\* The item whose callback runs is listed, unless the callback removed it.
Current == pItem # None => pc = "timer" /\ pItem \in Listed

\* If callbacks remove their own timer only, the iterator has left that timer.
OwnOnly ==
  /\ IteratorValid
  /\ foreign = {} /\ pc = "timer" /\ pItem # None => it # pItem

IInv == TypeOK /\ OneTimerPerKey /\ Current /\ Scheduled /\ NotAgain /\ OwnOnly
-----------------------------------------------------------------------------
(* The list                                                                *)

\* Positions of the list, and the items of its nodes.
LEMMA ListType ==
  ASSUME TypeOK
  PROVE  /\ m_timer_list \in Seq(Nodes)
         /\ Len(m_timer_list) \in Nat
         /\ DOMAIN m_timer_list = 1 .. Len(m_timer_list)
         /\ \A i \in 1 .. Len(m_timer_list) : m_timer_list[i] \in Nodes
         /\ Listed = {m_timer_list[i] : i \in 1 .. Len(m_timer_list)}
         /\ Listed \subseteq Nodes
  BY DEF TypeOK, Listed, ToSet

\* A position that is not the last one has a next one.
LEMMA NextPosition ==
  ASSUME TypeOK, NEW p \in 1 .. Len(m_timer_list), p # Len(m_timer_list)
  PROVE  p + 1 \in 1 .. Len(m_timer_list) /\ m_timer_list[p + 1] \in Listed
<1>1. Len(m_timer_list) \in Nat
  BY ListType
<1>2. p + 1 \in 1 .. Len(m_timer_list)
  BY <1>1
<1>3. QED
  BY <1>2, ListType

\* A listed node has a TimerItem, with numbers to calculate with.
LEMMA ItemType ==
  ASSUME TypeOK, NEW n \in Listed
  PROVE  /\ n \in Nodes /\ item[n] \in TimerItem
         /\ item[n].key \in Keys /\ item[n].interval \in Intervals
         /\ item[n].interval \in Nat /\ item[n].next_tick \in Nat
<1>1. n \in Nodes /\ item[n] # None
  BY ListType DEF TypeOK
<1>2. item[n] \in TimerItem
  BY <1>1 DEF TypeOK
<1>3. QED
  BY <1>1, <1>2, EventTimerAssumption DEF TimerItem

\* A key is at one position, so a node is as well.
LEMMA OnePosition ==
  ASSUME TypeOK, OneTimerPerKey,
         NEW i \in 1 .. Len(m_timer_list), NEW j \in 1 .. Len(m_timer_list),
         item[m_timer_list[i]].key = item[m_timer_list[j]].key
  PROVE  i = j
  BY ListType DEF OneTimerPerKey

\* The same for nodes.
LEMMA OneNodePerKey ==
  ASSUME TypeOK, OneTimerPerKey, NEW n \in Listed, NEW x \in Listed,
         item[n].key = item[x].key
  PROVE  n = x
<1>1. PICK i \in 1 .. Len(m_timer_list) : n = m_timer_list[i]
  BY ListType
<1>2. PICK j \in 1 .. Len(m_timer_list) : x = m_timer_list[j]
  BY ListType
<1>3. QED
  BY <1>1, <1>2, OnePosition

\* it++ moves from a position to the next one.
LEMMA AfterPosition ==
  ASSUME TypeOK, OneTimerPerKey, NEW p \in 1 .. Len(m_timer_list)
  PROVE  After(m_timer_list[p]) = IF p = Len(m_timer_list) THEN End ELSE m_timer_list[p + 1]
<1>1. \A j \in DOMAIN m_timer_list : m_timer_list[j] = m_timer_list[p] => j = p
  BY ListType, OnePosition
<1> DEFINE q == CHOOSE j \in DOMAIN m_timer_list : m_timer_list[j] = m_timer_list[p]
<1>2. q = p
  BY <1>1, ListType
<1>3. After(m_timer_list[p]) = IF q = Len(m_timer_list) THEN End ELSE m_timer_list[q + 1]
  BY DEF After
<1> HIDE DEF q
<1>4. QED
  BY <1>2, <1>3

\* erase() takes one node out and leaves the others in order.
LEMMA RemoveAtProperties ==
  ASSUME NEW S, NEW s \in Seq(S), NEW p \in 1 .. Len(s)
  PROVE  /\ RemoveAt(s, p) \in Seq(S)
         /\ Len(RemoveAt(s, p)) = Len(s) - 1
         /\ \A i \in 1 .. Len(s) - 1 :
              RemoveAt(s, p)[i] = s[IF i < p THEN i ELSE i + 1]
<1> DEFINE a == SubSeq(s, 1, p - 1)
           b == SubSeq(s, p + 1, Len(s))
<1>1. Len(s) \in Nat /\ p \in Nat /\ 1 <= p /\ p <= Len(s)
  OBVIOUS
<1>2. \A i \in 1 .. Len(s) : s[i] \in S
  OBVIOUS
<1>3. /\ a \in Seq(S) /\ Len(a) = p - 1
      /\ \A i \in 1 .. p - 1 : a[i] = s[i]
  <2>1. \A i \in 1 .. p - 1 : s[i] \in S
    BY <1>1, <1>2
  <2>2. /\ SubSeq(s, 1, p - 1) \in Seq(S)
        /\ Len(SubSeq(s, 1, p - 1)) = IF 1 <= p - 1 THEN p - 1 - 1 + 1 ELSE 0
        /\ \A i \in 1 .. p - 1 - 1 + 1 : SubSeq(s, 1, p - 1)[i] = s[1 + i - 1]
    BY <1>1, <2>1, SubSeqProperties, p - 1 \in Int
  <2>3. QED
    BY <1>1, <2>2
<1>4. /\ b \in Seq(S) /\ Len(b) = Len(s) - p
      /\ \A i \in 1 .. Len(s) - p : b[i] = s[p + i]
  <2>1. \A i \in p + 1 .. Len(s) : s[i] \in S
    BY <1>1, <1>2
  <2>2. /\ SubSeq(s, p + 1, Len(s)) \in Seq(S)
        /\ Len(SubSeq(s, p + 1, Len(s))) = IF p + 1 <= Len(s) THEN Len(s) - (p + 1) + 1 ELSE 0
        /\ \A i \in 1 .. Len(s) - (p + 1) + 1 :
             SubSeq(s, p + 1, Len(s))[i] = s[p + 1 + i - 1]
    BY <1>1, <2>1, SubSeqProperties, p + 1 \in Int, Len(s) \in Int
  <2>3. QED
    BY <1>1, <2>2
<1>5. /\ a \o b \in Seq(S)
      /\ Len(a \o b) = Len(a) + Len(b)
      /\ \A i \in 1 .. Len(a) + Len(b) :
           (a \o b)[i] = IF i <= Len(a) THEN a[i] ELSE b[i - Len(a)]
  BY <1>3, <1>4, ConcatProperties
<1>6. RemoveAt(s, p) = a \o b
  BY DEF RemoveAt
<1> HIDE DEF a, b
<1>7. ASSUME NEW i \in 1 .. Len(s) - 1
      PROVE  (a \o b)[i] = s[IF i < p THEN i ELSE i + 1]
  <2>1. i \in 1 .. Len(a) + Len(b)
    BY <1>1, <1>3, <1>4
  <2>2. CASE i < p
    BY <1>1, <1>3, <1>5, <2>1, <2>2
  <2>3. CASE ~(i < p)
    <3>1. i - Len(a) \in 1 .. Len(s) - p /\ p + (i - Len(a)) = i + 1 /\ ~(i <= Len(a))
      BY <1>1, <1>3, <2>3
    <3>2. (a \o b)[i] = b[i - Len(a)]
      BY <1>5, <2>1, <3>1
    <3>3. b[i - Len(a)] = s[p + (i - Len(a))]
      BY <1>4, <3>1
    <3>4. QED
      BY <2>3, <3>1, <3>2, <3>3
  <2>4. QED
    BY <2>2, <2>3
<1>8. Len(a \o b) = Len(s) - 1
  BY <1>1, <1>3, <1>4, <1>5
<1>9. QED
  BY <1>5, <1>6, <1>7, <1>8

-----------------------------------------------------------------------------
(* Steps that leave the list and the history of the calls alone            *)

\* The list, the items, since and fires stay, and the clock does not go back.
LEMMA QuietStep ==
  ASSUME TypeOK, OneTimerPerKey, Scheduled, UNCHANGED <<listVars, since, fires>>,
         now' \in Nat, now <= now'
  PROVE  /\ OneTimerPerKey' /\ Scheduled' /\ Listed' = Listed
         /\ \A n \in Nodes : item'[n] # None <=> n \in Listed'
<1>1. m_timer_list' = m_timer_list /\ item' = item /\ since' = since /\ fires' = fires
  BY DEF listVars
<1>2. Listed' = Listed
  BY <1>1 DEF Listed
<1>3. OneTimerPerKey'
  BY <1>1 DEF OneTimerPerKey
<1>4. ASSUME NEW n \in Listed
      PROVE  /\ item[n].next_tick = Deadline(n) + item[n].interval
             /\ Deadline(n) \in Nat /\ Deadline(n) <= now'
  <2>1. item[n].key \in Keys /\ item[n].interval \in Nat
    BY ItemType
  <2>2. since[item[n].key] \in Nat /\ fires[item[n].key] \in Nat
    BY <2>1 DEF TypeOK
  <2>3. fires[item[n].key] * item[n].interval \in Nat
    BY <2>1, <2>2
  <2>4. Deadline(n) \in Nat
    BY <2>2, <2>3 DEF Deadline
  <2>5. now \in Nat
    BY DEF TypeOK
  <2>6. QED
    BY <2>4, <2>5 DEF Scheduled
<1>5. Scheduled'
  BY <1>1, <1>2, <1>4 DEF Scheduled, Deadline
<1>6. QED
  BY <1>1, <1>2, <1>3, <1>5 DEF TypeOK

\* The beginning of a walk preserves the invariant.
LEMMA CheckTimerBeginStep == IInv /\ CheckTimerBegin => IInv'
<1> SUFFICES ASSUME IInv, CheckTimerBegin PROVE IInv'
  OBVIOUS
<1> USE EventTimerAssumption DEF IInv, CheckTimerBegin
<1>1. /\ OneTimerPerKey' /\ Scheduled' /\ Listed' = Listed
      /\ \A n \in Nodes : item'[n] # None <=> n \in Listed'
  BY QuietStep DEF TypeOK
<1>2. First \in Listed \cup {End}
  <2>1. CASE m_timer_list = <<>>
    BY <2>1 DEF First
  <2>2. CASE m_timer_list # <<>>
    <3>1. Head(m_timer_list) = m_timer_list[1] /\ 1 \in 1 .. Len(m_timer_list)
      BY <2>2, ListType
    <3>2. QED
      BY <2>2, <3>1, ListType DEF First
  <2>3. QED
    BY <2>1, <2>2
<1>3. pItem = None
  BY DEF Current
<1>4. TypeOK'
  BY <1>1, <1>2, ListType DEF TypeOK, listVars
<1>5. Current'
  BY <1>3 DEF Current
<1>6. NotAgain'
  BY DEF NotAgain
<1>7. OwnOnly'
  BY <1>1, <1>2, <1>3 DEF OwnOnly, IteratorValid
<1> QED
  BY <1>1, <1>4, <1>5, <1>6, <1>7

\* The clock preserves the invariant.
LEMMA TickStep == IInv /\ Tick => IInv'
<1> SUFFICES ASSUME IInv, Tick PROVE IInv'
  OBVIOUS
<1> USE EventTimerAssumption DEF IInv, Tick, listVars, walkVars, histVars
<1>1. now \in Nat /\ now' \in Nat /\ now <= now'
  BY DEF TypeOK
<1>2. /\ OneTimerPerKey' /\ Scheduled' /\ Listed' = Listed
      /\ \A n \in Nodes : item'[n] # None <=> n \in Listed'
  BY <1>1, QuietStep
<1>3. TypeOK'
  BY <1>1, <1>2 DEF TypeOK
<1>4. Current'
  BY <1>2 DEF Current
<1>5. NotAgain'
  BY DEF NotAgain
<1>6. OwnOnly'
  BY <1>2 DEF OwnOnly, IteratorValid
<1> QED
  BY <1>2, <1>3, <1>4, <1>5, <1>6

\* AddLoop preserves the invariant.
LEMMA AddLoopStep ==
  ASSUME IInv, NEW k \in Keys, AddLoop(k)
  PROVE  IInv'
<1> USE EventTimerAssumption DEF IInv, AddLoop, listVars, walkVars, histVars
<1>1. /\ OneTimerPerKey' /\ Scheduled' /\ Listed' = Listed
      /\ \A n \in Nodes : item'[n] # None <=> n \in Listed'
  BY QuietStep DEF TypeOK
<1>2. m_loop_list' \in Seq(Keys)
  BY DEF TypeOK
<1>3. TypeOK'
  BY <1>1, <1>2 DEF TypeOK
<1>4. Current'
  BY <1>1 DEF Current
<1>5. NotAgain'
  BY DEF NotAgain
<1>6. OwnOnly'
  BY <1>1 DEF OwnOnly, IteratorValid
<1> QED
  BY <1>1, <1>3, <1>4, <1>5, <1>6

\* The callback of a timer returns, the walk ends, or a loop callback is called.
LEMMA OtherStep ==
  ASSUME IInv, TimerReturns \/ CheckLoopBegin \/ LoopCall \/ LoopReturns \/ CheckLoopEnd
               \/ VisitErased
  PROVE  IInv'
<1> USE EventTimerAssumption DEF IInv, listVars, walkVars, histVars, TimerReturns,
        CheckLoopBegin, LoopCall, LoopReturns, CheckLoopEnd, VisitErased
<1>1. UNCHANGED <<listVars, since, fires, now>>
  OBVIOUS
<1>2. /\ OneTimerPerKey' /\ Scheduled' /\ Listed' = Listed
      /\ \A n \in Nodes : item'[n] # None <=> n \in Listed'
  BY <1>1, QuietStep DEF TypeOK
<1>3. TypeOK'
  BY <1>1, <1>2 DEF TypeOK
<1>4. Current'
  BY <1>2 DEF Current
<1>5. NotAgain'
  BY DEF NotAgain
<1>6. OwnOnly'
  BY <1>2 DEF OwnOnly, IteratorValid, Current
<1> QED
  BY <1>2, <1>3, <1>4, <1>5, <1>6

-----------------------------------------------------------------------------
(* Visit: it++, and the callback when the timer is due                     *)

\* The iterator moves on without a call.
LEMMA SkipStep ==
  ASSUME IInv, Visit, ~(curr_tick >= item[it].next_tick)
  PROVE  IInv'
<1> USE EventTimerAssumption DEF IInv
<1>1. PICK p \in 1 .. Len(m_timer_list) : it = m_timer_list[p]
  BY ListType DEF Visit
<1>2. it' = IF p = Len(m_timer_list) THEN End ELSE m_timer_list[p + 1]
  BY <1>1, AfterPosition DEF Visit
<1>3. UNCHANGED <<listVars, m_loop_list, now, pc, curr_tick, pItem, pos, histVars>>
  BY DEF Visit, listVars, histVars
<1>4. pc = "walk" /\ pItem = None
  BY DEF Visit, Current
<1>5. /\ OneTimerPerKey' /\ Scheduled' /\ Listed' = Listed
      /\ \A n \in Nodes : item'[n] # None <=> n \in Listed'
  BY <1>3, QuietStep DEF TypeOK, histVars
<1>6. it' \in Listed \cup {End}
  BY <1>2, NextPosition
<1>7. TypeOK'
  BY <1>3, <1>5, <1>6, ListType DEF TypeOK, listVars, histVars
<1>8. Current'
  BY <1>3, <1>4 DEF Current
<1>9. NotAgain'
  <2> SUFFICES ASSUME NEW i \in 1 .. Len(m_timer_list), NEW j \in 1 .. i,
                      item[m_timer_list[i]].key \in called,
                      item[m_timer_list[i]].interval # 0,
                      item[m_timer_list[i]].next_tick <= curr_tick
               PROVE  m_timer_list[j] # it'
    BY <1>3 DEF NotAgain, listVars, histVars
  <2>1. ~(p \in 1 .. i)
    BY <1>1, <1>4 DEF NotAgain
  <2>2. j < p /\ j \in 1 .. Len(m_timer_list)
    BY <2>1, ListType
  <2>3. CASE p = Len(m_timer_list)
    BY <1>2, <2>2, <2>3, ListType
  <2>4. CASE p # Len(m_timer_list)
    <3>1. p + 1 \in 1 .. Len(m_timer_list) /\ j # p + 1
      BY <2>2, <2>4, NextPosition
    <3>2. QED
      BY <1>2, <2>2, <2>4, <3>1, OnePosition
  <2>5. QED
    BY <2>3, <2>4
<1>10. OwnOnly'
  BY <1>3, <1>4, <1>5, <1>6 DEF OwnOnly, IteratorValid
<1> QED
  BY <1>5, <1>7, <1>8, <1>9, <1>10

\* The iterator moves on and the timer's callback begins.
LEMMA FireStep ==
  ASSUME IInv, Visit, curr_tick >= item[it].next_tick
  PROVE  IInv'
<1> USE EventTimerAssumption DEF IInv
<1> DEFINE k == item[it].key
           interval == item[it].interval
           deadline == item[it].next_tick + interval
<1>1. PICK p \in 1 .. Len(m_timer_list) : it = m_timer_list[p]
  BY ListType DEF Visit
<1>2. it' = IF p = Len(m_timer_list) THEN End ELSE m_timer_list[p + 1]
  BY <1>1, AfterPosition DEF Visit
<1>3. /\ UNCHANGED <<m_timer_list, m_loop_list, now, curr_tick, pos, since, foreign>>
      /\ pc = "walk" /\ pc' = "timer" /\ pItem' = it
      /\ item' = [item EXCEPT ![it].next_tick = deadline]
      /\ fires' = IF interval = 0 THEN fires ELSE [fires EXCEPT ![k] = @ + 1]
      /\ called' = called \cup {k}
  BY DEF Visit, Fire
<1>4. /\ it \in Listed /\ it \in Nodes /\ item[it] \in TimerItem
      /\ k \in Keys /\ interval \in Intervals /\ interval \in Nat
      /\ item[it].next_tick \in Nat /\ deadline \in Nat
  BY ItemType DEF Visit
<1>5. Listed' = Listed /\ Listed \subseteq Nodes
  BY <1>3, ListType DEF Listed
<1>6. it' \in Listed \cup {End}
  BY <1>2, NextPosition
<1>7. /\ item'[it] = [key |-> k, interval |-> interval, next_tick |-> deadline]
      /\ \A n \in Nodes : n # it => item'[n] = item[n]
  BY <1>3, <1>4 DEF TypeOK, TimerItem
<1>8. item' \in [Nodes -> TimerItem \cup {None}]
  <2>1. [key |-> k, interval |-> interval, next_tick |-> deadline] \in TimerItem
    BY <1>4 DEF TimerItem
  <2>2. DOMAIN item' = Nodes /\ item' = [n \in Nodes |-> item'[n]]
    BY <1>3 DEF TypeOK
  <2>3. \A n \in Nodes : item'[n] \in TimerItem \cup {None}
    BY <1>7, <2>1 DEF TypeOK
  <2>4. QED
    BY <2>2, <2>3
<1>9. \A n \in Nodes : item'[n] # None <=> n \in Listed
  <2>1. item'[it] # None
    BY <1>4, <1>7 DEF TimerItem
  <2>2. QED
    BY <1>4, <1>7, <2>1 DEF TypeOK
<1>10. fires' \in [Keys -> Nat]
  <2>1. fires \in [Keys -> Nat] /\ fires[k] + 1 \in Nat
    BY <1>4 DEF TypeOK
  <2>2. fires' = fires \/ fires' = [fires EXCEPT ![k] = fires[k] + 1]
    BY <1>3
  <2>3. QED
    BY <2>1, <2>2
<1> HIDE DEF k, interval, deadline
<1>11. TypeOK'
  BY <1>3, <1>4, <1>5, <1>6, <1>8, <1>9, <1>10 DEF TypeOK
<1>12. \A n \in Listed : item'[n].key = item[n].key /\ item'[n].interval = item[n].interval
  <2>1. item'[it].key = k /\ item'[it].interval = interval
    BY <1>7
  <2>2. QED
    BY <1>5, <1>7, <2>1 DEF k, interval
<1>13. OneTimerPerKey'
  BY <1>3, <1>12, ListType DEF OneTimerPerKey
<1>14. Current'
  BY <1>3, <1>4, <1>5 DEF Current
<1>15. Scheduled'
  <2> SUFFICES ASSUME NEW n \in Listed
               PROVE  /\ item'[n].next_tick = Deadline(n)' + item'[n].interval
                      /\ Deadline(n)' <= now
    BY <1>3, <1>5 DEF Scheduled
  <2>1. Deadline(n)' = since[item[n].key] + fires'[item[n].key] * item[n].interval
    BY <1>3, <1>12 DEF Deadline
  <2>2. /\ item[n].next_tick = Deadline(n) + item[n].interval /\ Deadline(n) <= now
        /\ Deadline(n) = since[item[n].key] + fires[item[n].key] * item[n].interval
    BY DEF Scheduled, Deadline
  <2>3. CASE n # it
    <3>1. item[n].key # k
      BY <1>4, <2>3, OneNodePerKey DEF k
    <3>2. fires'[item[n].key] = fires[item[n].key]
      BY <1>3, <3>1, ItemType DEF TypeOK
    <3>3. item'[n] = item[n]
      BY <1>5, <1>7, <2>3
    <3>4. QED
      BY <2>1, <2>2, <3>2, <3>3
  <2>4. CASE n = it
    <3>1. /\ since[k] \in Nat /\ fires[k] \in Nat /\ curr_tick \in Nat /\ now \in Nat
          /\ curr_tick <= now
      BY <1>4 DEF TypeOK
    <3>2. fires'[k] * interval = fires[k] * interval + interval
      <4>1. CASE interval = 0
        BY <1>3, <1>4, <3>1, <4>1
      <4>2. CASE interval # 0
        <5>1. fires'[k] = fires[k] + 1
          BY <1>3, <1>4, <4>2 DEF TypeOK
        <5>2. (fires[k] + 1) * interval = fires[k] * interval + interval
          BY <1>4, <3>1
        <5>3. QED
          BY <5>1, <5>2
      <4>3. QED
        BY <4>1, <4>2
    <3>3. fires[k] * interval \in Nat
      BY <1>4, <3>1
    <3>4. /\ item[it].next_tick = since[k] + fires[k] * interval + interval
          /\ Deadline(n)' = since[k] + fires'[k] * interval
      BY <2>1, <2>2, <2>4 DEF k, interval
    <3>5. Deadline(n)' = item[it].next_tick
      BY <1>4, <3>1, <3>2, <3>3, <3>4
    <3>6. item'[n].next_tick = item[it].next_tick + interval /\ item'[n].interval = interval
      BY <1>7, <2>4 DEF deadline
    <3>7. item[it].next_tick <= now
      BY <1>4, <3>1
    <3>8. QED
      BY <3>5, <3>6, <3>7
  <2>5. QED
    BY <2>3, <2>4
<1>16. NotAgain'
  <2> SUFFICES ASSUME NEW i \in 1 .. Len(m_timer_list), NEW j \in 1 .. i,
                      item'[m_timer_list[i]].key \in called',
                      item'[m_timer_list[i]].interval # 0,
                      item'[m_timer_list[i]].next_tick <= curr_tick
               PROVE  m_timer_list[j] # it'
    BY <1>3 DEF NotAgain
  <2>1. ~(p \in 1 .. i) \/ i = p
    <3>1. ASSUME i # p PROVE ~(p \in 1 .. i)
      <4>1. m_timer_list[i] \in Listed /\ m_timer_list[i] # it
        BY <1>1, <3>1, ListType, OnePosition
      <4>2. item'[m_timer_list[i]] = item[m_timer_list[i]]
        BY <1>5, <1>7, <4>1
      <4>3. item[m_timer_list[i]].key # k
        BY <1>4, <4>1, OneNodePerKey DEF k
      <4>4. item[m_timer_list[i]].key \in called
        BY <1>3, <4>2, <4>3
      <4>5. QED
        BY <1>1, <1>3, <4>2, <4>4 DEF NotAgain
    <3>2. QED
      BY <3>1
  <2>2. j <= p /\ j \in 1 .. Len(m_timer_list)
    BY <2>1, ListType
  <2>3. CASE p = Len(m_timer_list)
    BY <1>2, <2>2, <2>3, ListType
  <2>4. CASE p # Len(m_timer_list)
    <3>1. p + 1 \in 1 .. Len(m_timer_list) /\ j # p + 1
      BY <2>2, <2>4, NextPosition
    <3>2. QED
      BY <1>2, <2>2, <2>4, <3>1, OnePosition
  <2>5. QED
    BY <2>3, <2>4
<1>17. it' # it
  <2>1. CASE p = Len(m_timer_list)
    BY <1>2, <1>4, <2>1
  <2>2. CASE p # Len(m_timer_list)
    <3>1. p + 1 \in 1 .. Len(m_timer_list) /\ p # p + 1
      BY <2>2, NextPosition
    <3>2. QED
      BY <1>1, <1>2, <2>2, <3>1, OnePosition
  <2>3. QED
    BY <2>1, <2>2
<1>18. OwnOnly'
  BY <1>3, <1>5, <1>6, <1>17 DEF OwnOnly, IteratorValid
<1> QED
  BY <1>11, <1>13, <1>14, <1>15, <1>16, <1>18

-----------------------------------------------------------------------------
(* AddTimer                                                                *)

\* The listed timers after AddTimer(k): one is set now for k, the others are as
\* they were.
LEMMA ScheduledAfterAdd ==
  ASSUME TypeOK, Scheduled, NEW k \in Keys, NEW interval \in Intervals, Registered(k),
         NEW n \in Nodes, item'[n] = [key |-> k, interval |-> interval, next_tick |-> now + interval],
         \A x \in Listed' : x # n => x \in Listed /\ item[x].key # k /\ item'[x] = item[x]
  PROVE  Scheduled'
<1> USE EventTimerAssumption
<1>1. /\ now' = now /\ since' = [since EXCEPT ![k] = now]
      /\ fires' = [fires EXCEPT ![k] = 0]
  BY DEF Registered
<1>2. now \in Nat /\ interval \in Nat
  BY DEF TypeOK
<1> SUFFICES ASSUME NEW x \in Listed'
             PROVE  /\ item'[x].next_tick = Deadline(x)' + item'[x].interval
                    /\ Deadline(x)' <= now
  BY <1>1 DEF Scheduled
<1>3. CASE x = n
  <2>1. since'[k] = now /\ fires'[k] = 0
    BY <1>1 DEF TypeOK
  <2>2. Deadline(x)' = now + 0 * interval
    BY <1>3, <2>1 DEF Deadline
  <2>3. item'[x].next_tick = now + interval /\ item'[x].interval = interval
    BY <1>3
  <2>4. QED
    BY <1>2, <2>2, <2>3
<1>4. CASE x # n
  <2>1. x \in Listed /\ item[x].key # k /\ item'[x] = item[x]
    BY <1>4
  <2>2. item[x].key \in Keys
    BY <2>1, ItemType
  <2>3. since'[item[x].key] = since[item[x].key] /\ fires'[item[x].key] = fires[item[x].key]
    BY <1>1, <2>1, <2>2 DEF TypeOK
  <2>4. Deadline(x)' = Deadline(x)
    BY <2>1, <2>3 DEF Deadline
  <2>5. QED
    BY <2>1, <2>4 DEF Scheduled
<1>5. QED
  BY <1>3, <1>4

\* A timer that is set now is not due in the walk that began before, unless its
\* interval is zero.
LEMMA SetLater ==
  ASSUME TypeOK, NEW interval \in Intervals, interval # 0
  PROVE  ~(now + interval <= curr_tick)
<1>1. now \in Nat /\ curr_tick \in Nat /\ curr_tick <= now /\ interval \in Nat /\ interval > 0
  BY EventTimerAssumption DEF TypeOK
<1>2. QED
  BY <1>1

\* AddTimer on a registered key preserves the invariant.
LEMMA UpdateStep ==
  ASSUME IInv, NEW k \in Keys, NEW interval \in Intervals, NEW n \in Listed,
         Registered(k), AddTimer_Update(k, interval, n)
  PROVE  IInv'
<1> USE EventTimerAssumption DEF IInv
<1> DEFINE new == [key |-> k, interval |-> interval, next_tick |-> now + interval]
<1>1. /\ UNCHANGED <<m_timer_list, m_loop_list, now, pc, curr_tick, it, pItem, pos, called, foreign>>
      /\ item[n].key = k
      /\ item' = [item EXCEPT ![n].interval = interval, ![n].next_tick = now + interval]
      /\ since' = [since EXCEPT ![k] = now] /\ fires' = [fires EXCEPT ![k] = 0]
      /\ InCallback
  BY DEF Registered, AddTimer_Update, walkVars
<1>2. n \in Nodes /\ item[n] \in TimerItem
  BY ItemType
<1>3. Listed' = Listed /\ Listed \subseteq Nodes
  BY <1>1, ListType DEF Listed
<1>4. item'[n] = new /\ \A x \in Nodes : x # n => item'[x] = item[x]
  BY <1>1, <1>2 DEF TypeOK, TimerItem
<1>5. now \in Nat /\ interval \in Nat /\ now + interval \in Nat
  BY DEF TypeOK
<1>6. new \in TimerItem /\ new # None
  BY <1>5 DEF TimerItem
<1> HIDE DEF new
<1>7. item' \in [Nodes -> TimerItem \cup {None}]
  <2>1. DOMAIN item' = Nodes /\ item' = [x \in Nodes |-> item'[x]]
    BY <1>1 DEF TypeOK
  <2>2. \A x \in Nodes : item'[x] \in TimerItem \cup {None}
    BY <1>4, <1>6 DEF TypeOK
  <2>3. QED
    BY <2>1, <2>2
<1>8. \A x \in Nodes : item'[x] # None <=> x \in Listed
  BY <1>4, <1>6 DEF TypeOK
<1>9. since' \in [Keys -> Nat] /\ fires' \in [Keys -> Nat]
  BY <1>1, <1>5 DEF TypeOK
<1>10. TypeOK'
  BY <1>1, <1>3, <1>7, <1>8, <1>9 DEF TypeOK
<1>11. \A x \in Listed : item'[x].key = item[x].key
  <2>1. item'[n].key = item[n].key
    BY <1>1, <1>4 DEF new
  <2>2. QED
    BY <1>3, <1>4, <2>1
<1>12. OneTimerPerKey'
  BY <1>1, <1>11, ListType DEF OneTimerPerKey
<1>13. Current'
  BY <1>1, <1>3 DEF Current
<1>14. Scheduled'
  <2>1. \A x \in Listed' : x # n => x \in Listed /\ item[x].key # k /\ item'[x] = item[x]
    BY <1>1, <1>3, <1>4, OneNodePerKey
  <2>2. QED
    BY <1>2, <1>4, <2>1, ScheduledAfterAdd DEF new
<1>15. NotAgain'
  <2> SUFFICES ASSUME pc \in {"walk", "timer"},
                      NEW i \in 1 .. Len(m_timer_list), NEW j \in 1 .. i,
                      item'[m_timer_list[i]].key \in called,
                      item'[m_timer_list[i]].interval # 0,
                      item'[m_timer_list[i]].next_tick <= curr_tick
               PROVE  m_timer_list[j] # it
    BY <1>1 DEF NotAgain
  <2>1. m_timer_list[i] # n
    BY <1>4, SetLater DEF new
  <2>2. item'[m_timer_list[i]] = item[m_timer_list[i]]
    BY <1>4, <2>1, ListType
  <2>3. QED
    BY <2>2 DEF NotAgain
<1>16. OwnOnly'
  BY <1>1, <1>3 DEF OwnOnly, IteratorValid
<1> QED
  BY <1>10, <1>12, <1>13, <1>14, <1>15, <1>16

\* AddTimer on a new key preserves the invariant.
LEMMA InsertStep ==
  ASSUME IInv, NEW k \in Keys, NEW interval \in Intervals, NEW n \in Nodes,
         Registered(k), AddTimer_Insert(k, interval, n)
  PROVE  IInv'
<1> USE EventTimerAssumption DEF IInv
<1> DEFINE new == [key |-> k, interval |-> interval, next_tick |-> now + interval]
           len == Len(m_timer_list)
<1>1. /\ UNCHANGED <<m_loop_list, now, pc, curr_tick, it, pItem, pos, called, foreign>>
      /\ \A x \in Listed : item[x].key # k
      /\ item[n] = None
      /\ item' = [item EXCEPT ![n] = new]
      /\ m_timer_list' = Append(m_timer_list, n)
      /\ since' = [since EXCEPT ![k] = now] /\ fires' = [fires EXCEPT ![k] = 0]
      /\ InCallback
  BY DEF Registered, AddTimer_Insert, walkVars
<1>2. /\ m_timer_list' \in Seq(Nodes) /\ len \in Nat /\ Len(m_timer_list') = len + 1
      /\ m_timer_list'[len + 1] = n
      /\ \A i \in 1 .. len : m_timer_list'[i] = m_timer_list[i]
      /\ DOMAIN m_timer_list' = 1 .. len + 1
  BY <1>1, ListType
<1>3. n \notin Listed /\ Listed \subseteq Nodes
  BY <1>1, ListType DEF TypeOK
<1> HIDE DEF new, len
\* A position of the new list is an old one or the last.
<1>4. \A i \in 1 .. len + 1 :
        \/ i \in 1 .. len /\ m_timer_list'[i] = m_timer_list[i] /\ m_timer_list[i] \in Listed
        \/ i = len + 1 /\ m_timer_list'[i] = n
  BY <1>2, ListType DEF len
<1>5. Listed' = Listed \cup {n}
  <2>1. Listed' = {m_timer_list'[i] : i \in 1 .. len + 1}
    BY <1>2 DEF Listed, ToSet
  <2>2. Listed' \subseteq Listed \cup {n}
    BY <1>4, <2>1
  <2>3. ASSUME NEW x \in Listed PROVE x \in Listed'
    <3>1. PICK i \in 1 .. len : x = m_timer_list[i]
      BY ListType DEF len
    <3>2. i \in 1 .. len + 1 /\ m_timer_list'[i] = x
      BY <1>2, <3>1
    <3>3. QED
      BY <2>1, <3>2
  <2>4. len + 1 \in 1 .. len + 1
    BY <1>2
  <2>5. n \in Listed'
    BY <1>2, <2>1, <2>4
  <2>6. QED
    BY <2>2, <2>3, <2>5
<1>6. item'[n] = new /\ \A x \in Nodes : x # n => item'[x] = item[x]
  BY <1>1 DEF TypeOK
<1>7. new \in TimerItem /\ new # None
  BY DEF TypeOK, TimerItem, new
<1>8. item' \in [Nodes -> TimerItem \cup {None}]
  BY <1>1, <1>7 DEF TypeOK
<1>9. \A x \in Nodes : item'[x] # None <=> x \in Listed'
  BY <1>5, <1>6, <1>7 DEF TypeOK
<1>10. since' \in [Keys -> Nat] /\ fires' \in [Keys -> Nat]
  BY <1>1 DEF TypeOK
<1>11. TypeOK'
  BY <1>1, <1>2, <1>8, <1>9, <1>10 DEF TypeOK
<1>12. \A x \in Listed : item'[x] = item[x]
  BY <1>3, <1>6
<1>13. OneTimerPerKey'
  <2> SUFFICES ASSUME NEW i \in 1 .. len + 1, NEW j \in 1 .. len + 1,
                      item'[m_timer_list'[i]].key = item'[m_timer_list'[j]].key
               PROVE  i = j
    BY <1>2 DEF OneTimerPerKey
  <2>1. item'[n].key = k
    BY <1>6 DEF new
  <2>2. CASE i \in 1 .. len /\ m_timer_list'[i] = m_timer_list[i] /\ m_timer_list[i] \in Listed
    <3>1. item'[m_timer_list'[i]].key # k
      BY <1>1, <1>12, <2>2
    <3>2. j \in 1 .. len /\ m_timer_list'[j] = m_timer_list[j] /\ m_timer_list[j] \in Listed
      BY <1>4, <2>1, <3>1
    <3>3. QED
      BY <1>12, <2>2, <3>2, OnePosition DEF len
  <2>3. CASE i = len + 1 /\ m_timer_list'[i] = n
    <3>1. ~(m_timer_list'[j] \in Listed)
      BY <1>1, <1>12, <2>1, <2>3
    <3>2. QED
      BY <1>4, <2>3, <3>1
  <2>4. QED
    BY <1>4, <2>2, <2>3
<1>14. Current'
  BY <1>1, <1>5 DEF Current
<1>15. Scheduled'
  <2>1. \A x \in Listed' : x # n => x \in Listed /\ item[x].key # k /\ item'[x] = item[x]
    BY <1>1, <1>5, <1>12
  <2>2. QED
    BY <1>6, <2>1, ScheduledAfterAdd DEF new
<1>16. NotAgain'
  <2> SUFFICES ASSUME pc \in {"walk", "timer"}, NEW i \in 1 .. len + 1, NEW j \in 1 .. i,
                      item'[m_timer_list'[i]].key \in called,
                      item'[m_timer_list'[i]].interval # 0,
                      item'[m_timer_list'[i]].next_tick <= curr_tick
               PROVE  m_timer_list'[j] # it
    BY <1>1, <1>2 DEF NotAgain
  <2>1. m_timer_list'[i] # n
    BY <1>6, SetLater DEF new
  <2>2. i \in 1 .. len /\ m_timer_list'[i] = m_timer_list[i] /\ m_timer_list[i] \in Listed
    BY <1>4, <2>1
  <2>3. m_timer_list[j] # it
    <3>1. item'[m_timer_list'[i]] = item[m_timer_list[i]]
      BY <1>12, <2>2
    <3>2. i \in 1 .. Len(m_timer_list) /\ j \in 1 .. i
      BY <2>2 DEF len
    <3>3. QED
      BY <3>1, <3>2 DEF NotAgain
  <2>4. j \in 1 .. len
    BY <1>2, <2>2
  <2>5. QED
    BY <1>2, <2>3, <2>4
<1>17. OwnOnly'
  BY <1>1, <1>5 DEF OwnOnly, IteratorValid
<1> QED
  BY <1>11, <1>13, <1>14, <1>15, <1>16, <1>17

-----------------------------------------------------------------------------
(* RemoveTimer                                                             *)

\* The list without the node at position p: its nodes and their order.
LEMMA ListAfterErase ==
  ASSUME TypeOK, OneTimerPerKey, NEW p \in 1 .. Len(m_timer_list),
         m_timer_list' = RemoveAt(m_timer_list, p)
  PROVE  /\ m_timer_list' \in Seq(Nodes)
         /\ Len(m_timer_list') = Len(m_timer_list) - 1
         /\ DOMAIN m_timer_list' = 1 .. Len(m_timer_list) - 1
         /\ \A i \in 1 .. Len(m_timer_list) - 1 :
              LET o == IF i < p THEN i ELSE i + 1
              IN  o \in 1 .. Len(m_timer_list) /\ o # p /\ m_timer_list'[i] = m_timer_list[o]
         /\ Listed' = Listed \ {m_timer_list[p]}
<1>1. m_timer_list \in Seq(Nodes) /\ Len(m_timer_list) \in Nat
  BY ListType
<1>2. /\ m_timer_list' \in Seq(Nodes)
      /\ Len(m_timer_list') = Len(m_timer_list) - 1
      /\ \A i \in 1 .. Len(m_timer_list) - 1 :
           m_timer_list'[i] = m_timer_list[IF i < p THEN i ELSE i + 1]
  BY <1>1, RemoveAtProperties
<1>3. DOMAIN m_timer_list' = 1 .. Len(m_timer_list) - 1
  BY <1>2
<1>4. ASSUME NEW i \in 1 .. Len(m_timer_list) - 1
      PROVE  LET o == IF i < p THEN i ELSE i + 1
             IN  o \in 1 .. Len(m_timer_list) /\ o # p /\ m_timer_list'[i] = m_timer_list[o]
  BY <1>1, <1>2
<1>5. Listed' = {m_timer_list'[i] : i \in 1 .. Len(m_timer_list) - 1}
  BY <1>3 DEF Listed, ToSet
<1>6. Listed' \subseteq Listed \ {m_timer_list[p]}
  <2> SUFFICES ASSUME NEW i \in 1 .. Len(m_timer_list) - 1
               PROVE  m_timer_list'[i] \in Listed \ {m_timer_list[p]}
    BY <1>5
  <2>1. PICK o \in 1 .. Len(m_timer_list) : o # p /\ m_timer_list'[i] = m_timer_list[o]
    BY <1>4
  <2>2. m_timer_list[o] # m_timer_list[p]
    BY <2>1, OnePosition
  <2>3. QED
    BY <2>1, <2>2, ListType
<1>7. ASSUME NEW x \in Listed, x # m_timer_list[p] PROVE x \in Listed'
  <2>1. PICK o \in 1 .. Len(m_timer_list) : x = m_timer_list[o]
    BY ListType
  <2>2. o # p
    BY <1>7, <2>1
  <2>3. CASE o < p
    <3>1. o \in 1 .. Len(m_timer_list) - 1 /\ m_timer_list'[o] = m_timer_list[o]
      BY <1>1, <1>2, <2>3
    <3>2. QED
      BY <1>5, <2>1, <3>1
  <2>4. CASE p < o
    <3>1. o - 1 \in 1 .. Len(m_timer_list) - 1 /\ ~(o - 1 < p) /\ o - 1 + 1 = o
      BY <1>1, <2>4
    <3>2. m_timer_list'[o - 1] = m_timer_list[o]
      BY <1>2, <3>1
    <3>3. QED
      BY <1>5, <2>1, <3>1, <3>2
  <2>5. QED
    BY <1>1, <2>2, <2>3, <2>4
<1>8. Listed' = Listed \ {m_timer_list[p]}
  BY <1>6, <1>7
<1>9. QED
  BY <1>2, <1>3, <1>4, <1>8

\* RemoveTimer preserves the invariant.
LEMMA RemoveTimerStep ==
  ASSUME IInv, NEW k \in Keys, RemoveTimer(k)
  PROVE  IInv'
<1> USE EventTimerAssumption DEF IInv
<1>1. PICK p \in 1 .. Len(m_timer_list) :
        /\ item[m_timer_list[p]].key = k
        /\ m_timer_list' = RemoveAt(m_timer_list, p)
        /\ item' = [item EXCEPT ![m_timer_list[p]] = None]
        /\ pItem' = IF pItem = m_timer_list[p] THEN None ELSE pItem
  BY ListType DEF RemoveTimer
<1> DEFINE n == m_timer_list[p]
           len == Len(m_timer_list) - 1
<1>2. /\ UNCHANGED <<m_loop_list, now, pc, curr_tick, it, pos, since, fires, called>>
      /\ InCallback
      /\ foreign' \subseteq Keys
      /\ foreign' = {} => foreign = {} /\ (pc = "timer" => pItem # None /\ item[pItem].key = k)
  BY DEF RemoveTimer, Own, TypeOK
<1>3. /\ m_timer_list' \in Seq(Nodes) /\ Len(m_timer_list') = len
      /\ DOMAIN m_timer_list' = 1 .. len
      /\ \A i \in 1 .. len :
           LET o == IF i < p THEN i ELSE i + 1
           IN  o \in 1 .. Len(m_timer_list) /\ o # p /\ m_timer_list'[i] = m_timer_list[o]
      /\ Listed' = Listed \ {n}
  BY <1>1, ListAfterErase
<1>4. n \in Listed /\ n \in Nodes /\ Listed \subseteq Nodes /\ Len(m_timer_list) \in Nat
  BY ListType
<1>5. item'[n] = None /\ \A x \in Nodes : x # n => item'[x] = item[x]
  BY <1>1, <1>4 DEF TypeOK
<1>6. item' \in [Nodes -> TimerItem \cup {None}] /\ pItem' \in Nodes \cup {None}
  BY <1>1 DEF TypeOK
<1>7. \A x \in Nodes : item'[x] # None <=> x \in Listed'
  BY <1>3, <1>5 DEF TypeOK
<1>8. pItem' = IF pItem = n THEN None ELSE pItem
  BY <1>1
<1>9. item[n].key = k
  BY <1>1
<1> HIDE DEF n, len
<1>10. TypeOK'
  BY <1>2, <1>3, <1>6, <1>7 DEF TypeOK
\* Where a node of the new list was before, and that its item is the old one.
<1>11. \A i \in 1 .. len : \E o \in 1 .. Len(m_timer_list) :
         /\ o = IF i < p THEN i ELSE i + 1
         /\ m_timer_list'[i] = m_timer_list[o]
         /\ item'[m_timer_list'[i]] = item[m_timer_list[o]]
  <2> SUFFICES ASSUME NEW i \in 1 .. len
               PROVE  \E o \in 1 .. Len(m_timer_list) :
                        /\ o = IF i < p THEN i ELSE i + 1
                        /\ m_timer_list'[i] = m_timer_list[o]
                        /\ item'[m_timer_list'[i]] = item[m_timer_list[o]]
    OBVIOUS
  <2> DEFINE o == IF i < p THEN i ELSE i + 1
  <2>1. o \in 1 .. Len(m_timer_list) /\ o # p /\ m_timer_list'[i] = m_timer_list[o]
    BY <1>3
  <2> HIDE DEF o
  <2>2. m_timer_list[o] \in Nodes /\ m_timer_list[o] # n
    BY <2>1, ListType, OnePosition DEF n
  <2>3. item'[m_timer_list'[i]] = item[m_timer_list[o]]
    BY <1>5, <2>1, <2>2
  <2>4. QED
    BY <2>1, <2>3 DEF o
<1>12. OneTimerPerKey'
  <2> SUFFICES ASSUME NEW i \in 1 .. len, NEW j \in 1 .. len,
                      item'[m_timer_list'[i]].key = item'[m_timer_list'[j]].key
               PROVE  i = j
    BY <1>3 DEF OneTimerPerKey
  <2>1. PICK a \in 1 .. Len(m_timer_list) :
          /\ a = IF i < p THEN i ELSE i + 1
          /\ item'[m_timer_list'[i]] = item[m_timer_list[a]]
    BY <1>11
  <2>2. PICK b \in 1 .. Len(m_timer_list) :
          /\ b = IF j < p THEN j ELSE j + 1
          /\ item'[m_timer_list'[j]] = item[m_timer_list[b]]
    BY <1>11
  <2>3. a = b
    BY <2>1, <2>2, OnePosition
  <2>4. len \in Int
    BY <1>4 DEF len
  <2>5. QED
    BY <2>1, <2>2, <2>3, <2>4
<1>13. Current'
  BY <1>2, <1>3, <1>8 DEF Current
<1>14. Scheduled'
  <2> SUFFICES ASSUME NEW x \in Listed'
               PROVE  /\ item'[x].next_tick = Deadline(x)' + item'[x].interval
                      /\ Deadline(x)' <= now
    BY <1>2 DEF Scheduled
  <2>1. x \in Listed /\ item'[x] = item[x]
    BY <1>3, <1>4, <1>5
  <2>2. Deadline(x)' = Deadline(x)
    BY <1>2, <2>1 DEF Deadline
  <2>3. QED
    BY <2>1, <2>2 DEF Scheduled
<1>15. NotAgain'
  <2> SUFFICES ASSUME pc \in {"walk", "timer"}, NEW i \in 1 .. len, NEW j \in 1 .. i,
                      item'[m_timer_list'[i]].key \in called,
                      item'[m_timer_list'[i]].interval # 0,
                      item'[m_timer_list'[i]].next_tick <= curr_tick
               PROVE  m_timer_list'[j] # it
    BY <1>2, <1>3 DEF NotAgain
  <2>1. PICK a \in 1 .. Len(m_timer_list) :
          /\ a = IF i < p THEN i ELSE i + 1
          /\ item'[m_timer_list'[i]] = item[m_timer_list[a]]
    BY <1>11
  <2>2. len \in Int
    BY <1>4 DEF len
  <2>3. j \in 1 .. len
    BY <2>2
  <2>4. PICK b \in 1 .. Len(m_timer_list) :
          /\ b = IF j < p THEN j ELSE j + 1
          /\ m_timer_list'[j] = m_timer_list[b]
    BY <1>11, <2>3
  <2>5. b \in 1 .. a
    BY <2>1, <2>4
  <2>6. m_timer_list[b] # it
    BY <2>1, <2>5 DEF NotAgain
  <2>7. QED
    BY <2>4, <2>6
<1>16. OwnOnly'
  <2> SUFFICES ASSUME foreign' = {}
               PROVE  /\ pc = "timer" => it \in Listed'
                                          \cup {End}
                      /\ pc # "undefined"
                      /\ pc = "timer" /\ pItem' # None => it # pItem'
    BY <1>2 DEF OwnOnly, IteratorValid, InCallback
  <2>1. pc # "undefined" /\ (pc = "timer" => it \in Listed \cup {End})
    BY <1>2 DEF OwnOnly, IteratorValid
  <2>2. CASE pc = "timer"
    <3>1. pItem # None /\ pItem \in Listed /\ it # pItem /\ item[pItem].key = item[n].key
      BY <1>2, <1>9, <2>2 DEF OwnOnly, Current
    <3>2. pItem = n
      BY <1>4, <3>1, OneNodePerKey
    <3>3. QED
      BY <1>3, <1>8, <2>1, <3>1, <3>2
  <2>3. CASE pc # "timer"
    BY <2>1, <2>3
  <2>4. QED
    BY <2>2, <2>3
<1> QED
  BY <1>10, <1>12, <1>13, <1>14, <1>15, <1>16

-----------------------------------------------------------------------------
\* The list is empty at first.
LEMMA InitInv == Init => IInv
<1> SUFFICES ASSUME Init PROVE IInv
  OBVIOUS
<1> USE EventTimerAssumption DEF Init
<1>1. Listed = {}
  BY DEF Listed, ToSet
<1>2. TypeOK
  BY <1>1 DEF TypeOK
<1>3. OneTimerPerKey
  BY DEF OneTimerPerKey
<1>4. Current /\ Scheduled /\ NotAgain /\ OwnOnly
  BY <1>1 DEF Current, Scheduled, NotAgain, OwnOnly, IteratorValid
<1> QED
  BY <1>2, <1>3, <1>4 DEF IInv

\* Every step preserves the invariant.
LEMMA StepInv == IInv /\ [Next]_vars => IInv'
<1> SUFFICES ASSUME IInv, [Next]_vars PROVE IInv'
  OBVIOUS
<1>1. CASE Dispatch
  <2>1. CASE Visit
    BY <2>1, SkipStep, FireStep
  <2>2. CASE CheckTimerBegin
    BY <2>2, CheckTimerBeginStep
  <2>3. CASE TimerReturns \/ CheckLoopBegin \/ LoopCall \/ LoopReturns \/ CheckLoopEnd
             \/ VisitErased
    BY <2>3, OtherStep
  <2>4. QED
    BY <1>1, <2>1, <2>2, <2>3 DEF Dispatch
<1>2. CASE Application
  <2>1. PICK k \in Keys : \/ \E interval \in Intervals : AddTimer(k, interval)
                          \/ RemoveTimer(k) \/ AddLoop(k)
    BY <1>2 DEF Application
  <2>2. ASSUME NEW interval \in Intervals, AddTimer(k, interval) PROVE IInv'
    BY <2>2, UpdateStep, InsertStep DEF AddTimer
  <2>3. CASE RemoveTimer(k)
    BY <2>3, RemoveTimerStep
  <2>4. CASE AddLoop(k)
    BY <2>4, AddLoopStep
  <2>5. QED
    BY <2>1, <2>2, <2>3, <2>4
<1>3. CASE Tick
  BY <1>3, TickStep
<1>4. CASE UNCHANGED vars
  BY <1>4 DEF IInv, TypeOK, OneTimerPerKey, Current, Scheduled, Deadline, NotAgain, OwnOnly,
              IteratorValid, Listed, vars, listVars, walkVars, histVars
<1> QED
  BY <1>1, <1>2, <1>3, <1>4 DEF Next

-----------------------------------------------------------------------------
(* The theorems                                                            *)

\* The inductive invariant of the timers holds in every reachable state.
THEOREM Invariance == Spec => []IInv
<1> QED
  BY InitInv, StepInv, PTL DEF Spec

\* Type correctness: an item is allocated exactly while its node is listed.
THEOREM TypeCorrect == Spec => []TypeOK
<1>1. IInv => TypeOK
  BY DEF IInv
<1> QED
  BY <1>1, Invariance, PTL

\* AddTimer searches the list before it appends: a callback and its user_data
\* have one timer at most, from whichever callback they are registered.
THEOREM OneTimer == Spec => []OneTimerPerKey
<1>1. IInv => OneTimerPerKey
  BY DEF IInv
<1> QED
  BY <1>1, Invariance, PTL

\* _CheckTimer counts deadlines from deadlines and not from the clock, and never
\* calls a timer before its deadline.
THEOREM NeverTooEarly == Spec => []NeverEarly
<1>1. IInv => NeverEarly
  BY DEF IInv, NeverEarly, Scheduled, Deadline
<1> QED
  BY <1>1, Invariance, PTL

\* _CheckTimer reads the clock once, so it calls a timer once in a walk even if
\* callbacks remove and add it again.
THEOREM OnceAWalk == Spec => OncePerWalk
<1>1. ASSUME IInv, [Next]_vars
      PROVE  [\A k \in Keys : fires'[k] > fires[k] => k \notin called]_vars
  <2> SUFFICES ASSUME NEW k \in Keys, fires'[k] > fires[k], ~UNCHANGED vars
               PROVE  k \notin called
    OBVIOUS
  <2>1. fires[k] \in Nat /\ ~(fires[k] > fires[k]) /\ ~(0 > fires[k])
    BY <1>1 DEF IInv, TypeOK
  <2>2. ~Tick /\ ~CheckTimerBegin /\ ~VisitErased /\ ~TimerReturns /\ ~CheckLoopBegin
        /\ ~LoopCall /\ ~LoopReturns /\ ~CheckLoopEnd
    BY <2>1 DEF Tick, CheckTimerBegin, VisitErased, TimerReturns, CheckLoopBegin, LoopCall,
                LoopReturns, CheckLoopEnd, histVars
  <2>3. ~Application
    <3>1. ASSUME NEW x \in Keys, NEW interval \in Intervals, AddTimer(x, interval)
          PROVE  FALSE
      <4>1. fires' = [fires EXCEPT ![x] = 0]
        BY <3>1 DEF AddTimer, Registered
      <4>2. QED
        BY <1>1, <2>1, <4>1 DEF IInv, TypeOK
    <3>2. ASSUME NEW x \in Keys, RemoveTimer(x) \/ AddLoop(x)
          PROVE  FALSE
      BY <2>1, <3>2 DEF RemoveTimer, AddLoop, histVars
    <3>3. QED
      BY <3>1, <3>2 DEF Application
  <2>4. Visit
    BY <1>1, <2>2, <2>3 DEF Next, Dispatch
  <2>5. /\ curr_tick >= item[it].next_tick /\ item[it].interval # 0
        /\ fires' = [fires EXCEPT ![item[it].key] = @ + 1]
    BY <2>1, <2>4 DEF Visit, Fire
  <2>6. k = item[it].key
    BY <1>1, <2>1, <2>5 DEF IInv, TypeOK
  <2>7. PICK p \in 1 .. Len(m_timer_list) : it = m_timer_list[p]
    BY <1>1, <2>4, ListType DEF IInv, Visit
  <2>8. /\ pc = "walk" /\ p \in 1 .. p /\ item[it].next_tick \in Nat /\ curr_tick \in Nat
    BY <1>1, <2>4, ItemType DEF IInv, TypeOK, Visit
  <2>9. item[it].next_tick <= curr_tick
    BY <2>5, <2>8
  <2>10. QED
    BY <1>1, <2>5, <2>6, <2>7, <2>8, <2>9 DEF IInv, NotAgain
<1>2. QED
  BY <1>1, Invariance, PTL DEF Spec, OncePerWalk

\* it++ before the callback is enough for a callback that removes its own timer:
\* then _CheckTimer never stands on a node that was erased.
THEOREM OwnRemovalIsSafe == Spec => []IteratorValid
<1>1. IInv => IteratorValid
  BY DEF IInv, OwnOnly
<1> QED
  BY <1>1, Invariance, PTL

=============================================================================
