----------------------------- MODULE EventTimer -----------------------------
(***************************************************************************)
(* EventDispatch.cpp: the timers and loop callbacks of CEventDispatch.     *)
(* StartDispatch serves its events, runs _CheckTimer and _CheckLoop, and   *)
(* starts over.  Every callback may add and remove timers and add loop     *)
(* callbacks while the list it was called from is being walked.            *)
(***************************************************************************)
EXTENDS Naturals, Sequences, SequencesExt

CONSTANTS
  Keys,          \* the (callback, user_data) pairs
  Nodes,         \* list nodes, each with its TimerItem
  None,          \* no node
  End,           \* list::end()
  Intervals,     \* the intervals the application asks for
  MaxTime,       \* bound: the clock stops here
  MaxLoops       \* bound: calls of AddLoop

TimerItem == [key : Keys, interval : Intervals, next_tick : Nat]

ASSUME EventTimerAssumption ==
  /\ None \notin Nodes /\ End \notin Nodes /\ None # End
  /\ None \notin TimerItem
  /\ Intervals \subseteq Nat
  /\ MaxTime \in Nat /\ MaxLoops \in Nat

VARIABLES
  m_timer_list,  \* nodes, in list order
  item,          \* per node: its TimerItem, None when it is not allocated
  m_loop_list,   \* the keys given to AddLoop, in order
  now,           \* get_tick_count()
  pc,            \* where StartDispatch is
  curr_tick,     \* _CheckTimer: the time when the walk began
  it,            \* _CheckTimer: the next node to visit
  pItem,         \* _CheckTimer: the node whose callback runs
  pos,           \* _CheckLoop: its position
  since,         \* history: per key, the time of its last AddTimer
  fires,         \* history: per key, the calls since then, of a positive interval
  called,        \* history: keys called in this walk
  foreign        \* history: keys removed, in this walk, by the callback of
                 \* another timer

listVars == <<m_timer_list, item>>
walkVars == <<curr_tick, it, pItem, pos>>
histVars == <<since, fires, called, foreign>>
vars == <<listVars, m_loop_list, now, pc, walkVars, histVars>>

Listed == ToSet(m_timer_list)

\* it++ on node n: the node behind it, or end().
After(n) ==
  LET i == CHOOSE j \in DOMAIN m_timer_list : m_timer_list[j] = n
  IN  IF i = Len(m_timer_list) THEN End ELSE m_timer_list[i + 1]

-----------------------------------------------------------------------------
(* Calls the application makes from its callbacks.                         *)

InCallback == pc \in {"events", "timer", "loop"}

\* The key is registered: the item gets a new interval and deadline.
AddTimer_Update(k, interval, n) ==
  /\ item[n].key = k
  /\ item' = [item EXCEPT ![n].interval = interval,
                          ![n].next_tick = now + interval]
  /\ UNCHANGED m_timer_list

AddTimer_Insert(k, interval, n) ==
  /\ \A x \in Listed : item[x].key # k
  /\ item[n] = None
  /\ item' = [item EXCEPT ![n] = [key |-> k, interval |-> interval,
                                  next_tick |-> now + interval]]
  /\ m_timer_list' = Append(m_timer_list, n)

Registered(k) ==
  /\ InCallback
  /\ since' = [since EXCEPT ![k] = now]
  /\ fires' = [fires EXCEPT ![k] = 0]
  /\ UNCHANGED <<m_loop_list, now, pc, walkVars, called, foreign>>

\* Mutants of AddTimer: the list is not searched; an update keeps the deadline.
AddTimer_NoSearch(k, interval) ==
  /\ Registered(k)
  /\ \E n \in Nodes :
       /\ item[n] = None
       /\ item' = [item EXCEPT ![n] = [key |-> k, interval |-> interval,
                                       next_tick |-> now + interval]]
       /\ m_timer_list' = Append(m_timer_list, n)

AddTimer_KeepDeadline(k, interval) ==
  /\ Registered(k)
  /\ \/ \E n \in Listed : /\ item[n].key = k
                          /\ item' = [item EXCEPT ![n].interval = interval]
                          /\ UNCHANGED m_timer_list
     \/ \E n \in Nodes : AddTimer_Insert(k, interval, n)

AddTimer(k, interval) ==
  /\ Registered(k)
  /\ \/ \E n \in Listed : AddTimer_Update(k, interval, n)
     \/ \E n \in Nodes : AddTimer_Insert(k, interval, n)

\* k is the timer whose callback runs.
Own(k) == pItem # None /\ item[pItem].key = k

\* erase and delete.  An iterator to the node is left as it is.
RemoveTimer(k) ==
  /\ InCallback
  /\ \E i \in DOMAIN m_timer_list :
       LET n == m_timer_list[i]
       IN  /\ item[n].key = k
           /\ m_timer_list' = RemoveAt(m_timer_list, i)
           /\ item' = [item EXCEPT ![n] = None]
           /\ pItem' = IF pItem = n THEN None ELSE pItem
  /\ foreign' = foreign \cup {x \in {k} : pc = "timer" /\ ~Own(k)}
  /\ UNCHANGED <<m_loop_list, now, pc, curr_tick, it, pos, since, fires, called>>

AddLoop(k) ==
  /\ InCallback
  /\ Len(m_loop_list) < MaxLoops
  /\ m_loop_list' = Append(m_loop_list, k)
  /\ UNCHANGED <<listVars, now, pc, walkVars, histVars>>

-----------------------------------------------------------------------------
(* The dispatcher                                                          *)

First == IF m_timer_list = <<>> THEN End ELSE Head(m_timer_list)

\* The events are served: _CheckTimer reads the clock and begins its walk.
CheckTimerBegin ==
  /\ pc = "events" /\ pc' = "walk"
  /\ curr_tick' = now
  /\ it' = First
  /\ called' = {} /\ foreign' = {}
  /\ UNCHANGED <<listVars, m_loop_list, now, pItem, pos, since, fires>>

Fire(n, deadline) ==
  /\ pc' = "timer"
  /\ pItem' = n
  /\ item' = [item EXCEPT ![n].next_tick = deadline]
  /\ fires' = IF item[n].interval = 0 THEN fires
                                      ELSE [fires EXCEPT ![item[n].key] = @ + 1]
  /\ called' = called \cup {item[n].key}

\* Mutants of Visit: the iterator is not moved before the callback; the clock
\* is read again; the deadline is counted from now.
Visit_IncrementLater ==
  /\ pc = "walk" /\ it \in Listed
  /\ IF curr_tick >= item[it].next_tick
     THEN Fire(it, item[it].next_tick + item[it].interval) /\ UNCHANGED it
     ELSE it' = After(it) /\ UNCHANGED <<pc, pItem, item, fires, called>>
  /\ UNCHANGED <<m_timer_list, m_loop_list, now, curr_tick, pos, since, foreign>>

Visit_FreshClock ==
  /\ pc = "walk" /\ it \in Listed
  /\ it' = After(it)
  /\ IF now >= item[it].next_tick
     THEN Fire(it, item[it].next_tick + item[it].interval)
     ELSE UNCHANGED <<pc, pItem, item, fires, called>>
  /\ UNCHANGED <<m_timer_list, m_loop_list, now, curr_tick, pos, since, foreign>>

Visit_FromNow ==
  /\ pc = "walk" /\ it \in Listed
  /\ it' = After(it)
  /\ IF curr_tick >= item[it].next_tick
     THEN Fire(it, now + item[it].interval)
     ELSE UNCHANGED <<pc, pItem, item, fires, called>>
  /\ UNCHANGED <<m_timer_list, m_loop_list, now, curr_tick, pos, since, foreign>>

\* pItem = *it; it++; and the callback when the timer is due.
Visit ==
  /\ pc = "walk" /\ it \in Listed
  /\ it' = After(it)
  /\ IF curr_tick >= item[it].next_tick
     THEN Fire(it, item[it].next_tick + item[it].interval)
     ELSE UNCHANGED <<pc, pItem, item, fires, called>>
  /\ UNCHANGED <<m_timer_list, m_loop_list, now, curr_tick, pos, since, foreign>>

\* *it on a node that was erased: anything may happen.
VisitErased ==
  /\ pc = "walk" /\ it \notin Listed \cup {End}
  /\ pc' = "undefined"
  /\ UNCHANGED <<listVars, m_loop_list, now, walkVars, histVars>>

TimerReturns ==
  /\ pc = "timer" /\ pc' = "walk"
  /\ pItem' = None
  /\ UNCHANGED <<listVars, m_loop_list, now, curr_tick, it, pos, histVars>>

CheckLoopBegin ==
  /\ pc = "walk" /\ it = End /\ pc' = "loops"
  /\ pos' = 1 /\ it' = None /\ curr_tick' = 0 /\ called' = {} /\ foreign' = {}
  /\ UNCHANGED <<listVars, m_loop_list, now, pItem, since, fires>>

LoopCall ==
  /\ pc = "loops" /\ pos <= Len(m_loop_list) /\ pc' = "loop"
  /\ UNCHANGED <<listVars, m_loop_list, now, walkVars, histVars>>

\* Mutant of LoopReturns: the walk ends after one callback.
LoopReturns_Break ==
  /\ pc = "loop" /\ pc' = "loops"
  /\ pos' = Len(m_loop_list) + 1
  /\ UNCHANGED <<listVars, m_loop_list, now, curr_tick, it, pItem, histVars>>

\* it++ comes after the callback here.
LoopReturns ==
  /\ pc = "loop" /\ pc' = "loops"
  /\ pos' = pos + 1
  /\ UNCHANGED <<listVars, m_loop_list, now, curr_tick, it, pItem, histVars>>

CheckLoopEnd ==
  /\ pc = "loops" /\ pos > Len(m_loop_list) /\ pc' = "events"
  /\ pos' = 0
  /\ UNCHANGED <<listVars, m_loop_list, now, curr_tick, it, pItem, histVars>>

Tick ==
  /\ now < MaxTime
  /\ now' = now + 1
  /\ UNCHANGED <<listVars, m_loop_list, pc, walkVars, histVars>>

-----------------------------------------------------------------------------
Init ==
  /\ m_timer_list = <<>> /\ item = [n \in Nodes |-> None]
  /\ m_loop_list = <<>>
  /\ now = 0 /\ pc = "events"
  /\ curr_tick = 0 /\ it = None /\ pItem = None /\ pos = 0
  /\ since = [k \in Keys |-> 0] /\ fires = [k \in Keys |-> 0]
  /\ called = {} /\ foreign = {}

Dispatch ==
  \/ CheckTimerBegin \/ Visit \/ VisitErased \/ TimerReturns
  \/ CheckLoopBegin \/ LoopCall \/ LoopReturns \/ CheckLoopEnd

Application ==
  \E k \in Keys :
    \/ \E interval \in Intervals : AddTimer(k, interval)
    \/ RemoveTimer(k) \/ AddLoop(k)

Next == Dispatch \/ Application \/ Tick

Spec == Init /\ [][Next]_vars

\* epoll_wait has a timeout, so the dispatcher goes round; callbacks return.
FairSpec == Spec /\ WF_vars(Dispatch)

-----------------------------------------------------------------------------
(* Properties                                                              *)

\* Types of all variables; a node is allocated exactly while it is listed.
TypeOK ==
  /\ m_timer_list \in Seq(Nodes)
  /\ item \in [Nodes -> TimerItem \cup {None}]
  /\ \A n \in Nodes : item[n] # None <=> n \in Listed
  /\ m_loop_list \in Seq(Keys)
  /\ now \in Nat /\ curr_tick \in 0 .. now
  /\ pc \in {"events", "walk", "timer", "loops", "loop", "undefined"}
  /\ it \in Nodes \cup {None, End} /\ pItem \in Nodes \cup {None}
  /\ pos \in Nat
  /\ since \in [Keys -> Nat] /\ fires \in [Keys -> Nat]
  /\ called \subseteq Keys /\ foreign \subseteq Keys

\* EventDispatch.cpp:86 moves the iterator before the callback so that the
\* callback may delete timers: what _CheckTimer dereferences next is a node of
\* the list, as long as callbacks delete their own timer only.
IteratorValid ==
  foreign = {} => /\ pc # "undefined"
                  /\ pc \in {"walk", "timer"} => it \in Listed \cup {End}

\* AddTimer keeps one timer per callback and user_data, so RemoveTimer leaves
\* none behind.
OneTimerPerKey ==
  \A i, j \in DOMAIN m_timer_list :
    item[m_timer_list[i]].key = item[m_timer_list[j]].key => i = j

\* The k-th call of a timer comes k intervals after AddTimer or later, however
\* it is updated, removed and added again during the walk.
NeverEarly ==
  \A n \in Listed :
    since[item[n].key] + fires[item[n].key] * item[n].interval <= now

\* One walk calls a timer with a positive interval once at most, also when the
\* callbacks remove it and add it again behind the iterator.
OncePerWalk ==
  [][\A k \in Keys : fires'[k] > fires[k] => k \notin called]_vars

\* No call is skipped: if walks come late, every interval that passed since
\* AddTimer still has its call, until the timer is removed or set again,
\* or the iterator is lost.
CallsCatchUp ==
  \A k \in Keys :
    \A s \in 0 .. MaxTime, n \in 1 .. MaxTime :
    \A interval \in {i \in Intervals \ {0} : s + n * i <= MaxTime} :
      LET Set == /\ \E x \in Listed : item[x].key = k /\ item[x].interval = interval
                 /\ since[k] = s
      IN  (Set /\ now >= s + n * interval) ~> (~Set \/ fires[k] >= n \/ pc = "undefined")

\* Every loop callback is called again and again: no timer keeps the dispatcher
\* in _CheckTimer, unless it lost its iterator.
LoopsServed ==
  \A i \in 1 .. MaxLoops :
    (Len(m_loop_list) >= i) ~> ((pc = "loop" /\ pos = i) \/ pc = "undefined")

=============================================================================
