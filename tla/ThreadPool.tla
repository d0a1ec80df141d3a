----------------------------- MODULE ThreadPool -----------------------------
(***************************************************************************)
(* ThreadPool.cpp: CThreadPool hands a task to a random CWorkerThread;     *)
(* each worker has its own list, guarded by a CThreadNotify (Thread.h: a   *)
(* mutex and a condition variable).  Any thread calls AddTask, a worker    *)
(* from inside the task it runs too.  A task is handed over once: the      *)
(* worker deletes it.                                                      *)
(***************************************************************************)
EXTENDS Naturals, Sequences

CONSTANTS
  Workers,        \* the CWorkerThread objects, and their threads
  Callers,        \* the other threads that add tasks
  Tasks,          \* the CTask objects
  None,           \* no thread, no task
  StartMayFail    \* may pthread_create fail? Its result is ignored

Threads == Callers \cup Workers

ASSUME ThreadPoolAssumption ==
  /\ Callers \cap Workers = {}
  /\ None \notin Threads \cup Tasks
  /\ StartMayFail \in BOOLEAN

VARIABLES
  m_task_list,        \* per worker: the list
  m_task_current_cnt, \* per worker: the length of the list, kept by hand
  m_task_cnt,         \* per worker: tasks executed
  owner,              \* per worker: the thread that holds its mutex
  wpc,                \* per worker: where Execute is
  pTask,              \* per worker: the task it took
  cpc,                \* per thread: where its call of PushTask is
  target,             \* per thread: the worker AddTask chose
  hand,               \* per thread: the task it is adding
  submitted,          \* history: tasks given to AddTask
  runs                \* history: per task, how often run() was called

wVars == <<m_task_list, m_task_current_cnt, m_task_cnt, owner, wpc, pTask>>
cVars == <<cpc, target, hand, submitted>>
vars  == <<wVars, cVars, runs>>

-----------------------------------------------------------------------------
(* CWorkerThread::Execute                                                  *)

WGoTo(w, from, to) == wpc[w] = from /\ wpc' = [wpc EXCEPT ![w] = to]

\* CThreadPool::Init starts the thread, or fails to and does not notice.
Start(w) ==
  /\ \/ WGoTo(w, "new", "lock")
     \/ StartMayFail /\ WGoTo(w, "new", "dead")
  /\ UNCHANGED <<m_task_list, m_task_current_cnt, m_task_cnt, owner, pTask,
                 cVars, runs>>

\* Lock(), also the one pthread_cond_wait performs before it returns.
Lock(w) ==
  /\ WGoTo(w, "lock", "test")
  /\ owner[w] = None
  /\ owner' = [owner EXCEPT ![w] = w]
  /\ UNCHANGED <<m_task_list, m_task_current_cnt, m_task_cnt, pTask, cVars, runs>>

\* The loop condition.  The mutex is held from here to Wait or Take.
Test(w) ==
  /\ IF m_task_list[w] = <<>> THEN WGoTo(w, "test", "sleep")
                             ELSE WGoTo(w, "test", "take")
  /\ UNCHANGED <<m_task_list, m_task_current_cnt, m_task_cnt, owner, pTask,
                 cVars, runs>>

\* Wait() releases the mutex and sleeps.
Wait(w) ==
  /\ WGoTo(w, "sleep", "wait")
  /\ owner' = [owner EXCEPT ![w] = None]
  /\ UNCHANGED <<m_task_list, m_task_current_cnt, m_task_cnt, pTask, cVars, runs>>

SpuriousWakeup(w) ==
  /\ WGoTo(w, "wait", "lock")
  /\ UNCHANGED <<m_task_list, m_task_current_cnt, m_task_cnt, owner, pTask,
                 cVars, runs>>

\* front, pop_front, and Unlock().
Take(w) ==
  /\ WGoTo(w, "take", "run")
  /\ pTask' = [pTask EXCEPT ![w] = Head(m_task_list[w])]
  /\ m_task_list' = [m_task_list EXCEPT ![w] = Tail(@)]
  /\ m_task_current_cnt' = [m_task_current_cnt EXCEPT ![w] = @ - 1]
  /\ owner' = [owner EXCEPT ![w] = None]
  /\ UNCHANGED <<m_task_cnt, cVars, runs>>

\* pTask->run(): while in "running" the worker may add tasks itself.
Run(w) ==
  /\ WGoTo(w, "run", "running")
  /\ runs' = [runs EXCEPT ![pTask[w]] = @ + 1]
  /\ UNCHANGED <<m_task_list, m_task_current_cnt, m_task_cnt, owner, pTask, cVars>>

\* run() returned: delete, count, and back to the top of the loop.
Finish(w) ==
  /\ cpc[w] = "idle"
  /\ WGoTo(w, "running", "lock")
  /\ pTask' = [pTask EXCEPT ![w] = None]
  /\ m_task_cnt' = [m_task_cnt EXCEPT ![w] = @ + 1]
  /\ UNCHANGED <<m_task_list, m_task_current_cnt, owner, cVars, runs>>

-----------------------------------------------------------------------------
(* CThreadPool::AddTask and CWorkerThread::PushTask, by thread c           *)

CGoTo(c, from, to) == cpc[c] = from /\ cpc' = [cpc EXCEPT ![c] = to]

\* random() % m_worker_size picks any worker.  Init has returned.
AddTask(c, t, w) ==
  /\ \A x \in Workers : wpc[x] # "new"
  /\ c \in Workers => wpc[c] = "running"
  /\ t \notin submitted
  /\ CGoTo(c, "idle", "lock")
  /\ target' = [target EXCEPT ![c] = w]
  /\ hand' = [hand EXCEPT ![c] = t]
  /\ submitted' = submitted \cup {t}
  /\ UNCHANGED <<wVars, runs>>

\* Mutant of PushLock: the task is pushed without the mutex.
PushLock_None(c) ==
  /\ CGoTo(c, "lock", "push")
  /\ UNCHANGED <<wVars, target, hand, submitted, runs>>

PushLock(c) ==
  /\ CGoTo(c, "lock", "push")
  /\ owner[target[c]] = None
  /\ owner' = [owner EXCEPT ![target[c]] = c]
  /\ UNCHANGED <<m_task_list, m_task_current_cnt, m_task_cnt, wpc, pTask,
                 target, hand, submitted, runs>>

\* Mutant of PushBack: the task is put in front.
PushBack_Front(c) ==
  /\ CGoTo(c, "push", "signal")
  /\ m_task_list' = [m_task_list EXCEPT ![target[c]] = <<hand[c]>> \o @]
  /\ m_task_current_cnt' = [m_task_current_cnt EXCEPT ![target[c]] = @ + 1]
  /\ hand' = [hand EXCEPT ![c] = None]
  /\ UNCHANGED <<m_task_cnt, owner, wpc, pTask, target, submitted, runs>>

PushBack(c) ==
  /\ CGoTo(c, "push", "signal")
  /\ m_task_list' = [m_task_list EXCEPT ![target[c]] = Append(@, hand[c])]
  /\ m_task_current_cnt' = [m_task_current_cnt EXCEPT ![target[c]] = @ + 1]
  /\ hand' = [hand EXCEPT ![c] = None]
  /\ UNCHANGED <<m_task_cnt, owner, wpc, pTask, target, submitted, runs>>

\* Mutant of Signal: the condition is not signalled.
Signal_None(c) ==
  /\ CGoTo(c, "signal", "unlock")
  /\ UNCHANGED <<wVars, target, hand, submitted, runs>>

\* Signal(): only the worker itself ever waits on its condition.
Signal(c) ==
  /\ CGoTo(c, "signal", "unlock")
  /\ wpc' = [wpc EXCEPT ![target[c]] = IF @ = "wait" THEN "lock" ELSE @]
  /\ UNCHANGED <<m_task_list, m_task_current_cnt, m_task_cnt, owner, pTask,
                 target, hand, submitted, runs>>

PushUnlock(c) ==
  /\ CGoTo(c, "unlock", "idle")
  /\ owner' = [owner EXCEPT ![target[c]] = None]
  /\ target' = [target EXCEPT ![c] = None]
  /\ UNCHANGED <<m_task_list, m_task_current_cnt, m_task_cnt, wpc, pTask,
                 hand, submitted, runs>>

-----------------------------------------------------------------------------
Init ==
  /\ m_task_list = [w \in Workers |-> <<>>]
  /\ m_task_current_cnt = [w \in Workers |-> 0]
  /\ m_task_cnt = [w \in Workers |-> 0]
  /\ owner = [w \in Workers |-> None]
  /\ wpc = [w \in Workers |-> "new"]
  /\ pTask = [w \in Workers |-> None]
  /\ cpc = [c \in Threads |-> "idle"]
  /\ target = [c \in Threads |-> None]
  /\ hand = [c \in Threads |-> None]
  /\ submitted = {}
  /\ runs = [t \in Tasks |-> 0]

Execute(w) ==
  \/ Start(w) \/ Lock(w) \/ Test(w) \/ Wait(w)
  \/ Take(w) \/ Run(w) \/ Finish(w)

PushTask(c) == PushLock(c) \/ PushBack(c) \/ Signal(c) \/ PushUnlock(c)

Next ==
  \/ \E w \in Workers : Execute(w) \/ SpuriousWakeup(w)
  \/ \E c \in Threads : PushTask(c)
  \/ \E c \in Threads, t \in Tasks, w \in Workers : AddTask(c, t, w)

Spec == Init /\ [][Next]_vars

\* Threads are scheduled, and a thread waiting for a mutex that is released
\* again and again gets it.  Nobody has to add a task or to wake up unasked.
Fairness ==
  /\ \A w \in Workers : WF_vars(Execute(w)) /\ SF_vars(Lock(w))
  /\ \A c \in Threads : WF_vars(PushTask(c)) /\ SF_vars(PushLock(c))

FairSpec == Spec /\ Fairness

-----------------------------------------------------------------------------
(* Properties                                                              *)

\* Types of all variables; the unsigned counters never go below zero.
TypeOK ==
  /\ m_task_list \in [Workers -> Seq(Tasks)]
  /\ m_task_current_cnt \in [Workers -> Nat]
  /\ m_task_cnt \in [Workers -> Nat]
  /\ owner \in [Workers -> Threads \cup {None}]
  /\ wpc \in [Workers -> {"new", "dead", "lock", "test", "sleep", "wait",
                       "take", "run", "running"}]
  /\ pTask \in [Workers -> Tasks \cup {None}]
  /\ cpc \in [Threads -> {"idle", "lock", "push", "signal", "unlock"}]
  /\ target \in [Threads -> Workers \cup {None}]
  /\ hand \in [Threads -> Tasks \cup {None}]
  /\ submitted \in SUBSET Tasks
  /\ runs \in [Tasks -> Nat]

\* A worker never sleeps on a non-empty list unless the thread that filled it
\* is still about to signal: the test of the loop and the wait are one critical
\* section, and PushTask signals inside its own.
NoLostWakeup ==
  \A w \in Workers :
    (wpc[w] = "wait" /\ m_task_list[w] # <<>>) =>
      \E c \in Threads : cpc[c] = "signal" /\ target[c] = w

\* run() is called at most once, so a task is also deleted at most once.
RunAtMostOnce == \A t \in Tasks : runs[t] <= 1

\* Every task given to AddTask runs, but those of a worker whose thread did not
\* start.
EveryTaskRuns ==
  \A t \in Tasks : (t \in submitted) ~>
    \/ runs[t] = 1
    \/ \E w \in Workers : wpc[w] = "dead" /\ \E i \in DOMAIN m_task_list[w] : m_task_list[w][i] = t

\* The pool implements TaskPool: first in first out per worker, executed once.
Pool == INSTANCE TaskPool WITH
  added <- {t \in submitted : \A c \in Threads : hand[c] # t},
  queue <- m_task_list, current <- pTask,
  executed <- {t \in Tasks : runs[t] > 0}

PoolSpec == Pool!Spec

=============================================================================
