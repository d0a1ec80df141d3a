-------------------------- MODULE ThreadPoolProofs --------------------------
(***************************************************************************)
(* Proofs about ThreadPool, for any number of workers, callers and tasks.  *)
(***************************************************************************)
EXTENDS ThreadPool, TLAPS

\* Who is inside the mutex of worker w.
InWorker(t, w) == t = w /\ wpc[w] \in {"test", "sleep", "take"}
InPush(t, w) == target[t] = w /\ cpc[t] \in {"push", "signal", "unlock"}

\* A mutex is owned exactly by the thread that is inside it.
MutexHeld ==
  \A w \in Workers, t \in Threads : owner[w] = t <=> InWorker(t, w) \/ InPush(t, w)

\* What the program counters say about the other variables.
Local ==
  /\ \A w \in Workers :
       /\ (pTask[w] # None) <=> wpc[w] \in {"run", "running"}
       /\ (cpc[w] # "idle") => wpc[w] = "running"
       /\ wpc[w] = "take" => m_task_list[w] # <<>>
       /\ wpc[w] = "sleep" => m_task_list[w] = <<>>
  /\ \A c \in Threads :
       /\ (hand[c] # None) <=> cpc[c] \in {"lock", "push"}
       /\ (target[c] # None) <=> cpc[c] # "idle"

\* A task that waits has been submitted and has not run.
Waiting ==
  /\ \A c \in Threads : hand[c] # None => hand[c] \in submitted /\ runs[hand[c]] = 0
  /\ \A w \in Workers : \A i \in 1 .. Len(m_task_list[w]) :
       m_task_list[w][i] \in submitted /\ runs[m_task_list[w][i]] = 0
  /\ \A w \in Workers : pTask[w] # None =>
       pTask[w] \in submitted /\ runs[pTask[w]] = IF wpc[w] = "run" THEN 0 ELSE 1
  /\ \A t \in Tasks \ submitted : runs[t] = 0

\* A task is at one place: in one hand, at one position of one list, or with
\* one worker.
OnePlace ==
  /\ \A c, d \in Threads : hand[c] # None /\ hand[c] = hand[d] => c = d
  /\ \A w, x \in Workers : pTask[w] # None /\ pTask[w] = pTask[x] => w = x
  /\ \A c \in Threads, w \in Workers : hand[c] # None => hand[c] # pTask[w]
  /\ \A w, x \in Workers : \A i \in 1 .. Len(m_task_list[w]), j \in 1 .. Len(m_task_list[x]) :
       m_task_list[w][i] = m_task_list[x][j] => w = x /\ i = j
  /\ \A w \in Workers : \A i \in 1 .. Len(m_task_list[w]) :
       /\ \A c \in Threads : m_task_list[w][i] # hand[c]
       /\ \A x \in Workers : m_task_list[w][i] # pTask[x]

\* The counter the worker logs is the length of its list.
ListCounted ==
  \A w \in Workers : m_task_current_cnt[w] = Len(m_task_list[w])

\* The inductive invariant: a filled list and a sleeping worker meet only inside
\* a PushTask because the mutex has one owner; a task runs once because it is at
\* one place and has not run while it waits there; the unsigned counter does not
\* wrap because it equals the length of the list.
IInv == /\ TypeOK /\ MutexHeld /\ Local /\ Waiting /\ OnePlace
        /\ ListCounted /\ NoLostWakeup /\ RunAtMostOnce
-----------------------------------------------------------------------------
\* A step that adds no sleeper with a filled list and takes no signal away.
LEMMA WakeupFrame ==
  ASSUME NoLostWakeup, cpc' = cpc, target' = target,
         \A x \in Workers : (wpc'[x] = "wait" /\ m_task_list'[x] # <<>>) =>
                            (wpc[x] = "wait" /\ m_task_list[x] # <<>>)
  PROVE  NoLostWakeup'
  BY DEF NoLostWakeup

\* Waiting in the next state, part by part.
LEMMA WaitingParts ==
  ASSUME \A c \in Threads : hand'[c] # None => hand'[c] \in submitted' /\ runs'[hand'[c]] = 0,
         \A w \in Workers : \A i \in 1 .. Len(m_task_list'[w]) :
           m_task_list'[w][i] \in submitted' /\ runs'[m_task_list'[w][i]] = 0,
         \A w \in Workers : pTask'[w] # None =>
           pTask'[w] \in submitted' /\ runs'[pTask'[w]] = IF wpc'[w] = "run" THEN 0 ELSE 1,
         \A t \in Tasks \ submitted' : runs'[t] = 0
  PROVE  Waiting'
  BY DEF Waiting

\* A step that moves no task keeps every task at one place.
LEMMA OnePlaceFrame ==
  ASSUME OnePlace, hand' = hand, pTask' = pTask, m_task_list' = m_task_list
  PROVE  OnePlace'
  BY DEF OnePlace

\* OnePlace in the next state, part by part.
LEMMA OnePlaceParts ==
  ASSUME \A c, d \in Threads : hand'[c] # None /\ hand'[c] = hand'[d] => c = d,
         \A w, x \in Workers : pTask'[w] # None /\ pTask'[w] = pTask'[x] => w = x,
         \A c \in Threads, w \in Workers : hand'[c] # None => hand'[c] # pTask'[w],
         \A w, x \in Workers : \A i \in 1 .. Len(m_task_list'[w]), j \in 1 .. Len(m_task_list'[x]) :
           m_task_list'[w][i] = m_task_list'[x][j] => w = x /\ i = j,
         \A w \in Workers : \A i \in 1 .. Len(m_task_list'[w]) : \A c \in Threads :
           m_task_list'[w][i] # hand'[c],
         \A w \in Workers : \A i \in 1 .. Len(m_task_list'[w]) : \A x \in Workers :
           m_task_list'[w][i] # pTask'[x]
  PROVE  OnePlace'
  BY DEF OnePlace

\* A task that is met twice in the lists was met at one position.
LEMMA OnePosition ==
  ASSUME OnePlace, NEW w \in Workers, NEW x \in Workers,
         NEW i \in 1 .. Len(m_task_list[w]), NEW j \in 1 .. Len(m_task_list[x]),
         m_task_list[w][i] = m_task_list[x][j]
  PROVE  w = x /\ i = j
  BY DEF OnePlace

\* The tasks of the lists stay where they are, and a worker loses its task.
LEMMA OnePlaceFinish ==
  ASSUME OnePlace, hand' = hand, m_task_list' = m_task_list,
         \A x \in Workers : pTask'[x] = None \/ pTask'[x] = pTask[x],
         \A x \in Workers : \A i \in 1 .. Len(m_task_list[x]) : m_task_list[x][i] # None
  PROVE  OnePlace'
<1>1. \A x, y \in Workers : pTask'[x] # None /\ pTask'[x] = pTask'[y] => x = y
  BY DEF OnePlace
<1>2. \A c \in Threads, x \in Workers : hand[c] # None => hand[c] # pTask'[x]
  BY DEF OnePlace
<1>3. \A x \in Workers : \A i \in 1 .. Len(m_task_list[x]) : \A y \in Workers :
        m_task_list[x][i] # pTask'[y]
  BY DEF OnePlace
<1>4. QED
  BY <1>1, <1>2, <1>3 DEF OnePlace

\* A new task goes into hand c.
LEMMA OnePlaceNew ==
  ASSUME OnePlace, NEW c \in Threads, NEW t, hand[c] = None, hand'[c] = t,
         \A d \in Threads : d # c => hand'[d] = hand[d],
         pTask' = pTask, m_task_list' = m_task_list,
         \A d \in Threads : hand[d] # t,
         \A x \in Workers : pTask[x] # t,
         \A x \in Workers : \A i \in 1 .. Len(m_task_list[x]) : m_task_list[x][i] # t
  PROVE  OnePlace'
<1>1. \A d, e \in Threads : hand'[d] # None /\ hand'[d] = hand'[e] => d = e
  BY DEF OnePlace
<1>2. \A d \in Threads, x \in Workers : hand'[d] # None => hand'[d] # pTask[x]
  BY DEF OnePlace
<1>3. \A x \in Workers : \A i \in 1 .. Len(m_task_list[x]) : \A d \in Threads :
        m_task_list[x][i] # hand'[d]
  BY DEF OnePlace
<1>4. QED
  BY <1>1, <1>2, <1>3 DEF OnePlace

\* The first task of list w goes to worker w.
LEMMA OnePlaceTake ==
  ASSUME OnePlace, NEW w \in Workers, hand' = hand,
         1 \in 1 .. Len(m_task_list[w]), pTask'[w] = m_task_list[w][1],
         \A x \in Workers : x # w => pTask'[x] = pTask[x],
         \A x \in Workers : \A i \in 1 .. Len(m_task_list'[x]) : \E k \in 1 .. Len(m_task_list[x]) :
           m_task_list'[x][i] = m_task_list[x][k] /\ k = IF x = w THEN i + 1 ELSE i
  PROVE  OnePlace'
<1>1. \A x, y \in Workers : pTask'[x] # None /\ pTask'[x] = pTask'[y] => x = y
  BY DEF OnePlace
<1>2. \A c \in Threads, x \in Workers : hand[c] # None => hand[c] # pTask'[x]
  BY DEF OnePlace
<1>3. \A x, y \in Workers : \A i \in 1 .. Len(m_task_list'[x]), j \in 1 .. Len(m_task_list'[y]) :
        m_task_list'[x][i] = m_task_list'[y][j] => x = y /\ i = j
  <2> SUFFICES ASSUME NEW x \in Workers, NEW y \in Workers,
                      NEW i \in 1 .. Len(m_task_list'[x]), NEW j \in 1 .. Len(m_task_list'[y]),
                      m_task_list'[x][i] = m_task_list'[y][j]
               PROVE  x = y /\ i = j
    OBVIOUS
  <2>1. PICK k \in 1 .. Len(m_task_list[x]) :
          m_task_list'[x][i] = m_task_list[x][k] /\ k = IF x = w THEN i + 1 ELSE i
    OBVIOUS
  <2>2. PICK l \in 1 .. Len(m_task_list[y]) :
          m_task_list'[y][j] = m_task_list[y][l] /\ l = IF y = w THEN j + 1 ELSE j
    OBVIOUS
  <2>3. x = y /\ k = l
    <3>1. m_task_list[x][k] = m_task_list[y][l]
      BY <2>1, <2>2
    <3>2. QED
      BY ONLY OnePlace, <3>1, OnePosition
  <2>4. QED
    BY <2>1, <2>2, <2>3
<1>4. \A x \in Workers : \A i \in 1 .. Len(m_task_list'[x]) :
        /\ \A c \in Threads : m_task_list'[x][i] # hand'[c]
        /\ \A y \in Workers : m_task_list'[x][i] # pTask'[y]
  <2> SUFFICES ASSUME NEW x \in Workers, NEW i \in 1 .. Len(m_task_list'[x])
               PROVE  /\ \A c \in Threads : m_task_list'[x][i] # hand[c]
                      /\ \A y \in Workers : m_task_list'[x][i] # pTask'[y]
    OBVIOUS
  <2>1. PICK k \in 1 .. Len(m_task_list[x]) :
          m_task_list'[x][i] = m_task_list[x][k] /\ k = IF x = w THEN i + 1 ELSE i
    OBVIOUS
  <2>2. m_task_list[x][k] # m_task_list[w][1]
    <3>1. CASE x = w
      BY <2>1, <3>1 DEF OnePlace
    <3>2. CASE x # w
      BY <3>2 DEF OnePlace
    <3>3. QED
      BY <3>1, <3>2
  <2>3. QED
    BY <2>1, <2>2 DEF OnePlace
<1>5. /\ \A c, d \in Threads : hand'[c] # None /\ hand'[c] = hand'[d] => c = d
      /\ \A c \in Threads, x \in Workers : hand'[c] # None => hand'[c] # pTask'[x]
  BY <1>2 DEF OnePlace
<1>6. /\ \A x \in Workers : \A i \in 1 .. Len(m_task_list'[x]) : \A c \in Threads :
           m_task_list'[x][i] # hand'[c]
      /\ \A x \in Workers : \A i \in 1 .. Len(m_task_list'[x]) : \A y \in Workers :
           m_task_list'[x][i] # pTask'[y]
  BY <1>4
<1>7. QED
  BY <1>1, <1>3, <1>5, <1>6, OnePlaceParts

\* The task in hand c goes behind list w.
LEMMA OnePlaceAppend ==
  ASSUME OnePlace, NEW c \in Threads, NEW w \in Workers, hand[c] # None,
         hand'[c] = None, \A d \in Threads : d # c => hand'[d] = hand[d],
         pTask' = pTask,
         \A x \in Workers : Len(m_task_list[x]) \in Nat /\ Len(m_task_list'[x]) \in Nat,
         \A x \in Workers : \A i \in 1 .. Len(m_task_list'[x]) :
           \/ i \in 1 .. Len(m_task_list[x]) /\ m_task_list'[x][i] = m_task_list[x][i]
           \/ x = w /\ i = Len(m_task_list[w]) + 1 /\ m_task_list'[x][i] = hand[c],
         \A x \in Workers : \A i \in 1 .. Len(m_task_list'[x]) : m_task_list'[x][i] # None
  PROVE  OnePlace'
<1>1. \A d, e \in Threads : hand'[d] # None /\ hand'[d] = hand'[e] => d = e
  BY DEF OnePlace
<1>2. \A d \in Threads, x \in Workers : hand'[d] # None => hand'[d] # pTask'[x]
  BY DEF OnePlace
<1>3. \A x, y \in Workers : pTask'[x] # None /\ pTask'[x] = pTask'[y] => x = y
  BY DEF OnePlace
<1>4. \A x \in Workers : \A i \in 1 .. Len(m_task_list[x]) : m_task_list[x][i] # hand[c]
  BY DEF OnePlace
<1>5. ASSUME NEW x \in Workers, NEW y \in Workers,
             NEW i \in 1 .. Len(m_task_list'[x]), NEW j \in 1 .. Len(m_task_list'[y]),
             m_task_list'[x][i] = m_task_list'[y][j]
      PROVE  x = y /\ i = j
  <2>1. CASE i \in 1 .. Len(m_task_list[x]) /\ m_task_list'[x][i] = m_task_list[x][i]
    <3>1. m_task_list'[y][j] # hand[c]
      BY <1>4, <1>5, <2>1
    <3>2. j \in 1 .. Len(m_task_list[y]) /\ m_task_list'[y][j] = m_task_list[y][j]
      BY <3>1
    <3>3. m_task_list[x][i] = m_task_list[y][j]
      BY <1>5, <2>1, <3>2
    <3>4. QED
      BY <2>1, <3>2, <3>3, OnePosition
  <2>2. CASE x = w /\ i = Len(m_task_list[w]) + 1 /\ m_task_list'[x][i] = hand[c]
    <3>1. y = w /\ j = Len(m_task_list[w]) + 1
      BY <1>4, <1>5, <2>2
    <3>2. QED
      BY <2>2, <3>1
  <2>3. QED
    BY <2>1, <2>2
<1>6. ASSUME NEW x \in Workers, NEW i \in 1 .. Len(m_task_list'[x])
      PROVE  /\ \A d \in Threads : m_task_list'[x][i] # hand'[d]
             /\ \A y \in Workers : m_task_list'[x][i] # pTask'[y]
  <2>1. CASE i \in 1 .. Len(m_task_list[x]) /\ m_task_list'[x][i] = m_task_list[x][i]
    BY <2>1 DEF OnePlace
  <2>2. CASE m_task_list'[x][i] = hand[c]
    BY <2>2 DEF OnePlace
  <2>3. QED
    BY <2>1, <2>2
<1>7. QED
  BY <1>1, <1>2, <1>3, <1>5, <1>6, OnePlaceParts

\* The invariant holds initially.
LEMMA InitInv == Init => IInv
<1> SUFFICES ASSUME Init PROVE IInv
  OBVIOUS
<1> USE ThreadPoolAssumption DEF Init, Threads
<1>1. TypeOK
  BY DEF TypeOK
<1>2. MutexHeld
  BY DEF MutexHeld, InWorker, InPush
<1>3. Local
  BY DEF Local
<1>4. Waiting
  BY DEF Waiting
<1>5. OnePlace
  BY DEF OnePlace
<1>6. ListCounted
  BY DEF ListCounted
<1>7. NoLostWakeup
  BY DEF NoLostWakeup
<1>8. RunAtMostOnce
  BY DEF RunAtMostOnce
<1> QED
  BY <1>1, <1>2, <1>3, <1>4, <1>5, <1>6, <1>7, <1>8 DEF IInv

\* Every Start step keeps the inductive invariant.
LEMMA StartStep ==
  ASSUME IInv, NEW w \in Workers, Start(w)
  PROVE  IInv'
<1> USE ThreadPoolAssumption DEF IInv, TypeOK, Start, WGoTo, CGoTo, wVars, cVars, Threads
<1>1. TypeOK'
  BY DEF Local
<1>2. MutexHeld'
  BY DEF Local, MutexHeld, InWorker, InPush
<1>3. Local'
  BY DEF Local, MutexHeld, InWorker, InPush
<1>4. Waiting'
  BY DEF Waiting, Local, OnePlace
<1>5. OnePlace'
  BY DEF OnePlace, Local, Waiting
<1>6. ListCounted'
  BY DEF ListCounted
<1>7. NoLostWakeup'
  <2>1. cpc' = cpc /\ target' = target
    OBVIOUS
  <2>2. ASSUME NEW x \in Workers, wpc'[x] = "wait", m_task_list'[x] # <<>>
        PROVE  wpc[x] = "wait" /\ m_task_list[x] # <<>>
    BY <2>2
  <2>3. QED
    BY <2>1, <2>2, WakeupFrame
<1>8. RunAtMostOnce'
  BY DEF RunAtMostOnce, Waiting, Local
<1> QED
  BY <1>1, <1>2, <1>3, <1>4, <1>5, <1>6, <1>7, <1>8

\* Every Lock step keeps the inductive invariant.
LEMMA LockStep ==
  ASSUME IInv, NEW w \in Workers, Lock(w)
  PROVE  IInv'
<1> USE ThreadPoolAssumption DEF IInv, TypeOK, Lock, WGoTo, CGoTo, wVars, cVars, Threads
<1>1. TypeOK'
  BY DEF Local
<1>2. MutexHeld'
  BY DEF Local, MutexHeld, InWorker, InPush
<1>3. Local'
  BY DEF Local, MutexHeld, InWorker, InPush
<1>4. Waiting'
  BY DEF Waiting, Local, OnePlace
<1>5. OnePlace'
  BY DEF OnePlace, Local, Waiting
<1>6. ListCounted'
  BY DEF ListCounted
<1>7. NoLostWakeup'
  <2>1. cpc' = cpc /\ target' = target
    OBVIOUS
  <2>2. ASSUME NEW x \in Workers, wpc'[x] = "wait", m_task_list'[x] # <<>>
        PROVE  wpc[x] = "wait" /\ m_task_list[x] # <<>>
    BY <2>2
  <2>3. QED
    BY <2>1, <2>2, WakeupFrame
<1>8. RunAtMostOnce'
  BY DEF RunAtMostOnce, Waiting, Local
<1> QED
  BY <1>1, <1>2, <1>3, <1>4, <1>5, <1>6, <1>7, <1>8

\* Every Test step keeps the inductive invariant.
LEMMA TestStep ==
  ASSUME IInv, NEW w \in Workers, Test(w)
  PROVE  IInv'
<1> USE ThreadPoolAssumption DEF IInv, TypeOK, Test, WGoTo, CGoTo, wVars, cVars, Threads
<1>1. TypeOK'
  BY DEF Local
<1>2. MutexHeld'
  BY DEF Local, MutexHeld, InWorker, InPush
<1>3. Local'
  BY DEF Local, MutexHeld, InWorker, InPush
<1>4. Waiting'
  BY DEF Waiting, Local, OnePlace
<1>5. OnePlace'
  BY DEF OnePlace, Local, Waiting
<1>6. ListCounted'
  BY DEF ListCounted
<1>7. NoLostWakeup'
  <2>1. cpc' = cpc /\ target' = target
    OBVIOUS
  <2>2. ASSUME NEW x \in Workers, wpc'[x] = "wait", m_task_list'[x] # <<>>
        PROVE  wpc[x] = "wait" /\ m_task_list[x] # <<>>
    BY <2>2
  <2>3. QED
    BY <2>1, <2>2, WakeupFrame
<1>8. RunAtMostOnce'
  BY DEF RunAtMostOnce, Waiting, Local
<1> QED
  BY <1>1, <1>2, <1>3, <1>4, <1>5, <1>6, <1>7, <1>8

\* Every Wait step keeps the inductive invariant.
LEMMA WaitStep ==
  ASSUME IInv, NEW w \in Workers, Wait(w)
  PROVE  IInv'
<1> USE ThreadPoolAssumption DEF IInv, TypeOK, Wait, WGoTo, CGoTo, wVars, cVars, Threads
<1>1. TypeOK'
  BY DEF Local
<1>2. MutexHeld'
  BY DEF Local, MutexHeld, InWorker, InPush
<1>3. Local'
  BY DEF Local, MutexHeld, InWorker, InPush
<1>4. Waiting'
  BY DEF Waiting, Local, OnePlace
<1>5. OnePlace'
  BY DEF OnePlace, Local, Waiting
<1>6. ListCounted'
  BY DEF ListCounted
<1>7. NoLostWakeup'
  <2>1. cpc' = cpc /\ target' = target
    OBVIOUS
  <2>2. ASSUME NEW x \in Workers, wpc'[x] = "wait", m_task_list'[x] # <<>>
        PROVE  wpc[x] = "wait" /\ m_task_list[x] # <<>>
    BY <2>2 DEF Local
  <2>3. QED
    BY <2>1, <2>2, WakeupFrame
<1>8. RunAtMostOnce'
  BY DEF RunAtMostOnce, Waiting, Local
<1> QED
  BY <1>1, <1>2, <1>3, <1>4, <1>5, <1>6, <1>7, <1>8

\* Every SpuriousWakeup step keeps the inductive invariant.
LEMMA SpuriousWakeupStep ==
  ASSUME IInv, NEW w \in Workers, SpuriousWakeup(w)
  PROVE  IInv'
<1> USE ThreadPoolAssumption DEF IInv, TypeOK, SpuriousWakeup, WGoTo, CGoTo, wVars, cVars, Threads
<1>1. TypeOK'
  BY DEF Local
<1>2. MutexHeld'
  BY DEF Local, MutexHeld, InWorker, InPush
<1>3. Local'
  BY DEF Local, MutexHeld, InWorker, InPush
<1>4. Waiting'
  BY DEF Waiting, Local, OnePlace
<1>5. OnePlace'
  BY DEF OnePlace, Local, Waiting
<1>6. ListCounted'
  BY DEF ListCounted
<1>7. NoLostWakeup'
  <2>1. cpc' = cpc /\ target' = target
    OBVIOUS
  <2>2. ASSUME NEW x \in Workers, wpc'[x] = "wait", m_task_list'[x] # <<>>
        PROVE  wpc[x] = "wait" /\ m_task_list[x] # <<>>
    BY <2>2
  <2>3. QED
    BY <2>1, <2>2, WakeupFrame
<1>8. RunAtMostOnce'
  BY DEF RunAtMostOnce, Waiting, Local
<1> QED
  BY <1>1, <1>2, <1>3, <1>4, <1>5, <1>6, <1>7, <1>8

\* Every Take step keeps the inductive invariant.
LEMMA TakeStep ==
  ASSUME IInv, NEW w \in Workers, Take(w)
  PROVE  IInv'
<1> USE ThreadPoolAssumption DEF IInv, TypeOK, Take, WGoTo, CGoTo, wVars, cVars, Threads
<1>a. /\ m_task_list[w] \in Seq(Tasks) /\ m_task_list[w] # <<>>
      /\ Head(m_task_list[w]) = m_task_list[w][1]
      /\ Len(m_task_list[w]) \in Nat \ {0}
      /\ m_task_list[w][1] \in Tasks
      /\ 1 \in 1 .. Len(m_task_list[w])
  BY DEF Local
<1>b. /\ Tail(m_task_list[w]) \in Seq(Tasks)
      /\ Len(Tail(m_task_list[w])) = Len(m_task_list[w]) - 1
      /\ \A i \in 1 .. Len(m_task_list[w]) - 1 :
           Tail(m_task_list[w])[i] = m_task_list[w][i + 1]
  BY <1>a
<1>c. /\ m_task_list' = [m_task_list EXCEPT ![w] = Tail(@)]
      /\ pTask' = [pTask EXCEPT ![w] = m_task_list[w][1]]
      /\ m_task_list'[w] = Tail(m_task_list[w])
      /\ \A x \in Workers \ {w} : m_task_list'[x] = m_task_list[x]
  BY <1>a
<1>d. m_task_current_cnt[w] = Len(m_task_list[w])
  BY DEF ListCounted
<1>1. TypeOK'
  <2>1. m_task_current_cnt' \in [Workers -> Nat]
    BY <1>a, <1>d
  <2>2. m_task_list' \in [Workers -> Seq(Tasks)]
    BY <1>b, <1>c
  <2>3. pTask' \in [Workers -> Tasks \cup {None}]
    BY <1>a, <1>c
  <2>4. QED
    BY <2>1, <2>2, <2>3
<1>2. MutexHeld'
  BY DEF Local, MutexHeld, InWorker, InPush
<1>3. Local'
  BY <1>a, <1>c DEF Local, MutexHeld, InWorker, InPush
\* Where a task of the new lists was before.
<1>e. \A x \in Workers : \A i \in 1 .. Len(m_task_list'[x]) : \E k \in 1 .. Len(m_task_list[x]) :
        m_task_list'[x][i] = m_task_list[x][k] /\ k = IF x = w THEN i + 1 ELSE i
  <2> SUFFICES ASSUME NEW x \in Workers, NEW i \in 1 .. Len(m_task_list'[x])
               PROVE  \E k \in 1 .. Len(m_task_list[x]) :
                        m_task_list'[x][i] = m_task_list[x][k] /\ k = IF x = w THEN i + 1 ELSE i
    OBVIOUS
  <2>1. CASE x = w
    <3>1. i \in 1 .. Len(m_task_list[w]) - 1 /\ m_task_list'[w] = Tail(m_task_list[w])
      BY <1>b, <1>c, <2>1
    <3>2. i + 1 \in 1 .. Len(m_task_list[w]) /\ m_task_list'[w][i] = m_task_list[w][i + 1]
      BY <1>a, <1>b, <3>1
    <3>3. QED
      BY <2>1, <3>2
  <2>2. CASE x # w
    BY <1>c, <2>2
  <2>3. QED
    BY <2>1, <2>2
<1>4. Waiting'
  <2>1. hand' = hand /\ runs' = runs /\ submitted' = submitted
    OBVIOUS
  <2>2. \A c \in Threads : hand'[c] # None => hand'[c] \in submitted' /\ runs'[hand'[c]] = 0
    BY <2>1 DEF Waiting
  <2>3. ASSUME NEW x \in Workers, NEW i \in 1 .. Len(m_task_list'[x])
        PROVE  m_task_list'[x][i] \in submitted' /\ runs'[m_task_list'[x][i]] = 0
    <3>1. PICK k \in 1 .. Len(m_task_list[x]) : m_task_list'[x][i] = m_task_list[x][k]
      BY ONLY <1>e, x \in Workers, i \in 1 .. Len(m_task_list'[x])
    <3>2. m_task_list[x][k] \in submitted /\ runs[m_task_list[x][k]] = 0
      BY DEF Waiting
    <3>3. QED
      BY <2>1, <3>1, <3>2
  <2>4. ASSUME NEW x \in Workers, pTask'[x] # None
        PROVE  pTask'[x] \in submitted' /\ runs'[pTask'[x]] = IF wpc'[x] = "run" THEN 0 ELSE 1
    <3>1. CASE x = w
      <4>1. pTask'[x] = m_task_list[w][1] /\ wpc'[x] = "run"
        BY <1>c, <3>1
      <4>2. m_task_list[w][1] \in submitted /\ runs[m_task_list[w][1]] = 0
        BY <1>a DEF Waiting
      <4>3. QED
        BY <2>1, <4>1, <4>2
    <3>2. CASE x # w
      <4>1. pTask'[x] = pTask[x] /\ wpc'[x] = wpc[x]
        BY <1>c, <3>2
      <4>2. QED
        BY <2>1, <2>4, <4>1 DEF Waiting
    <3>3. QED
      BY <3>1, <3>2
  <2>5. \A t \in Tasks \ submitted' : runs'[t] = 0
    BY <2>1 DEF Waiting
  <2>6. QED
    BY <2>2, <2>3, <2>4, <2>5, WaitingParts
<1>5. OnePlace'
  <2>1. /\ hand' = hand /\ pTask'[w] = m_task_list[w][1]
        /\ \A x \in Workers : x # w => pTask'[x] = pTask[x]
    BY <1>c
  <2>2. QED
    BY <1>a, <1>e, <2>1, OnePlaceTake
<1>6. ListCounted'
  BY <1>a, <1>b, <1>c, <1>d DEF ListCounted
<1>7. NoLostWakeup'
  <2>1. cpc' = cpc /\ target' = target
    OBVIOUS
  <2>2. ASSUME NEW x \in Workers, wpc'[x] = "wait", m_task_list'[x] # <<>>
        PROVE  wpc[x] = "wait" /\ m_task_list[x] # <<>>
    <3>1. x # w
      BY <2>2
    <3>2. QED
      BY <1>c, <2>2, <3>1
  <2>3. QED
    BY <2>1, <2>2, WakeupFrame
<1>8. RunAtMostOnce'
  BY DEF RunAtMostOnce
<1> QED
  BY <1>1, <1>2, <1>3, <1>4, <1>5, <1>6, <1>7, <1>8

\* Every Run step keeps the inductive invariant.
LEMMA RunStep ==
  ASSUME IInv, NEW w \in Workers, Run(w)
  PROVE  IInv'
<1> USE ThreadPoolAssumption DEF IInv, TypeOK, Run, WGoTo, CGoTo, wVars, cVars, Threads
<1>1. TypeOK'
  BY DEF Local
<1>2. MutexHeld'
  BY DEF Local, MutexHeld, InWorker, InPush
<1>3. Local'
  BY DEF Local, MutexHeld, InWorker, InPush
<1>4. Waiting'
  BY DEF Waiting, Local, OnePlace
<1>5. OnePlace'
  BY DEF OnePlace, Local, Waiting
<1>6. ListCounted'
  BY DEF ListCounted
<1>7. NoLostWakeup'
  <2>1. cpc' = cpc /\ target' = target
    OBVIOUS
  <2>2. ASSUME NEW x \in Workers, wpc'[x] = "wait", m_task_list'[x] # <<>>
        PROVE  wpc[x] = "wait" /\ m_task_list[x] # <<>>
    BY <2>2
  <2>3. QED
    BY <2>1, <2>2, WakeupFrame
<1>8. RunAtMostOnce'
  BY DEF RunAtMostOnce, Waiting, Local
<1> QED
  BY <1>1, <1>2, <1>3, <1>4, <1>5, <1>6, <1>7, <1>8

\* Every Finish step keeps the inductive invariant.
LEMMA FinishStep ==
  ASSUME IInv, NEW w \in Workers, Finish(w)
  PROVE  IInv'
<1> USE ThreadPoolAssumption DEF IInv, TypeOK, Finish, WGoTo, CGoTo, wVars, cVars, Threads
<1>1. TypeOK'
  BY DEF Local
<1>2. MutexHeld'
  BY DEF Local, MutexHeld, InWorker, InPush
<1>3. Local'
  BY DEF Local, MutexHeld, InWorker, InPush
<1>4. Waiting'
  BY DEF Waiting, Local, OnePlace
<1>5. OnePlace'
  <2>1. /\ hand' = hand /\ m_task_list' = m_task_list
        /\ \A x \in Workers : pTask'[x] = None \/ pTask'[x] = pTask[x]
    OBVIOUS
  <2>2. \A x \in Workers : \A i \in 1 .. Len(m_task_list[x]) : m_task_list[x][i] # None
    OBVIOUS
  <2>3. QED
    BY <2>1, <2>2, OnePlaceFinish
<1>6. ListCounted'
  BY DEF ListCounted
<1>7. NoLostWakeup'
  BY DEF NoLostWakeup, Local, MutexHeld, InWorker, InPush
<1>8. RunAtMostOnce'
  BY DEF RunAtMostOnce, Waiting, Local
<1> QED
  BY <1>1, <1>2, <1>3, <1>4, <1>5, <1>6, <1>7, <1>8

\* Every PushLock step keeps the inductive invariant.
LEMMA PushLockStep ==
  ASSUME IInv, NEW c \in Threads, PushLock(c)
  PROVE  IInv'
<1> USE ThreadPoolAssumption DEF IInv, TypeOK, PushLock, WGoTo, CGoTo, wVars, cVars, Threads
<1>1. TypeOK'
  BY DEF Local
<1>2. MutexHeld'
  BY DEF Local, MutexHeld, InWorker, InPush
<1>3. Local'
  BY DEF Local, MutexHeld, InWorker, InPush
<1>4. Waiting'
  BY DEF Waiting, Local, OnePlace
<1>5. OnePlace'
  BY OnePlaceFrame
<1>6. ListCounted'
  BY DEF ListCounted
<1>7. NoLostWakeup'
  <2> SUFFICES ASSUME NEW x \in Workers, wpc[x] = "wait", m_task_list[x] # <<>>
               PROVE  \E d \in Threads : cpc'[d] = "signal" /\ target'[d] = x
    BY DEF NoLostWakeup
  <2>1. PICK d \in Threads : cpc[d] = "signal" /\ target[d] = x
    BY DEF NoLostWakeup
  <2>2. QED
    BY <2>1
<1>8. RunAtMostOnce'
  BY DEF RunAtMostOnce, Waiting, Local
<1> QED
  BY <1>1, <1>2, <1>3, <1>4, <1>5, <1>6, <1>7, <1>8

\* Every PushBack step keeps the inductive invariant.
LEMMA PushBackStep ==
  ASSUME IInv, NEW c \in Threads, PushBack(c)
  PROVE  IInv'
<1> USE ThreadPoolAssumption DEF IInv, TypeOK, PushBack, WGoTo, CGoTo, wVars, cVars, Threads
<1> DEFINE w == target[c]
<1>a. /\ w \in Workers /\ hand[c] \in Tasks /\ hand[c] # None
      /\ m_task_list[w] \in Seq(Tasks) /\ Len(m_task_list[w]) \in Nat
  BY DEF Local
<1>b. /\ m_task_list'[w] = Append(m_task_list[w], hand[c])
      /\ \A x \in Workers \ {w} : m_task_list'[x] = m_task_list[x]
      /\ hand' = [hand EXCEPT ![c] = None]
  BY <1>a
<1>c. /\ m_task_list'[w] \in Seq(Tasks)
      /\ Len(m_task_list'[w]) = Len(m_task_list[w]) + 1
      /\ m_task_list'[w][Len(m_task_list[w]) + 1] = hand[c]
      /\ \A i \in 1 .. Len(m_task_list[w]) : m_task_list'[w][i] = m_task_list[w][i]
  BY <1>a, <1>b
\* A task of the new lists was at the same place before, or in the hand.
<1>d. ASSUME NEW x \in Workers, NEW i \in 1 .. Len(m_task_list'[x])
      PROVE  \/ i \in 1 .. Len(m_task_list[x]) /\ m_task_list'[x][i] = m_task_list[x][i]
             \/ x = w /\ i = Len(m_task_list[w]) + 1 /\ m_task_list'[x][i] = hand[c]
  BY <1>a, <1>b, <1>c
<1> HIDE DEF w
<1>1. TypeOK'
  <2>1. /\ m_task_current_cnt' = [m_task_current_cnt EXCEPT ![w] = @ + 1]
        /\ cpc' = [cpc EXCEPT ![c] = "signal"]
        /\ m_task_list' = [m_task_list EXCEPT ![w] = m_task_list'[w]]
    <3>1. /\ m_task_current_cnt' = [m_task_current_cnt EXCEPT ![w] = @ + 1]
          /\ cpc' = [cpc EXCEPT ![c] = "signal"]
          /\ m_task_list' = [m_task_list EXCEPT ![w] = Append(@, hand[c])]
      BY DEF w
    <3>2. QED
      BY <3>1
  <2>2. m_task_list' \in [Workers -> Seq(Tasks)]
    BY <1>a, <1>c, <2>1
  <2>3. m_task_current_cnt' \in [Workers -> Nat]
    BY <1>a, <2>1
  <2>4. hand' \in [Threads -> Tasks \cup {None}]
    BY <1>b
  <2>5. cpc' \in [Threads -> {"idle", "lock", "push", "signal", "unlock"}]
    BY <2>1
  <2>6. QED
    BY <2>2, <2>3, <2>4, <2>5
<1>2. MutexHeld'
  BY DEF Local, MutexHeld, InWorker, InPush
<1>3. Local'
  BY DEF Local, MutexHeld, InWorker, InPush
<1>4. Waiting'
  <2>1. runs' = runs /\ submitted' = submitted /\ pTask' = pTask /\ wpc' = wpc
    OBVIOUS
  <2>2. \A d \in Threads : hand'[d] # None => hand'[d] = hand[d]
    BY <1>b
  <2>3. \A d \in Threads : hand'[d] # None => hand'[d] \in submitted' /\ runs'[hand'[d]] = 0
    BY <2>1, <2>2 DEF Waiting
  <2>4. hand[c] \in submitted /\ runs[hand[c]] = 0
    BY <1>a DEF Waiting
  <2>5. ASSUME NEW x \in Workers, NEW i \in 1 .. Len(m_task_list'[x])
        PROVE  m_task_list'[x][i] \in submitted' /\ runs'[m_task_list'[x][i]] = 0
    <3>1. CASE i \in 1 .. Len(m_task_list[x]) /\ m_task_list'[x][i] = m_task_list[x][i]
      BY <2>1, <3>1 DEF Waiting
    <3>2. CASE m_task_list'[x][i] = hand[c]
      BY <2>1, <2>4, <3>2
    <3>3. QED
      BY <1>d, <3>1, <3>2
  <2>6. \A x \in Workers : pTask'[x] # None =>
          pTask'[x] \in submitted' /\ runs'[pTask'[x]] = IF wpc'[x] = "run" THEN 0 ELSE 1
    BY <2>1 DEF Waiting
  <2>7. \A t \in Tasks \ submitted' : runs'[t] = 0
    BY <2>1 DEF Waiting
  <2>8. QED
    BY <2>3, <2>5, <2>6, <2>7, WaitingParts
<1>5. OnePlace'
  <2>1. /\ pTask' = pTask /\ hand'[c] = None
        /\ \A d \in Threads : d # c => hand'[d] = hand[d]
    BY <1>b
  <2>2. \A x \in Workers : Len(m_task_list[x]) \in Nat /\ Len(m_task_list'[x]) \in Nat
    BY <1>1
  <2>3. \A x \in Workers : \A i \in 1 .. Len(m_task_list'[x]) : m_task_list'[x][i] # None
    <3>1. \A x \in Workers : m_task_list'[x] \in Seq(Tasks)
      BY <1>1
    <3>2. QED
      BY <3>1
  <2>4. \A x \in Workers : \A i \in 1 .. Len(m_task_list'[x]) :
          \/ i \in 1 .. Len(m_task_list[x]) /\ m_task_list'[x][i] = m_task_list[x][i]
          \/ x = w /\ i = Len(m_task_list[w]) + 1 /\ m_task_list'[x][i] = hand[c]
    BY <1>d
  <2>5. OnePlace /\ w \in Workers /\ hand[c] # None
    BY <1>a
  <2>6. QED
    BY ONLY <2>1, <2>2, <2>3, <2>4, <2>5, c \in Threads, OnePlaceAppend
<1>6. ListCounted'
  BY DEF ListCounted
<1>7. NoLostWakeup'
  <2> SUFFICES ASSUME NEW x \in Workers, wpc'[x] = "wait", m_task_list'[x] # <<>>
               PROVE  \E d \in Threads : cpc'[d] = "signal" /\ target'[d] = x
    BY DEF NoLostWakeup
  <2>1. CASE x = w
    BY <2>1 DEF w
  <2>2. CASE x # w
    <3>1. PICK d \in Threads : cpc[d] = "signal" /\ target[d] = x
      BY <1>b, <2>2 DEF NoLostWakeup
    <3>2. QED
      BY <3>1
  <2>3. QED
    BY <2>1, <2>2
<1>8. RunAtMostOnce'
  BY DEF RunAtMostOnce, Waiting, Local
<1> QED
  BY <1>1, <1>2, <1>3, <1>4, <1>5, <1>6, <1>7, <1>8

\* Every Signal step keeps the inductive invariant.
LEMMA SignalStep ==
  ASSUME IInv, NEW c \in Threads, Signal(c)
  PROVE  IInv'
<1> USE ThreadPoolAssumption DEF IInv, TypeOK, Signal, WGoTo, CGoTo, wVars, cVars, Threads
<1>1. TypeOK'
  BY DEF Local
<1>2. MutexHeld'
  BY DEF Local, MutexHeld, InWorker, InPush
<1>3. Local'
  BY DEF Local, MutexHeld, InWorker, InPush
<1>4. Waiting'
  BY DEF Waiting, Local, OnePlace
<1>5. OnePlace'
  BY DEF OnePlace, Local, Waiting
<1>6. ListCounted'
  BY DEF ListCounted
<1>7. NoLostWakeup'
  <2> SUFFICES ASSUME NEW x \in Workers, wpc'[x] = "wait", m_task_list[x] # <<>>
               PROVE  \E d \in Threads : cpc'[d] = "signal" /\ target[d] = x
    BY DEF NoLostWakeup
  <2>1. target[c] \in Workers /\ wpc'[target[c]] # "wait"
    BY DEF Local
  <2>2. x # target[c] /\ wpc[x] = "wait"
    BY <2>1
  <2>3. PICK d \in Threads : cpc[d] = "signal" /\ target[d] = x
    BY <2>2 DEF NoLostWakeup
  <2>4. QED
    BY <2>2, <2>3
<1>8. RunAtMostOnce'
  BY DEF RunAtMostOnce, Waiting, Local
<1> QED
  BY <1>1, <1>2, <1>3, <1>4, <1>5, <1>6, <1>7, <1>8

\* Every PushUnlock step keeps the inductive invariant.
LEMMA PushUnlockStep ==
  ASSUME IInv, NEW c \in Threads, PushUnlock(c)
  PROVE  IInv'
<1> USE ThreadPoolAssumption DEF IInv, TypeOK, PushUnlock, WGoTo, CGoTo, wVars, cVars, Threads
<1>1. TypeOK'
  BY DEF Local
<1>2. MutexHeld'
  BY DEF Local, MutexHeld, InWorker, InPush
<1>3. Local'
  BY DEF Local, MutexHeld, InWorker, InPush
<1>4. Waiting'
  BY DEF Waiting, Local, OnePlace
<1>5. OnePlace'
  BY DEF OnePlace, Local, Waiting
<1>6. ListCounted'
  BY DEF ListCounted
<1>7. NoLostWakeup'
  BY DEF NoLostWakeup, Local, MutexHeld, InWorker, InPush
<1>8. RunAtMostOnce'
  BY DEF RunAtMostOnce, Waiting, Local
<1> QED
  BY <1>1, <1>2, <1>3, <1>4, <1>5, <1>6, <1>7, <1>8

\* Every AddTask step keeps the inductive invariant.
LEMMA AddTaskStep ==
  ASSUME IInv, NEW c \in Threads, NEW t \in Tasks, NEW w \in Workers, AddTask(c, t, w)
  PROVE  IInv'
<1> USE ThreadPoolAssumption DEF IInv, TypeOK, AddTask, WGoTo, CGoTo, wVars, cVars, Threads
<1>1. TypeOK'
  BY DEF Local
<1>2. MutexHeld'
  BY DEF Local, MutexHeld, InWorker, InPush
<1>3. Local'
  BY DEF Local, MutexHeld, InWorker, InPush
<1>4. Waiting'
  BY DEF Waiting, Local, OnePlace
<1>5. OnePlace'
  <2>1. /\ hand[c] = None /\ hand'[c] = t
        /\ \A d \in Threads : d # c => hand'[d] = hand[d]
        /\ pTask' = pTask /\ m_task_list' = m_task_list
    BY DEF Local
  <2>2. /\ \A d \in Threads : hand[d] # t
        /\ \A x \in Workers : pTask[x] # t
        /\ \A x \in Workers : \A i \in 1 .. Len(m_task_list[x]) : m_task_list[x][i] # t
    BY DEF Waiting
  <2>3. QED
    BY <2>1, <2>2, OnePlaceNew
<1>6. ListCounted'
  BY DEF ListCounted
<1>7. NoLostWakeup'
  BY DEF NoLostWakeup, Local, MutexHeld, InWorker, InPush
<1>8. RunAtMostOnce'
  BY DEF RunAtMostOnce, Waiting, Local
<1> QED
  BY <1>1, <1>2, <1>3, <1>4, <1>5, <1>6, <1>7, <1>8

\* A step that changes nothing.
LEMMA StutterStep == IInv /\ UNCHANGED vars => IInv'
<1> SUFFICES ASSUME IInv, UNCHANGED vars PROVE IInv'
  OBVIOUS
<1> USE DEF vars, wVars, cVars, IInv
<1>1. TypeOK' /\ Local' /\ MutexHeld'
  BY DEF TypeOK, Local, MutexHeld, InWorker, InPush
<1>2. Waiting' /\ OnePlace'
  BY DEF Waiting, OnePlace
<1>3. ListCounted' /\ NoLostWakeup' /\ RunAtMostOnce'
  BY DEF ListCounted, NoLostWakeup, RunAtMostOnce
<1> QED
  BY <1>1, <1>2, <1>3

\* Every Next step keeps the inductive invariant.
LEMMA NextStep == IInv /\ [Next]_vars => IInv'
<1> SUFFICES ASSUME IInv, [Next]_vars PROVE IInv'
  OBVIOUS
<1>1. ASSUME NEW w \in Workers, Execute(w) \/ SpuriousWakeup(w) PROVE IInv'
  BY <1>1, StartStep, LockStep, TestStep, WaitStep, TakeStep, RunStep, FinishStep,
     SpuriousWakeupStep DEF Execute
<1>2. ASSUME NEW c \in Threads, PushTask(c) PROVE IInv'
  BY <1>2, PushLockStep, PushBackStep, SignalStep, PushUnlockStep DEF PushTask
<1>3. ASSUME NEW c \in Threads, NEW t \in Tasks, NEW w \in Workers, AddTask(c, t, w)
      PROVE  IInv'
  BY <1>3, AddTaskStep
<1>4. CASE UNCHANGED vars
  BY <1>4, StutterStep
<1> QED
  BY <1>1, <1>2, <1>3, <1>4 DEF Next

\* The inductive invariant holds in every reachable state.
THEOREM Invariance == Spec => []IInv
<1>1. IInv /\ [Next]_vars => IInv'
  BY NextStep
<1> QED
  BY InitInv, <1>1, PTL DEF Spec

\* Type correctness: in particular the counter of a list never wraps below zero.
THEOREM TypeCorrect == Spec => []TypeOK
<1>1. IInv => TypeOK
  BY DEF IInv
<1> QED
  BY <1>1, Invariance, PTL

\* Execute sleeps on a filled list only while PushTask is about to signal.
THEOREM WakeupsNotLost == Spec => []NoLostWakeup
<1>1. IInv => NoLostWakeup
  BY DEF IInv
<1> QED
  BY <1>1, Invariance, PTL

\* No task is run twice, hence none is deleted twice.
THEOREM TasksRunAtMostOnce == Spec => []RunAtMostOnce
<1>1. IInv => RunAtMostOnce
  BY DEF IInv
<1> QED
  BY <1>1, Invariance, PTL

-----------------------------------------------------------------------------
(* The pool implements TaskPool.                                           *)

Added == {t \in submitted : \A c \in Threads : hand[c] # t}
Executed == {t \in Tasks : runs[t] > 0}

\* The initial states are initial states of the pool.
LEMMA PoolInit == Init => Pool!Init
<1> SUFFICES ASSUME Init PROVE Pool!Init
  OBVIOUS
<1>1. \A t \in Tasks : ~(runs[t] > 0)
  BY DEF Init
<1> QED
  BY <1>1 DEF Init, Pool!Init

\* Steps that touch neither lists, current tasks nor runs, and hide no task.
LEMMA PoolStutter ==
  ASSUME m_task_list' = m_task_list, pTask' = pTask, runs' = runs, Added' = Added
  PROVE  UNCHANGED Pool!vars
  BY DEF Pool!vars, Added

\* Every step is a step of the pool or a stutter.
LEMMA PoolStep == IInv /\ [Next]_vars => [Pool!Next]_(Pool!vars)
<1> SUFFICES ASSUME IInv, [Next]_vars PROVE Pool!Next \/ UNCHANGED Pool!vars
  OBVIOUS
<1> USE ThreadPoolAssumption
<1>1. ASSUME NEW w \in Workers,
             Start(w) \/ Lock(w) \/ Test(w) \/ Wait(w) \/ SpuriousWakeup(w)
      PROVE  UNCHANGED Pool!vars
  BY <1>1, PoolStutter
     DEF Start, Lock, Test, Wait, SpuriousWakeup, wVars, cVars, Added
<1>2. ASSUME NEW w \in Workers, Take(w) PROVE Pool!Next
  <2>1. pTask[w] = None /\ m_task_list[w] # <<>>
    BY <1>2 DEF Take, WGoTo, IInv, Local, TypeOK
  <2>2. Added' = Added /\ Executed' = Executed
    BY <1>2 DEF Take, cVars, Added, Executed
  <2>3. Pool!Take(w)
    BY <1>2, <2>1, <2>2 DEF Take, Pool!Take, Added, Executed
  <2>4. QED
    BY <2>3 DEF Pool!Next
<1>3. ASSUME NEW w \in Workers, Run(w) PROVE Pool!Next
  <2>1. /\ pTask[w] \in Tasks /\ pTask[w] # None
        /\ runs[pTask[w]] = 0 /\ runs' = [runs EXCEPT ![pTask[w]] = @ + 1]
    BY <1>3 DEF Run, WGoTo, IInv, Local, Waiting, TypeOK
  <2>2. runs \in [Tasks -> Nat]
    BY DEF IInv, TypeOK
  <2>3. Executed' = Executed \cup {pTask[w]} /\ pTask[w] \notin Executed
    BY <2>1, <2>2 DEF Executed
  <2>4. Added' = Added
    BY <1>3 DEF Run, cVars, Added
  <2>5. Pool!Execute(w)
    BY <1>3, <2>1, <2>3, <2>4 DEF Run, Pool!Execute, Added, Executed
  <2>6. QED
    BY <2>5 DEF Pool!Next
<1>4. ASSUME NEW w \in Workers, Finish(w) PROVE Pool!Next
  <2>1. pTask[w] \in Executed
    <3>1. wpc[w] = "running" /\ pTask[w] \in Tasks /\ pTask[w] # None
      BY <1>4 DEF Finish, WGoTo, IInv, Local, TypeOK
    <3>2. runs[pTask[w]] = 1
      BY <3>1 DEF IInv, Waiting
    <3>3. QED
      BY <3>1, <3>2 DEF Executed
  <2>2. Added' = Added /\ Executed' = Executed
    BY <1>4 DEF Finish, cVars, Added, Executed
  <2>3. Pool!Done(w)
    BY <1>4, <2>1, <2>2 DEF Finish, Pool!Done, Added, Executed
  <2>4. QED
    BY <2>3 DEF Pool!Next
<1>5. ASSUME NEW c \in Threads, PushLock(c) \/ Signal(c) \/ PushUnlock(c)
      PROVE  UNCHANGED Pool!vars
  BY <1>5, PoolStutter DEF PushLock, Signal, PushUnlock, Added
<1>6. ASSUME NEW c \in Threads, PushBack(c) PROVE Pool!Next
  <2> DEFINE t == hand[c]
  <2>1. /\ target[c] \in Workers /\ t \in Tasks /\ t # None
        /\ t \in submitted /\ t \notin Added
        /\ \A d \in Threads : d # c => hand[d] # t
    BY <1>6 DEF PushBack, CGoTo, IInv, Local, Waiting, OnePlace, TypeOK, Added
  <2>2. hand' = [hand EXCEPT ![c] = None] /\ submitted' = submitted /\ hand \in [Threads -> Tasks \cup {None}]
    BY <1>6 DEF PushBack, IInv, TypeOK
  <2>3. Added' = Added \cup {t}
    BY <2>1, <2>2 DEF Added, IInv, TypeOK
  <2>4. Executed' = Executed
    BY <1>6 DEF PushBack, Executed
  <2>5. PICK x \in Workers, u \in Tasks : x = target[c] /\ u = t
    BY <2>1
  <2>6. Pool!Add(x, u)
    BY <1>6, <2>1, <2>3, <2>4, <2>5 DEF PushBack, Pool!Add, Added, Executed
  <2>7. QED
    BY <2>6 DEF Pool!Next
<1>7. ASSUME NEW c \in Threads, NEW t \in Tasks, NEW w \in Workers, AddTask(c, t, w)
      PROVE  UNCHANGED Pool!vars
  <2>1. /\ hand[c] = None /\ t \notin submitted /\ t # None
        /\ submitted' = submitted \cup {t} /\ hand' = [hand EXCEPT ![c] = t]
        /\ hand \in [Threads -> Tasks \cup {None}] /\ submitted \subseteq Tasks
    BY <1>7 DEF AddTask, CGoTo, IInv, Local, TypeOK
  <2>2. Added' = Added
    BY <2>1 DEF Added
  <2>3. QED
    BY <1>7, <2>2, PoolStutter DEF AddTask, wVars
<1>8. CASE UNCHANGED vars
  BY <1>8, PoolStutter DEF vars, wVars, cVars, Added
<1> QED
  BY <1>1, <1>2, <1>3, <1>4, <1>5, <1>6, <1>7, <1>8 DEF Next, Execute, PushTask

\* CThreadPool implements TaskPool: a task goes to one worker, a worker takes
\* its tasks in the order they were pushed, and each task is executed once.
THEOREM ImplementsTaskPool == Spec => PoolSpec
<1>1. Init => Pool!Init
  BY PoolInit
<1>2. IInv /\ [Next]_vars => [Pool!Next]_(Pool!vars)
  BY PoolStep
<1> QED
  BY <1>1, <1>2, Invariance, PTL DEF Spec, PoolSpec, Pool!Spec

-----------------------------------------------------------------------------
(* No task is lost, and the threads never block each other for good.       *)

Listed(t, w) == \E i \in 1 .. Len(m_task_list[w]) : m_task_list[w][i] = t

\* A task given to AddTask has run, or is with a thread, in a list or with a worker.
Placed(t) ==
  \/ runs[t] = 1
  \/ \E c \in Threads : hand[c] = t
  \/ \E w \in Workers : Listed(t, w) \/ pTask[w] = t

Kept == \A t \in submitted : Placed(t)

\* No step of a worker or of a call of PushTask is possible: all sleep, wait for
\* a mutex or for their own call of AddTask, or are outside of the pool.
AtRest ==
  /\ \A w \in Workers :
       \/ wpc[w] \in {"dead", "wait"}
       \/ wpc[w] = "lock" /\ owner[w] # None
       \/ wpc[w] = "running" /\ cpc[w] # "idle"
  /\ \A c \in Threads :
       \/ cpc[c] = "idle"
       \/ cpc[c] = "lock" /\ owner[target[c]] # None

\* Every task ran, but those handed to a worker whose thread did not start.
AllRun == \A t \in submitted :
            runs[t] = 1 \/ \E w \in Workers : wpc[w] = "dead" /\ Listed(t, w)

LEMMA KeptFrame ==
  ASSUME Kept, UNCHANGED <<m_task_list, pTask, hand, submitted, runs>>
  PROVE  Kept'
BY DEF Kept, Placed, Listed

LEMMA KeptTake ==
  ASSUME IInv, Kept, NEW w \in Workers, Take(w)
  PROVE  Kept'
<1> USE DEF IInv, TypeOK, Take, WGoTo, cVars
<1>1. /\ m_task_list[w] \in Seq(Tasks) /\ m_task_list[w] # <<>>
      /\ Len(m_task_list[w]) \in Nat
  BY DEF Local
<1>2. /\ pTask'[w] = m_task_list[w][1]
      /\ Len(m_task_list'[w]) = Len(m_task_list[w]) - 1
      /\ \A i \in 1 .. Len(m_task_list[w]) - 1 : m_task_list'[w][i] = m_task_list[w][i + 1]
  BY <1>1
<1>3. /\ pTask[w] = None
      /\ \A x \in Workers \ {w} : pTask'[x] = pTask[x] /\ m_task_list'[x] = m_task_list[x]
  BY DEF Local
<1> SUFFICES ASSUME NEW t \in submitted PROVE Placed(t)'
  BY DEF Kept
<1>4. CASE \E x \in Workers : Listed(t, x)
  <2>1. PICK x \in Workers : Listed(t, x)
    BY <1>4
  <2>2. CASE x = w
    <3>1. PICK i \in 1 .. Len(m_task_list[w]) : m_task_list[w][i] = t
      BY <2>1, <2>2 DEF Listed
    <3>2. CASE i = 1
      BY <1>2, <3>1, <3>2 DEF Placed
    <3>3. CASE i # 1
      <4>1. i - 1 \in 1 .. Len(m_task_list'[w]) /\ m_task_list'[w][i - 1] = t
        BY <1>1, <1>2, <3>1, <3>3
      <4> QED BY <4>1 DEF Placed, Listed
    <3> QED BY <3>2, <3>3
  <2>3. CASE x # w
    BY <1>3, <2>1, <2>3 DEF Placed, Listed
  <2> QED BY <2>2, <2>3
<1>5. CASE \E x \in Workers : pTask[x] = t
  <2>1. t # None
    BY ThreadPoolAssumption
  <2> QED BY <1>3, <1>5, <2>1 DEF Placed
<1>6. CASE runs[t] = 1 \/ \E c \in Threads : hand[c] = t
  BY <1>6 DEF Placed
<1> QED BY <1>4, <1>5, <1>6 DEF Kept, Placed

LEMMA KeptPush ==
  ASSUME IInv, Kept, NEW c \in Threads, PushBack(c)
  PROVE  Kept'
<1> USE DEF IInv, TypeOK, PushBack, CGoTo
<1>0. target[c] \in Workers
  BY DEF Local
<1> PICK w \in Workers : w = target[c]
  BY <1>0
<1>1. /\ w \in Workers /\ hand[c] \in Tasks
      /\ m_task_list[w] \in Seq(Tasks) /\ Len(m_task_list[w]) \in Nat
  BY DEF Local
<1>2. /\ Len(m_task_list'[w]) = Len(m_task_list[w]) + 1
      /\ m_task_list'[w][Len(m_task_list[w]) + 1] = hand[c]
      /\ \A i \in 1 .. Len(m_task_list[w]) : m_task_list'[w][i] = m_task_list[w][i]
  BY <1>1
<1>3. \A x \in Workers \ {w} : m_task_list'[x] = m_task_list[x]
  BY <1>1
<1>4. pTask' = pTask /\ runs' = runs /\ submitted' = submitted
  OBVIOUS
<1>5. \A d \in Threads \ {c} : hand'[d] = hand[d]
  OBVIOUS
<1> HIDE DEF IInv, TypeOK, PushBack, CGoTo
<1> SUFFICES ASSUME NEW t \in submitted PROVE Placed(t)'
  BY <1>4 DEF Kept
<1>6. ASSUME NEW x \in Workers, Listed(t, x) PROVE Listed(t, x)'
  <2>1. PICK i \in 1 .. Len(m_task_list[x]) : m_task_list[x][i] = t
    BY <1>6 DEF Listed
  <2>2. CASE x = w
    <3>1. i \in 1 .. Len(m_task_list[w]) /\ m_task_list[w][i] = t
      BY <2>1, <2>2
    <3>2. i \in 1 .. Len(m_task_list'[w]) /\ m_task_list'[w][i] = t
      BY <1>1, <1>2, <3>1
    <3> QED BY <2>2, <3>2 DEF Listed
  <2>3. CASE x # w
    BY <1>3, <2>1, <2>3 DEF Listed
  <2> QED BY <2>2, <2>3
<1>7. ASSUME NEW d \in Threads, hand[d] = t PROVE Placed(t)'
  <2>1. CASE d = c
    <3>1. Listed(t, w)'
      <4>1. Len(m_task_list[w]) + 1 \in 1 .. Len(m_task_list'[w])
        BY <1>1, <1>2
      <4> QED BY <1>2, <1>7, <2>1, <4>1 DEF Listed
    <3> QED BY <1>1, <3>1 DEF Placed
  <2>2. CASE d # c
    BY <1>5, <1>7, <2>2 DEF Placed
  <2> QED BY <2>1, <2>2
<1> QED BY <1>4, <1>6, <1>7 DEF Kept, Placed

LEMMA KeptStep == IInv /\ Kept /\ [Next]_vars => Kept'
<1> SUFFICES ASSUME IInv, Kept, [Next]_vars PROVE Kept'
  OBVIOUS
<1>1. ASSUME NEW w \in Workers,
             Start(w) \/ Lock(w) \/ Test(w) \/ Wait(w) \/ SpuriousWakeup(w)
      PROVE  Kept'
  BY <1>1, KeptFrame DEF Start, Lock, Test, Wait, SpuriousWakeup, cVars
<1>2. ASSUME NEW w \in Workers, Run(w) PROVE Kept'
  <2>1. /\ UNCHANGED <<m_task_list, pTask, hand, submitted>>
        /\ \A t \in Tasks : pTask[w] # t => runs'[t] = runs[t]
    BY <1>2 DEF Run, cVars, IInv, TypeOK
  <2>2. submitted \subseteq Tasks
    BY DEF IInv, TypeOK
  <2> QED BY <2>1, <2>2 DEF Kept, Placed, Listed
<1>3. ASSUME NEW w \in Workers, Finish(w) PROVE Kept'
  <2>1. /\ UNCHANGED <<m_task_list, hand, submitted, runs>>
        /\ \A x \in Workers \ {w} : pTask'[x] = pTask[x]
    BY <1>3 DEF Finish, cVars, IInv, TypeOK
  <2>2. pTask[w] # None /\ runs[pTask[w]] = 1
    BY <1>3 DEF Finish, WGoTo, IInv, Local, Waiting
  <2> QED BY <2>1, <2>2 DEF Kept, Placed, Listed
<1>4. ASSUME NEW c \in Threads, PushLock(c) \/ Signal(c) \/ PushUnlock(c) PROVE Kept'
  BY <1>4, KeptFrame DEF PushLock, Signal, PushUnlock
<1>5. ASSUME NEW c \in Threads, NEW t \in Tasks, NEW w \in Workers, AddTask(c, t, w)
      PROVE  Kept'
  <2>1. /\ UNCHANGED <<m_task_list, pTask, runs>> /\ submitted' = submitted \cup {t}
        /\ hand[c] = None /\ hand'[c] = t /\ \A d \in Threads \ {c} : hand'[d] = hand[d]
    BY <1>5 DEF AddTask, CGoTo, wVars, IInv, TypeOK, Local
  <2>2. None \notin submitted
    BY ThreadPoolAssumption DEF IInv, TypeOK
  <2> QED BY <2>1, <2>2 DEF Kept, Placed, Listed
<1>6. CASE UNCHANGED vars
  BY <1>6, KeptFrame DEF vars, wVars, cVars
<1> QED
  BY <1>1, <1>2, <1>3, <1>4, <1>5, <1>6, KeptTake, KeptPush DEF Next, Execute, PushTask

\* Nobody holds a mutex at rest: its owner could go on.
LEMMA RestUnlocked ==
  ASSUME IInv, AtRest, NEW w \in Workers
  PROVE  owner[w] = None
<1>1. ASSUME NEW t \in Threads, owner[w] = t PROVE FALSE
  BY <1>1 DEF IInv, MutexHeld, InWorker, InPush, AtRest
<1> QED BY <1>1 DEF IInv, TypeOK

LEMMA RestAllRun == IInv /\ Kept /\ AtRest => AllRun
<1> SUFFICES ASSUME IInv, Kept, AtRest, NEW t \in submitted
             PROVE  runs[t] = 1 \/ \E w \in Workers : wpc[w] = "dead" /\ Listed(t, w)
  BY DEF AllRun
<1>1. \A c \in Threads : cpc[c] = "idle"
  BY RestUnlocked DEF AtRest, IInv, Local, TypeOK
<1>2. \A w \in Workers : wpc[w] \in {"dead", "wait"}
  BY <1>1, RestUnlocked DEF AtRest, Threads
<1>3. t \in Tasks /\ t # None
  BY ThreadPoolAssumption DEF IInv, TypeOK
<1>4. ~\E c \in Threads : hand[c] = t
  BY <1>1, <1>3 DEF IInv, Local
<1>5. ~\E w \in Workers : pTask[w] = t
  BY <1>2, <1>3 DEF IInv, Local
<1>6. ASSUME NEW w \in Workers, Listed(t, w) PROVE wpc[w] = "dead"
  <2>1. m_task_list[w] # <<>>
    BY <1>6 DEF Listed, IInv, TypeOK
  <2> QED BY <1>1, <1>2, <2>1 DEF IInv, NoLostWakeup
<1> QED BY <1>4, <1>5, <1>6 DEF Kept, Placed

\* ThreadPool.cpp, Thread.h, the safety half of EveryTaskRuns: when no thread can
\* go on by itself, no mutex is held, so none waits for another for good, and
\* every task ran but those handed to a worker whose pthread_create failed.
THEOREM RestMeansRun == Spec => [](AtRest => AllRun)
<1>1. Init => Kept
  BY DEF Init, Kept
<1> QED BY <1>1, KeptStep, RestAllRun, Invariance, PTL DEF Spec

=============================================================================
