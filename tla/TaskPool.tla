------------------------------ MODULE TaskPool ------------------------------
(***************************************************************************)
(* What CThreadPool promises: every task added is given to one worker,     *)
(* a worker takes its tasks in the order they were added, and each task is *)
(* executed once.                                                          *)
(***************************************************************************)
EXTENDS Naturals, Sequences

CONSTANTS Workers, Tasks, None

VARIABLES added, queue, current, executed

vars == <<added, queue, current, executed>>

Init ==
  /\ added = {}
  /\ queue = [w \in Workers |-> <<>>]
  /\ current = [w \in Workers |-> None]
  /\ executed = {}

\* AddTask: whichever worker the pool picks.
Add(w, t) ==
  /\ t \notin added
  /\ added' = added \cup {t}
  /\ queue' = [queue EXCEPT ![w] = Append(@, t)]
  /\ UNCHANGED <<current, executed>>

Take(w) ==
  /\ current[w] = None /\ queue[w] # <<>>
  /\ current' = [current EXCEPT ![w] = Head(queue[w])]
  /\ queue' = [queue EXCEPT ![w] = Tail(@)]
  /\ UNCHANGED <<added, executed>>

Execute(w) ==
  /\ current[w] # None /\ current[w] \notin executed
  /\ executed' = executed \cup {current[w]}
  /\ UNCHANGED <<added, queue, current>>

Done(w) ==
  /\ current[w] \in executed
  /\ current' = [current EXCEPT ![w] = None]
  /\ UNCHANGED <<added, queue, executed>>

Next ==
  \E w \in Workers :
    \/ \E t \in Tasks : Add(w, t)
    \/ Take(w) \/ Execute(w) \/ Done(w)

Spec == Init /\ [][Next]_vars

=============================================================================
