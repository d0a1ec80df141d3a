------------------------------ MODULE MCNetLib ------------------------------
(* Instances of NetLib for TLC.                                            *)
EXTENDS NetLib, TLC

Symmetry == Permutations(Objs) \cup Permutations(Fds)

\* Liveness is checked without symmetry.  There descriptors and addresses are
\* numbers, and a new one is the lowest that is free: POSIX promises it for
\* descriptors, and addresses are interchangeable.
LowestFree(S, used, used2) ==
  \A x \in S : (~used[x] /\ used2[x]) => \A y \in S : y < x => used[y]

LowestFirst ==
  /\ LowestFree(Fds, [f \in Fds |-> kst[f] # "closed"],
                     [f \in Fds |-> kst'[f] # "closed"])
  /\ LowestFree(Objs, [o \in Objs |-> m_refCount[o] > 0],
                      [o \in Objs |-> m_refCount'[o] > 0])

LiveSpec == Init /\ [][Next /\ LowestFirst]_vars /\ Fairness

=============================================================================
