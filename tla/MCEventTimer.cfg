SPECIFICATION FairSpec
CONSTANTS
  Keys = {k1, k2}
  Nodes = {n1, n2}
  None = None
  End = End
  Intervals = {1, 2}
  MaxTime = 2
  MaxLoops = 2
INVARIANTS OneTimerPerKey NeverEarly IteratorValid
PROPERTIES OncePerWalk CallsCatchUp LoopsServed
\* After a use of an erased node nothing is said of the program.
CHECK_DEADLOCK FALSE
