---------------------------- MODULE MCEventTimer ----------------------------
(* Instances of EventTimer for TLC.                                        *)
EXTENDS EventTimer, TLC

Symmetry == Permutations(Keys) \cup Permutations(Nodes)

=============================================================================
