------------------------------ MODULE MCImConn ------------------------------
(* Instances of ImConn for TLC.                                            *)
EXTENDS ImConn

CONSTANTS p1, p2, p3

\* Three PDUs: a bare header, and two longer than a kernel buffer.
Lengths == [p \in Pdus |-> CASE p = p1 -> 2 [] p = p2 -> 3 [] OTHER -> 4]

=============================================================================
