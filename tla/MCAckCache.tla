----------------------------- MODULE MCAckCache -----------------------------
(* An instance of AckCache for TLC.  Three members of two groups: two of    *)
(* them name the third's row, and three in one table make a list that the  *)
(* database does not take.                                                 *)
EXTENDS AckCache

CONSTANTS u1, u2, g1, g2

TheMembers == {<<u1, g1>>, <<u1, g2>>, <<u2, g2>>}
TheLastId == [k \in TheMembers |-> IF k = <<u1, g2>> THEN 1 ELSE 2]
TheTable == [u \in {u1, u2} |-> 0]

=============================================================================
