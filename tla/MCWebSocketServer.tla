------------------------- MODULE MCWebSocketServer -------------------------
(* An instance of WebSocketServer for TLC: two connections of two listeners *)
(* log in as one user of a room, or as two.                                 *)
EXTENDS WebSocketServer

CONSTANTS w1, w2, l1, l2

TheLoop == [w \in {w1, w2} |-> IF w = w2 THEN l2 ELSE l1]
TheSeats == {<<1, 1>>, <<1, 2>>}
TheLogins == [w \in {w1, w2} |-> IF w = w2 THEN TheSeats ELSE {<<1, 1>>}]
ThePushes == {<<"logout", <<1, 1>>>>, <<"notify", <<1, 2>>>>, <<"kick", <<1, 1>>>>}

=============================================================================
