----------------------------- MODULE PduChannel -----------------------------
(***************************************************************************)
(* What a pair of CImConn promises: HandlePdu is called at one end for the *)
(* PDUs sent at the other, in the order they were sent, whole and one at a *)
(* time.  A PDU is done with when its handler returns, and is never        *)
(* handled again; one whose handler throws stays the next.                 *)
(***************************************************************************)
EXTENDS Naturals, Sequences, SequencesExt

CONSTANTS
  Pdus,
  Throwing    \* those whose handler may throw

VARIABLES
  sent,
  handled,    \* the PDUs whose handler returned
  thrown      \* the PDUs whose handler threw, once for every time

vars == <<sent, handled, thrown>>

Init == sent = <<>> /\ handled = <<>> /\ thrown = <<>>

Send(p) ==
  /\ p \notin ToSet(sent)
  /\ sent' = Append(sent, p)
  /\ UNCHANGED <<handled, thrown>>

Handle ==
  /\ Len(handled) < Len(sent)
  /\ handled' = Append(handled, sent[Len(handled) + 1])
  /\ UNCHANGED <<sent, thrown>>

Throw ==
  /\ Len(handled) < Len(sent)
  /\ LET p == sent[Len(handled) + 1]
     IN  p \in Throwing /\ thrown' = Append(thrown, p)
  /\ UNCHANGED <<sent, handled>>

Next == Handle \/ Throw \/ \E p \in Pdus : Send(p)

Spec == Init /\ [][Next]_vars

=============================================================================
