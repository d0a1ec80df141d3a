------------------------------- MODULE ImConn -------------------------------
(***************************************************************************)
(* imconn.cpp: PDUs sent with CImConn::Send at the connecting end and read *)
(* by CImConn::OnRead at the accepting end.  Between them are two kernel   *)
(* buffers that hold less than the PDUs, and edge-triggered epoll: an edge *)
(* that is lost leaves bytes behind for good.  Each end has one thread;    *)
(* the kernel works between any two of their system calls.                 *)
(***************************************************************************)
EXTENDS Naturals, Sequences, SequencesExt

CONSTANTS
  Pdus,             \* the PDUs, each sent once
  PduLen,           \* their lengths, in units of the buffers below
  Malformed,        \* those whose header says length 0
  Closing,          \* those whose HandlePdu closes the connection
  Throwing,         \* those whose HandlePdu may throw a CPduException
  HeaderLen,        \* IM_PDU_HEADER_LEN
  MaxSend,          \* NETLIB_MAX_SOCKET_BUF_SIZE
  ReadBuf,          \* READ_BUF_SIZE
  SndBuf, RcvBuf,   \* sizes of the kernel's buffers
  None

ASSUME ImConnAssumption ==
  /\ PduLen \in [Pdus -> Nat] /\ HeaderLen \in Nat \ {0}
  /\ \A p \in Pdus : PduLen[p] >= HeaderLen
  /\ {Malformed, Closing, Throwing} \subseteq SUBSET Pdus /\ None \notin Pdus
  /\ {MaxSend, ReadBuf, SndBuf, RcvBuf} \subseteq Nat \ {0}

VARIABLES
  m_state,    \* CBaseSocket of the sending end: connecting or connected
  m_busy,     \* sending end
  m_out_buf,  \* sending end
  data,       \* sending end: what Send has yet to hand to the kernel
  spc,        \* sending end: where its thread is
  sndbuf,     \* kernel, sending end
  nospace,    \* kernel: send() failed with EAGAIN and no edge came since
  edgeOut,    \* kernel: an EPOLLOUT edge not yet reported
  rcvbuf,     \* kernel, receiving end
  edgeIn,     \* kernel: an EPOLLIN edge not yet reported
  m_in_buf,   \* receiving end
  rpc,        \* receiving end: where its thread is
  open,       \* receiving end: the connection is not closed
  early,      \* history: Send was called before CONFIRM
  sent,       \* history: the PDUs given to Send
  handled,    \* history: the PDUs given to HandlePdu, which returned
  thrown      \* history: the PDUs given to HandlePdu, which threw

sendVars == <<m_state, m_busy, m_out_buf, data, spc>>
kernVars == <<sndbuf, nospace, edgeOut, rcvbuf, edgeIn>>
recvVars == <<m_in_buf, rpc, open>>
vars == <<sendVars, kernVars, recvVars, early, sent, handled, thrown>>

\* A PDU on the wire: its units, numbered.
Bytes(p) == [i \in 1 .. PduLen[p] |-> [pdu |-> p, unit |-> i]]

Drop(s, n) == SubSeq(s, n + 1, Len(s))
AtMost(a, b) == IF a < b THEN a ELSE b

-----------------------------------------------------------------------------
(* netlib_send: send() takes some of the bytes, or fails with EAGAIN when  *)
(* the buffer is full; before CONFIRM CBaseSocket::Send refuses.           *)

Room == SndBuf - Len(sndbuf)

Accepts(buf, n) ==
  /\ m_state = "connected"
  /\ n \in 1 .. AtMost(AtMost(Len(buf), MaxSend), Room)
  /\ sndbuf' = sndbuf \o SubSeq(buf, 1, n)
  /\ UNCHANGED <<nospace, edgeOut, rcvbuf, edgeIn>>

Refuses ==
  /\ m_state = "connected" => Room = 0
  /\ nospace' = (nospace \/ m_state = "connected")
  /\ UNCHANGED <<sndbuf, edgeOut, rcvbuf, edgeIn>>

-----------------------------------------------------------------------------
(* CImConn::Send                                                           *)

Calls(p) ==
  /\ spc = "idle"
  /\ p \notin ToSet(sent)
  /\ sent' = Append(sent, p)
  /\ early' = (early \/ m_state = "connecting")

SendBusy(p) ==
  /\ Calls(p) /\ m_busy
  /\ m_out_buf' = m_out_buf \o Bytes(p)
  /\ UNCHANGED <<m_state, m_busy, data, spc, kernVars, recvVars, handled, thrown>>

SendBegin(p) ==
  /\ Calls(p) /\ ~m_busy
  /\ data' = Bytes(p) /\ spc' = "send"
  /\ UNCHANGED <<m_state, m_busy, m_out_buf, kernVars, recvVars, handled, thrown>>

SendSome ==
  /\ spc = "send" /\ data # <<>>
  /\ \E n \in 1 .. MaxSend : Accepts(data, n) /\ data' = Drop(data, n)
  /\ UNCHANGED <<m_state, m_busy, m_out_buf, spc, recvVars, early, sent, handled, thrown>>

\* Mutants of SendRest: all of the PDU is buffered, not what remains; Send gives
\* up after a short write, without EAGAIN.
SendRest_FromStart ==
  /\ spc = "send" /\ data # <<>> /\ spc' = "idle"
  /\ Refuses
  /\ m_out_buf' = m_out_buf \o Bytes(Last(sent)) /\ data' = <<>>
  /\ m_busy' = TRUE
  /\ UNCHANGED <<m_state, recvVars, early, sent, handled, thrown>>

SendRest_ShortWrite ==
  /\ spc = "send" /\ data # <<>> /\ spc' = "idle"
  /\ m_out_buf' = m_out_buf \o data /\ data' = <<>>
  /\ m_busy' = TRUE
  /\ UNCHANGED <<m_state, kernVars, recvVars, early, sent, handled, thrown>>

SendRest ==
  /\ spc = "send" /\ data # <<>> /\ spc' = "idle"
  /\ Refuses
  /\ m_out_buf' = m_out_buf \o data /\ data' = <<>>
  /\ m_busy' = TRUE
  /\ UNCHANGED <<m_state, recvVars, early, sent, handled, thrown>>

SendComplete ==
  /\ spc = "send" /\ data = <<>> /\ spc' = "idle"
  /\ UNCHANGED <<m_state, m_busy, m_out_buf, data, kernVars, recvVars, early, sent, handled, thrown>>

-----------------------------------------------------------------------------
(* An EPOLLOUT edge at the sending end                                     *)

Confirm ==
  /\ spc = "idle" /\ edgeOut /\ m_state = "connecting"
  /\ edgeOut' = FALSE
  /\ m_state' = "connected"
  /\ UNCHANGED <<m_busy, m_out_buf, data, spc, sndbuf, nospace, rcvbuf, edgeIn,
                 recvVars, early, sent, handled, thrown>>

OnWrite ==
  /\ spc = "idle" /\ edgeOut /\ m_state = "connected"
  /\ edgeOut' = FALSE
  /\ spc' = IF m_busy THEN "write" ELSE "idle"
  /\ UNCHANGED <<m_state, m_busy, m_out_buf, data, sndbuf, nospace, rcvbuf, edgeIn,
                 recvVars, early, sent, handled, thrown>>

OnWriteSome ==
  /\ spc = "write" /\ m_out_buf # <<>>
  /\ \E n \in 1 .. MaxSend : Accepts(m_out_buf, n) /\ m_out_buf' = Drop(m_out_buf, n)
  /\ UNCHANGED <<m_state, m_busy, data, spc, recvVars, early, sent, handled, thrown>>

OnWriteRest ==
  /\ spc = "write" /\ m_out_buf # <<>> /\ spc' = "idle"
  /\ Refuses
  /\ UNCHANGED <<m_state, m_busy, m_out_buf, data, recvVars, early, sent, handled, thrown>>

OnWriteComplete ==
  /\ spc = "write" /\ m_out_buf = <<>> /\ spc' = "idle"
  /\ m_busy' = FALSE
  /\ UNCHANGED <<m_state, m_out_buf, data, kernVars, recvVars, early, sent, handled, thrown>>

-----------------------------------------------------------------------------
(* The kernel                                                              *)

Transfer ==
  /\ m_state = "connected" /\ sndbuf # <<>> /\ Len(rcvbuf) < RcvBuf
  /\ rcvbuf' = Append(rcvbuf, Head(sndbuf))
  /\ sndbuf' = Tail(sndbuf)
  /\ edgeIn' = TRUE
  /\ UNCHANGED <<nospace, edgeOut, sendVars, recvVars, early, sent, handled, thrown>>

\* An edge comes only after EAGAIN, when there is room again.
WriteSpace ==
  /\ nospace /\ Room > 0
  /\ nospace' = FALSE /\ edgeOut' = TRUE
  /\ UNCHANGED <<sndbuf, rcvbuf, edgeIn, sendVars, recvVars, early, sent, handled, thrown>>

-----------------------------------------------------------------------------
(* CImConn::OnRead at the receiving end                                    *)

OnRead ==
  /\ rpc = "idle" /\ open /\ edgeIn /\ rcvbuf # <<>>
  /\ edgeIn' = FALSE
  /\ rpc' = "recv"
  /\ UNCHANGED <<sndbuf, nospace, edgeOut, rcvbuf, m_in_buf, open, sendVars, early, sent, handled, thrown>>

\* Mutant of Recv: one netlib_recv per edge.
Recv_Once ==
  /\ rpc = "recv" /\ rcvbuf # <<>> /\ rpc' = "parse"
  /\ LET n == AtMost(ReadBuf, Len(rcvbuf))
     IN  /\ m_in_buf' = m_in_buf \o SubSeq(rcvbuf, 1, n)
         /\ rcvbuf' = Drop(rcvbuf, n)
  /\ UNCHANGED <<sndbuf, nospace, edgeOut, edgeIn, open, sendVars, early, sent, handled, thrown>>

Recv ==
  /\ rpc = "recv" /\ rcvbuf # <<>>
  /\ LET n == AtMost(ReadBuf, Len(rcvbuf))
     IN  /\ m_in_buf' = m_in_buf \o SubSeq(rcvbuf, 1, n)
         /\ rcvbuf' = Drop(rcvbuf, n)
  /\ UNCHANGED <<sndbuf, nospace, edgeOut, edgeIn, rpc, open, sendVars, early, sent, handled, thrown>>

RecvEnd ==
  /\ rpc = "recv" /\ rcvbuf = <<>> /\ rpc' = "parse"
  /\ UNCHANGED <<kernVars, m_in_buf, open, sendVars, early, sent, handled, thrown>>

\* The length in the header at the front of m_in_buf.
pdu_len == LET p == Head(m_in_buf).pdu IN IF p \in Malformed THEN 0 ELSE PduLen[p]

HasHeader == Len(m_in_buf) >= HeaderLen

IsPduAvailable == HasHeader /\ pdu_len <= Len(m_in_buf)

\* The copy of the first pdu_len bytes that ReadPdu makes: a PDU, or not.
ReadPdu == LET p == Head(m_in_buf).pdu
           IN IF SubSeq(m_in_buf, 1, pdu_len) = Bytes(p) THEN p ELSE None

\* HandlePdu may close the connection; the loop goes on.
HandlePdu ==
  /\ rpc = "parse" /\ IsPduAvailable /\ pdu_len > 0
  /\ handled' = Append(handled, ReadPdu)
  /\ open' = (open /\ Head(m_in_buf).pdu \notin Closing)
  /\ m_in_buf' = Drop(m_in_buf, pdu_len)
  /\ UNCHANGED <<rpc, kernVars, sendVars, early, sent, thrown>>

\* HandlePdu throws: the Read after it is skipped, so the PDU stays in front.
\* OnClose as in Throw.
HandlerThrows ==
  /\ rpc = "parse" /\ IsPduAvailable /\ pdu_len > 0 /\ rpc' = "idle"
  /\ Head(m_in_buf).pdu \in Throwing
  /\ thrown' = Append(thrown, ReadPdu)
  /\ open' \in {open, FALSE}
  /\ UNCHANGED <<m_in_buf, kernVars, sendVars, early, sent, handled>>

\* Mutant of Throw: the malformed PDU is skipped.
Throw_Skip ==
  /\ rpc = "parse" /\ HasHeader /\ pdu_len = 0
  /\ m_in_buf' = Drop(m_in_buf, AtMost(PduLen[Head(m_in_buf).pdu], Len(m_in_buf)))
  /\ UNCHANGED <<rpc, open, kernVars, sendVars, early, sent, handled, thrown>>

\* CPduException from ReadPdu: OnClose.  A CImConn whose OnClose does nothing stays open.
Throw ==
  /\ rpc = "parse" /\ HasHeader /\ pdu_len = 0 /\ rpc' = "idle"
  /\ open' \in {open, FALSE}
  /\ UNCHANGED <<m_in_buf, kernVars, sendVars, early, sent, handled, thrown>>

ParseEnd ==
  /\ rpc = "parse" /\ ~IsPduAvailable /\ rpc' = "idle"
  /\ UNCHANGED <<m_in_buf, open, kernVars, sendVars, early, sent, handled, thrown>>

-----------------------------------------------------------------------------
\* The connection is established and the edge that tells so is pending.
Init ==
  /\ m_state = "connecting" /\ m_busy = FALSE
  /\ m_out_buf = <<>> /\ data = <<>> /\ spc = "idle"
  /\ sndbuf = <<>> /\ nospace = FALSE /\ edgeOut = TRUE
  /\ rcvbuf = <<>> /\ edgeIn = FALSE
  /\ m_in_buf = <<>> /\ rpc = "idle" /\ open = TRUE
  /\ early = FALSE /\ sent = <<>> /\ handled = <<>> /\ thrown = <<>>

Sending ==
  \/ SendSome \/ SendRest \/ SendComplete
  \/ Confirm \/ OnWrite \/ OnWriteSome \/ OnWriteRest \/ OnWriteComplete

Receiving ==
  \/ OnRead \/ Recv \/ RecvEnd \/ HandlePdu \/ HandlerThrows \/ Throw \/ ParseEnd

Next ==
  \/ \E p \in Pdus : SendBusy(p) \/ SendBegin(p)
  \/ Sending \/ Transfer \/ WriteSpace \/ Receiving

Spec == Init /\ [][Next]_vars

\* Both threads run and the kernel moves bytes.  Nobody has to send.
Fairness == /\ WF_vars(Sending) /\ WF_vars(Receiving)
            /\ WF_vars(Transfer) /\ WF_vars(WriteSpace)

FairSpec == Spec /\ Fairness

-----------------------------------------------------------------------------
(* Properties                                                              *)

Byte == [pdu : Pdus, unit : Nat]

\* Types of all variables; the kernel's buffers keep their sizes; Send offers
\* bytes to the kernel only while none are buffered.
TypeOK ==
  /\ m_state \in {"connecting", "connected"}
  /\ m_busy \in BOOLEAN /\ nospace \in BOOLEAN /\ open \in BOOLEAN
  /\ edgeOut \in BOOLEAN /\ edgeIn \in BOOLEAN
  /\ {m_out_buf, data, m_in_buf, sndbuf, rcvbuf} \subseteq Seq(Byte)
  /\ Len(sndbuf) <= SndBuf /\ Len(rcvbuf) <= RcvBuf
  /\ spc \in {"idle", "send", "write"} /\ rpc \in {"idle", "recv", "parse"}
  /\ (spc = "send" => ~m_busy) /\ (spc = "write" => m_busy)
  /\ (spc # "send" => data = <<>>)
  /\ early \in BOOLEAN
  /\ sent \in Seq(Pdus) /\ {handled, thrown} \subseteq Seq(Pdus \cup {None})

\* If nothing was sent before CONFIRM a busy connection has a WRITE to come:
\* Send and OnWrite stop at EAGAIN only, so the kernel owes them an edge.
BusyHasEdge == (~early /\ m_busy /\ spc = "idle") => (nospace \/ edgeOut)

\* Between calls bytes are buffered exactly while m_busy says so; else a later
\* Send would overtake them.
BusyWhileBuffered == spc = "idle" => (m_busy <=> m_out_buf # <<>>)

\* A PDU behind one with length 0 is never handled, even if OnClose leaves the
\* connection open and more bytes arrive.
NothingAfterMalformed ==
  \A i \in DOMAIN sent : sent[i] \in Malformed => Len(handled) < i

\* HandlePdu is called for the PDUs sent, in order and whole: once for each,
\* and again for one whose handler threw, before any that comes behind it.
Channel == INSTANCE PduChannel

ChannelSpec == Channel!Spec

\* The handler of the PDU that is next threw.
Stuck == Len(handled) < Len(sent) /\ sent[Len(handled) + 1] \in ToSet(thrown)

\* The receiver closed, or a malformed PDU is in front of p, or one whose handler
\* threw: it is tried again when more bytes come, and they need not come.
Obstructed(p) ==
  \/ ~open \/ Stuck
  \/ \E i, j \in DOMAIN sent : i <= j /\ sent[i] \in Malformed /\ sent[j] = p

\* If nothing was sent before CONFIRM every PDU is handled, unless the receiver
\* closes first or cannot get past a malformed one or one whose handler throws.
EveryPduHandled ==
  \A p \in Pdus :
    (~early /\ p \in ToSet(sent)) ~> (p \in ToSet(handled) \/ Obstructed(p))

=============================================================================
