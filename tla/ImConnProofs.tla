---------------------------- MODULE ImConnProofs ----------------------------
(***************************************************************************)
(* Proofs about ImConn for any PDUs, lengths and buffer sizes.  All bytes  *)
(* between the two ends are read as one stream, from what the receiver has *)
(* buffered to what the sender has buffered: whatever a system call moves, *)
(* the stream consists of the PDUs not yet handled, whole and in order.    *)
(***************************************************************************)
EXTENDS ImConn, SequenceTheorems, TLAPS

\* Concatenation by another name, so that facts about it are used without its definition.
Cat(a, b) == a \o b

Stream == Cat(m_in_buf, Cat(rcvbuf, Cat(sndbuf, Cat(data, m_out_buf))))

\* Every byte of s is followed by the rest of its PDU.
Whole(s) ==
  \A i \in 1 .. Len(s) :
    /\ 1 <= s[i].unit /\ s[i].unit <= PduLen[s[i].pdu]
    /\ \A d \in 0 .. PduLen[s[i].pdu] - s[i].unit :
         i + d <= Len(s) /\ s[i + d] = [pdu |-> s[i].pdu, unit |-> s[i].unit + d]

\* After the last byte of a PDU comes the first one of the PDU sent next.
Successive(s, st) ==
  \A i \in 1 .. Len(s) - 1 : s[i].unit = PduLen[s[i].pdu] =>
    /\ s[i + 1].unit = 1
    /\ \E n \in 1 .. Len(st) - 1 : st[n] = s[i].pdu /\ st[n + 1] = s[i + 1].pdu

\* s begins with the first PDU that is not handled and ends with the last one.
Begins(s, st, h) == s # <<>> => h < Len(st) /\ s[1] = [pdu |-> st[h + 1], unit |-> 1]
Ends(s, st, h) == IF s = <<>> THEN h = Len(st) ELSE s[Len(s)].pdu = st[Len(st)]

Distinct(st) == \A i, j \in 1 .. Len(st) : st[i] = st[j] => i = j

Ordered(s, st, h) ==
  Whole(s) /\ Successive(s, st) /\ Begins(s, st, h) /\ Ends(s, st, h) /\ Distinct(st)

\* What was handled is what was sent first, and none of it was malformed.
HandledSent ==
  /\ Len(handled) <= Len(sent)
  /\ \A i \in 1 .. Len(handled) : handled[i] = sent[i] /\ sent[i] \notin Malformed

\* While Send runs nothing is buffered.
SendUnbuffered == spc = "send" => m_out_buf = <<>>

StreamInv == Ordered(Stream, sent, Len(handled)) /\ HandledSent

\* The conjuncts of TypeOK with what they need of each other.
Flags ==
  /\ m_busy \in BOOLEAN /\ nospace \in BOOLEAN /\ open \in BOOLEAN
  /\ edgeOut \in BOOLEAN /\ edgeIn \in BOOLEAN /\ early \in BOOLEAN

Buffers ==
  /\ m_out_buf \in Seq(Byte) /\ data \in Seq(Byte) /\ m_in_buf \in Seq(Byte)
  /\ sndbuf \in Seq(Byte) /\ Len(sndbuf) <= SndBuf
  /\ rcvbuf \in Seq(Byte) /\ Len(rcvbuf) <= RcvBuf

Places ==
  /\ m_state \in {"connecting", "connected"}
  /\ spc \in {"idle", "send", "write"} /\ rpc \in {"idle", "recv", "parse"}
  /\ spc = "send" => ~m_busy
  /\ spc = "write" => m_busy
  /\ spc # "send" => data = <<>>
  /\ SendUnbuffered /\ BusyWhileBuffered

Histories ==
  sent \in Seq(Pdus) /\ handled \in Seq(Pdus \cup {None}) /\ thrown \in Seq(Pdus \cup {None})

\* A connection nobody sent on before CONFIRM is at rest before CONFIRM.
Quiet == ~early /\ m_state = "connecting" => spc = "idle" /\ ~m_busy

Inv == Flags /\ Buffers /\ Places /\ Histories /\ StreamInv

-----------------------------------------------------------------------------
(* Sequences                                                               *)

LEMMA DropAt ==
  ASSUME NEW S, NEW s \in Seq(S), NEW n \in 0 .. Len(s)
  PROVE  /\ Drop(s, n) \in Seq(S) /\ Len(Drop(s, n)) = Len(s) - n
         /\ \A i \in 1 .. Len(s) - n : Drop(s, n)[i] = s[i + n]
<1>1. Len(s) \in Nat
  BY LenProperties
<1>2. \A i \in n + 1 .. Len(s) : s[i] \in S
  BY <1>1, ElementOfSeq
<1>3. /\ Drop(s, n) \in Seq(S)
      /\ Len(Drop(s, n)) = IF n + 1 <= Len(s) THEN Len(s) - (n + 1) + 1 ELSE 0
      /\ \A i \in 1 .. Len(s) - (n + 1) + 1 : Drop(s, n)[i] = s[(n + 1) + i - 1]
  BY <1>1, <1>2, SubSeqProperties DEF Drop
<1>4. Len(Drop(s, n)) = Len(s) - n
  BY <1>1, <1>3
<1>5. ASSUME NEW i \in 1 .. Len(s) - n PROVE Drop(s, n)[i] = s[i + n]
  <2>1. i \in 1 .. Len(s) - (n + 1) + 1 /\ (n + 1) + i - 1 = i + n
    BY <1>1
  <2>2. Drop(s, n)[i] = s[(n + 1) + i - 1]
    BY <1>3, <2>1
  <2> QED BY <2>1, <2>2
<1> QED BY <1>3, <1>4, <1>5

LEMMA CatSeq ==
  ASSUME NEW a \in Seq(Byte), NEW b \in Seq(Byte)
  PROVE  Cat(a, b) \in Seq(Byte)
BY ConcatProperties DEF Cat

LEMMA CatAt ==
  ASSUME NEW a \in Seq(Byte), NEW b \in Seq(Byte)
  PROVE  /\ Cat(a, b) \in Seq(Byte) /\ Len(Cat(a, b)) = Len(a) + Len(b)
         /\ \A i \in 1 .. Len(a) : Cat(a, b)[i] = a[i]
         /\ \A i \in 1 .. Len(b) : Cat(a, b)[Len(a) + i] = b[i]
<1>1. /\ a \o b \in Seq(Byte) /\ Len(a \o b) = Len(a) + Len(b)
      /\ \A i \in 1 .. Len(a) + Len(b) : (a \o b)[i] = IF i <= Len(a) THEN a[i] ELSE b[i - Len(a)]
  BY ConcatProperties
<1>2. Len(a) \in Nat /\ Len(b) \in Nat
  BY LenProperties
<1>3. ASSUME NEW i \in 1 .. Len(a) PROVE (a \o b)[i] = a[i]
  <2>1. i \in 1 .. Len(a) + Len(b) /\ i <= Len(a)
    BY <1>2
  <2> QED BY <1>1, <2>1
<1>4. ASSUME NEW i \in 1 .. Len(b) PROVE (a \o b)[Len(a) + i] = b[i]
  <2>1. Len(a) + i \in 1 .. Len(a) + Len(b) /\ ~(Len(a) + i <= Len(a)) /\ (Len(a) + i) - Len(a) = i
    BY <1>2
  <2> QED BY <1>1, <2>1
<1> QED BY <1>1, <1>3, <1>4 DEF Cat

LEMMA CatEmpty ==
  ASSUME NEW a \in Seq(Byte)
  PROVE  Cat(a, <<>>) = a /\ Cat(<<>>, a) = a
BY ConcatEmptySeq DEF Cat

LEMMA ConcatNotEmpty ==
  ASSUME NEW a \in Seq(Byte), NEW b \in Seq(Byte), b # <<>>
  PROVE  Cat(a, b) # <<>>
<1>1. Len(Cat(a, b)) = Len(a) + Len(b) /\ Cat(a, b) \in Seq(Byte)
  BY CatAt
<1>2. Len(a) \in Nat /\ Len(b) \in Nat /\ Len(b) # 0
  BY LenProperties, EmptySeq
<1>3. Len(Cat(a, b)) # 0
  BY <1>1, <1>2
<1> QED BY <1>3, EmptySeq

LEMMA Regroup ==
  ASSUME NEW a \in Seq(Byte), NEW b \in Seq(Byte), NEW c \in Seq(Byte)
  PROVE  Cat(Cat(a, b), c) = Cat(a, Cat(b, c))
BY ConcatAssociative DEF Cat

LEMMA Cut ==
  ASSUME NEW b \in Seq(Byte), NEW n \in 0 .. Len(b)
  PROVE  /\ SubSeq(b, 1, n) \in Seq(Byte) /\ Drop(b, n) \in Seq(Byte)
         /\ SubSeq(b, 1, n) \o Drop(b, n) = b /\ Len(SubSeq(b, 1, n)) = n
<1>0. Len(b) \in Nat /\ n \in Nat
  BY LenProperties
<1>2. Drop(b, n) \in Seq(Byte)
  BY DropAt
<1>3. SubSeq(b, 1, n) \in Seq(Byte) /\ Len(SubSeq(b, 1, n)) = n
  <2>1. \A i \in 1 .. n : b[i] \in Byte
    BY <1>0
  <2> QED BY <1>0, <2>1, SubSeqProperties
<1>4. SubSeq(b, 1, n) \o Drop(b, n) = b
  <2>1. 1 \in 1 .. Len(b) + 1 /\ n \in 1 - 1 .. Len(b) /\ Len(b) \in n .. Len(b)
    BY <1>0
  <2>2. SubSeq(b, 1, n) \o SubSeq(b, n + 1, Len(b)) = SubSeq(b, 1, Len(b))
    BY <2>1, ConcatAdjacentSubSeq
  <2> QED BY <2>2, SubSeqFull DEF Drop
<1> QED BY <1>2, <1>3, <1>4

\* Moving the first n of b to the end of a.
LEMMA Move ==
  ASSUME NEW a \in Seq(Byte), NEW b \in Seq(Byte), NEW c \in Seq(Byte), NEW n \in 0 .. Len(b)
  PROVE  /\ SubSeq(b, 1, n) \in Seq(Byte) /\ Drop(b, n) \in Seq(Byte)
         /\ Cat(Cat(a, SubSeq(b, 1, n)), Cat(Drop(b, n), c)) = Cat(a, Cat(b, c))
<1>1. PICK x \in Seq(Byte), y \in Seq(Byte) : x = SubSeq(b, 1, n) /\ y = Drop(b, n) /\ Cat(x, y) = b
  BY Cut DEF Cat
<1>2. PICK z \in Seq(Byte) : z = Cat(y, c)
  BY CatSeq
<1>3. Cat(Cat(a, x), z) = Cat(a, Cat(x, z))
  BY Regroup
<1>4. Cat(Cat(x, y), c) = Cat(x, Cat(y, c))
  BY Regroup
<1> QED BY <1>1, <1>2, <1>3, <1>4

LEMMA DropConcat ==
  ASSUME NEW S, NEW a \in Seq(S), NEW b \in Seq(S), NEW n \in 0 .. Len(a)
  PROVE  Drop(a, n) \o b = Drop(a \o b, n)
<1>0. Len(a) \in Nat /\ Len(b) \in Nat /\ n \in Nat /\ n <= Len(a)
  BY LenProperties
<1>1. PICK ab : ab = a \o b
  OBVIOUS
<1>2. /\ ab \in Seq(S) /\ Len(ab) = Len(a) + Len(b)
      /\ \A i \in 1 .. Len(a) + Len(b) : ab[i] = IF i <= Len(a) THEN a[i] ELSE b[i - Len(a)]
  BY <1>1, ConcatProperties
<1>3. n \in 0 .. Len(ab)
  BY <1>0, <1>2
<1>4. PICK x, y : x = Drop(a, n) /\ y = Drop(ab, n)
  OBVIOUS
<1>5. /\ x \in Seq(S) /\ Len(x) = Len(a) - n
      /\ \A i \in 1 .. Len(a) - n : x[i] = a[i + n]
  BY <1>4, DropAt
<1>6. /\ y \in Seq(S) /\ Len(y) = Len(ab) - n
      /\ \A i \in 1 .. Len(ab) - n : y[i] = ab[i + n]
  BY <1>2, <1>3, <1>4, DropAt
<1>7. PICK xb : xb = x \o b
  OBVIOUS
<1>8. /\ xb \in Seq(S) /\ Len(xb) = Len(x) + Len(b)
      /\ \A i \in 1 .. Len(x) + Len(b) : xb[i] = IF i <= Len(x) THEN x[i] ELSE b[i - Len(x)]
  BY <1>5, <1>7, ConcatProperties
<1>9. Len(x) = Len(a) - n /\ Len(xb) = Len(x) + Len(b) /\ Len(y) = Len(xb)
  <2>1. Len(x) = Len(a) - n /\ Len(xb) = Len(x) + Len(b) /\ Len(y) = Len(ab) - n /\ Len(ab) = Len(a) + Len(b)
    BY <1>2, <1>5, <1>6, <1>8
  <2> QED BY <1>0, <2>1
<1>10. ASSUME NEW i \in 1 .. Len(xb) PROVE xb[i] = y[i]
  <2>1. i \in 1 .. Len(x) + Len(b) /\ i \in 1 .. Len(a) + Len(b) - n /\ i + n \in 1 .. Len(a) + Len(b)
    BY <1>0, <1>9
  <2>2. y[i] = ab[i + n]
    <3>1. i \in 1 .. Len(ab) - n
      BY <1>2, <2>1
    <3> QED BY <1>6, <3>1
  <2>3. CASE i <= Len(x)
    <3>1. i \in 1 .. Len(a) - n /\ i + n <= Len(a)
      BY <1>0, <1>9, <2>1, <2>3
    <3>2. xb[i] = x[i]
      BY <1>8, <2>1, <2>3
    <3>3. x[i] = a[i + n]
      BY <1>5, <3>1
    <3>4. ab[i + n] = a[i + n]
      BY <1>2, <2>1, <3>1
    <3> QED BY <2>2, <3>2, <3>3, <3>4
  <2>4. CASE ~(i <= Len(x))
    <3>1. ~(i + n <= Len(a)) /\ (i + n) - Len(a) = i - Len(x)
      BY <1>0, <1>9, <2>1, <2>4
    <3>2. xb[i] = b[i - Len(x)]
      BY <1>8, <2>1, <2>4
    <3>3. ab[i + n] = b[(i + n) - Len(a)]
      BY <1>2, <2>1, <3>1
    <3> QED BY <2>2, <3>1, <3>2, <3>3
  <2> QED BY <2>3, <2>4
<1>11. xb = y
  BY <1>6, <1>8, <1>9, <1>10, SeqEqual
<1> QED BY <1>1, <1>4, <1>7, <1>11

LEMMA Lengths == ASSUME NEW p \in Pdus PROVE PduLen[p] \in Nat \ {0}
<1>1. PduLen[p] \in Nat /\ PduLen[p] >= HeaderLen /\ HeaderLen \in Nat \ {0}
  BY ImConnAssumption
<1> QED BY <1>1

LEMMA BytesOf ==
  ASSUME NEW p \in Pdus
  PROVE  /\ Bytes(p) \in Seq(Byte) /\ Len(Bytes(p)) = PduLen[p] /\ Bytes(p) # <<>>
         /\ \A i \in 1 .. PduLen[p] : Bytes(p)[i] = [pdu |-> p, unit |-> i]
<1>1. PICK n \in Nat \ {0} : n = PduLen[p]
  BY Lengths
<1>2. Bytes(p) = [i \in 1 .. n |-> [pdu |-> p, unit |-> i]]
  BY <1>1 DEF Bytes
<1>3. \A i \in 1 .. n : [pdu |-> p, unit |-> i] \in Byte
  BY DEF Byte
<1>4. Bytes(p) \in Seq(Byte)
  BY <1>2, <1>3
<1>5. Len(Bytes(p)) = n
  BY <1>2, <1>4
<1>6. Bytes(p) # <<>>
  BY <1>5
<1> QED BY <1>1, <1>2, <1>4, <1>5, <1>6


-----------------------------------------------------------------------------
(* The stream                                                              *)

\* A PDU that is sent joins the stream at its end.
LEMMA OrderedSend ==
  ASSUME NEW s \in Seq(Byte), NEW st \in Seq(Pdus), NEW h \in Nat, h <= Len(st),
         NEW p \in Pdus, p \notin ToSet(st), Ordered(s, st, h)
  PROVE  Ordered(Cat(s, Bytes(p)), Append(st, p), h)
<1>1. /\ Len(s) \in Nat /\ Len(st) \in Nat
      /\ \A i \in 1 .. Len(s) : s[i] \in Byte
  BY LenProperties
<1>2. \A i \in 1 .. Len(st) : st[i] \in Pdus /\ st[i] # p
  <2>1. DOMAIN st = 1 .. Len(st) /\ \A i \in 1 .. Len(st) : st[i] \in Pdus
    BY LenProperties
  <2> QED BY <2>1 DEF ToSet
<1>3. PICK t, tt : t = Cat(s, Bytes(p)) /\ tt = Append(st, p)
  OBVIOUS
<1>4. PICK n \in Nat \ {0} : n = PduLen[p]
  BY Lengths
<1> DEFINE b == Bytes(p)
<1>5. b \in Seq(Byte) /\ Len(b) = n
  BY <1>4, BytesOf
<1>6. \A i \in 1 .. n : b[i] = [pdu |-> p, unit |-> i]
  BY <1>4, BytesOf
<1>7. t = Cat(s, b)
  BY <1>3
<1> HIDE DEF b
<1>8. t \in Seq(Byte) /\ Len(t) = Len(s) + Len(b)
  BY <1>5, <1>7, CatAt
<1>9. Len(t) = Len(s) + n
  BY <1>5, <1>8
<1>10. \A i \in 1 .. Len(s) : t[i] = s[i]
  BY <1>5, <1>7, CatAt
<1>11. ASSUME NEW j \in 1 .. n PROVE t[Len(s) + j] = [pdu |-> p, unit |-> j]
  <2>1. \A i \in 1 .. Len(b) : t[Len(s) + i] = b[i]
    BY <1>5, <1>7, CatAt
  <2>2. j \in 1 .. Len(b) /\ b[j] = [pdu |-> p, unit |-> j]
    BY <1>5, <1>6
  <2> QED BY <2>1, <2>2
<1>12. /\ tt \in Seq(Pdus) /\ Len(tt) = Len(st) + 1 /\ tt[Len(st) + 1] = p
      /\ \A i \in 1 .. Len(st) : tt[i] = st[i]
  BY <1>3, AppendProperties
<1>13. \A i \in 1 .. Len(t) : i \in 1 .. Len(s) \/ \E j \in 1 .. n : i = Len(s) + j
  <2>1. ASSUME NEW i \in 1 .. Len(t), i \notin 1 .. Len(s) PROVE i - Len(s) \in 1 .. n /\ i = Len(s) + (i - Len(s))
    BY <1>1, <1>9, <2>1
  <2> QED BY <2>1
<1>14. Whole(t)
  <2>1. ASSUME NEW i \in 1 .. Len(s)
        PROVE  /\ 1 <= s[i].unit /\ s[i].unit <= PduLen[s[i].pdu]
               /\ \A d \in 0 .. PduLen[s[i].pdu] - s[i].unit :
                    i + d <= Len(t) /\ t[i + d] = [pdu |-> s[i].pdu, unit |-> s[i].unit + d]
    <3>1. PICK m, u : m = PduLen[s[i].pdu] /\ u = s[i].unit
      OBVIOUS
    <3>2. m \in Nat /\ u \in Nat
      BY <1>1, <3>1, Lengths DEF Byte
    <3>3. /\ 1 <= u /\ u <= m
          /\ \A d \in 0 .. m - u : i + d <= Len(s) /\ s[i + d] = [pdu |-> s[i].pdu, unit |-> u + d]
      BY <3>1 DEF Ordered, Whole
    <3>4. ASSUME NEW d \in 0 .. m - u
          PROVE  i + d <= Len(t) /\ t[i + d] = [pdu |-> s[i].pdu, unit |-> u + d]
      <4>1. i + d <= Len(s) /\ s[i + d] = [pdu |-> s[i].pdu, unit |-> u + d]
        BY <3>3
      <4>2. i + d \in 1 .. Len(s) /\ i + d <= Len(t)
        BY <1>1, <1>9, <3>2, <4>1
      <4> QED BY <1>10, <4>1, <4>2
    <3> QED BY <3>1, <3>3, <3>4
  <2>2. ASSUME NEW j \in 1 .. n
        PROVE  /\ 1 <= j /\ j <= n
               /\ \A d \in 0 .. n - j :
                    (Len(s) + j) + d <= Len(t) /\ t[(Len(s) + j) + d] = [pdu |-> p, unit |-> j + d]
    <3>1. ASSUME NEW d \in 0 .. n - j
          PROVE  (Len(s) + j) + d <= Len(t) /\ t[(Len(s) + j) + d] = [pdu |-> p, unit |-> j + d]
      <4>1. j + d \in 1 .. n /\ (Len(s) + j) + d = Len(s) + (j + d) /\ Len(s) + (j + d) <= Len(t)
        BY <1>1, <1>9
      <4>2. t[Len(s) + (j + d)] = [pdu |-> p, unit |-> j + d]
        BY <1>11, <4>1
      <4> QED BY <4>1, <4>2
    <3> QED BY <3>1
  <2>3. ASSUME NEW i \in 1 .. Len(t)
        PROVE  /\ 1 <= t[i].unit /\ t[i].unit <= PduLen[t[i].pdu]
               /\ \A d \in 0 .. PduLen[t[i].pdu] - t[i].unit :
                    i + d <= Len(t) /\ t[i + d] = [pdu |-> t[i].pdu, unit |-> t[i].unit + d]
    <3>1. CASE i \in 1 .. Len(s)
      <4>1. t[i] = s[i]
        BY <1>10, <3>1
      <4> QED BY <2>1, <3>1, <4>1
    <3>2. ASSUME NEW j \in 1 .. n, i = Len(s) + j
          PROVE  /\ 1 <= t[i].unit /\ t[i].unit <= PduLen[t[i].pdu]
                 /\ \A d \in 0 .. PduLen[t[i].pdu] - t[i].unit :
                      i + d <= Len(t) /\ t[i + d] = [pdu |-> t[i].pdu, unit |-> t[i].unit + d]
      <4>1. t[i] = [pdu |-> p, unit |-> j]
        BY <1>11, <3>2
      <4>2. t[i].pdu = p /\ t[i].unit = j
        BY <4>1
      <4> QED BY <1>4, <2>2, <3>2, <4>2
    <3> QED BY <1>13, <3>1, <3>2
  <2> QED BY <2>3 DEF Whole
<1>15. Successive(t, tt)
  <2>1. ASSUME NEW i \in 1 .. Len(t) - 1, t[i].unit = PduLen[t[i].pdu]
        PROVE  /\ t[i + 1].unit = 1
               /\ \E k \in 1 .. Len(tt) - 1 : tt[k] = t[i].pdu /\ tt[k + 1] = t[i + 1].pdu
    <3>1. CASE i < Len(s)
      <4>1. i \in 1 .. Len(s) - 1 /\ i \in 1 .. Len(s) /\ i + 1 \in 1 .. Len(s)
        BY <1>1, <3>1
      <4>2. t[i] = s[i] /\ t[i + 1] = s[i + 1]
        BY <1>10, <4>1
      <4>3. s[i + 1].unit = 1 /\ \E k \in 1 .. Len(st) - 1 : st[k] = s[i].pdu /\ st[k + 1] = s[i + 1].pdu
        BY <2>1, <4>1, <4>2 DEF Ordered, Successive
      <4>4. PICK k \in 1 .. Len(st) - 1 : st[k] = s[i].pdu /\ st[k + 1] = s[i + 1].pdu
        BY <4>3
      <4>5. k \in 1 .. Len(tt) - 1 /\ k \in 1 .. Len(st) /\ k + 1 \in 1 .. Len(st)
        <5>1. Len(tt) = Len(st) + 1
          BY <1>12
        <5> QED BY <1>1, <5>1
      <4>6. tt[k] = st[k] /\ tt[k + 1] = st[k + 1]
        BY <1>12, <4>5
      <4> QED BY <4>2, <4>3, <4>4, <4>5, <4>6
    <3>2. CASE i = Len(s)
      <4>1. i \in 1 .. Len(s) /\ 1 \in 1 .. n
        BY <1>1, <3>2
      <4>2. t[i] = s[i] /\ t[i + 1] = [pdu |-> p, unit |-> 1]
        BY <1>10, <1>11, <3>2, <4>1
      <4>3. s # <<>>
        BY <4>1
      <4>4. s[i].pdu = st[Len(st)] /\ h < Len(st)
        BY <3>2, <4>3 DEF Ordered, Ends, Begins
      <4>5. Len(st) \in 1 .. Len(st) /\ Len(st) \in 1 .. Len(tt) - 1
        <5>1. Len(tt) = Len(st) + 1
          BY <1>12
        <5> QED BY <1>1, <4>4, <5>1
      <4>6. tt[Len(st)] = s[i].pdu /\ tt[Len(st) + 1] = p
        BY <1>12, <4>4, <4>5
      <4> QED BY <4>2, <4>5, <4>6
    <3>3. CASE i > Len(s)
      <4>1. PICK j \in 1 .. n - 1 : i = Len(s) + j
        <5>1. i - Len(s) \in 1 .. n - 1 /\ i = Len(s) + (i - Len(s))
          BY <1>1, <1>9, <3>3
        <5> QED BY <5>1
      <4>2. j \in 1 .. n
        OBVIOUS
      <4>3. t[i] = [pdu |-> p, unit |-> j]
        BY <1>11, <4>1, <4>2
      <4>4. j = n
        BY <1>4, <2>1, <4>3
      <4> QED BY <4>4
    <3> QED BY <1>1, <3>1, <3>2, <3>3
  <2> QED BY <2>1 DEF Successive
<1>16. Begins(t, tt, h)
  <2>1. CASE s = <<>>
    <3>1. Len(s) = 0 /\ h = Len(st) /\ 1 \in 1 .. n
      BY <2>1 DEF Ordered, Ends
    <3>2. t[1] = [pdu |-> p, unit |-> 1]
      <4>1. t[Len(s) + 1] = [pdu |-> p, unit |-> 1]
        BY <1>11, <3>1
      <4> QED BY <3>1, <4>1
    <3>3. h < Len(tt) /\ tt[h + 1] = p
      BY <1>1, <1>12, <3>1
    <3> QED BY <3>2, <3>3 DEF Begins
  <2>2. CASE s # <<>>
    <3>1. 1 \in 1 .. Len(s)
      BY <1>1, <2>2
    <3>2. h < Len(st) /\ s[1] = [pdu |-> st[h + 1], unit |-> 1]
      BY <2>2 DEF Ordered, Begins
    <3>3. h + 1 \in 1 .. Len(st) /\ h < Len(st) + 1
      BY <1>1, <3>2
    <3>4. h < Len(tt) /\ tt[h + 1] = st[h + 1]
      BY <1>12, <3>3
    <3>5. t[1] = s[1]
      BY <1>10, <3>1
    <3> QED BY <3>2, <3>4, <3>5 DEF Begins
  <2> QED BY <2>1, <2>2
<1>17. Ends(t, tt, h)
  <2>1. n \in 1 .. n /\ Len(t) > 0
    BY <1>1, <1>9
  <2>2. t[Len(t)] = [pdu |-> p, unit |-> n]
    BY <1>9, <1>11, <2>1
  <2>3. t # <<>>
    BY <2>1
  <2>4. tt[Len(tt)] = p
    BY <1>12
  <2> QED BY <2>2, <2>3, <2>4 DEF Ends
<1>18. Distinct(tt)
  <2>1. ASSUME NEW i \in 1 .. Len(tt), NEW j \in 1 .. Len(tt), tt[i] = tt[j] PROVE i = j
    <3>1. (i \in 1 .. Len(st) \/ i = Len(st) + 1) /\ (j \in 1 .. Len(st) \/ j = Len(st) + 1)
      <4>1. Len(tt) = Len(st) + 1
        BY <1>12
      <4> QED BY <1>1, <4>1
    <3>2. CASE i \in 1 .. Len(st) /\ j \in 1 .. Len(st)
      <4>1. st[i] = st[j]
        BY <1>12, <2>1, <3>2
      <4> QED BY <3>2, <4>1 DEF Ordered, Distinct
    <3>3. CASE i \in 1 .. Len(st) /\ j = Len(st) + 1
      BY <1>2, <1>12, <2>1, <3>3
    <3>4. CASE i = Len(st) + 1 /\ j \in 1 .. Len(st)
      BY <1>2, <1>12, <2>1, <3>4
    <3> QED BY <3>1, <3>2, <3>3, <3>4
  <2> QED BY <2>1 DEF Distinct
<1> QED BY <1>3, <1>14, <1>15, <1>16, <1>17, <1>18 DEF Ordered

\* The PDU at the front is there from its first byte to its last.
LEMMA OrderedFront ==
  ASSUME NEW s \in Seq(Byte), NEW st \in Seq(Pdus), NEW h \in Nat, s # <<>>, Ordered(s, st, h)
  PROVE  /\ h < Len(st) /\ st[h + 1] \in Pdus /\ PduLen[st[h + 1]] <= Len(s)
         /\ \A i \in 1 .. PduLen[st[h + 1]] : s[i] = [pdu |-> st[h + 1], unit |-> i]
<1>1. h < Len(st) /\ s[1] = [pdu |-> st[h + 1], unit |-> 1]
  BY DEF Ordered, Begins
<1>2. Len(st) \in Nat /\ Len(s) \in Nat /\ Len(s) # 0
  BY LenProperties, EmptySeq
<1>3. h + 1 \in 1 .. Len(st) /\ 1 \in 1 .. Len(s)
  BY <1>1, <1>2
<1>4. PICK p \in Pdus : p = st[h + 1]
  BY <1>3, ElementOfSeq
<1>5. PICK n \in Nat \ {0} : n = PduLen[p]
  BY Lengths
<1>6. s[1].pdu = p /\ s[1].unit = 1
  BY <1>1, <1>4
<1>7. \A d \in 0 .. n - 1 : 1 + d <= Len(s) /\ s[1 + d] = [pdu |-> p, unit |-> 1 + d]
  BY <1>3, <1>5, <1>6 DEF Ordered, Whole
<1>8. ASSUME NEW i \in 1 .. n PROVE i <= Len(s) /\ s[i] = [pdu |-> p, unit |-> i]
  <2>1. i - 1 \in 0 .. n - 1 /\ 1 + (i - 1) = i
    OBVIOUS
  <2> QED BY <1>7, <2>1
<1>9. n <= Len(s)
  <2>1. n \in 1 .. n
    OBVIOUS
  <2> QED BY <1>8, <2>1
<1> QED BY <1>1, <1>4, <1>5, <1>8, <1>9

\* Without it the stream is that of the PDUs behind it.
LEMMA OrderedHandle ==
  ASSUME NEW s \in Seq(Byte), NEW st \in Seq(Pdus), NEW h \in Nat, s # <<>>, Ordered(s, st, h)
  PROVE  Ordered(Drop(s, PduLen[st[h + 1]]), st, h + 1)
<1>1. PICK p \in Pdus : p = st[h + 1]
  BY OrderedFront
<1>2. PICK n \in Nat \ {0} : n = PduLen[p]
  BY Lengths
<1>3. /\ h < Len(st) /\ n <= Len(s)
      /\ \A i \in 1 .. n : s[i] = [pdu |-> p, unit |-> i]
  BY <1>1, <1>2, OrderedFront
<1>4. Len(s) \in Nat /\ Len(st) \in Nat /\ \A i \in 1 .. Len(s) : s[i] \in Byte
  BY LenProperties
<1>5. n \in 0 .. Len(s) /\ n \in 1 .. n /\ n \in 1 .. Len(s)
  BY <1>3, <1>4
<1>6. s[n] = [pdu |-> p, unit |-> n]
  BY <1>3, <1>5
<1>7. PICK t : t = Drop(s, n)
  OBVIOUS
<1>8. t \in Seq(Byte) /\ Len(t) = Len(s) - n
  BY <1>5, <1>7, DropAt
<1>9. ASSUME NEW i \in 1 .. Len(s) - n PROVE t[i] = s[i + n]
  BY <1>5, <1>7, DropAt
<1>10. Whole(t)
  <2>1. ASSUME NEW i \in 1 .. Len(t)
        PROVE  /\ 1 <= t[i].unit /\ t[i].unit <= PduLen[t[i].pdu]
               /\ \A d \in 0 .. PduLen[t[i].pdu] - t[i].unit :
                    i + d <= Len(t) /\ t[i + d] = [pdu |-> t[i].pdu, unit |-> t[i].unit + d]
    <3>1. i \in 1 .. Len(s) - n /\ i + n \in 1 .. Len(s)
      BY <1>4, <1>8
    <3>2. t[i] = s[i + n] /\ s[i + n] \in Byte
      BY <1>4, <1>9, <3>1
    <3>3. PICK q \in Pdus, u \in Nat : t[i].pdu = q /\ t[i].unit = u /\ s[i + n].pdu = q /\ s[i + n].unit = u
      BY <3>2 DEF Byte
    <3>4. PICK m \in Nat \ {0} : m = PduLen[q]
      BY Lengths
    <3>5. /\ 1 <= u /\ u <= m
          /\ \A d \in 0 .. m - u :
               (i + n) + d <= Len(s) /\ s[(i + n) + d] = [pdu |-> q, unit |-> u + d]
      BY <3>1, <3>3, <3>4 DEF Ordered, Whole
    <3>6. ASSUME NEW d \in 0 .. m - u
          PROVE  i + d <= Len(t) /\ t[i + d] = [pdu |-> q, unit |-> u + d]
      <4>1. (i + n) + d <= Len(s) /\ s[(i + n) + d] = [pdu |-> q, unit |-> u + d]
        BY <3>5
      <4>2. i + d \in 1 .. Len(s) - n /\ i + d <= Len(t) /\ (i + n) + d = (i + d) + n
        BY <1>4, <1>8, <3>1, <4>1
      <4>3. t[i + d] = s[(i + d) + n]
        BY <1>9, <4>2
      <4> QED BY <4>1, <4>2, <4>3
    <3> QED BY <3>3, <3>4, <3>5, <3>6
  <2> QED BY <2>1 DEF Whole
<1>11. Successive(t, st)
  <2>1. ASSUME NEW i \in 1 .. Len(t) - 1, t[i].unit = PduLen[t[i].pdu]
        PROVE  /\ t[i + 1].unit = 1
               /\ \E k \in 1 .. Len(st) - 1 : st[k] = t[i].pdu /\ st[k + 1] = t[i + 1].pdu
    <3>1. /\ i + n \in 1 .. Len(s) - 1 /\ i \in 1 .. Len(s) - n /\ i + 1 \in 1 .. Len(s) - n
          /\ (i + 1) + n = (i + n) + 1
      BY <1>4, <1>8
    <3>2. t[i] = s[i + n] /\ t[i + 1] = s[(i + 1) + n]
      BY <1>9, <3>1
    <3>3. t[i] = s[i + n] /\ t[i + 1] = s[(i + n) + 1]
      BY <3>1, <3>2
    <3> QED BY <2>1, <3>1, <3>3 DEF Ordered, Successive
  <2> QED BY <2>1 DEF Successive
<1>12. ASSUME NEW k \in 1 .. Len(st), st[k] = p PROVE k = h + 1
  <2>1. h + 1 \in 1 .. Len(st)
    BY <1>3, <1>4
  <2> QED BY <1>1, <1>12, <2>1 DEF Ordered, Distinct
<1>13. Begins(t, st, h + 1)
  <2>1. ASSUME t # <<>>
        PROVE  h + 1 < Len(st) /\ t[1] = [pdu |-> st[(h + 1) + 1], unit |-> 1]
    <3>1. Len(t) # 0
      BY <1>8, <2>1, EmptySeq
    <3>2. n \in 1 .. Len(s) - 1 /\ 1 \in 1 .. Len(s) - n /\ n + 1 \in 1 .. Len(s) /\ 1 + n = n + 1
      BY <1>4, <1>5, <1>8, <3>1
    <3>3. t[1] = s[1 + n]
      BY <1>9, <3>2
    <3>4. t[1] = s[n + 1] /\ s[n + 1] \in Byte
      BY <1>4, <3>2, <3>3
    <3>5. /\ s[n + 1].unit = 1
          /\ \E k \in 1 .. Len(st) - 1 : st[k] = p /\ st[k + 1] = s[n + 1].pdu
      <4>1. s[n].unit = PduLen[s[n].pdu] /\ s[n].pdu = p
        BY <1>2, <1>6
      <4> QED BY <3>2, <4>1 DEF Ordered, Successive
    <3>6. PICK k \in 1 .. Len(st) - 1 : st[k] = p /\ st[k + 1] = s[n + 1].pdu
      BY <3>5
    <3>7. k \in 1 .. Len(st)
      BY <1>4
    <3>8. k = h + 1
      BY <1>12, <3>6, <3>7
    <3>9. h + 1 < Len(st)
      BY <1>4, <3>8
    <3>10. s[n + 1] = [pdu |-> st[(h + 1) + 1], unit |-> 1]
      BY <3>4, <3>5, <3>6, <3>8 DEF Byte
    <3> QED BY <3>4, <3>9, <3>10
  <2> QED BY <2>1 DEF Begins
<1>14. Ends(t, st, h + 1)
  <2>1. s[Len(s)].pdu = st[Len(st)]
    BY DEF Ordered, Ends
  <2>2. CASE t = <<>>
    <3>1. n = Len(s)
      <4>1. Len(t) = 0
        BY <2>2
      <4> QED BY <1>4, <1>8, <4>1
    <3>2. st[Len(st)] = p
      BY <1>6, <2>1, <3>1
    <3>3. Len(st) \in 1 .. Len(st)
      BY <1>3, <1>4
    <3>4. Len(st) = h + 1
      BY <1>12, <3>2, <3>3
    <3> QED BY <2>2, <3>4 DEF Ends
  <2>3. CASE t # <<>>
    <3>1. Len(t) # 0
      BY <1>8, <2>3, EmptySeq
    <3>2. Len(t) \in 1 .. Len(s) - n /\ Len(t) + n = Len(s)
      BY <1>4, <1>5, <1>8, <3>1
    <3>3. t[Len(t)] = s[Len(t) + n]
      BY <1>9, <3>2
    <3>4. t[Len(t)] = s[Len(s)]
      BY <3>2, <3>3
    <3> QED BY <2>1, <2>3, <3>4 DEF Ends
  <2> QED BY <2>2, <2>3
<1>15. Distinct(st)
  BY DEF Ordered
<1> QED BY <1>1, <1>2, <1>7, <1>10, <1>11, <1>13, <1>14, <1>15 DEF Ordered

-----------------------------------------------------------------------------
(* The invariant                                                           *)

LEMMA TypeParts == TypeOK <=> /\ Flags /\ Buffers /\ Histories
                              /\ m_state \in {"connecting", "connected"}
                              /\ spc \in {"idle", "send", "write"} /\ rpc \in {"idle", "recv", "parse"}
                              /\ spc = "send" => ~m_busy
                              /\ spc = "write" => m_busy
                              /\ spc # "send" => data = <<>>
BY DEF TypeOK, Flags, Buffers, Histories

LEMMA InitInv == Init => Inv
<1> SUFFICES ASSUME Init PROVE Inv
  OBVIOUS
<1> USE DEF Init
<1>1. Flags
  BY DEF Flags
<1>2. <<>> \in Seq(Byte) /\ <<>> \in Seq(Pdus) /\ <<>> \in Seq(Pdus \cup {None}) /\ Len(<<>>) = 0
  BY EmptySeq
<1>3. Buffers
  BY <1>2, ImConnAssumption DEF Buffers
<1>4. Places
  BY DEF Places, SendUnbuffered, BusyWhileBuffered
<1>5. Histories
  BY <1>2 DEF Histories
<1>6. Stream = <<>>
  BY <1>2, CatEmpty DEF Stream
<1>7. Ordered(<<>>, <<>>, 0)
  BY <1>2 DEF Ordered, Whole, Successive, Begins, Ends, Distinct
<1>8. HandledSent
  BY <1>2 DEF HandledSent
<1> QED BY <1>1, <1>2, <1>3, <1>4, <1>5, <1>6, <1>7, <1>8 DEF Inv, StreamInv

LEMMA FlagsStep == Inv /\ [Next]_vars => Flags'
<1> SUFFICES ASSUME Flags, [Next]_vars PROVE Flags'
  BY DEF Inv
<1> USE DEF Flags, sendVars, kernVars, recvVars, Calls, Accepts, Refuses
<1>1. ASSUME NEW p \in Pdus, SendBusy(p) PROVE Flags'
  BY <1>1, Zenon DEF SendBusy
<1>2. ASSUME NEW p \in Pdus, SendBegin(p) PROVE Flags'
  BY <1>2, Zenon DEF SendBegin
<1>3. CASE SendSome
  BY <1>3, Zenon DEF SendSome
<1>4. CASE SendRest
  BY <1>4, Zenon DEF SendRest
<1>5. CASE SendComplete
  BY <1>5, Zenon DEF SendComplete
<1>6. CASE Confirm
  BY <1>6, Zenon DEF Confirm
<1>7. CASE OnWrite
  BY <1>7, Zenon DEF OnWrite
<1>8. CASE OnWriteSome
  BY <1>8, Zenon DEF OnWriteSome
<1>9. CASE OnWriteRest
  BY <1>9, Zenon DEF OnWriteRest
<1>10. CASE OnWriteComplete
  BY <1>10, Zenon DEF OnWriteComplete
<1>11. CASE Transfer
  BY <1>11, Zenon DEF Transfer
<1>12. CASE WriteSpace
  BY <1>12, Zenon DEF WriteSpace
<1>13. CASE OnRead
  BY <1>13, Zenon DEF OnRead
<1>14. CASE Recv
  BY <1>14, Zenon DEF Recv
<1>15. CASE RecvEnd
  BY <1>15, Zenon DEF RecvEnd
<1>16. CASE HandlePdu
  BY <1>16, Zenon DEF HandlePdu
<1>17. CASE HandlerThrows
  BY <1>17, Zenon DEF HandlerThrows
<1>18. CASE Throw
  BY <1>18, Zenon DEF Throw
<1>19. CASE ParseEnd
  BY <1>19, Zenon DEF ParseEnd
<1>20. CASE UNCHANGED vars
  BY <1>20, Zenon DEF vars
<1> QED BY <1>1, <1>2, <1>3, <1>4, <1>5, <1>6, <1>7, <1>8, <1>9, <1>10, <1>11, <1>12, <1>13,
           <1>14, <1>15, <1>16, <1>17, <1>18, <1>19, <1>20, Zenon DEF Next, Sending, Receiving

\* What the kernel takes of buf leaves it at its front and fits.
LEMMA AcceptsSome ==
  ASSUME NEW buf \in Seq(Byte), NEW n \in 1 .. MaxSend, Buffers, Accepts(buf, n)
  PROVE  /\ n \in 0 .. Len(buf) /\ Drop(buf, n) \in Seq(Byte)
         /\ sndbuf' = Cat(sndbuf, SubSeq(buf, 1, n))
         /\ sndbuf' \in Seq(Byte) /\ Len(sndbuf') <= SndBuf /\ rcvbuf' = rcvbuf
<1>1. /\ n \in 1 .. AtMost(AtMost(Len(buf), MaxSend), Room)
      /\ sndbuf' = sndbuf \o SubSeq(buf, 1, n) /\ rcvbuf' = rcvbuf
  BY DEF Accepts
<1>2. Len(buf) \in Nat /\ Len(sndbuf) \in Nat /\ SndBuf \in Nat /\ MaxSend \in Nat
  BY LenProperties, ImConnAssumption DEF Buffers
<1>3. n \in 0 .. Len(buf) /\ n \in Nat /\ Len(sndbuf) + n <= SndBuf
  <2>1. n <= AtMost(AtMost(Len(buf), MaxSend), SndBuf - Len(sndbuf)) /\ n \in Nat
    BY <1>1 DEF Room
  <2> QED BY <1>2, <2>1 DEF AtMost
<1>4. SubSeq(buf, 1, n) \in Seq(Byte) /\ Drop(buf, n) \in Seq(Byte) /\ Len(SubSeq(buf, 1, n)) = n
  BY <1>3, Cut
<1>5. PICK x \in Seq(Byte) : x = SubSeq(buf, 1, n) /\ Len(x) = n
  BY <1>4
<1>6. Cat(sndbuf, x) \in Seq(Byte) /\ Len(Cat(sndbuf, x)) = Len(sndbuf) + Len(x)
  BY CatAt DEF Buffers
<1> QED BY <1>1, <1>3, <1>4, <1>5, <1>6 DEF Cat

\* The kernel moves the first byte.
LEMMA TransferFirst ==
  ASSUME Buffers, Transfer
  PROVE  /\ 1 \in 0 .. Len(sndbuf)
         /\ rcvbuf' = Cat(rcvbuf, SubSeq(sndbuf, 1, 1)) /\ sndbuf' = Drop(sndbuf, 1)
         /\ rcvbuf' \in Seq(Byte) /\ Len(rcvbuf') <= RcvBuf
         /\ sndbuf' \in Seq(Byte) /\ Len(sndbuf') <= SndBuf
<1>1. /\ rcvbuf' = Append(rcvbuf, Head(sndbuf)) /\ sndbuf' = Tail(sndbuf)
      /\ sndbuf # <<>> /\ Len(rcvbuf) < RcvBuf
  BY DEF Transfer
<1>2. /\ sndbuf \in Seq(Byte) /\ rcvbuf \in Seq(Byte) /\ Len(sndbuf) \in Nat /\ Len(rcvbuf) \in Nat
      /\ SndBuf \in Nat /\ RcvBuf \in Nat /\ Len(sndbuf) <= SndBuf
  BY LenProperties, ImConnAssumption DEF Buffers
<1>3. Len(sndbuf) >= 1 /\ 1 \in 0 .. Len(sndbuf)
  BY <1>1, <1>2, EmptySeq
<1>4. SubSeq(sndbuf, 1, 1) = <<Head(sndbuf)>>
  <2>1. 1 \in 1 .. Len(sndbuf) /\ 1 \in 1 .. 1
    BY <1>2, <1>3
  <2>2. SubSeq(sndbuf, 1, 1) = <<sndbuf[1]>> \o SubSeq(sndbuf, 1 + 1, 1)
    BY <1>2, <2>1, SubSeqRecursiveFirst
  <2>3. SubSeq(sndbuf, 1 + 1, 1) = <<>>
    BY SubSeqEmpty
  <2>4. sndbuf[1] \in Byte /\ Head(sndbuf) = sndbuf[1]
    BY <1>1, <1>2, <2>1, ElementOfSeq
  <2>5. <<sndbuf[1]>> \in Seq(Byte)
    BY <2>4
  <2>6. <<sndbuf[1]>> \o <<>> = <<sndbuf[1]>>
    BY <2>5, ConcatEmptySeq
  <2> QED BY <2>2, <2>3, <2>4, <2>6
<1>5. Tail(sndbuf) = Drop(sndbuf, 1)
  BY <1>1, <1>2, <1>3 DEF Drop
<1>6. Append(rcvbuf, Head(sndbuf)) = rcvbuf \o <<Head(sndbuf)>>
  BY <1>1, <1>2, AppendIsConcat, HeadTailProperties
<1>7. /\ Append(rcvbuf, Head(sndbuf)) \in Seq(Byte)
      /\ Len(Append(rcvbuf, Head(sndbuf))) = Len(rcvbuf) + 1
  BY <1>1, <1>2, AppendProperties, HeadTailProperties
<1>8. Tail(sndbuf) \in Seq(Byte) /\ Len(Tail(sndbuf)) = Len(sndbuf) - 1
  BY <1>1, <1>2, HeadTailProperties
<1>9. Len(rcvbuf) + 1 <= RcvBuf /\ Len(sndbuf) - 1 <= SndBuf
  BY <1>1, <1>2
<1> QED BY <1>1, <1>3, <1>4, <1>5, <1>6, <1>7, <1>8, <1>9 DEF Cat

\* OnRead takes from the front of what has arrived.
LEMMA RecvSome ==
  ASSUME Buffers, Recv
  PROVE  \E n \in 0 .. Len(rcvbuf) :
           /\ m_in_buf' = Cat(m_in_buf, SubSeq(rcvbuf, 1, n)) /\ rcvbuf' = Drop(rcvbuf, n)
           /\ m_in_buf' \in Seq(Byte) /\ rcvbuf' \in Seq(Byte) /\ Len(rcvbuf') <= RcvBuf
           /\ sndbuf' = sndbuf
<1>1. PICK n : n = AtMost(ReadBuf, Len(rcvbuf))
  OBVIOUS
<1>2. /\ m_in_buf' = m_in_buf \o SubSeq(rcvbuf, 1, n) /\ rcvbuf' = Drop(rcvbuf, n) /\ sndbuf' = sndbuf
  BY <1>1 DEF Recv
<1>3. /\ m_in_buf \in Seq(Byte) /\ rcvbuf \in Seq(Byte) /\ Len(rcvbuf) \in Nat /\ Len(rcvbuf) <= RcvBuf
      /\ ReadBuf \in Nat /\ RcvBuf \in Nat
  BY LenProperties, ImConnAssumption DEF Buffers
<1>4. n \in 0 .. Len(rcvbuf)
  BY <1>1, <1>3 DEF AtMost
<1>5. SubSeq(rcvbuf, 1, n) \in Seq(Byte) /\ Drop(rcvbuf, n) \in Seq(Byte)
  BY <1>3, <1>4, Cut
<1>6. Len(Drop(rcvbuf, n)) = Len(rcvbuf) - n
  BY <1>3, <1>4, DropAt
<1>7. Len(rcvbuf) - n <= RcvBuf
  BY <1>3, <1>4
<1>8. Cat(m_in_buf, SubSeq(rcvbuf, 1, n)) \in Seq(Byte)
  BY <1>3, <1>5, CatSeq
<1> QED BY <1>2, <1>4, <1>5, <1>6, <1>7, <1>8 DEF Cat

\* The stream is what the receiver has buffered and what is still to come.
LEMMA Split ==
  ASSUME Buffers
  PROVE  /\ Stream \in Seq(Byte)
         /\ \E rest \in Seq(Byte) :
              /\ rest = Cat(rcvbuf, Cat(sndbuf, Cat(data, m_out_buf)))
              /\ Stream = Cat(m_in_buf, rest)
<1>1. PICK a \in Seq(Byte) : a = Cat(data, m_out_buf)
  BY CatSeq DEF Buffers
<1>2. PICK b \in Seq(Byte) : b = Cat(sndbuf, a)
  BY CatSeq DEF Buffers
<1>3. PICK c \in Seq(Byte) : c = Cat(rcvbuf, b)
  BY CatSeq DEF Buffers
<1>4. Cat(m_in_buf, c) \in Seq(Byte)
  BY CatSeq DEF Buffers
<1> QED BY <1>1, <1>2, <1>3, <1>4 DEF Stream

\* The PDU HandlePdu gets is the next one, whole and not malformed.
LEMMA FrontPdu ==
  ASSUME Inv, IsPduAvailable, pdu_len > 0
  PROVE  \E p \in Pdus \ Malformed, n \in 0 .. Len(m_in_buf) :
           /\ Len(handled) < Len(sent) /\ p = sent[Len(handled) + 1] /\ n = PduLen[p]
           /\ ReadPdu = p /\ Head(m_in_buf).pdu = p /\ pdu_len = n
           /\ m_in_buf # <<>>
<1>1. /\ Stream \in Seq(Byte) /\ sent \in Seq(Pdus) /\ Len(handled) \in Nat
      /\ m_in_buf \in Seq(Byte) /\ Len(m_in_buf) \in Nat /\ HeaderLen \in Nat \ {0}
      /\ Ordered(Stream, sent, Len(handled))
  BY Split, LenProperties, ImConnAssumption DEF Inv, Buffers, Histories, StreamInv
<1>2. PICK rest \in Seq(Byte) : Stream = Cat(m_in_buf, rest)
  BY Split DEF Inv
<1>3. Len(m_in_buf) >= HeaderLen /\ pdu_len <= Len(m_in_buf) /\ pdu_len > 0
  BY DEF IsPduAvailable, HasHeader
<1>4. m_in_buf # <<>> /\ 1 \in 1 .. Len(m_in_buf) /\ Head(m_in_buf) = m_in_buf[1]
  <2>1. Len(m_in_buf) # 0 /\ 1 \in 1 .. Len(m_in_buf)
    BY <1>1, <1>3
  <2> QED BY <1>1, <2>1, EmptySeq
<1>5. \A i \in 1 .. Len(m_in_buf) : Stream[i] = m_in_buf[i]
  BY <1>1, <1>2, CatAt
<1>6. Stream # <<>>
  <2>1. Len(Stream) = Len(m_in_buf) + Len(rest)
    BY <1>1, <1>2, CatAt
  <2>2. Len(rest) \in Nat /\ Len(m_in_buf) # 0
    BY <1>1, <1>4, LenProperties, EmptySeq
  <2>3. Len(Stream) # 0
    BY <1>1, <2>1, <2>2
  <2> QED BY <2>3, EmptySeq
<1>7. PICK p \in Pdus : p = sent[Len(handled) + 1]
  BY <1>1, <1>6, OrderedFront
<1>8. PICK n \in Nat \ {0} : n = PduLen[p]
  BY Lengths
<1>9. Len(handled) < Len(sent) /\ \A i \in 1 .. n : Stream[i] = [pdu |-> p, unit |-> i]
  BY <1>1, <1>6, <1>7, <1>8, OrderedFront
<1>10. Head(m_in_buf).pdu = p
  <2>1. 1 \in 1 .. n
    OBVIOUS
  <2>2. m_in_buf[1] = [pdu |-> p, unit |-> 1]
    BY <1>4, <1>5, <1>9, <2>1
  <2> QED BY <1>4, <2>2
<1>11. p \notin Malformed /\ pdu_len = n
  BY <1>3, <1>8, <1>10 DEF pdu_len
<1>12. n \in 0 .. Len(m_in_buf)
  BY <1>1, <1>3, <1>11
<1>13. SubSeq(m_in_buf, 1, n) = Bytes(p)
  <2>1. \A i \in 1 .. n : m_in_buf[i] \in Byte
    <3>1. \A i \in 1 .. n : i \in 1 .. Len(m_in_buf)
      BY <1>1, <1>12
    <3> QED BY <1>1, <3>1, ElementOfSeq
  <2>2. PICK x : x = SubSeq(m_in_buf, 1, n)
    OBVIOUS
  <2>3. /\ x \in Seq(Byte) /\ Len(x) = n
        /\ \A i \in 1 .. n - 1 + 1 : x[i] = m_in_buf[1 + i - 1]
    BY <2>1, <2>2, SubSeqProperties
  <2>4. Bytes(p) \in Seq(Byte) /\ Len(Bytes(p)) = n
    BY <1>8, BytesOf
  <2>5. ASSUME NEW i \in 1 .. n PROVE x[i] = Bytes(p)[i]
    <3>1. i \in 1 .. n - 1 + 1 /\ 1 + i - 1 = i /\ i \in 1 .. Len(m_in_buf)
      BY <1>1, <1>12
    <3>2. x[i] = m_in_buf[i]
      <4>1. x[i] = m_in_buf[1 + i - 1]
        BY <2>3, <3>1
      <4> QED BY <3>1, <4>1
    <3>3. m_in_buf[i] = Stream[i]
      BY <1>5, <3>1
    <3>4. Stream[i] = [pdu |-> p, unit |-> i]
      BY <1>9
    <3>5. Bytes(p)[i] = [pdu |-> p, unit |-> i]
      BY <1>8, BytesOf
    <3> QED BY <3>2, <3>3, <3>4, <3>5
  <2> QED BY <2>2, <2>3, <2>4, <2>5, SeqEqual
<1>14. ReadPdu = p
  BY <1>10, <1>11, <1>13 DEF ReadPdu
<1> QED BY <1>4, <1>7, <1>8, <1>9, <1>10, <1>11, <1>12, <1>14

\* It is handled and read, or its handler throws.
LEMMA HandleFront ==
  ASSUME Inv, HandlePdu
  PROVE  \E p \in Pdus \ Malformed, n \in 0 .. Len(m_in_buf) :
           /\ Len(handled) < Len(sent) /\ p = sent[Len(handled) + 1] /\ n = PduLen[p]
           /\ handled' = Append(handled, p) /\ m_in_buf' = Drop(m_in_buf, n)
           /\ m_in_buf # <<>>
BY FrontPdu DEF HandlePdu

LEMMA ThrowsFront ==
  ASSUME Inv, HandlerThrows
  PROVE  \E p \in Pdus :
           /\ Len(handled) < Len(sent) /\ p = sent[Len(handled) + 1]
           /\ Head(m_in_buf).pdu = p /\ p \in Throwing
           /\ thrown' = Append(thrown, p)
BY FrontPdu DEF HandlerThrows

LEMMA BuffersStep == Inv /\ [Next]_vars => Buffers'
<1> SUFFICES ASSUME Inv, [Next]_vars PROVE Buffers'
  OBVIOUS
<1>0. Buffers
  BY DEF Inv
<1>1. ASSUME NEW p \in Pdus, SendBusy(p) PROVE Buffers'
  <2>1. m_out_buf' = Cat(m_out_buf, Bytes(p))
    BY <1>1 DEF SendBusy, Cat
  <2>2. m_out_buf' \in Seq(Byte)
    BY <1>0, <2>1, BytesOf, CatSeq DEF Buffers
  <2> QED BY <1>0, <1>1, <2>2 DEF SendBusy, Buffers, kernVars, recvVars
<1>2. ASSUME NEW p \in Pdus, SendBegin(p) PROVE Buffers'
  BY <1>0, <1>2, BytesOf DEF SendBegin, Buffers, kernVars, recvVars
<1>3. CASE SendSome
  <2>1. PICK n \in 1 .. MaxSend : Accepts(data, n) /\ data' = Drop(data, n)
    BY <1>3 DEF SendSome
  <2>2. /\ data' \in Seq(Byte) /\ sndbuf' \in Seq(Byte) /\ Len(sndbuf') <= SndBuf
        /\ rcvbuf' = rcvbuf
    BY <1>0, <2>1, AcceptsSome DEF Buffers
  <2> QED BY <1>0, <1>3, <2>2 DEF SendSome, Buffers, recvVars
<1>4. CASE SendRest
  <2>1. m_out_buf' = Cat(m_out_buf, data) /\ data' = <<>>
    BY <1>4 DEF SendRest, Cat
  <2>2. m_out_buf' \in Seq(Byte) /\ data' \in Seq(Byte)
    BY <1>0, <2>1, CatSeq, EmptySeq DEF Buffers
  <2> QED BY <1>0, <1>4, <2>2 DEF SendRest, Refuses, Buffers, recvVars
<1>5. CASE SendComplete
  BY <1>0, <1>5 DEF SendComplete, Buffers, sendVars, kernVars, recvVars, Calls, Refuses
<1>6. CASE Confirm
  BY <1>0, <1>6 DEF Confirm, Buffers, sendVars, kernVars, recvVars, Calls, Refuses
<1>7. CASE OnWrite
  BY <1>0, <1>7 DEF OnWrite, Buffers, sendVars, kernVars, recvVars, Calls, Refuses
<1>8. CASE OnWriteSome
  <2>1. PICK n \in 1 .. MaxSend : Accepts(m_out_buf, n) /\ m_out_buf' = Drop(m_out_buf, n)
    BY <1>8 DEF OnWriteSome
  <2>2. /\ m_out_buf' \in Seq(Byte) /\ sndbuf' \in Seq(Byte) /\ Len(sndbuf') <= SndBuf
        /\ rcvbuf' = rcvbuf
    BY <1>0, <2>1, AcceptsSome DEF Buffers
  <2> QED BY <1>0, <1>8, <2>2 DEF OnWriteSome, Buffers, recvVars
<1>9. CASE OnWriteRest
  BY <1>0, <1>9 DEF OnWriteRest, Buffers, sendVars, kernVars, recvVars, Calls, Refuses
<1>10. CASE OnWriteComplete
  BY <1>0, <1>10 DEF OnWriteComplete, Buffers, sendVars, kernVars, recvVars, Calls, Refuses
<1>11. CASE Transfer
  <2>1. /\ rcvbuf' \in Seq(Byte) /\ Len(rcvbuf') <= RcvBuf
        /\ sndbuf' \in Seq(Byte) /\ Len(sndbuf') <= SndBuf
    BY <1>0, <1>11, TransferFirst
  <2> QED BY <1>0, <1>11, <2>1 DEF Transfer, Buffers, sendVars, recvVars
<1>12. CASE WriteSpace
  BY <1>0, <1>12 DEF WriteSpace, Buffers, sendVars, kernVars, recvVars, Calls, Refuses
<1>13. CASE OnRead
  BY <1>0, <1>13 DEF OnRead, Buffers, sendVars, kernVars, recvVars, Calls, Refuses
<1>14. CASE Recv
  <2>1. /\ m_in_buf' \in Seq(Byte) /\ rcvbuf' \in Seq(Byte) /\ Len(rcvbuf') <= RcvBuf
        /\ sndbuf' = sndbuf
    BY <1>0, <1>14, RecvSome
  <2> QED BY <1>0, <1>14, <2>1 DEF Recv, Buffers, sendVars
<1>15. CASE RecvEnd
  BY <1>0, <1>15 DEF RecvEnd, Buffers, sendVars, kernVars, recvVars, Calls, Refuses
<1>16. CASE HandlePdu
  <2>1. m_in_buf' \in Seq(Byte)
    BY <1>0, <1>16, HandleFront, DropAt DEF Buffers
  <2> QED BY <1>0, <1>16, <2>1 DEF HandlePdu, Buffers, sendVars, kernVars
<1>17. CASE HandlerThrows
  BY <1>0, <1>17 DEF HandlerThrows, Buffers, sendVars, kernVars
<1>18. CASE Throw
  BY <1>0, <1>18 DEF Throw, Buffers, sendVars, kernVars, recvVars, Calls, Refuses
<1>19. CASE ParseEnd
  BY <1>0, <1>19 DEF ParseEnd, Buffers, sendVars, kernVars, recvVars, Calls, Refuses
<1>20. CASE UNCHANGED vars
  BY <1>0, <1>20 DEF vars, Buffers, sendVars, kernVars, recvVars
<1> QED BY <1>1, <1>2, <1>3, <1>4, <1>5, <1>6, <1>7, <1>8, <1>9, <1>10, <1>11, <1>12, <1>13,
           <1>14, <1>15, <1>16, <1>17, <1>18, <1>19, <1>20, Zenon DEF Next, Sending, Receiving

LEMMA HistoriesStep == Inv /\ [Next]_vars => Histories'
<1> SUFFICES ASSUME Inv, [Next]_vars PROVE Histories'
  OBVIOUS
<1>0. Histories
  BY DEF Inv
<1>1. ASSUME NEW p \in Pdus, SendBusy(p) PROVE Histories'
  <2>1. sent' = Append(sent, p) /\ handled' = handled /\ thrown' = thrown
    BY <1>1 DEF SendBusy, Calls
  <2> QED BY <1>0, <2>1, AppendProperties DEF Histories
<1>2. ASSUME NEW p \in Pdus, SendBegin(p) PROVE Histories'
  <2>1. sent' = Append(sent, p) /\ handled' = handled /\ thrown' = thrown
    BY <1>2 DEF SendBegin, Calls
  <2> QED BY <1>0, <2>1, AppendProperties DEF Histories
<1>3. CASE SendSome
  BY <1>0, <1>3 DEF SendSome, Histories
<1>4. CASE SendRest
  BY <1>0, <1>4 DEF SendRest, Histories
<1>5. CASE SendComplete
  BY <1>0, <1>5 DEF SendComplete, Histories
<1>6. CASE Confirm
  BY <1>0, <1>6 DEF Confirm, Histories
<1>7. CASE OnWrite
  BY <1>0, <1>7 DEF OnWrite, Histories
<1>8. CASE OnWriteSome
  BY <1>0, <1>8 DEF OnWriteSome, Histories
<1>9. CASE OnWriteRest
  BY <1>0, <1>9 DEF OnWriteRest, Histories
<1>10. CASE OnWriteComplete
  BY <1>0, <1>10 DEF OnWriteComplete, Histories
<1>11. CASE Transfer
  BY <1>0, <1>11 DEF Transfer, Histories
<1>12. CASE WriteSpace
  BY <1>0, <1>12 DEF WriteSpace, Histories
<1>13. CASE OnRead
  BY <1>0, <1>13 DEF OnRead, Histories
<1>14. CASE Recv
  BY <1>0, <1>14 DEF Recv, Histories
<1>15. CASE RecvEnd
  BY <1>0, <1>15 DEF RecvEnd, Histories
<1>16. CASE HandlePdu
  <2>1. PICK p \in Pdus : handled' = Append(handled, p)
    BY <1>16, HandleFront
  <2>2. sent' = sent /\ thrown' = thrown
    BY <1>16 DEF HandlePdu
  <2> QED BY <1>0, <2>1, <2>2, AppendProperties DEF Histories
<1>17. CASE HandlerThrows
  <2>1. PICK p \in Pdus : thrown' = Append(thrown, p)
    BY <1>17, ThrowsFront
  <2>2. sent' = sent /\ handled' = handled
    BY <1>17 DEF HandlerThrows
  <2> QED BY <1>0, <2>1, <2>2, AppendProperties DEF Histories
<1>18. CASE Throw
  BY <1>0, <1>18 DEF Throw, Histories
<1>19. CASE ParseEnd
  BY <1>0, <1>19 DEF ParseEnd, Histories
<1>20. CASE UNCHANGED vars
  BY <1>0, <1>20 DEF vars, Histories
<1> QED BY <1>1, <1>2, <1>3, <1>4, <1>5, <1>6, <1>7, <1>8, <1>9, <1>10, <1>11, <1>12, <1>13,
           <1>14, <1>15, <1>16, <1>17, <1>18, <1>19, <1>20, Zenon DEF Next, Sending, Receiving

LEMMA PlacesStep == Inv /\ [Next]_vars => Places'
<1> SUFFICES ASSUME Buffers, Places, [Next]_vars PROVE Places'
  BY DEF Inv
<1>1. ASSUME NEW p \in Pdus, SendBusy(p) PROVE Places'
  <2>1. m_out_buf' = Cat(m_out_buf, Bytes(p))
    BY <1>1 DEF SendBusy, Cat
  <2>2. m_out_buf' # <<>>
    BY <2>1, BytesOf, ConcatNotEmpty DEF Buffers
  <2> QED BY <1>1, <2>2 DEF SendBusy, Calls, Places, SendUnbuffered, BusyWhileBuffered, recvVars
<1>2. ASSUME NEW p \in Pdus, SendBegin(p) PROVE Places'
  BY <1>2 DEF SendBegin, Calls, Places, SendUnbuffered, BusyWhileBuffered, recvVars
<1>3. CASE SendSome
  BY <1>3 DEF SendSome, Places, SendUnbuffered, BusyWhileBuffered, recvVars
<1>4. CASE SendRest
  <2>1. m_out_buf' = data /\ data # <<>>
    <3>1. m_out_buf = <<>> /\ m_out_buf' = Cat(m_out_buf, data) /\ data # <<>>
      BY <1>4 DEF SendRest, Cat, Places, SendUnbuffered
    <3> QED BY <3>1, CatEmpty DEF Buffers
  <2> QED BY <1>4, <2>1 DEF SendRest, Places, SendUnbuffered, BusyWhileBuffered, recvVars
<1>5. CASE SendComplete
  BY <1>5 DEF SendComplete, Places, SendUnbuffered, BusyWhileBuffered, recvVars
<1>6. CASE Confirm
  BY <1>6 DEF Confirm, Places, SendUnbuffered, BusyWhileBuffered, recvVars
<1>7. CASE OnWrite
  BY <1>7 DEF OnWrite, Places, SendUnbuffered, BusyWhileBuffered, recvVars
<1>8. CASE OnWriteSome
  BY <1>8 DEF OnWriteSome, Places, SendUnbuffered, BusyWhileBuffered, recvVars
<1>9. CASE OnWriteRest
  BY <1>9 DEF OnWriteRest, Places, SendUnbuffered, BusyWhileBuffered, recvVars
<1>10. CASE OnWriteComplete
  BY <1>10 DEF OnWriteComplete, Places, SendUnbuffered, BusyWhileBuffered, recvVars
<1>11. CASE Transfer
  BY <1>11 DEF Transfer, Places, SendUnbuffered, BusyWhileBuffered, sendVars, recvVars
<1>12. CASE WriteSpace
  BY <1>12 DEF WriteSpace, Places, SendUnbuffered, BusyWhileBuffered, sendVars, recvVars
<1>13. CASE OnRead
  BY <1>13 DEF OnRead, Places, SendUnbuffered, BusyWhileBuffered, sendVars, recvVars
<1>14. CASE Recv
  BY <1>14 DEF Recv, Places, SendUnbuffered, BusyWhileBuffered, sendVars, recvVars
<1>15. CASE RecvEnd
  BY <1>15 DEF RecvEnd, Places, SendUnbuffered, BusyWhileBuffered, sendVars, recvVars
<1>16. CASE HandlePdu
  BY <1>16 DEF HandlePdu, Places, SendUnbuffered, BusyWhileBuffered, sendVars, recvVars
<1>17. CASE HandlerThrows
  BY <1>17 DEF HandlerThrows, Places, SendUnbuffered, BusyWhileBuffered, sendVars
<1>18. CASE Throw
  BY <1>18 DEF Throw, Places, SendUnbuffered, BusyWhileBuffered, sendVars, recvVars
<1>19. CASE ParseEnd
  BY <1>19 DEF ParseEnd, Places, SendUnbuffered, BusyWhileBuffered, sendVars, recvVars
<1>20. CASE UNCHANGED vars
  BY <1>20 DEF vars, Places, SendUnbuffered, BusyWhileBuffered, sendVars, recvVars
<1> QED BY <1>1, <1>2, <1>3, <1>4, <1>5, <1>6, <1>7, <1>8, <1>9, <1>10, <1>11, <1>12, <1>13,
           <1>14, <1>15, <1>16, <1>17, <1>18, <1>19, <1>20, Zenon DEF Next, Sending, Receiving

\* A step that sends nothing and is done with nothing only moves bytes within the stream.
LEMMA StreamKept ==
  ASSUME StreamInv, Stream' = Stream, sent' = sent, handled' = handled
  PROVE  StreamInv'
BY DEF StreamInv, HandledSent

\* Send adds its PDU at the end, whether to m_out_buf or to what it is sending.
LEMMA StreamSent ==
  ASSUME Inv, NEW p \in Pdus, p \notin ToSet(sent), sent' = Append(sent, p), handled' = handled,
         Stream' = Cat(Stream, Bytes(p))
  PROVE  StreamInv'
<1>1. /\ Stream \in Seq(Byte) /\ sent \in Seq(Pdus) /\ Len(handled) \in Nat /\ Len(sent) \in Nat
      /\ Ordered(Stream, sent, Len(handled)) /\ HandledSent
  BY Split, LenProperties DEF Inv, Histories, StreamInv
<1>2. Ordered(Cat(Stream, Bytes(p)), Append(sent, p), Len(handled))
  BY <1>1, OrderedSend DEF HandledSent
<1>3. HandledSent'
  <2>1. Len(sent') = Len(sent) + 1 /\ \A i \in 1 .. Len(sent) : sent'[i] = sent[i]
    BY <1>1, AppendProperties
  <2>2. Len(handled) <= Len(sent')
    BY <1>1, <2>1 DEF HandledSent
  <2>3. ASSUME NEW i \in 1 .. Len(handled) PROVE handled[i] = sent'[i] /\ sent'[i] \notin Malformed
    <3>1. i \in 1 .. Len(sent)
      BY <1>1 DEF HandledSent
    <3>2. handled[i] = sent[i] /\ sent[i] \notin Malformed
      BY <1>1 DEF HandledSent
    <3> QED BY <2>1, <3>1, <3>2
  <2> QED BY <2>2, <2>3 DEF HandledSent
<1> QED BY <1>2, <1>3 DEF StreamInv

\* The stream when the two buffers of the sender are replaced by others.
LEMMA StreamEnd ==
  ASSUME Buffers, NEW d \in Seq(Byte), NEW o \in Seq(Byte), NEW b \in Seq(Byte),
         Cat(d, o) = Cat(Cat(data, m_out_buf), b)
  PROVE  Cat(m_in_buf, Cat(rcvbuf, Cat(sndbuf, Cat(d, o)))) = Cat(Stream, b)
<1>1. PICK x \in Seq(Byte) : x = Cat(data, m_out_buf)
  BY CatSeq DEF Buffers
<1>2. PICK y \in Seq(Byte) : y = Cat(sndbuf, x)
  BY CatSeq DEF Buffers
<1>3. PICK z \in Seq(Byte) : z = Cat(rcvbuf, y)
  BY CatSeq DEF Buffers
<1>4. Cat(sndbuf, Cat(x, b)) = Cat(y, b)
  BY <1>2, Regroup DEF Buffers
<1>5. Cat(rcvbuf, Cat(y, b)) = Cat(z, b)
  BY <1>3, Regroup DEF Buffers
<1>6. Cat(m_in_buf, Cat(z, b)) = Cat(Cat(m_in_buf, z), b)
  BY Regroup DEF Buffers
<1> QED BY <1>1, <1>2, <1>3, <1>4, <1>5, <1>6 DEF Stream

LEMMA StreamHandled ==
  ASSUME Inv, HandlePdu
  PROVE  StreamInv'
<1>1. PICK p \in Pdus \ Malformed, n \in 0 .. Len(m_in_buf) :
         /\ Len(handled) < Len(sent) /\ p = sent[Len(handled) + 1] /\ n = PduLen[p]
         /\ handled' = Append(handled, p) /\ m_in_buf' = Drop(m_in_buf, n)
         /\ m_in_buf # <<>>
  BY HandleFront
<1>2. PICK rest \in Seq(Byte) : /\ rest = Cat(rcvbuf, Cat(sndbuf, Cat(data, m_out_buf)))
                                /\ Stream = Cat(m_in_buf, rest)
  BY Split DEF Inv
<1>3. Stream' = Cat(Drop(m_in_buf, n), rest)
  BY <1>1, <1>2 DEF HandlePdu, kernVars, sendVars, Stream
<1>4. Stream' = Drop(Stream, n)
  <2>1. m_in_buf \in Seq(Byte)
    BY DEF Inv, Buffers
  <2>2. Drop(m_in_buf, n) \o rest = Drop(m_in_buf \o rest, n)
    BY <2>1, DropConcat
  <2> QED BY <1>2, <1>3, <2>2 DEF Cat
<1>5. /\ Stream \in Seq(Byte) /\ sent \in Seq(Pdus) /\ handled \in Seq(Pdus \cup {None})
      /\ Len(handled) \in Nat /\ Len(sent) \in Nat
      /\ Ordered(Stream, sent, Len(handled)) /\ HandledSent
  BY Split, LenProperties DEF Inv, Histories, StreamInv
<1>6. Stream # <<>>
  <2>1. Len(Stream) = Len(m_in_buf) + Len(rest) /\ m_in_buf \in Seq(Byte)
    BY <1>2, CatAt DEF Inv, Buffers
  <2>2. Len(m_in_buf) \in Nat /\ Len(rest) \in Nat /\ Len(m_in_buf) # 0
    BY <1>1, <2>1, LenProperties, EmptySeq
  <2>3. Len(Stream) # 0
    BY <2>1, <2>2
  <2> QED BY <2>3, EmptySeq
<1>7. Ordered(Drop(Stream, n), sent, Len(handled) + 1)
  BY <1>1, <1>5, <1>6, OrderedHandle
<1>8. /\ sent' = sent /\ Len(handled') = Len(handled) + 1 /\ handled'[Len(handled) + 1] = p
      /\ \A i \in 1 .. Len(handled) : handled'[i] = handled[i]
  BY <1>1, <1>5, AppendProperties DEF HandlePdu
<1>9. HandledSent'
  <2>1. Len(handled') <= Len(sent)
    BY <1>1, <1>5, <1>8
  <2>2. ASSUME NEW i \in 1 .. Len(handled') PROVE handled'[i] = sent[i] /\ sent[i] \notin Malformed
    <3>1. i \in 1 .. Len(handled) \/ i = Len(handled) + 1
      BY <1>5, <1>8
    <3>2. CASE i \in 1 .. Len(handled)
      BY <1>5, <1>8, <3>2 DEF HandledSent
    <3>3. CASE i = Len(handled) + 1
      BY <1>1, <1>8, <3>3
    <3> QED BY <3>1, <3>2, <3>3
  <2> QED BY <1>8, <2>1, <2>2 DEF HandledSent
<1> QED BY <1>4, <1>7, <1>8, <1>9 DEF StreamInv

LEMMA StreamStep == Inv /\ [Next]_vars => StreamInv'
<1> SUFFICES ASSUME Inv, [Next]_vars PROVE StreamInv'
  OBVIOUS
<1>0. Buffers /\ Places /\ StreamInv
  BY DEF Inv
<1>1. ASSUME NEW p \in Pdus, SendBusy(p) PROVE StreamInv'
  <2>1. /\ m_out_buf' = Cat(m_out_buf, Bytes(p)) /\ data' = data
        /\ UNCHANGED <<m_in_buf, rcvbuf, sndbuf>>
        /\ p \notin ToSet(sent) /\ sent' = Append(sent, p) /\ handled' = handled
    BY <1>1 DEF SendBusy, Calls, kernVars, recvVars, Cat
  <2>2. PICK b \in Seq(Byte) : b = Bytes(p)
    BY BytesOf
  <2>3. PICK o \in Seq(Byte) : o = Cat(m_out_buf, b)
    BY <1>0, CatSeq DEF Buffers
  <2>4. Cat(data, o) = Cat(Cat(data, m_out_buf), b)
    BY <1>0, <2>3, Regroup DEF Buffers
  <2>5. Cat(m_in_buf, Cat(rcvbuf, Cat(sndbuf, Cat(data, o)))) = Cat(Stream, b)
    BY <1>0, <2>4, StreamEnd DEF Buffers
  <2>6. Stream' = Cat(Stream, b)
    BY <2>1, <2>2, <2>3, <2>5 DEF Stream
  <2> QED BY <2>1, <2>2, <2>6, StreamSent
<1>2. ASSUME NEW p \in Pdus, SendBegin(p) PROVE StreamInv'
  <2>1. /\ data' = Bytes(p) /\ UNCHANGED <<m_in_buf, rcvbuf, sndbuf, m_out_buf>>
        /\ p \notin ToSet(sent) /\ sent' = Append(sent, p) /\ handled' = handled
        /\ data = <<>> /\ m_out_buf = <<>>
    BY <1>0, <1>2 DEF SendBegin, Calls, kernVars, recvVars, Places, BusyWhileBuffered
  <2>2. PICK b \in Seq(Byte) : b = Bytes(p)
    BY BytesOf
  <2>3. Cat(b, m_out_buf) = Cat(Cat(data, m_out_buf), b)
    BY <2>1, CatEmpty, EmptySeq
  <2>4. Cat(m_in_buf, Cat(rcvbuf, Cat(sndbuf, Cat(b, m_out_buf)))) = Cat(Stream, b)
    BY <1>0, <2>3, StreamEnd DEF Buffers
  <2>5. Stream' = Cat(Stream, b)
    BY <2>1, <2>2, <2>4 DEF Stream
  <2> QED BY <2>1, <2>2, <2>5, StreamSent
<1>3. CASE SendSome
  <2>1. PICK n \in 1 .. MaxSend : Accepts(data, n) /\ data' = Drop(data, n)
    BY <1>3 DEF SendSome
  <2>2. /\ n \in 0 .. Len(data) /\ sndbuf' = Cat(sndbuf, SubSeq(data, 1, n))
        /\ rcvbuf' = rcvbuf
    BY <1>0, <2>1, AcceptsSome DEF Buffers
  <2>3. Cat(sndbuf', Cat(data', m_out_buf)) = Cat(sndbuf, Cat(data, m_out_buf))
    BY <1>0, <2>1, <2>2, Move DEF Buffers
  <2>4. UNCHANGED <<m_in_buf, m_out_buf, sent, handled>>
    BY <1>3 DEF SendSome, recvVars
  <2>5. Stream' = Stream
    BY <2>2, <2>3, <2>4 DEF Stream
  <2> QED BY <1>0, <2>4, <2>5, StreamKept
<1>4. CASE SendRest
  <2>1. /\ m_out_buf = <<>> /\ m_out_buf' = Cat(m_out_buf, data) /\ data' = <<>>
        /\ UNCHANGED <<m_in_buf, rcvbuf, sndbuf, sent, handled>>
    BY <1>0, <1>4 DEF SendRest, Refuses, recvVars, Cat, Places, SendUnbuffered
  <2>2. Cat(data', m_out_buf') = data /\ Cat(data, m_out_buf) = data
    BY <1>0, <2>1, CatEmpty DEF Buffers
  <2>3. Stream' = Stream
    BY <2>1, <2>2 DEF Stream
  <2> QED BY <1>0, <2>1, <2>3, StreamKept
<1>5. CASE SendComplete
  <2>1. Stream' = Stream /\ sent' = sent /\ handled' = handled
    BY <1>5 DEF SendComplete, sendVars, kernVars, recvVars, Refuses, Stream
  <2> QED BY <1>0, <2>1, StreamKept
<1>6. CASE Confirm
  <2>1. Stream' = Stream /\ sent' = sent /\ handled' = handled
    BY <1>6 DEF Confirm, sendVars, kernVars, recvVars, Refuses, Stream
  <2> QED BY <1>0, <2>1, StreamKept
<1>7. CASE OnWrite
  <2>1. Stream' = Stream /\ sent' = sent /\ handled' = handled
    BY <1>7 DEF OnWrite, sendVars, kernVars, recvVars, Refuses, Stream
  <2> QED BY <1>0, <2>1, StreamKept
<1>8. CASE OnWriteSome
  <2>1. PICK n \in 1 .. MaxSend : Accepts(m_out_buf, n) /\ m_out_buf' = Drop(m_out_buf, n)
    BY <1>8 DEF OnWriteSome
  <2>2. /\ n \in 0 .. Len(m_out_buf) /\ sndbuf' = Cat(sndbuf, SubSeq(m_out_buf, 1, n))
        /\ rcvbuf' = rcvbuf /\ m_out_buf' \in Seq(Byte)
    BY <1>0, <2>1, AcceptsSome DEF Buffers
  <2>3. Cat(sndbuf', Cat(m_out_buf', <<>>)) = Cat(sndbuf, Cat(m_out_buf, <<>>))
    <3>1. PICK e \in Seq(Byte) : e = <<>>
      BY EmptySeq
    <3>2. Cat(Cat(sndbuf, SubSeq(m_out_buf, 1, n)), Cat(Drop(m_out_buf, n), e)) = Cat(sndbuf, Cat(m_out_buf, e))
      BY <1>0, <2>2, Move DEF Buffers
    <3> QED BY <2>1, <2>2, <3>1, <3>2
  <2>4. data = <<>> /\ UNCHANGED <<m_in_buf, data, sent, handled>>
    BY <1>0, <1>8 DEF OnWriteSome, recvVars, Places
  <2>5. /\ Cat(m_out_buf', <<>>) = Cat(data, m_out_buf')
        /\ Cat(m_out_buf, <<>>) = Cat(data, m_out_buf)
    BY <1>0, <2>2, <2>4, CatEmpty DEF Buffers
  <2>6. Stream' = Stream
    BY <2>2, <2>3, <2>4, <2>5 DEF Stream
  <2> QED BY <1>0, <2>4, <2>6, StreamKept
<1>9. CASE OnWriteRest
  <2>1. Stream' = Stream /\ sent' = sent /\ handled' = handled
    BY <1>9 DEF OnWriteRest, sendVars, kernVars, recvVars, Refuses, Stream
  <2> QED BY <1>0, <2>1, StreamKept
<1>10. CASE OnWriteComplete
  <2>1. Stream' = Stream /\ sent' = sent /\ handled' = handled
    BY <1>10 DEF OnWriteComplete, sendVars, kernVars, recvVars, Refuses, Stream
  <2> QED BY <1>0, <2>1, StreamKept
<1>11. CASE Transfer
  <2>1. /\ 1 \in 0 .. Len(sndbuf)
        /\ rcvbuf' = Cat(rcvbuf, SubSeq(sndbuf, 1, 1)) /\ sndbuf' = Drop(sndbuf, 1)
    BY <1>0, <1>11, TransferFirst
  <2>2. PICK x \in Seq(Byte) : x = Cat(data, m_out_buf)
    BY <1>0, CatSeq DEF Buffers
  <2>3. Cat(rcvbuf', Cat(sndbuf', x)) = Cat(rcvbuf, Cat(sndbuf, x))
    BY <1>0, <2>1, Move DEF Buffers
  <2>4. UNCHANGED <<m_in_buf, data, m_out_buf, sent, handled>>
    BY <1>11 DEF Transfer, sendVars, recvVars
  <2>5. Stream' = Stream
    BY <2>2, <2>3, <2>4 DEF Stream
  <2> QED BY <1>0, <2>4, <2>5, StreamKept
<1>12. CASE WriteSpace
  <2>1. Stream' = Stream /\ sent' = sent /\ handled' = handled
    BY <1>12 DEF WriteSpace, sendVars, kernVars, recvVars, Refuses, Stream
  <2> QED BY <1>0, <2>1, StreamKept
<1>13. CASE OnRead
  <2>1. Stream' = Stream /\ sent' = sent /\ handled' = handled
    BY <1>13 DEF OnRead, sendVars, kernVars, recvVars, Refuses, Stream
  <2> QED BY <1>0, <2>1, StreamKept
<1>14. CASE Recv
  <2>1. PICK n \in 0 .. Len(rcvbuf) :
           m_in_buf' = Cat(m_in_buf, SubSeq(rcvbuf, 1, n)) /\ rcvbuf' = Drop(rcvbuf, n) /\ sndbuf' = sndbuf
    BY <1>0, <1>14, RecvSome
  <2>2. PICK x \in Seq(Byte) : x = Cat(data, m_out_buf)
    BY <1>0, CatSeq DEF Buffers
  <2>3. PICK y \in Seq(Byte) : y = Cat(sndbuf, x)
    BY <1>0, CatSeq DEF Buffers
  <2>4. Cat(m_in_buf', Cat(rcvbuf', y)) = Cat(m_in_buf, Cat(rcvbuf, y))
    BY <1>0, <2>1, Move DEF Buffers
  <2>5. UNCHANGED <<data, m_out_buf, sent, handled>>
    BY <1>14 DEF Recv, sendVars
  <2>6. Stream' = Stream
    BY <2>1, <2>2, <2>3, <2>4, <2>5 DEF Stream
  <2> QED BY <1>0, <2>5, <2>6, StreamKept
<1>15. CASE RecvEnd
  <2>1. Stream' = Stream /\ sent' = sent /\ handled' = handled
    BY <1>15 DEF RecvEnd, sendVars, kernVars, recvVars, Refuses, Stream
  <2> QED BY <1>0, <2>1, StreamKept
<1>16. CASE HandlePdu
  BY <1>16, StreamHandled
<1>17. CASE HandlerThrows
  <2>1. Stream' = Stream /\ sent' = sent /\ handled' = handled
    BY <1>17 DEF HandlerThrows, sendVars, kernVars, Stream
  <2> QED BY <1>0, <2>1, StreamKept
<1>18. CASE Throw
  <2>1. Stream' = Stream /\ sent' = sent /\ handled' = handled
    BY <1>18 DEF Throw, sendVars, kernVars, recvVars, Refuses, Stream
  <2> QED BY <1>0, <2>1, StreamKept
<1>19. CASE ParseEnd
  <2>1. Stream' = Stream /\ sent' = sent /\ handled' = handled
    BY <1>19 DEF ParseEnd, sendVars, kernVars, recvVars, Refuses, Stream
  <2> QED BY <1>0, <2>1, StreamKept
<1>20. CASE UNCHANGED vars
  <2>1. Stream' = Stream /\ sent' = sent /\ handled' = handled
    BY <1>20 DEF vars, sendVars, kernVars, recvVars, Stream
  <2> QED BY <1>0, <2>1, StreamKept
<1> QED BY <1>1, <1>2, <1>3, <1>4, <1>5, <1>6, <1>7, <1>8, <1>9, <1>10, <1>11, <1>12, <1>13,
           <1>14, <1>15, <1>16, <1>17, <1>18, <1>19, <1>20, Zenon DEF Next, Sending, Receiving

LEMMA EdgeStep ==
  Flags /\ Places /\ Quiet /\ BusyHasEdge /\ [Next]_vars => Quiet' /\ BusyHasEdge'
<1> SUFFICES ASSUME Flags, Places, Quiet, BusyHasEdge, [Next]_vars PROVE Quiet' /\ BusyHasEdge'
  OBVIOUS
<1> USE DEF Flags, Places, Quiet, BusyHasEdge, sendVars, kernVars, recvVars, Calls, Accepts, Refuses
<1>1. ASSUME NEW p \in Pdus, SendBusy(p) PROVE Quiet' /\ BusyHasEdge'
  BY <1>1, Zenon DEF SendBusy
<1>2. ASSUME NEW p \in Pdus, SendBegin(p) PROVE Quiet' /\ BusyHasEdge'
  BY <1>2, Zenon DEF SendBegin
<1>3. CASE SendSome
  BY <1>3, Zenon DEF SendSome
<1>4. CASE SendRest
  BY <1>4, Zenon DEF SendRest
<1>5. CASE SendComplete
  BY <1>5, Zenon DEF SendComplete
<1>6. CASE Confirm
  BY <1>6, Zenon DEF Confirm
<1>7. CASE OnWrite
  BY <1>7, Zenon DEF OnWrite
<1>8. CASE OnWriteSome
  BY <1>8, Zenon DEF OnWriteSome
<1>9. CASE OnWriteRest
  BY <1>9, Zenon DEF OnWriteRest
<1>10. CASE OnWriteComplete
  BY <1>10, Zenon DEF OnWriteComplete
<1>11. CASE Transfer
  BY <1>11, Zenon DEF Transfer
<1>12. CASE WriteSpace
  BY <1>12, Zenon DEF WriteSpace
<1>13. CASE OnRead
  BY <1>13, Zenon DEF OnRead
<1>14. CASE Recv
  BY <1>14, Zenon DEF Recv
<1>15. CASE RecvEnd
  BY <1>15, Zenon DEF RecvEnd
<1>16. CASE HandlePdu
  BY <1>16, Zenon DEF HandlePdu
<1>17. CASE HandlerThrows
  BY <1>17, Zenon DEF HandlerThrows
<1>18. CASE Throw
  BY <1>18, Zenon DEF Throw
<1>19. CASE ParseEnd
  BY <1>19, Zenon DEF ParseEnd
<1>20. CASE UNCHANGED vars
  BY <1>20, Zenon DEF vars
<1> QED BY <1>1, <1>2, <1>3, <1>4, <1>5, <1>6, <1>7, <1>8, <1>9, <1>10, <1>11, <1>12, <1>13,
           <1>14, <1>15, <1>16, <1>17, <1>18, <1>19, <1>20, Zenon DEF Next, Sending, Receiving

-----------------------------------------------------------------------------
(* Theorems                                                                *)

\* The inductive invariant: types, what is buffered when, and the stream.
THEOREM Invariance == Spec => []Inv
<1>1. Init => Inv
  BY InitInv
<1>2. Inv /\ [Next]_vars => Inv'
  BY FlagsStep, BuffersStep, HistoriesStep, PlacesStep, StreamStep DEF Inv
<1> QED BY <1>1, <1>2, PTL DEF Spec

\* Type correctness; the kernel's buffers keep their sizes.
THEOREM TypeCorrect == Spec => []TypeOK
<1>1. Inv => TypeOK
  BY TypeParts DEF Inv, Places
<1> QED BY <1>1, Invariance, PTL

\* CImConn::Send never overtakes bytes that wait in m_out_buf: between calls
\* m_busy says whether there are any.
THEOREM BusyWhileBufferedHolds == Spec => []BusyWhileBuffered
<1>1. Inv => BusyWhileBuffered
  BY DEF Inv, Places
<1> QED BY <1>1, Invariance, PTL

\* If nothing was sent before CONFIRM, a busy connection is owed an EPOLLOUT.
THEOREM BusyHasEdgeHolds == Spec => []BusyHasEdge
<1>1. Init => Quiet /\ BusyHasEdge
  BY DEF Init, Quiet, BusyHasEdge
<1>2. Inv => Flags /\ Places
  BY DEF Inv
<1> QED BY <1>1, <1>2, EdgeStep, Invariance, PTL DEF Spec

\* OnRead never hands a PDU on that was sent after a malformed one.
THEOREM NothingAfterMalformedHolds == Spec => []NothingAfterMalformed
<1>1. Inv => NothingAfterMalformed
  <2>1. ASSUME Inv, NEW i \in DOMAIN sent, sent[i] \in Malformed, ~(Len(handled) < i) PROVE FALSE
    <3>1. DOMAIN sent = 1 .. Len(sent) /\ Len(sent) \in Nat /\ Len(handled) \in Nat
      BY <2>1, LenProperties DEF Inv, Histories
    <3>2. i \in 1 .. Len(handled)
      BY <2>1, <3>1
    <3> QED BY <2>1, <3>2 DEF Inv, StreamInv, HandledSent
  <2> QED BY <2>1 DEF NothingAfterMalformed
<1> QED BY <1>1, Invariance, PTL

\* OnRead and Send together implement PduChannel: the PDUs are handled in the
\* order sent and whole, whatever the system calls take of them, each until its
\* handler returns: again only if it threw, and then before any behind it.
THEOREM ImplementsChannel == Spec => ChannelSpec
<1>1. Init => Channel!Init
  BY DEF Init, Channel!Init
<1>2. Inv /\ [Next]_vars => [Channel!Next]_<<sent, handled, thrown>>
  <2> SUFFICES ASSUME Inv, [Next]_vars PROVE [Channel!Next]_<<sent, handled, thrown>>
    OBVIOUS
  <2>1. ASSUME NEW p \in Pdus, SendBusy(p) \/ SendBegin(p) PROVE Channel!Send(p)
    BY <2>1 DEF SendBusy, SendBegin, Calls, ToSet, Channel!Send, Channel!ToSet
  <2>2. CASE HandlePdu
    <3>1. Channel!Handle
      BY <2>2, HandleFront DEF HandlePdu, Channel!Handle
    <3> QED BY <3>1 DEF Channel!Next
  <2>3. CASE HandlerThrows
    <3>1. Channel!Throw
      BY <2>3, ThrowsFront DEF HandlerThrows, Channel!Throw
    <3> QED BY <3>1 DEF Channel!Next
  <2>4. ASSUME \/ Sending \/ Transfer \/ WriteSpace \/ UNCHANGED vars
               \/ OnRead \/ Recv \/ RecvEnd \/ Throw \/ ParseEnd
        PROVE  UNCHANGED <<sent, handled, thrown>>
    BY <2>4, Zenon DEF Sending, SendSome, SendRest, SendComplete, Confirm, OnWrite, OnWriteSome,
       OnWriteRest, OnWriteComplete, Transfer, WriteSpace, OnRead, Recv, RecvEnd, Throw, ParseEnd, vars
  <2> QED BY <2>1, <2>2, <2>3, <2>4, Zenon DEF Next, Receiving, Channel!Next
<1> QED BY <1>1, <1>2, Invariance, PTL DEF Spec, ChannelSpec, Channel!Spec, Channel!vars

-----------------------------------------------------------------------------
(* Nothing is left behind: when neither thread nor the kernel has anything  *)
(* to do, every PDU was handled, up to a malformed one or one whose        *)
(* handler threw.                                                          *)

ConfirmPending == m_state = "connecting" => edgeOut

ReadHasEdge == rpc # "recv" /\ rcvbuf # <<>> => edgeIn

Parsed == rpc = "idle" /\ IsPduAvailable => pdu_len = 0 \/ Head(m_in_buf).pdu \in ToSet(thrown)

Attended == ConfirmPending /\ ReadHasEdge /\ Parsed

\* No step of the two threads and of the kernel is possible.
AtRest ==
  /\ spc = "idle" /\ ~edgeOut
  /\ rpc = "idle" /\ ~(open /\ edgeIn /\ rcvbuf # <<>>)
  /\ ~(sndbuf # <<>> /\ Len(rcvbuf) < RcvBuf)
  /\ ~(nospace /\ Room > 0)

AllHandled ==
  \/ Len(handled) = Len(sent)
  \/ Len(handled) < Len(sent) /\ sent[Len(handled) + 1] \in Malformed
  \/ Stuck

\* Steps of the sending end and of the kernel.
LEMMA AttendedFrame ==
  ASSUME Attended, UNCHANGED recvVars, thrown' = thrown,
         edgeIn' \/ UNCHANGED <<rcvbuf, edgeIn>>,
         m_state' = "connecting" => m_state = "connecting" /\ (edgeOut => edgeOut')
  PROVE  Attended'
BY DEF Attended, ConfirmPending, ReadHasEdge, Parsed, IsPduAvailable, HasHeader, pdu_len, recvVars

LEMMA ThrownLast ==
  ASSUME NEW S, NEW s \in Seq(S), NEW e \in S
  PROVE  e \in ToSet(Append(s, e))
<1>1. /\ Append(s, e) \in Seq(S) /\ Len(Append(s, e)) = Len(s) + 1
      /\ Append(s, e)[Len(s) + 1] = e /\ Len(s) \in Nat
  BY AppendProperties, LenProperties
<1>2. Len(s) + 1 \in DOMAIN Append(s, e)
  BY <1>1, LenProperties
<1> QED BY <1>1, <1>2 DEF ToSet

LEMMA AttendedStep == Inv /\ Attended /\ [Next]_vars => Attended'
<1> SUFFICES ASSUME Inv, Attended, [Next]_vars PROVE Attended'
  OBVIOUS
<1> USE DEF sendVars, kernVars, Calls, Accepts, Refuses
<1>1. ASSUME NEW p \in Pdus, SendBusy(p) \/ SendBegin(p) PROVE Attended'
  BY <1>1, AttendedFrame DEF SendBusy, SendBegin
<1>2. CASE SendSome \/ OnWriteSome
  BY <1>2, AttendedFrame DEF SendSome, OnWriteSome
<1>3. CASE SendRest \/ SendComplete \/ OnWriteRest \/ OnWriteComplete
  BY <1>3, AttendedFrame DEF SendRest, SendComplete, OnWriteRest, OnWriteComplete
<1>4. CASE Confirm \/ OnWrite
  BY <1>4, AttendedFrame DEF Confirm, OnWrite
<1>5. CASE Transfer \/ WriteSpace
  BY <1>5, AttendedFrame DEF Transfer, WriteSpace
<1>6. ASSUME UNCHANGED <<m_state, edgeOut>>, ReadHasEdge', Parsed' PROVE Attended'
  BY <1>6 DEF Attended, ConfirmPending
<1>7. CASE OnRead \/ Recv
  <2>1. rpc' = "recv"
    BY <1>7 DEF OnRead, Recv
  <2> QED BY <1>6, <1>7, <2>1 DEF OnRead, Recv, ReadHasEdge, Parsed
<1>8. CASE RecvEnd \/ HandlePdu
  <2>1. rpc' = "parse" /\ (rcvbuf' # <<>> => rpc # "recv" /\ UNCHANGED <<rcvbuf, edgeIn>>)
    BY <1>8 DEF RecvEnd, HandlePdu
  <2> QED BY <1>6, <1>8, <2>1 DEF RecvEnd, HandlePdu, Attended, ReadHasEdge, Parsed
<1>9. CASE HandlerThrows
  <2>1. PICK p \in Pdus : Head(m_in_buf).pdu = p /\ thrown' = Append(thrown, p)
    BY <1>9, ThrowsFront
  <2>2. p \in ToSet(thrown')
    BY <2>1, ThrownLast DEF Inv, Histories
  <2>3. m_in_buf' = m_in_buf /\ rpc # "recv" /\ UNCHANGED <<rcvbuf, edgeIn>>
    BY <1>9 DEF HandlerThrows
  <2>4. Parsed'
    BY <2>1, <2>2, <2>3 DEF Parsed
  <2> QED BY <1>6, <1>9, <2>3, <2>4 DEF HandlerThrows, Attended, ReadHasEdge
<1>10. CASE Throw \/ ParseEnd
  <2>1. Parsed'
    BY <1>10 DEF Throw, ParseEnd, Parsed, IsPduAvailable, HasHeader, pdu_len
  <2>2. rpc # "recv" /\ UNCHANGED <<rcvbuf, edgeIn>>
    BY <1>10 DEF Throw, ParseEnd
  <2> QED BY <1>6, <1>10, <2>1, <2>2 DEF Throw, ParseEnd, Attended, ReadHasEdge
<1>11. CASE UNCHANGED vars
  BY <1>11, AttendedFrame DEF vars
<1> QED BY <1>1, <1>2, <1>3, <1>4, <1>5, <1>7, <1>8, <1>9, <1>10, <1>11, Zenon DEF Next, Sending, Receiving

\* All that was sent is in m_in_buf when both ends rest.
LEMMA RestStream ==
  ASSUME Inv, Attended, BusyHasEdge, AtRest, ~early, open
  PROVE  Stream = m_in_buf
<1>1. rcvbuf = <<>> /\ sndbuf = <<>>
  BY ImConnAssumption DEF Attended, ReadHasEdge, AtRest
<1>2. ~nospace
  BY <1>1, ImConnAssumption DEF AtRest, Room
<1>3. m_out_buf = <<>> /\ data = <<>>
  BY <1>2 DEF BusyHasEdge, AtRest, Inv, Places, BusyWhileBuffered
<1>4. m_in_buf \in Seq(Byte)
  BY DEF Inv, Buffers
<1> QED BY <1>1, <1>3, <1>4, CatEmpty, EmptySeq DEF Stream

\* A whole PDU in front of m_in_buf would have been handled, or its handler threw.
LEMMA RestHandled ==
  ASSUME Inv, Attended, BusyHasEdge, AtRest, ~early, open
  PROVE  AllHandled
<1>1. Ordered(m_in_buf, sent, Len(handled))
  BY RestStream DEF Inv, StreamInv
<1>2. m_in_buf \in Seq(Byte) /\ Len(m_in_buf) \in Nat
  BY LenProperties DEF Inv, Buffers
<1>3. sent \in Seq(Pdus) /\ Len(sent) \in Nat /\ Len(handled) \in Nat
  BY LenProperties DEF Inv, Histories
<1>4. CASE m_in_buf = <<>>
  BY <1>1, <1>4 DEF Ordered, Ends, AllHandled
<1>5. CASE m_in_buf # <<>>
  <2> DEFINE p == sent[Len(handled) + 1]
  <2>1. Len(handled) < Len(sent) /\ m_in_buf[1] = [pdu |-> p, unit |-> 1]
    BY <1>1, <1>5 DEF Ordered, Begins
  <2>2. p \in Pdus
    BY <1>3, <2>1, ElementOfSeq
  <2>3. PduLen[p] \in Nat /\ HeaderLen \in Nat /\ HeaderLen > 0 /\ PduLen[p] >= HeaderLen
    BY <2>2, ImConnAssumption
  <2>4. PduLen[p] <= Len(m_in_buf)
    <3>1. 1 \in 1 .. Len(m_in_buf)
      BY <1>2, <1>5, EmptySeq
    <3>2. m_in_buf[1].pdu = p /\ m_in_buf[1].unit = 1
      BY <2>1
    <3>3. PduLen[p] - 1 \in 0 .. PduLen[p] - 1
      BY <2>3
    <3>4. 1 + (PduLen[p] - 1) <= Len(m_in_buf)
      BY <1>1, <3>1, <3>2, <3>3 DEF Ordered, Whole
    <3> QED BY <2>3, <3>4, <1>2
  <2>5. Head(m_in_buf).pdu = p
    BY <1>2, <1>5, <2>1
  <2>6. ASSUME p \notin Malformed, p \notin ToSet(thrown) PROVE FALSE
    <3>1. pdu_len = PduLen[p]
      BY <2>5, <2>6 DEF pdu_len
    <3>2. IsPduAvailable /\ pdu_len # 0
      BY <1>2, <2>3, <2>4, <3>1 DEF IsPduAvailable, HasHeader
    <3> QED BY <2>5, <2>6, <3>2 DEF Attended, Parsed, AtRest
  <2> QED BY <2>1, <2>6 DEF AllHandled, Stuck
<1> QED BY <1>4, <1>5

\* imconn.cpp, the safety half of EveryPduHandled: with edges reported once, no
\* sequence of short writes, EAGAINs and partial reads comes to rest with a
\* PDU half way, if nothing was sent before CONFIRM, the receiver is open and
\* the PDU that is next is neither malformed nor one whose handler threw.
THEOREM RestMeansHandled == Spec => [](AtRest /\ ~early /\ open => AllHandled)
<1>1. Init => Attended
  BY ImConnAssumption
     DEF Init, Attended, ConfirmPending, ReadHasEdge, Parsed, IsPduAvailable, HasHeader
<1>2. Inv /\ Attended /\ BusyHasEdge => (AtRest /\ ~early /\ open => AllHandled)
  BY RestHandled
<1> QED BY <1>1, <1>2, AttendedStep, Invariance, BusyHasEdgeHolds, PTL DEF Spec

=============================================================================
