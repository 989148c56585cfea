----------------------------- MODULE TcpProofs ------------------------------
(***************************************************************************)
(* Proofs about TcpConnection, for every size of the data, of a segment    *)
(* and of the shadow stream and for every number of faults of the network, *)
(* as long as sequence numbers do not wrap.  First the types, then TcpInv, *)
(* from which the stream is in order, and last CleanInv, of what is on its *)
(* way between the ends while the network makes no fault and no shadow     *)
(* stream has been full.                                                   *)
(***************************************************************************)
EXTENDS TcpConnection, SequenceLemmas

LEMMA PlusType ==
  ASSUME NEW a \in Int, NEW n \in Int
  PROVE  Plus(a, n) \in Numbers
  BY TcpAssumption DEF Plus, Numbers

LEMMA PlusAtMost ==
  ASSUME NEW a \in Nat, NEW n \in Nat
  PROVE  Plus(a, n) \in Nat /\ Plus(a, n) <= a + n
<1>1. PICK m \in Nat : m = a + n
  OBVIOUS
<1>2. SeqMod \in Nat \ {0}
  BY TcpAssumption
<1>3. m % SeqMod <= m /\ m % SeqMod \in Nat
  BY <1>2
<1> QED
  BY <1>1, <1>3 DEF Plus

LEMMA PlusSmall ==
  ASSUME NEW a \in Nat, NEW n \in Nat, a + n < SeqMod
  PROVE  Plus(a, n) = a + n
  BY TcpAssumption DEF Plus, Numbers

\* The number of pieces of L bytes.
LEMMA PieceCount ==
  ASSUME NEW L \in Nat \ {0}
  PROVE  LET n == (L + Mss - 1) \div Mss
         IN n \in Nat \ {0} /\ (n - 1) * Mss < L /\ L <= n * Mss
<1> DEFINE n == (L + Mss - 1) \div Mss
<1>1. Mss \in Nat \ {0}
  BY TcpAssumption
<1>2. n \in Int /\ Mss * n <= L + Mss - 1 /\ L + Mss - 1 < Mss * n + Mss
  BY <1>1
<1> HIDE DEF n
<1>3. n >= 1
  <2> SUFFICES ASSUME n <= 0 PROVE FALSE
    BY <1>2
  <2>1. Mss * n <= 0
    BY <1>1, <1>2
  <2> QED
    BY <1>1, <1>2, <2>1
<1>4. (n - 1) * Mss = Mss * n - Mss /\ n * Mss = Mss * n /\ Mss * n \in Int
  BY <1>1, <1>2
<1> QED
  BY <1>1, <1>2, <1>3, <1>4 DEF n

LEMMA Monotone ==
  ASSUME NEW i \in Int, NEW j \in Int, i <= j
  PROVE  i * Mss <= j * Mss
  BY TcpAssumption

Flags == {"SYN", "ACK", "FIN", "RST", "PSH"}

LEMMA SegType ==
  ASSUME NEW flags \in SUBSET Flags, NEW seq \in Numbers, NEW ack \in Numbers,
         NEW wnd \in 0 .. StreamSize, NEW data \in Seq(Nat)
  PROVE  Seg(flags, seq, ack, wnd, data) \in Segments
  BY DEF Seg, Segments, Flags

\* The windows that are advertised.
LEMMA Windows ==
  /\ 0 \in 0 .. StreamSize /\ StreamSize \in 0 .. StreamSize
  /\ \A b \in Blocks : Room(b) \in 0 .. StreamSize
<1>1. StreamSize \in Nat
  BY TcpAssumption
<1>2. ASSUME NEW b \in Blocks
      PROVE  Room(b) \in 0 .. StreamSize
  <2>1. b.shadow \in 0 .. StreamSize
    BY DEF Blocks
  <2> QED
    BY <1>1, <2>1 DEF Room
<1> QED
  BY <1>1, <1>2

\* The offset and the size of the i-th of n pieces of L bytes.
Offset(i) == (i - 1) * Mss
Size(L, n, i) == IF i = n THEN L - Offset(n) ELSE Mss

\* Pieces cover the data, one after the other.
LEMMA PieceBounds ==
  ASSUME NEW L \in Nat \ {0}, NEW n, n = (L + Mss - 1) \div Mss
  PROVE  /\ n \in Nat \ {0}
         /\ \A i \in 1 .. n :
              /\ Offset(i) \in Nat /\ Size(L, n, i) \in Nat \ {0}
              /\ Offset(i) + Size(L, n, i) <= L
              /\ Offset(i) + Size(L, n, i) = IF i = n THEN L ELSE Offset(i + 1)
         /\ \A i, j \in 1 .. n : i < j => Offset(i) + Size(L, n, i) <= Offset(j)
         /\ Offset(1) = 0
<1>1. n \in Nat \ {0} /\ Offset(n) < L /\ L <= n * Mss /\ Mss \in Nat \ {0}
  BY PieceCount, TcpAssumption DEF Offset
<1>2. ASSUME NEW i \in 1 .. n
      PROVE  Offset(i) \in Nat /\ Offset(i) <= Offset(n) /\ Offset(i + 1) = Offset(i) + Mss
  <2>1. 0 * Mss <= (i - 1) * Mss /\ (i - 1) * Mss <= (n - 1) * Mss
    BY <1>1, Monotone
  <2>2. (i - 1) * Mss \in Int /\ ((i + 1) - 1) * Mss = (i - 1) * Mss + Mss
    BY <1>1
  <2> QED
    BY <1>1, <2>1, <2>2 DEF Offset
<1>3. ASSUME NEW i \in 1 .. n, NEW j \in 1 .. n, i < j
      PROVE  Offset(i) + Mss <= Offset(j)
  <2>1. ((i + 1) - 1) * Mss <= (j - 1) * Mss
    BY <1>1, <1>3, Monotone
  <2> QED
    BY <1>2, <1>3, <2>1 DEF Offset
<1>4. Offset(1) = 0
  BY <1>1 DEF Offset
<1>5. Offset(n) \in Nat
  BY <1>1, <1>2
<1>6. ASSUME NEW i \in 1 .. n
      PROVE  /\ Size(L, n, i) \in Nat \ {0}
             /\ Offset(i) + Size(L, n, i) <= L
             /\ Offset(i) + Size(L, n, i) = IF i = n THEN L ELSE Offset(i + 1)
  <2>1. CASE i = n
    BY <1>1, <1>5, <2>1 DEF Size
  <2>2. CASE i < n
    <3>1. Offset(i) + Mss <= Offset(n)
      BY <1>1, <1>3, <2>2
    <3> QED
      BY <1>1, <1>2, <1>5, <2>2, <3>1 DEF Size
  <2> QED
    BY <1>1, <2>1, <2>2
<1>7. ASSUME NEW i \in 1 .. n, NEW j \in 1 .. n, i < j
      PROVE  Offset(i) + Size(L, n, i) <= Offset(j)
  BY <1>1, <1>3, <1>7 DEF Size
<1> QED
  BY <1>1, <1>2, <1>4, <1>6, <1>7

\* The last piece is the one that is pushed.
PieceFlags(flags, n, i) == IF i = n THEN flags \cup {"PSH"} ELSE flags

\* What sendSegment sends.
PiecesOK(b, flags, data, n) ==
  /\ Pieces(b, flags, data) \in Seq(Segments)
  /\ Len(Pieces(b, flags, data)) = n
  /\ \A i \in 1 .. n :
       LET g == Pieces(b, flags, data)[i]
           k == Size(Len(data), n, i)
       IN /\ g.flags = PieceFlags(flags, n, i) /\ g.seq = Plus(b.snd_nxt, Offset(i))
          /\ g.ack = b.rcv_nxt /\ g.wnd = Room(b)
          /\ Len(g.data) = k /\ \A j \in 1 .. k : g.data[j] = data[Offset(i) + j]

LEMMA PieceShape ==
  ASSUME NEW b \in Blocks, NEW flags \in SUBSET Flags, NEW data \in Seq(Nat), data # <<>>,
         NEW n, n = (Len(data) + Mss - 1) \div Mss
  PROVE  PiecesOK(b, flags, data, n)
<1> USE DEF PiecesOK
<1> DEFINE L == Len(data)
           D(i) == SubSeq(data, (i - 1) * Mss + 1, IF i = n THEN Len(data) ELSE i * Mss)
           P(i) == Seg(PieceFlags(flags, n, i), Plus(b.snd_nxt, (i - 1) * Mss), b.rcv_nxt, Room(b),
                       D(i))
           q == [i \in 1 .. n |-> P(i)]
<1>1. L \in Nat \ {0} /\ Mss \in Nat \ {0}
  BY EmptySeq, LenProperties, TcpAssumption
<1>2. Pieces(b, flags, data) = q
  BY DEF Pieces, PieceFlags
<1>3. ASSUME NEW i \in 1 .. n
      PROVE  /\ D(i) \in Seq(Nat) /\ Len(D(i)) = Size(L, n, i)
             /\ \A j \in 1 .. Size(L, n, i) : D(i)[j] = data[Offset(i) + j]
  <2> DEFINE lo == Offset(i) + 1
             hi == IF i = n THEN L ELSE i * Mss
  <2>1. /\ n \in Nat \ {0} /\ Offset(i) \in Nat /\ Size(L, n, i) \in Nat \ {0}
        /\ Offset(i) + Size(L, n, i) <= L
        /\ Offset(i) + Size(L, n, i) = IF i = n THEN L ELSE Offset(i + 1)
    <3> HIDE DEF D, P, q
    <3>1. n = (L + Mss - 1) \div Mss
      OBVIOUS
    <3> HIDE DEF L
    <3>2. PICK k \in Nat \ {0} : k = L
      BY <1>1
    <3>3. n = (k + Mss - 1) \div Mss
      BY <3>1, <3>2, Zenon
    <3>4. /\ n \in Nat \ {0}
          /\ \A m \in 1 .. n :
               /\ Offset(m) \in Nat /\ Size(k, n, m) \in Nat \ {0}
               /\ Offset(m) + Size(k, n, m) <= k
               /\ Offset(m) + Size(k, n, m) = IF m = n THEN k ELSE Offset(m + 1)
      BY <3>3, PieceBounds, Zenon
    <3> QED
      BY <3>2, <3>4, Zenon
  <2>2. hi = Offset(i) + Size(L, n, i)
    <3>1. Offset(i + 1) = i * Mss
      BY <2>1, <1>1 DEF Offset
    <3> QED
      BY <2>1, <3>1
  <2>3. D(i) = SubSeq(data, lo, hi)
    BY DEF Offset
  <2> HIDE DEF lo, hi, D
  <2>4. lo \in 1 .. L /\ hi \in lo .. L
    BY <1>1, <2>1, <2>2 DEF lo
  <2>5. lo \in Int /\ hi \in Int /\ lo <= hi /\ \A j \in lo .. hi : data[j] \in Nat
    <3>1. lo \in Int /\ hi \in Int /\ lo <= hi /\ \A j \in lo .. hi : j \in 1 .. L
      BY <1>1, <2>4
    <3> QED
      BY <3>1, ElementOfSeq
  <2>6. /\ SubSeq(data, lo, hi) \in Seq(Nat)
        /\ Len(SubSeq(data, lo, hi)) = hi - lo + 1
        /\ \A j \in 1 .. hi - lo + 1 : SubSeq(data, lo, hi)[j] = data[lo + j - 1]
    BY <2>5, SubSeqProperties
  <2>7. hi - lo + 1 = Size(L, n, i)
    BY <2>1, <2>2, <2>5 DEF lo
  <2>8. \A j \in Int : lo + j - 1 = Offset(i) + j
    BY <2>1 DEF lo
  <2>9. ASSUME NEW j \in 1 .. Size(L, n, i)
        PROVE  D(i)[j] = data[Offset(i) + j]
    <3>1. j \in Int /\ j \in 1 .. hi - lo + 1
      BY <2>1, <2>7
    <3>2. D(i)[j] = data[lo + j - 1]
      BY <2>3, <2>6, <3>1
    <3>3. lo + j - 1 = Offset(i) + j
      BY <2>8, <3>1
    <3> QED
      BY <3>2, <3>3
  <2> QED
    BY <2>3, <2>6, <2>7, <2>9
<1> HIDE DEF D
<1>4. n \in Nat \ {0}
  BY <1>1, PieceBounds
<1>5. ASSUME NEW i \in 1 .. n
      PROVE  P(i) \in Segments
  <2>1. b.snd_nxt \in Nat /\ b.rcv_nxt \in Numbers /\ (i - 1) * Mss \in Int
    BY <1>1, <1>4 DEF Blocks, Numbers
  <2>2. Plus(b.snd_nxt, (i - 1) * Mss) \in Numbers
    BY <2>1, PlusType
  <2>3. PieceFlags(flags, n, i) \in SUBSET Flags
    BY DEF PieceFlags, Flags
  <2> QED
    BY <1>3, <2>1, <2>2, <2>3, SegType, Windows
<1>6. q \in Seq(Segments) /\ Len(q) = n /\ \A i \in 1 .. n : q[i] = P(i)
  <2> HIDE DEF P
  <2> QED
    BY <1>4, <1>5
<1>7. ASSUME NEW i \in 1 .. n
      PROVE  /\ q[i].flags = PieceFlags(flags, n, i) /\ q[i].seq = Plus(b.snd_nxt, Offset(i))
             /\ q[i].ack = b.rcv_nxt /\ q[i].wnd = Room(b) /\ q[i].data = D(i)
  BY <1>6 DEF Seg, Offset
<1> HIDE DEF q
<1> QED
  BY <1>2, <1>3, <1>6, <1>7

\* The types of what sendSegment sends, and of the block after it.
LEMMA PiecesType ==
  ASSUME NEW b \in Blocks, NEW flags \in SUBSET Flags, NEW data \in Seq(Nat)
  PROVE  /\ Pieces(b, flags, data) \in Seq(Segments)
         /\ SendSegment(b, flags, data) \in Blocks
<1>1. Pieces(b, flags, data) \in Seq(Segments)
  <2>1. CASE data = <<>>
    <3>1. Seg(flags, b.snd_nxt, b.rcv_nxt, Room(b), <<>>) \in Segments
      BY SegType, EmptySeq, Windows DEF Blocks
    <3> QED
      BY <2>1, <3>1 DEF Pieces
  <2>2. CASE data # <<>>
    BY <2>2, PieceShape DEF PiecesOK
  <2> QED
    BY <2>1, <2>2
<1>2. b.rtq \o Pieces(b, flags, data) \in Seq(Segments)
  BY <1>1, ConcatProperties DEF Blocks
<1>3. Plus(b.snd_nxt, Len(data)) \in Numbers
  BY PlusType, LenProperties DEF Blocks, Numbers
<1> QED
  BY <1>1, <1>2, <1>3 DEF SendSegment, Blocks

\* What is left of segment g after an ACK of a part of it.
Split(g, ack) ==
  [g EXCEPT !.seq = ack, !.data = SubSeq(@, 1, Len(@) - (ack - g.seq))]

\* A split leaves a segment, which ends where it did.
LEMMA SplitType ==
  ASSUME NEW g \in Segments, NEW ack \in Numbers, g.seq <= ack,
         ack < Plus(g.seq, Len(g.data))
  PROVE  /\ Split(g, ack) \in Segments
         /\ Split(g, ack).seq + Len(Split(g, ack).data) = g.seq + Len(g.data)
<1>1. g.seq \in Nat /\ ack \in Nat /\ g.data \in Seq(Nat) /\ Len(g.data) \in Nat
  BY LenProperties DEF Segments, Numbers
<1>2. PICK q \in Nat : q = g.seq
  BY <1>1
<1>3. PICK L \in Nat : L = Len(g.data)
  BY <1>1
<1>4. Plus(q, L) <= q + L
  BY PlusAtMost
<1>5. PICK m \in Nat : m = L - (ack - q) /\ m <= L
  <2>1. q <= ack /\ ack < Plus(q, L) /\ Plus(q, L) \in Int
    <3>1. Plus(q, L) \in Numbers
      BY PlusType
    <3> QED
      BY <1>2, <1>3, <3>1 DEF Numbers
  <2>2. L - (ack - q) \in Nat /\ L - (ack - q) <= L
    BY <1>1, <1>4, <2>1
  <2> QED
    BY <2>2
<1>6. SubSeq(g.data, 1, m) \in Seq(Nat) /\ Len(SubSeq(g.data, 1, m)) = m
  <2>1. 1 \in Int /\ m \in Int /\ \A j \in 1 .. m : g.data[j] \in Nat
    <3>1. \A j \in 1 .. m : j \in 1 .. Len(g.data)
      BY <1>3, <1>5
    <3> QED
      BY <1>1, <3>1, ElementOfSeq
  <2>2. /\ SubSeq(g.data, 1, m) \in Seq(Nat)
        /\ Len(SubSeq(g.data, 1, m)) = IF 1 <= m THEN m - 1 + 1 ELSE 0
    BY <2>1, SubSeqProperties
  <2> QED
    BY <2>2
<1>7. Split(g, ack) = [g EXCEPT !.seq = ack, !.data = SubSeq(g.data, 1, m)]
  BY <1>2, <1>3, <1>5 DEF Split
<1>8. Split(g, ack) \in Segments /\ Split(g, ack).seq = ack
      /\ Split(g, ack).data = SubSeq(g.data, 1, m)
  BY <1>6, <1>7 DEF Segments
<1>9. ack + m = q + L
  BY <1>1, <1>5
<1> QED
  BY <1>2, <1>3, <1>6, <1>8, <1>9

\* What ackSegment keeps of the queue: nothing, or what is left of the segment that holds
\* the next byte, and all behind it.
LEMMA AfterAckLemma ==
  ASSUME NEW rtq \in Seq(Segments), NEW ack \in Numbers
  PROVE  /\ AfterAckSegment(rtq, ack) \in Seq(Segments)
         /\ \A g \in Elems(AfterAckSegment(rtq, ack)) :
              \E h \in Elems(rtq) : g.seq + Len(g.data) = h.seq + Len(h.data)
         /\ (\A h \in Elems(rtq) : Plus(h.seq, Len(h.data)) <= ack)
              => AfterAckSegment(rtq, ack) = <<>>
<1> DEFINE holds == {i \in 1 .. Len(rtq) :
                       rtq[i].seq <= ack /\ ack < Plus(rtq[i].seq, Len(rtq[i].data))}
           k == CHOOSE i \in holds : \A j \in holds : i <= j
           h == Split(rtq[k], ack)
           r == SubSeq(rtq, k + 1, Len(rtq))
<1>1. CASE holds = {}
  <2>1. AfterAckSegment(rtq, ack) = <<>>
    BY <1>1 DEF AfterAckSegment
  <2> QED
    BY <2>1, EmptySeq DEF Elems
<1>2. CASE holds # {}
  <2>1. AfterAckSegment(rtq, ack) = <<h>> \o r
    BY <1>2 DEF AfterAckSegment, Split
  <2>2. Len(rtq) \in Nat /\ holds \in SUBSET Nat
    BY LenProperties
  <2>3. \E i \in holds : \A j \in holds : i <= j
    <3> HIDE DEF holds
    <3> QED
      BY <1>2, <2>2, SmallestNumber
  <2>4. k \in holds
    <3> HIDE DEF holds
    <3> QED
      BY <2>3
  <2>5. k \in 1 .. Len(rtq) /\ rtq[k].seq <= ack /\ ack < Plus(rtq[k].seq, Len(rtq[k].data))
    <3> HIDE DEF k
    <3> QED
      BY <2>4
  <2> HIDE DEF k
  <2>6. rtq[k] \in Segments
    BY <2>5, ElementOfSeq
  <2>7. h \in Segments /\ h.seq + Len(h.data) = rtq[k].seq + Len(rtq[k].data)
    BY <2>5, <2>6, SplitType
  <2>8. r \in Seq(Segments) /\ \A j \in 1 .. Len(r) : r[j] \in Elems(rtq)
    <3>1. k + 1 \in Int /\ Len(rtq) \in Int /\ \A j \in (k + 1) .. Len(rtq) : j \in 1 .. Len(rtq)
      BY <2>2, <2>5
    <3>2. \A j \in (k + 1) .. Len(rtq) : rtq[j] \in Segments
      BY <3>1, ElementOfSeq
    <3>3. /\ r \in Seq(Segments)
          /\ Len(r) = IF k + 1 <= Len(rtq) THEN Len(rtq) - (k + 1) + 1 ELSE 0
          /\ \A j \in 1 .. Len(rtq) - (k + 1) + 1 : r[j] = rtq[(k + 1) + j - 1]
      BY <3>1, <3>2, SubSeqProperties
    <3>4. ASSUME NEW j \in 1 .. Len(r)
          PROVE  r[j] \in Elems(rtq)
      <4>1. j \in 1 .. Len(rtq) - (k + 1) + 1 /\ (k + 1) + j - 1 \in 1 .. Len(rtq)
        BY <2>2, <2>5, <3>3
      <4> QED
        BY <3>3, <4>1 DEF Elems
    <3> QED
      BY <3>3, <3>4
  <2> HIDE DEF h, r
  <2>9. /\ <<h>> \o r \in Seq(Segments) /\ Len(<<h>> \o r) = 1 + Len(r)
        /\ \A j \in 1 .. 1 + Len(r) : (<<h>> \o r)[j] = IF j = 1 THEN h ELSE r[j - 1]
    <3>1. <<h>> \in Seq(Segments) /\ Len(<<h>>) = 1 /\ <<h>>[1] = h
      BY <2>7
    <3>2. Len(r) \in Nat
      BY <2>8, LenProperties
    <3>3. <<h>> \o r \in Seq(Segments) /\ Len(<<h>> \o r) = 1 + Len(r)
          /\ \A j \in 1 .. 1 + Len(r) :
               (<<h>> \o r)[j] = IF j <= 1 THEN <<h>>[j] ELSE r[j - 1]
      BY <2>8, <3>1, ConcatProperties
    <3> QED
      BY <3>1, <3>2, <3>3
  <2>10. ASSUME NEW g \in Elems(<<h>> \o r)
         PROVE  g = h \/ g \in Elems(rtq)
    <3>1. PICK j \in 1 .. 1 + Len(r) : g = (<<h>> \o r)[j]
      BY <2>9 DEF Elems
    <3>2. j = 1 \/ j - 1 \in 1 .. Len(r)
      BY <2>8, LenProperties
    <3> QED
      BY <2>8, <2>9, <3>1, <3>2
  <2>11. rtq[k] \in Elems(rtq)
    BY <2>5 DEF Elems
  <2>12. ~ Plus(rtq[k].seq, Len(rtq[k].data)) <= ack
    <3>1. rtq[k].seq \in Int /\ Len(rtq[k].data) \in Int
      BY <2>6, LenProperties DEF Segments, Numbers
    <3>2. Plus(rtq[k].seq, Len(rtq[k].data)) \in Numbers
      BY <3>1, PlusType
    <3> QED
      BY <2>5, <3>2 DEF Numbers
  <2>13. ASSUME NEW g \in Elems(<<h>> \o r)
         PROVE  \E p \in Elems(rtq) : g.seq + Len(g.data) = p.seq + Len(p.data)
    BY <2>7, <2>10, <2>11
  <2> QED
    BY <2>1, <2>9, <2>11, <2>12, <2>13
<1> QED
  BY <1>1, <1>2

Works == [b : Blocks, out : Seq(Segments), got : Seq(Nat), acked : BOOLEAN]

\* The types of the fields of a block.
LEMMA AckOfType ==
  ASSUME NEW b \in Blocks
  PROVE  AckOf(b) \in Segments
  BY SegType, EmptySeq, Windows DEF AckOf, Blocks, Flags

LEMMA ResetType ==
  ASSUME NEW n \in Numbers
  PROVE  Reset(n) \in Segments
<1>1. 0 \in Numbers
  BY TcpAssumption DEF Numbers
<1> QED
  BY <1>1, SegType, EmptySeq, Windows DEF Reset, Flags

LEMMA OpenAckType ==
  ASSUME NEW w \in Works, NEW s \in Segments
  PROVE  OpenAck(w, s) \in Works
<1> DEFINE b == w.b
           state == IF b.state = "ESTABLISHED" /\ "FIN" \in s.flags THEN "CLOSE_WAIT" ELSE b.state
           finAcked == b.state \in {"FIN_WAIT_1", "FIN_WAIT_2", "CLOSING"} /\ b.fin_seq <= s.ack
           last == IF ~finAcked THEN state ELSE IF b.state = "CLOSING" THEN "CLOSED" ELSE "FIN_WAIT_2"
           g == Seg({"ACK"}, b.snd_nxt, s.seq, Room(b), <<>>)
<1>1. b \in Blocks /\ w.out \in Seq(Segments) /\ w.got \in Seq(Nat) /\ w.acked \in BOOLEAN
  BY DEF Works
<1>2. state \in States /\ last \in States
  BY <1>1 DEF Blocks, States
<1>3. g \in Segments
  BY <1>1, SegType, EmptySeq, Windows DEF Blocks, Segments, Flags
<1>4. s.ack \in Numbers /\ finAcked \in BOOLEAN
  BY DEF Segments
<1>5. [b EXCEPT !.state = state] \in Blocks
  BY <1>1, <1>2 DEF Blocks
<1>6. [b EXCEPT !.snd_una = s.ack, !.fin_ack = finAcked, !.state = last] \in Blocks
  <2> HIDE DEF finAcked, last, b
  <2> QED
    BY <1>1, <1>2, <1>4 DEF Blocks
<1>7. Append(w.out, g) \in Seq(Segments)
  BY <1>1, <1>3, AppendProperties
<1> HIDE DEF g, state, finAcked, last
<1> QED
  BY <1>1, <1>5, <1>6, <1>7 DEF OpenAck, Work, Works, state, finAcked, last, g

LEMMA ProcessAckType ==
  ASSUME NEW w \in Works, NEW s \in Segments
  PROVE  ProcessAck(w, s) \in Works
<1> DEFINE opened == [w EXCEPT !.b.state = "ESTABLISHED", !.b.endpoint = TRUE]
<1>1. w.b \in Blocks /\ w.out \in Seq(Segments) /\ w.got \in Seq(Nat) /\ w.acked \in BOOLEAN
  BY DEF Works
<1>2. opened \in Works
  BY <1>1 DEF Works, Blocks, States
<1>3. OpenAck(opened, s) \in Works /\ OpenAck(w, s) \in Works
  BY <1>2, OpenAckType
<1>4. Append(w.out, Reset(s.ack)) \in Seq(Segments)
  BY <1>1, ResetType, AppendProperties DEF Segments
<1>5. [w EXCEPT !.out = Append(@, Reset(s.ack))] \in Works
  BY <1>4 DEF Works
<1>6. [w EXCEPT !.b.state = "CLOSED", !.b.fin_ack = TRUE] \in Works
  BY <1>1 DEF Works, Blocks, States
<1> QED
  BY <1>3, <1>5, <1>6 DEF ProcessAck

\* What there is room for of a payload, and what is taken off the window.
Fits(b, s) == IF Len(s.data) <= Room(b) THEN Len(s.data) ELSE Room(b)
Used(b, s) == IF Fits(b, s) <= s.wnd THEN Fits(b, s) ELSE s.wnd

\* The payload of s after n has been taken of it, in block b.
Stored(b, s, n) ==
  [b EXCEPT !.rcv_nxt = Plus(b.rcv_nxt, n),
            !.shadow = IF "PSH" \in s.flags THEN 0 ELSE b.shadow + n]

LEMMA DepositIs ==
  ASSUME NEW w \in Works, NEW s \in Segments
  PROVE  Deposit(w, s, w.b.rcv_nxt) =
           Work(Stored(w.b, s, Fits(w.b, s)),
                Append(w.out, Seg({"ACK"}, w.b.snd_nxt, Plus(w.b.rcv_nxt, Fits(w.b, s)),
                                  Room(w.b) - Used(w.b, s), <<>>)),
                SubSeq(s.data, 1, Fits(w.b, s)), TRUE)
<1>1. w.b \in Blocks
  BY DEF Works
<1>2. Stored(w.b, s, Fits(w.b, s)).rcv_nxt = Plus(w.b.rcv_nxt, Fits(w.b, s))
  BY <1>1 DEF Stored, Blocks
<1> QED
  BY <1>2 DEF Deposit, Fits, Used, Stored

LEMMA FitsType ==
  ASSUME NEW b \in Blocks, NEW s \in Segments
  PROVE  /\ Fits(b, s) \in 0 .. StreamSize /\ Fits(b, s) <= Len(s.data) /\ Fits(b, s) <= Room(b)
         /\ Fits(b, s) = Len(s.data) \/ Fits(b, s) = Room(b)
         /\ Room(b) - Used(b, s) \in 0 .. StreamSize
         /\ b.shadow + Fits(b, s) \in 0 .. StreamSize
         /\ Fits(b, s) # Room(b) => b.shadow + Fits(b, s) < StreamSize
<1>1. PICK r \in Nat : r = Room(b)
  BY Windows, TcpAssumption
<1>2. PICK L \in Nat : L = Len(s.data)
  BY LenProperties DEF Segments
<1>3. PICK v \in Nat : v = s.wnd
  BY TcpAssumption DEF Segments
<1>4. PICK d \in Nat : d = b.shadow
  BY TcpAssumption DEF Blocks
<1>5. r = StreamSize - d /\ r <= StreamSize /\ StreamSize \in Nat
  BY <1>1, <1>4, Windows, TcpAssumption DEF Room
<1>6. PICK n \in Nat : n = Fits(b, s) /\ n = IF L <= r THEN L ELSE r
  BY <1>1, <1>2 DEF Fits
<1>7. PICK u \in Nat : u = Used(b, s) /\ u = IF n <= v THEN n ELSE v
  BY <1>3, <1>6 DEF Used
<1>8. /\ n \in 0 .. StreamSize /\ n <= L /\ n <= r /\ (n = L \/ n = r)
      /\ r - u \in 0 .. StreamSize /\ d + n \in 0 .. StreamSize
      /\ n # r => d + n < StreamSize
  BY <1>5, <1>6, <1>7
<1> QED
  BY <1>1, <1>2, <1>4, <1>6, <1>7, <1>8, Zenon

LEMMA StoredType ==
  ASSUME NEW b \in Blocks, NEW s \in Segments
  PROVE  /\ Stored(b, s, Fits(b, s)) \in Blocks
         /\ Seg({"ACK"}, b.snd_nxt, Plus(b.rcv_nxt, Fits(b, s)), Room(b) - Used(b, s), <<>>)
              \in Segments
         /\ SubSeq(s.data, 1, Fits(b, s)) \in Seq(Nat)
         /\ Len(SubSeq(s.data, 1, Fits(b, s))) = Fits(b, s)
         /\ \A i \in 1 .. Fits(b, s) : SubSeq(s.data, 1, Fits(b, s))[i] = s.data[i]
<1>1. PICK n \in Nat : n = Fits(b, s)
  BY FitsType, TcpAssumption
<1>2. Plus(b.rcv_nxt, n) \in Numbers
  <2>1. b.rcv_nxt \in Int
    BY DEF Blocks, Numbers
  <2> QED
    BY <2>1, PlusType
<1>3. n <= Len(s.data) /\ b.shadow + n \in 0 .. StreamSize
      /\ Room(b) - Used(b, s) \in 0 .. StreamSize
  BY <1>1, FitsType
<1>4. Stored(b, s, n) \in Blocks
  <2>1. (IF "PSH" \in s.flags THEN 0 ELSE b.shadow + n) \in 0 .. StreamSize
    BY <1>3, Windows
  <2> QED
    BY <1>2, <2>1 DEF Stored, Blocks
<1>5. Seg({"ACK"}, b.snd_nxt, Plus(b.rcv_nxt, n), Room(b) - Used(b, s), <<>>) \in Segments
  BY <1>2, <1>3, SegType, EmptySeq DEF Blocks, Flags
<1>6. /\ SubSeq(s.data, 1, n) \in Seq(Nat) /\ Len(SubSeq(s.data, 1, n)) = n
      /\ \A i \in 1 .. n : SubSeq(s.data, 1, n)[i] = s.data[i]
  <2>1. s.data \in Seq(Nat) /\ Len(s.data) \in Nat
    BY LenProperties DEF Segments
  <2>2. 1 \in Int /\ n \in Int /\ \A j \in 1 .. n : s.data[j] \in Nat
    <3>1. \A j \in 1 .. n : j \in 1 .. Len(s.data)
      BY <1>3, <2>1
    <3> QED
      BY <2>1, <3>1, ElementOfSeq
  <2>3. /\ SubSeq(s.data, 1, n) \in Seq(Nat)
        /\ Len(SubSeq(s.data, 1, n)) = IF 1 <= n THEN n - 1 + 1 ELSE 0
        /\ \A i \in 1 .. n - 1 + 1 : SubSeq(s.data, 1, n)[i] = s.data[1 + i - 1]
    BY <2>2, SubSeqProperties
  <2>4. \A i \in 1 .. n : i \in 1 .. n - 1 + 1 /\ 1 + i - 1 = i
    OBVIOUS
  <2> QED
    BY <2>3, <2>4
<1> QED
  BY <1>1, <1>4, <1>5, <1>6

LEMMA ProcessDataType ==
  ASSUME NEW w \in Works, NEW s \in Segments
  PROVE  ProcessData(w, s) \in Works
<1>1. w.b \in Blocks /\ w.out \in Seq(Segments) /\ w.got \in Seq(Nat)
  BY DEF Works
<1>2. Append(w.out, AckOf(w.b)) \in Seq(Segments)
  BY <1>1, AckOfType, AppendProperties
<1>3. Work(w.b, Append(w.out, AckOf(w.b)), w.got, TRUE) \in Works
  BY <1>1, <1>2 DEF Work, Works
<1>4. Deposit(w, s, w.b.rcv_nxt) \in Works
  <2>1. PICK d \in Blocks : d = Stored(w.b, s, Fits(w.b, s))
    BY <1>1, StoredType
  <2>2. PICK g \in Segments :
          g = Seg({"ACK"}, w.b.snd_nxt, Plus(w.b.rcv_nxt, Fits(w.b, s)),
                  Room(w.b) - Used(w.b, s), <<>>)
    BY <1>1, StoredType
  <2>3. PICK q \in Seq(Nat) : q = SubSeq(s.data, 1, Fits(w.b, s))
    BY <1>1, StoredType
  <2>4. Append(w.out, g) \in Seq(Segments)
    BY <1>1, AppendProperties
  <2>5. Work(d, Append(w.out, g), q, TRUE) \in Works
    BY <2>4 DEF Work, Works
  <2> QED
    BY <2>1, <2>2, <2>3, <2>5, DepositIs
<1> QED
  BY <1>3, <1>4 DEF ProcessData

LEMMA ProcessFinType ==
  ASSUME NEW w \in Works, NEW s \in Segments
  PROVE  ProcessFin(w, s) \in Works
<1> DEFINE b == [w.b EXCEPT !.rcv_nxt = Plus(s.seq, 1)]
           state == CASE b.state \in {"SYN_RECEIVED", "ESTABLISHED"} -> "CLOSE_WAIT"
                      [] b.state = "FIN_WAIT_1" -> IF b.fin_ack THEN "TIME_WAIT" ELSE "CLOSING"
                      [] b.state = "FIN_WAIT_2" -> "TIME_WAIT"
                      [] OTHER -> b.state
           c == [b EXCEPT !.state = state, !.shadow = 0, !.waiting = (state = "TIME_WAIT")]
<1>1. w.b \in Blocks /\ w.out \in Seq(Segments) /\ w.got \in Seq(Nat)
  BY DEF Works
<1>2. Plus(s.seq, 1) \in Numbers
  BY PlusType DEF Segments, Numbers
<1>3. b \in Blocks
  BY <1>1, <1>2 DEF Blocks
<1>4. state \in States
  <2> HIDE DEF b
  <2>1. b.state \in States
    BY <1>3 DEF Blocks
  <2> QED
    BY <2>1 DEF States
<1> HIDE DEF b, state
<1>5. c \in Blocks
  BY <1>3, <1>4, Windows DEF Blocks
<1>6. Append(w.out, AckOf(b)) \in Seq(Segments)
  BY <1>1, <1>3, AckOfType, AppendProperties
<1> HIDE DEF c
<1> QED
  BY <1>1, <1>5, <1>6 DEF ProcessFin, Work, Works, b, state, c

----------------------------------------------------------------------------
(* Types *)

LEMMA PeerType ==
  ASSUME NEW e \in Hosts
  PROVE  Peer(e) \in Hosts /\ Peer(e) # e /\ Peer(Peer(e)) = e /\ Hosts = {e, Peer(e)}
  BY TcpAssumption DEF Peer, Hosts

LEMMA NoBlockType == NoBlock \in Blocks
<1>1. 0 \in Numbers /\ <<>> \in Seq(Segments)
  BY TcpAssumption, EmptySeq DEF Numbers
<1> QED
  BY <1>1, Windows DEF NoBlock, Blocks, States

\* What a host sends goes to its peer.
LEMMA TransmitType ==
  ASSUME NEW c \in [Hosts -> Seq(Segments)], NEW e \in Hosts, NEW out \in Seq(Segments),
         Transmit(c, e, out)
  PROVE  chan' \in [Hosts -> Seq(Segments)]
<1>1. c[Peer(e)] \o out \in Seq(Segments)
  BY PeerType, ConcatProperties
<1> QED
  BY <1>1, PeerType DEF Transmit

LEMMA SingleType ==
  ASSUME NEW g \in Segments
  PROVE  <<g>> \in Seq(Segments)
  OBVIOUS

\* What a segment does to the types of what it reaches.
LEMMA ReceiveTypes ==
  ASSUME TypeOK, NEW e \in Hosts, NEW s \in Segments, NEW c \in [Hosts -> Seq(Segments)],
         ReceiveAny(e, s, c)
  PROVE  /\ tcb' \in [Hosts -> Blocks] /\ nextSeq' \in [Hosts -> Numbers]
         /\ stream' \in [Hosts -> Seq(Nat)] /\ chan' \in [Hosts -> Seq(Segments)]
         /\ filled' \in SUBSET Hosts
<1>0. /\ tcb \in [Hosts -> Blocks] /\ tcb[e] \in Blocks /\ filled \in SUBSET Hosts /\ nextSeq \in [Hosts -> Numbers]
      /\ nextSeq[e] \in Numbers /\ stream \in [Hosts -> Seq(Nat)] /\ stream[e] \in Seq(Nat)
  BY DEF TypeOK
<1>1. /\ s.seq \in Numbers /\ s.ack \in Numbers /\ s.data \in Seq(Nat)
      /\ s.seq \in Int /\ nextSeq[e] \in Int
  BY <1>0 DEF Segments, Numbers
<1>2. /\ Plus(s.seq, 1) \in Numbers /\ Plus(nextSeq[e], 1) \in Numbers
      /\ Plus(nextSeq[e], SeqStep) \in Numbers /\ 0 \in Numbers
  <2>1. 0 \in Numbers /\ SeqStep \in Int
    BY TcpAssumption DEF Numbers
  <2> QED
    BY <1>1, <2>1, PlusType
<1>3. <<>> \in Seq(Segments) /\ <<>> \in Seq(Nat) /\ {"RST"} \in SUBSET Flags
      /\ {"RST", "ACK"} \in SUBSET Flags /\ {"SYN", "ACK"} \in SUBSET Flags
      /\ {"ACK", "RST"} \in SUBSET Flags
  BY EmptySeq DEF Flags
<1>4. <<Reset(s.ack)>> \in Seq(Segments)
  BY <1>1, ResetType, SingleType
<1>5. NextSequenceNumber(e) => nextSeq' \in [Hosts -> Numbers]
  BY <1>0, <1>2 DEF NextSequenceNumber
<1>6. CASE ReceiveClosed(e, s, c)
  <2>1. <<Seg({"RST", "ACK"}, 0, Plus(s.seq, 1), 0, <<>>)>> \in Seq(Segments)
    BY <1>2, <1>3, SegType, SingleType, Windows
  <2>2. PICK out \in Seq(Segments) : Transmit(c, e, out)
    BY <1>3, <1>4, <1>6, <2>1 DEF ReceiveClosed
  <2> QED
    BY <1>0, <1>6, <2>2, TransmitType DEF ReceiveClosed
<1>7. CASE ReceiveListen(e, s, c)
  <2>1. <<Seg({"SYN", "ACK"}, nextSeq[e], Plus(s.seq, 1), StreamSize, <<>>)>>
          \in Seq(Segments)
    BY <1>0, <1>2, <1>3, SegType, SingleType, Windows
  <2>2. chan' \in [Hosts -> Seq(Segments)]
    BY <1>7, <2>1, TransmitType DEF ReceiveListen
  <2>3. [NoBlock EXCEPT !.state = "SYN_RECEIVED", !.iss = nextSeq[e],
                        !.snd_nxt = Plus(nextSeq[e], 1), !.snd_una = nextSeq[e],
                        !.irs = s.seq, !.rcv_nxt = Plus(s.seq, 1)] \in Blocks
    BY <1>0, <1>1, <1>2, NoBlockType DEF Blocks, States
  <2> QED
    BY <1>0, <1>3, <1>5, <1>7, <2>2, <2>3 DEF ReceiveListen
<1>8. CASE ReceiveListenOther(e, s, c)
  <2>1. PICK out \in Seq(Segments) : Transmit(c, e, out)
    BY <1>3, <1>4, <1>8 DEF ReceiveListenOther
  <2> QED
    BY <1>0, <1>8, <2>1, TransmitType DEF ReceiveListenOther
<1>9. CASE ReceiveSynSent(e, s, c)
  <2> DEFINE b == tcb[e]
             opened == [b EXCEPT !.state = "ESTABLISHED", !.irs = s.seq,
                                 !.rcv_nxt = Plus(s.seq, 1), !.snd_una = s.ack]
             shut == [b EXCEPT !.state = "CLOSED"]
  <2>1. opened \in Blocks /\ shut \in Blocks /\ b \in Blocks
    BY <1>0, <1>1, <1>2 DEF Blocks, States
  <2> HIDE DEF opened, shut
  <2>2. <<AckOf(opened)>> \in Seq(Segments)
    BY <2>1, AckOfType, SingleType
  <2>3. PICK out \in Seq(Segments) : Transmit(c, e, out)
    BY <1>3, <1>4, <1>9, <2>2 DEF ReceiveSynSent, opened
  <2>4. PICK d \in Blocks : tcb' = [tcb EXCEPT ![e] = d]
    BY <1>9, <2>1 DEF ReceiveSynSent, opened, shut
  <2> QED
    BY <1>0, <1>9, <2>3, <2>4, TransmitType DEF ReceiveSynSent
<1>10. CASE ReceiveRefused(e, s, c)
  <2>1. <<Seg({"ACK", "RST"}, tcb[e].snd_nxt, tcb[e].rcv_nxt, Room(tcb[e]), <<>>)>>
          \in Seq(Segments)
    <3>1. tcb[e].snd_nxt \in Numbers /\ tcb[e].rcv_nxt \in Numbers
      BY <1>0 DEF Blocks
    <3> QED
      BY <1>0, <1>3, <3>1, SegType, SingleType, Windows
  <2>2. <<AckOf(tcb[e])>> \in Seq(Segments)
    BY <1>0, AckOfType, SingleType
  <2>3. PICK out \in Seq(Segments) : Transmit(c, e, out)
    BY <1>10, <2>1, <2>2 DEF ReceiveRefused
  <2> QED
    BY <1>0, <1>10, <2>3, TransmitType DEF ReceiveRefused
<1>11. CASE ReceiveReset(e, s, c)
  <2> DEFINE f == tcb[e].state \in {"LAST_ACK", "CLOSING"}
             d == [tcb[e] EXCEPT !.state = "CLOSED", !.freeing = f]
  <2>1. f \in BOOLEAN
    OBVIOUS
  <2> HIDE DEF f
  <2>2. d \in Blocks
    BY <1>0, <2>1 DEF Blocks, States
  <2>3. tcb' = [tcb EXCEPT ![e] = d]
    BY <1>11 DEF ReceiveReset, f
  <2> QED
    BY <1>0, <1>11, <2>2, <2>3 DEF ReceiveReset
<1>12. CASE ReceiveSegment(e, s, c)
  <2> DEFINE b == [tcb[e] EXCEPT !.rtq = AfterAckSegment(@, s.ack), !.fin_ack = FALSE]
             w == ProcessFin(ProcessData(ProcessAck(Work(b, <<>>, <<>>, FALSE), s), s), s)
  <2>1. AfterAckSegment(tcb[e].rtq, s.ack) \in Seq(Segments)
    BY <1>0, <1>1, AfterAckLemma DEF Blocks
  <2>2. b \in Blocks
    BY <1>0, <2>1 DEF Blocks
  <2> HIDE DEF b
  <2>3. Work(b, <<>>, <<>>, FALSE) \in Works
    BY <1>3, <2>2 DEF Work, Works
  <2>4. w \in Works
    BY <2>3, ProcessAckType, ProcessDataType, ProcessFinType
  <2>5. /\ tcb' = [tcb EXCEPT ![e] = [w.b EXCEPT !.freeing = (w.b.state = "CLOSED")]]
        /\ stream' = [stream EXCEPT ![e] = stream[e] \o w.got]
        /\ filled' = IF Room(b) = Len(w.got) THEN filled \cup {e} ELSE filled
        /\ Transmit(c, e, w.out) /\ nextSeq' = nextSeq
    BY <1>0, <1>12 DEF ReceiveSegment, b
  <2> HIDE DEF w
  <2>6. w.b \in Blocks /\ w.out \in Seq(Segments) /\ w.got \in Seq(Nat)
    BY <2>4 DEF Works
  <2>7. [w.b EXCEPT !.freeing = (w.b.state = "CLOSED")] \in Blocks
    <3> DEFINE f == w.b.state = "CLOSED"
    <3>1. f \in BOOLEAN
      OBVIOUS
    <3> HIDE DEF f
    <3>2. [w.b EXCEPT !.freeing = f] \in Blocks
      BY <2>6, <3>1 DEF Blocks
    <3> QED
      BY <3>2 DEF f
  <2>8. stream[e] \o w.got \in Seq(Nat)
    BY <1>0, <2>6, ConcatProperties
  <2> QED
    BY <1>0, <2>5, <2>6, <2>7, <2>8, TransmitType
<1>13. CASE ReceiveTimeWait(e, s, c)
  BY <1>0, <1>13 DEF ReceiveTimeWait, Blocks
<1> QED
  BY <1>6, <1>7, <1>8, <1>9, <1>10, <1>11, <1>12, <1>13 DEF ReceiveAny

LEMMA TypeInit == Init => TypeOK
<1> SUFFICES ASSUME Init PROVE TypeOK
  OBVIOUS
<1>1. <<>> \in Seq(Segments) /\ <<>> \in Seq(Nat)
  BY EmptySeq
<1> QED
  BY <1>1, NoBlockType, TcpAssumption DEF Init, TypeOK, Numbers

LEMMA TypeStep == TypeOK /\ [Next]_vars => TypeOK'
<1> SUFFICES ASSUME TypeOK, [Next]_vars PROVE TypeOK'
  OBVIOUS
<1> USE DEF TypeOK
<1>0. ASSUME NEW e \in Hosts
      PROVE  /\ tcb[e] \in Blocks /\ chan[e] \in Seq(Segments) /\ tcb[e].rtq \in Seq(Segments)
             /\ nextSeq[e] \in Numbers /\ tcb[e].snd_nxt \in Numbers /\ tcb[e].rcv_nxt \in Numbers
             /\ nextSeq[e] \in Int /\ tcb[e].snd_nxt \in Int /\ stream[e] \in Seq(Nat)
  BY DEF Blocks, Numbers
<1>1. <<>> \in Seq(Segments) /\ <<>> \in Seq(Nat) /\ {"FIN", "ACK"} \in SUBSET Flags
      /\ {"ACK"} \in SUBSET Flags /\ {"RST"} \in SUBSET Flags /\ {"SYN"} \in SUBSET Flags
      /\ 0 \in Numbers
  BY EmptySeq, TcpAssumption DEF Flags, Numbers
<1>2. CASE Connect
  <2>1. Client \in Hosts /\ nextSeq[Client] \in Numbers
    BY <1>0 DEF Hosts
  <2>2. Plus(nextSeq[Client], 1) \in Numbers /\ Plus(nextSeq[Client], SeqStep) \in Numbers
    BY <1>0, <2>1, PlusType, TcpAssumption
  <2>3. <<Seg({"SYN"}, nextSeq[Client], 0, StreamSize, <<>>)>> \in Seq(Segments)
    BY <1>1, <2>1, SegType, SingleType, Windows
  <2>4. chan' \in [Hosts -> Seq(Segments)]
    BY <1>2, <2>1, <2>3, TransmitType DEF Connect
  <2>5. [NoBlock EXCEPT !.state = "SYN_SENT", !.iss = nextSeq[Client],
                        !.snd_nxt = Plus(nextSeq[Client], 1), !.snd_una = nextSeq[Client],
                        !.endpoint = TRUE] \in Blocks
    BY <2>1, <2>2, NoBlockType DEF Blocks, States
  <2> QED
    BY <1>2, <2>1, <2>2, <2>4, <2>5 DEF Connect, NextSequenceNumber
<1>3. ASSUME NEW e \in Hosts, NEW n \in Sizes[e], Send(e, n)
      PROVE  TypeOK'
  <2> DEFINE data == [i \in 1 .. n |-> wrote[e] + i]
  <2>1. n \in Nat \ {0} /\ wrote[e] \in Nat
    BY TcpAssumption
  <2>2. data \in Seq(Nat)
    BY <2>1
  <2> HIDE DEF data
  <2>3. Pieces(tcb[e], {"ACK"}, data) \in Seq(Segments) /\ SendSegment(tcb[e], {"ACK"}, data) \in Blocks
    BY <1>0, <1>1, <2>2, PiecesType
  <2>4. Transmit(chan, e, Pieces(tcb[e], {"ACK"}, data))
        /\ tcb' = [tcb EXCEPT ![e] = SendSegment(tcb[e], {"ACK"}, data)]
    BY <1>3 DEF Send, data
  <2>5. chan' \in [Hosts -> Seq(Segments)] /\ tcb' \in [Hosts -> Blocks]
    BY <2>3, <2>4, TransmitType
  <2>6. wrote' \in [Hosts -> Nat] /\ \A h \in Hosts : wrote'[h] <= MaxBytes[h]
    BY <1>3, <2>1 DEF Send
  <2> QED
    BY <1>3, <2>5, <2>6 DEF Send
<1>4. ASSUME NEW e \in Hosts, Close(e)
      PROVE  TypeOK'
  <2> DEFINE b == tcb[e]
             fin == SendSegment(b, {"FIN", "ACK"}, <<>>)
             d == [fin EXCEPT !.state = IF b.state = "ESTABLISHED" THEN "FIN_WAIT_1" ELSE "LAST_ACK",
                              !.fin_seq = b.snd_nxt, !.snd_nxt = Plus(b.snd_nxt, 1)]
  <2>1. Pieces(b, {"FIN", "ACK"}, <<>>) \in Seq(Segments) /\ fin \in Blocks
    BY <1>0, <1>1, PiecesType
  <2>2. Plus(b.snd_nxt, 1) \in Numbers
    BY <1>0, PlusType
  <2>3. tcb' = [tcb EXCEPT ![e] = d] /\ Transmit(chan, e, Pieces(b, {"FIN", "ACK"}, <<>>))
    BY <1>4 DEF Close
  <2> HIDE DEF fin
  <2>4. d \in Blocks
    BY <1>0, <2>1, <2>2 DEF Blocks, States
  <2>5. chan' \in [Hosts -> Seq(Segments)] /\ tcb' \in [Hosts -> Blocks]
    BY <2>1, <2>3, <2>4, TransmitType
  <2> QED
    BY <1>4, <2>5 DEF Close
<1>5. ASSUME NEW e \in Hosts, CloseEarly(e)
      PROVE  TypeOK'
  <2> DEFINE b == tcb[e]
             rst == SendSegment(b, {"RST"}, <<>>)
  <2>1. rst \in Blocks
    BY <1>0, <1>1, PiecesType
  <2>2. <<Seg({"RST"}, b.snd_nxt, 0, Room(b), <<>>)>> \in Seq(Segments)
    BY <1>0, <1>1, SegType, SingleType, Windows
  <2>3. tcb' = [tcb EXCEPT ![e] = [rst EXCEPT !.state = "CLOSED"]]
        /\ Transmit(chan, e, <<Seg({"RST"}, b.snd_nxt, 0, Room(b), <<>>)>>)
    BY <1>5 DEF CloseEarly
  <2> HIDE DEF rst
  <2>4. [rst EXCEPT !.state = "CLOSED"] \in Blocks
    BY <2>1 DEF Blocks, States
  <2>5. chan' \in [Hosts -> Seq(Segments)] /\ tcb' \in [Hosts -> Blocks]
    BY <2>2, <2>3, <2>4, TransmitType
  <2> QED
    BY <1>5, <2>5 DEF CloseEarly
<1>6. ASSUME NEW e \in Hosts, Receive(e)
      PROVE  TypeOK'
  <2> DEFINE c == [chan EXCEPT ![e] = Tail(@)]
  <2>1. chan[e] # <<>> /\ ReceiveAny(e, Head(chan[e]), c) /\ late' = late
    BY <1>6 DEF Receive
  <2>2. Head(chan[e]) \in Segments /\ Tail(chan[e]) \in Seq(Segments)
    BY <1>0, <2>1, TailElems
  <2>3. c \in [Hosts -> Seq(Segments)]
    BY <2>2
  <2> HIDE DEF c
  <2>4. /\ tcb' \in [Hosts -> Blocks] /\ nextSeq' \in [Hosts -> Numbers]
        /\ stream' \in [Hosts -> Seq(Nat)] /\ chan' \in [Hosts -> Seq(Segments)]
        /\ filled' \in SUBSET Hosts
    BY <2>1, <2>2, <2>3, ReceiveTypes
  <2> QED
    BY <2>1, <2>4 DEF ReceiveAny
<1>7. ASSUME NEW e \in Hosts, ReceiveLate(e)
      PROVE  TypeOK'
  <2>1. PICK s \in late[e] : ReceiveAny(e, s, chan) /\ late' = [late EXCEPT ![e] = @ \ {s}]
    BY <1>7 DEF ReceiveLate
  <2>2. s \in Segments
    OBVIOUS
  <2>3. /\ tcb' \in [Hosts -> Blocks] /\ nextSeq' \in [Hosts -> Numbers]
        /\ stream' \in [Hosts -> Seq(Nat)] /\ chan' \in [Hosts -> Seq(Segments)]
        /\ filled' \in SUBSET Hosts
    BY <2>1, <2>2, ReceiveTypes
  <2> QED
    BY <2>1, <2>3 DEF ReceiveAny
<1>8. ASSUME NEW e \in Hosts, TimeWaitExpires(e)
      PROVE  TypeOK'
  <2>1. CASE tcb[e].rtq # <<>>
    <3>1. <<Head(tcb[e].rtq)>> \in Seq(Segments)
      BY <1>0, <2>1, TailElems, SingleType
    <3>2. chan' \in [Hosts -> Seq(Segments)]
      BY <1>8, <2>1, <3>1, TransmitType DEF TimeWaitExpires
    <3>3. tcb' \in [Hosts -> Blocks]
      <4>1. [tcb[e] EXCEPT !.waiting = FALSE] \in Blocks
        BY <1>0 DEF Blocks
      <4>2. tcb' = [tcb EXCEPT ![e] = [tcb[e] EXCEPT !.waiting = FALSE]]
        BY <1>8, <2>1 DEF TimeWaitExpires
      <4> QED
        BY <4>1, <4>2
    <3> QED
      BY <1>8, <3>2, <3>3 DEF TimeWaitExpires
  <2>2. CASE tcb[e].rtq = <<>>
    <3>1. [tcb[e] EXCEPT !.waiting = FALSE, !.state = "CLOSED", !.freeing = TRUE] \in Blocks
      BY <1>0 DEF Blocks, States
    <3> QED
      BY <1>8, <2>2, <3>1 DEF TimeWaitExpires
  <2> QED
    BY <2>1, <2>2
<1>9. ASSUME NEW e \in Hosts, RemoveConn(e)
      PROVE  TypeOK'
  BY <1>9, NoBlockType DEF RemoveConn
<1>10. ASSUME NEW e \in Hosts, Stray(e) \/ Copy(e)
       PROVE  TypeOK'
  <2>1. chan[e] # <<>> /\ faults < MaxFaults
    BY <1>10 DEF Stray, Copy
  <2>2. Head(chan[e]) \in Segments /\ Tail(chan[e]) \in Seq(Segments)
    BY <1>0, <2>1, TailElems
  <2>3. faults + 1 \in 0 .. MaxFaults
    BY <2>1, TcpAssumption
  <2> QED
    BY <1>10, <2>2, <2>3 DEF Stray, Copy
<1>11. CASE UNCHANGED vars
  BY <1>11 DEF vars
<1> QED
  BY <1>2, <1>3, <1>4, <1>5, <1>6, <1>7, <1>8, <1>9, <1>10, <1>11 DEF Next

\* Every number stays within its 32 bits and every segment and block has its fields,
\* whatever arrives: no assumption on the numbers, sizes or faults.
THEOREM TcpTypes == Spec => []TypeOK
<1>1. TypeOK /\ [Next]_vars => TypeOK'
  BY TypeStep
<1> QED
  BY <1>1, TypeInit, PTL DEF Spec

----------------------------------------------------------------------------
(* What a segment does to a block *)

SegKept(b, c) == /\ c.iss = b.iss /\ c.irs = b.irs /\ c.snd_nxt = b.snd_nxt /\ c.rtq = b.rtq
                 /\ c.fin_seq = b.fin_seq /\ (c.freeing <=> b.freeing)

\* The ACK of a segment, when it is for something that has been sent.
AckResult(b, s, w) ==
  /\ w \in Works /\ w.out = <<>> /\ w.got = <<>> /\ w.acked = FALSE
  /\ SegKept(b, w.b) /\ w.b.rcv_nxt = b.rcv_nxt /\ w.b.shadow = b.shadow /\ ~w.b.waiting
  /\ w.b.endpoint <=> b.endpoint \/ b.state = "SYN_RECEIVED"
  /\ w.b.state = "FIN_WAIT_1" => ~w.b.fin_ack
  /\ b.state = "FIN_WAIT_1" /\ w.b.state = "FIN_WAIT_2" => b.fin_seq <= s.ack
  /\ b.state \in {"SYN_RECEIVED", "ESTABLISHED"} =>
       w.b.state = "ESTABLISHED" \/ (w.b.state = "CLOSE_WAIT" /\ "FIN" \in s.flags)
  /\ b.state = "FIN_WAIT_1" => w.b.state \in {"FIN_WAIT_1", "FIN_WAIT_2"}
  /\ b.state = "FIN_WAIT_2" => w.b.state = "FIN_WAIT_2"
  /\ b.state = "CLOSE_WAIT" => w.b.state = "CLOSE_WAIT"
  /\ b.state = "CLOSING" => w.b.state \in {"CLOSING", "CLOSED"}
  /\ b.state = "LAST_ACK" => w.b.state \in {"LAST_ACK", "CLOSED"}

LEMMA AckEffect ==
  ASSUME NEW b \in Blocks, NEW s \in Segments, b.state \in Synchronized, ~b.waiting,
         ~b.fin_ack, s.ack <= b.snd_nxt, b.state = "SYN_RECEIVED" => b.snd_una <= s.ack
  PROVE  AckResult(b, s, ProcessAck(Work(b, <<>>, <<>>, FALSE), s))
<1> DEFINE w == ProcessAck(Work(b, <<>>, <<>>, FALSE), s)
<1>w. w = ProcessAck(Work(b, <<>>, <<>>, FALSE), s)
  OBVIOUS
<1> HIDE DEF w
<1> SUFFICES AckResult(b, s, w)
  BY <1>w
<1> USE <1>w DEF AckResult
<1> DEFINE v == Work(b, <<>>, <<>>, FALSE)
           o == [v EXCEPT !.b.state = "ESTABLISHED", !.b.endpoint = TRUE]
<1>1. v \in Works /\ v.b = b /\ v.out = <<>> /\ v.got = <<>> /\ v.acked = FALSE
  BY EmptySeq DEF Work, Works
<1>2. w \in Works
  BY <1>1, ProcessAckType
<1>3. ASSUME NEW x \in Works, x.b.snd_nxt = b.snd_nxt, x.out = <<>>, x.got = <<>>, x.acked = FALSE,
             x.b.state \notin {"SYN_RECEIVED", "LAST_ACK"}, ~x.b.waiting, x.b \in Blocks,
             ~x.b.fin_ack, NEW y, y = OpenAck(x, s)
      PROVE  /\ y.out = <<>> /\ y.got = <<>> /\ y.acked = FALSE /\ SegKept(x.b, y.b)
             /\ y.b.rcv_nxt = x.b.rcv_nxt /\ ~y.b.waiting /\ y.b.endpoint = x.b.endpoint
             /\ y.b.shadow = x.b.shadow /\ (y.b.state = "FIN_WAIT_1" => ~y.b.fin_ack)
             /\ x.b.state = "FIN_WAIT_1" /\ y.b.state = "FIN_WAIT_2" => x.b.fin_seq <= s.ack
             /\ x.b.state = "ESTABLISHED" =>
                  y.b.state = "ESTABLISHED" \/ (y.b.state = "CLOSE_WAIT" /\ "FIN" \in s.flags)
             /\ x.b.state = "FIN_WAIT_1" => y.b.state \in {"FIN_WAIT_1", "FIN_WAIT_2"}
             /\ x.b.state = "FIN_WAIT_2" => y.b.state = "FIN_WAIT_2"
             /\ x.b.state = "CLOSE_WAIT" => y.b.state = "CLOSE_WAIT"
             /\ x.b.state = "CLOSING" => y.b.state \in {"CLOSING", "CLOSED"}
  <2> DEFINE state == IF x.b.state = "ESTABLISHED" /\ "FIN" \in s.flags THEN "CLOSE_WAIT" ELSE x.b.state
             finAcked == x.b.state \in {"FIN_WAIT_1", "FIN_WAIT_2", "CLOSING"} /\ x.b.fin_seq <= s.ack
             last == IF ~finAcked THEN state
                     ELSE IF x.b.state = "CLOSING" THEN "CLOSED" ELSE "FIN_WAIT_2"
             d == [x.b EXCEPT !.snd_una = s.ack, !.fin_ack = finAcked, !.state = last]
  <2>1. s.ack \in Int /\ b.snd_nxt \in Int
    BY DEF Segments, Blocks, Numbers
  <2>2. y = x \/ y = Work(d, x.out, x.got, x.acked)
    <3>1. ~(s.ack > x.b.snd_nxt)
      BY <1>3, <2>1
    <3> QED
      BY <1>3, <3>1, Zenon DEF OpenAck
  <2>3. CASE y = x
    BY <1>3, <2>3 DEF SegKept
  <2>4. CASE y = Work(d, x.out, x.got, x.acked)
    <3>1. /\ d.iss = x.b.iss /\ d.irs = x.b.irs /\ d.snd_nxt = x.b.snd_nxt /\ d.rtq = x.b.rtq
          /\ d.freeing = x.b.freeing /\ d.rcv_nxt = x.b.rcv_nxt /\ d.waiting = x.b.waiting
          /\ d.endpoint = x.b.endpoint /\ d.state = last /\ d.shadow = x.b.shadow
          /\ d.fin_seq = x.b.fin_seq /\ d.fin_ack = finAcked
      <4> HIDE DEF last, finAcked
      <4> QED
        BY <1>3 DEF Blocks
    <3>2. y.b = d /\ y.out = <<>> /\ y.got = <<>> /\ y.acked = FALSE
      <4> HIDE DEF d
      <4> QED
        BY <1>3, <2>4 DEF Work
    <3>3. /\ x.b.state = "ESTABLISHED" =>
                  last = "ESTABLISHED" \/ (last = "CLOSE_WAIT" /\ "FIN" \in s.flags)
          /\ x.b.state = "FIN_WAIT_1" => last \in {"FIN_WAIT_1", "FIN_WAIT_2"}
          /\ x.b.state = "FIN_WAIT_2" => last = "FIN_WAIT_2"
          /\ x.b.state = "CLOSE_WAIT" => last = "CLOSE_WAIT"
          /\ x.b.state = "CLOSING" => last \in {"CLOSING", "CLOSED"}
          /\ last = "FIN_WAIT_1" => ~finAcked
          /\ x.b.state = "FIN_WAIT_1" /\ last = "FIN_WAIT_2" => x.b.fin_seq <= s.ack
      OBVIOUS
    <3> HIDE DEF last, d, finAcked
    <3> QED
      BY <1>3, <3>1, <3>2, <3>3 DEF SegKept
  <2> QED
    BY <2>2, <2>3, <2>4
<1> HIDE DEF v
<1>4. CASE b.state = "SYN_RECEIVED"
  <2>1. w = OpenAck(o, s)
    <3>1. w = ProcessAck(v, s)
      BY DEF v
    <3> QED
      BY <1>1, <1>4, <3>1 DEF ProcessAck
  <2>2. /\ o \in Works /\ o.b \in Blocks /\ o.out = <<>> /\ o.got = <<>> /\ o.acked = FALSE
        /\ o.b.state = "ESTABLISHED" /\ o.b.endpoint = TRUE /\ SegKept(b, o.b)
        /\ o.b.rcv_nxt = b.rcv_nxt /\ o.b.shadow = b.shadow /\ ~o.b.waiting /\ ~o.b.fin_ack
    BY <1>1 DEF Works, Blocks, States, SegKept
  <2> HIDE DEF o
  <2>3. o.b.snd_nxt = b.snd_nxt
    BY <2>2 DEF SegKept
  <2>4. /\ w.out = <<>> /\ w.got = <<>> /\ w.acked = FALSE /\ SegKept(o.b, w.b)
        /\ w.b.rcv_nxt = o.b.rcv_nxt /\ ~w.b.waiting /\ w.b.endpoint = o.b.endpoint
        /\ w.b.shadow = o.b.shadow
        /\ (w.b.state = "ESTABLISHED" \/ (w.b.state = "CLOSE_WAIT" /\ "FIN" \in s.flags))
    BY <1>3, <2>1, <2>2, <2>3
  <2> QED
    BY <1>2, <1>4, <2>2, <2>4 DEF SegKept
<1>5. CASE b.state = "LAST_ACK"
  <2> DEFINE d == [v EXCEPT !.b.state = "CLOSED", !.b.fin_ack = TRUE]
  <2>1. w = d \/ w = v
    <3>1. w = ProcessAck(v, s)
      BY DEF v
    <3> QED
      BY <1>1, <1>5, <3>1 DEF ProcessAck
  <2>2. /\ d.out = <<>> /\ d.got = <<>> /\ d.acked = FALSE /\ SegKept(b, d.b)
        /\ d.b.rcv_nxt = b.rcv_nxt /\ ~d.b.waiting /\ d.b.endpoint = b.endpoint
        /\ d.b.state = "CLOSED" /\ d.b.shadow = b.shadow
    BY <1>1 DEF Works, Blocks, SegKept
  <2> HIDE DEF d
  <2>3. CASE w = d
    BY <1>2, <1>5, <2>2, <2>3
  <2>4. CASE w = v
    BY <1>1, <1>2, <1>5, <2>4 DEF SegKept
  <2> QED
    BY <2>1, <2>3, <2>4
<1>6. CASE b.state \notin {"SYN_RECEIVED", "LAST_ACK"}
  <2>1. w = OpenAck(v, s)
    <3>1. w = ProcessAck(v, s)
      BY DEF v
    <3> QED
      BY <1>1, <1>6, <3>1 DEF ProcessAck
  <2> QED
    BY <1>1, <1>2, <1>3, <1>6, <2>1
<1> QED
  BY <1>4, <1>5, <1>6

\* An ACK that b sends of everything up to n, with m as the window.
AckUpTo(b, n, m) == Seg({"ACK"}, b.snd_nxt, n, m, <<>>)

\* The states in which data is taken, and those before the FIN of the peer.
Taking == {"ESTABLISHED", "FIN_WAIT_1", "FIN_WAIT_2"}
Open == Taking \cup {"SYN_RECEIVED"}

\* The data is taken, as far as there is room.
Took(b, s, w) ==
  /\ Len(w.got) <= Len(s.data) /\ \A i \in 1 .. Len(w.got) : w.got[i] = s.data[i]
  /\ Len(w.got) = Len(s.data) \/ Len(w.got) = Room(b)
  /\ w.b.rcv_nxt = Plus(b.rcv_nxt, Len(w.got))

\* The data: it is taken if it is what comes next, and left otherwise.
DataResult(x, s, w) ==
  /\ w \in Works /\ SegKept(x.b, w.b) /\ w.b.state = x.b.state
  /\ w.b.endpoint = x.b.endpoint /\ w.b.waiting = x.b.waiting /\ w.b.fin_ack = x.b.fin_ack
  /\ Len(w.got) # Room(x.b) => w.b.shadow < StreamSize
  /\ IF x.b.state \in Taking /\ s.seq = x.b.rcv_nxt THEN Took(x.b, s, w)
     ELSE w.got = <<>> /\ w.b.rcv_nxt = x.b.rcv_nxt
  /\ \/ w.out = <<>> /\ w.acked = FALSE
     \/ \E m \in 0 .. StreamSize : w.out = <<AckUpTo(x.b, w.b.rcv_nxt, m)>> /\ w.acked = TRUE

LEMMA DataEffect ==
  ASSUME NEW x \in Works, NEW s \in Segments, x.out = <<>>, x.got = <<>>, x.acked = FALSE
  PROVE  DataResult(x, s, ProcessData(x, s))
<1> DEFINE w == ProcessData(x, s)
<1>w. w = ProcessData(x, s)
  OBVIOUS
<1> HIDE DEF w
<1> SUFFICES DataResult(x, s, w)
  BY <1>w
<1> USE <1>w DEF DataResult
<1> DEFINE take == x.b.state \in Taking /\ s.seq = x.b.rcv_nxt
<1>1. w \in Works /\ x.b \in Blocks /\ s.data \in Seq(Nat) /\ Len(s.data) \in Nat
  BY ProcessDataType, LenProperties DEF Works, Segments
<1>2. Len(<<>>) = 0 /\ (s.data = <<>> => Len(s.data) = 0)
  BY EmptySeq
<1>3. Plus(x.b.rcv_nxt, 0) = x.b.rcv_nxt
  <2>1. x.b.rcv_nxt \in Nat /\ x.b.rcv_nxt < SeqMod
    BY <1>1, TcpAssumption DEF Blocks, Numbers
  <2> QED
    BY <2>1, PlusSmall
<1>4. 0 # Room(x.b) => x.b.shadow < StreamSize
  <2>1. x.b.shadow \in 0 .. StreamSize /\ StreamSize \in Nat
    BY <1>1, TcpAssumption DEF Blocks
  <2> QED
    BY <2>1 DEF Room
<1>5. CASE x.b.state \notin Taking
  <2>1. w = x
    BY <1>5 DEF ProcessData, Taking
  <2> QED
    BY <1>1, <1>2, <1>4, <1>5, <2>1 DEF SegKept
<1>6. CASE x.b.state \in Taking /\ s.seq # x.b.rcv_nxt
  <2>1. Append(x.out, AckOf(x.b)) = <<AckOf(x.b)>>
    OBVIOUS
  <2>2. w = Work(x.b, <<AckOf(x.b)>>, x.got, TRUE)
    BY <1>6, <2>1 DEF ProcessData, Taking
  <2>3. w.b = x.b /\ w.out = <<AckOf(x.b)>> /\ w.got = <<>> /\ w.acked = TRUE
    BY <2>2 DEF Work
  <2>4. AckOf(x.b) = AckUpTo(x.b, x.b.rcv_nxt, Room(x.b)) /\ Room(x.b) \in 0 .. StreamSize
    BY <1>1, Windows DEF AckOf, AckUpTo
  <2> QED
    BY <1>1, <1>2, <1>4, <1>6, <2>3, <2>4 DEF SegKept
<1>7. CASE take /\ s.data = <<>>
  <2>1. w = x
    BY <1>7 DEF ProcessData, Taking
  <2>2. Took(x.b, s, w)
    BY <1>2, <1>3, <1>7, <2>1 DEF Took
  <2> QED
    BY <1>1, <1>2, <1>4, <1>7, <2>1, <2>2 DEF SegKept
<1>8. CASE take /\ s.data # <<>>
  <2>1. PICK n \in Nat : n = Fits(x.b, s)
    BY <1>1, FitsType, TcpAssumption
  <2>2. PICK m \in 0 .. StreamSize : m = Room(x.b) - Used(x.b, s)
    BY <1>1, FitsType
  <2>3. PICK d \in Blocks : d = Stored(x.b, s, n)
    BY <1>1, <2>1, StoredType
  <2>4. PICK q \in Seq(Nat) : q = SubSeq(s.data, 1, n)
    BY <1>1, <2>1, StoredType
  <2>5. /\ SegKept(x.b, d) /\ d.state = x.b.state /\ d.endpoint = x.b.endpoint
        /\ d.waiting = x.b.waiting /\ d.fin_ack = x.b.fin_ack
        /\ d.rcv_nxt = Plus(x.b.rcv_nxt, n)
        /\ d.shadow = IF "PSH" \in s.flags THEN 0 ELSE x.b.shadow + n
    BY <1>1, <2>3 DEF Stored, Blocks, SegKept
  <2>6. Append(x.out, AckUpTo(x.b, d.rcv_nxt, m)) = <<AckUpTo(x.b, d.rcv_nxt, m)>>
    OBVIOUS
  <2>7. w = Deposit(x, s, x.b.rcv_nxt)
    BY <1>8 DEF ProcessData, Taking
  <2>8. w = Work(d, <<AckUpTo(x.b, d.rcv_nxt, m)>>, q, TRUE)
    BY <2>1, <2>2, <2>3, <2>4, <2>5, <2>6, <2>7, DepositIs DEF AckUpTo
  <2>9. w.b = d /\ w.out = <<AckUpTo(x.b, d.rcv_nxt, m)>> /\ w.got = q /\ w.acked = TRUE
    BY <2>8 DEF Work
  <2>10. Len(q) = n /\ \A i \in 1 .. n : q[i] = s.data[i]
    BY <1>1, <2>1, <2>4, StoredType
  <2>11. /\ n <= Len(s.data) /\ (n = Len(s.data) \/ n = Room(x.b))
         /\ n # Room(x.b) => x.b.shadow + n < StreamSize
    BY <1>1, <2>1, FitsType
  <2>12. Took(x.b, s, w)
    BY <2>5, <2>9, <2>10, <2>11 DEF Took
  <2>13. Len(w.got) # Room(x.b) => w.b.shadow < StreamSize
    BY <2>5, <2>9, <2>10, <2>11, TcpAssumption
  <2> QED
    BY <1>1, <1>8, <2>5, <2>9, <2>12, <2>13
<1> QED
  BY <1>5, <1>6, <1>7, <1>8

\* The FIN.
FinResult(x, s, w) ==
  /\ w \in Works
  /\ "FIN" \notin s.flags \/ x.b.state = "CLOSED" => w = x
  /\ "FIN" \in s.flags /\ x.b.state # "CLOSED" =>
       /\ SegKept(x.b, w.b) /\ w.b.endpoint = x.b.endpoint /\ w.got = x.got
       /\ w.b.rcv_nxt = Plus(s.seq, 1) /\ w.b.snd_una = x.b.snd_una
       /\ w.b.waiting <=> w.b.state = "TIME_WAIT"
       /\ x.b.state \in {"SYN_RECEIVED", "ESTABLISHED"} => w.b.state = "CLOSE_WAIT"
       /\ x.b.state \in {"FIN_WAIT_1", "FIN_WAIT_2"} => w.b.state \in {"CLOSING", "TIME_WAIT"}
       /\ x.b.state = "FIN_WAIT_1" /\ ~x.b.fin_ack => w.b.state = "CLOSING"
       /\ x.b.state \notin Open => w.b.state = x.b.state
       /\ w.b.shadow = 0
       /\ w.out = IF x.acked THEN x.out ELSE Append(x.out, AckUpTo(x.b, w.b.rcv_nxt, Room(x.b)))

LEMMA FinEffect ==
  ASSUME NEW x \in Works, NEW s \in Segments
  PROVE  FinResult(x, s, ProcessFin(x, s))
<1> DEFINE w == ProcessFin(x, s)
<1>w. w = ProcessFin(x, s)
  OBVIOUS
<1> HIDE DEF w
<1> SUFFICES FinResult(x, s, w)
  BY <1>w
<1> USE <1>w DEF FinResult
<1> DEFINE b == [x.b EXCEPT !.rcv_nxt = Plus(s.seq, 1)]
           state == CASE b.state \in {"SYN_RECEIVED", "ESTABLISHED"} -> "CLOSE_WAIT"
                      [] b.state = "FIN_WAIT_1" -> IF b.fin_ack THEN "TIME_WAIT" ELSE "CLOSING"
                      [] b.state = "FIN_WAIT_2" -> "TIME_WAIT"
                      [] OTHER -> b.state
           f == state = "TIME_WAIT"
           d == [b EXCEPT !.state = state, !.shadow = 0, !.waiting = f]
           out == IF x.acked THEN x.out ELSE Append(x.out, AckOf(b))
<1>1. w \in Works /\ x.b \in Blocks
  BY ProcessFinType DEF Works
<1>2. /\ SegKept(x.b, b) /\ b.state = x.b.state /\ b.endpoint = x.b.endpoint
      /\ b.rcv_nxt = Plus(s.seq, 1) /\ b.snd_nxt = x.b.snd_nxt
      /\ b.snd_una = x.b.snd_una /\ b.fin_ack = x.b.fin_ack /\ b.shadow = x.b.shadow
  BY <1>1 DEF Blocks, SegKept
<1>3. b.state = "CLOSED" \/ "FIN" \notin s.flags => w = x
  BY DEF ProcessFin
<1>4. b.state # "CLOSED" /\ "FIN" \in s.flags => w = Work(d, out, x.got, TRUE)
  BY Zenon DEF ProcessFin
<1>5. b \in Blocks
  <2>1. Plus(s.seq, 1) \in Numbers
    BY PlusType DEF Segments, Numbers
  <2> QED
    BY <1>1, <2>1 DEF Blocks
<1>6. AckOf(b) = AckUpTo(x.b, b.rcv_nxt, Room(x.b))
  BY <1>2 DEF AckOf, AckUpTo, Room
<1> HIDE DEF b
<1>7. /\ b.state \in {"SYN_RECEIVED", "ESTABLISHED"} => state = "CLOSE_WAIT"
      /\ b.state \in {"FIN_WAIT_1", "FIN_WAIT_2"} => state \in {"CLOSING", "TIME_WAIT"}
      /\ b.state = "FIN_WAIT_1" /\ ~b.fin_ack => state = "CLOSING"
      /\ b.state \notin Open => state = b.state
  BY DEF Open, Taking
<1> HIDE DEF state
<1> HIDE DEF f
<1>9. /\ SegKept(b, d) /\ d.state = state /\ d.endpoint = b.endpoint /\ d.rcv_nxt = b.rcv_nxt
      /\ d.waiting = f /\ d.snd_una = b.snd_una /\ d.shadow = 0
  BY <1>5 DEF Blocks, SegKept
<1> HIDE DEF d, out
<1>10. ASSUME b.state # "CLOSED", "FIN" \in s.flags
       PROVE  w.b = d /\ w.out = out /\ w.got = x.got
  BY <1>4, <1>10 DEF Work
<1>11. ASSUME b.state # "CLOSED", "FIN" \in s.flags
       PROVE  /\ SegKept(x.b, w.b) /\ w.b.endpoint = x.b.endpoint /\ w.got = x.got
              /\ w.b.rcv_nxt = Plus(s.seq, 1) /\ w.b.snd_una = x.b.snd_una
              /\ w.b.waiting <=> w.b.state = "TIME_WAIT"
              /\ w.b.shadow = 0
  BY <1>2, <1>9, <1>10, <1>11 DEF SegKept, f
<1>12. ASSUME b.state # "CLOSED", "FIN" \in s.flags
       PROVE  /\ w.b.state = state
              /\ w.out = IF x.acked THEN x.out
                         ELSE Append(x.out, AckUpTo(x.b, w.b.rcv_nxt, Room(x.b)))
  BY <1>2, <1>6, <1>9, <1>10, <1>12 DEF out
<1> QED
  BY <1>1, <1>2, <1>3, <1>7, <1>11, <1>12

\* All of it: what a segment does to the block of a connection, what is taken from it
\* and what is answered.
SegmentResult(b, s, w) ==
  /\ w \in Works /\ SegKept(b, w.b)
  /\ w.b.endpoint <=> b.endpoint \/ b.state = "SYN_RECEIVED"
  /\ w.b.waiting => w.b.state = "TIME_WAIT"
  /\ b.state \in {"SYN_RECEIVED", "ESTABLISHED"} =>
       w.b.state = IF "FIN" \in s.flags THEN "CLOSE_WAIT" ELSE "ESTABLISHED"
  /\ b.state \in {"FIN_WAIT_1", "FIN_WAIT_2"} =>
       w.b.state \in IF "FIN" \in s.flags THEN {"CLOSING", "TIME_WAIT"}
                     ELSE {"FIN_WAIT_1", "FIN_WAIT_2"}
  /\ b.state = "CLOSE_WAIT" => w.b.state = "CLOSE_WAIT"
  /\ b.state = "CLOSING" => w.b.state \in {"CLOSING", "CLOSED"}
  /\ b.state = "LAST_ACK" => w.b.state \in {"LAST_ACK", "CLOSED"}
  /\ IF "FIN" \in s.flags
     THEN w.got = <<>> /\ w.b.rcv_nxt \in {b.rcv_nxt, Plus(s.seq, 1)}
     ELSE IF b.state \in Open /\ s.seq = b.rcv_nxt THEN Took(b, s, w)
     ELSE w.got = <<>> /\ w.b.rcv_nxt = b.rcv_nxt
  /\ Len(w.got) # Room(b) => w.b.shadow < StreamSize
  /\ b.state = "FIN_WAIT_1" /\ w.b.state \in {"FIN_WAIT_2", "TIME_WAIT"} => b.fin_seq <= s.ack
  /\ \/ w.out = <<>>
     \/ \E n \in {b.rcv_nxt, w.b.rcv_nxt}, m \in 0 .. StreamSize : w.out = <<AckUpTo(b, n, m)>>

LEMMA SegmentEffect ==
  ASSUME NEW b \in Blocks, NEW s \in Segments, b.state \in Synchronized, ~b.waiting,
         ~b.fin_ack, s.ack <= b.snd_nxt, b.state = "SYN_RECEIVED" => b.snd_una <= s.ack,
         "FIN" \in s.flags => s.data = <<>>
  PROVE  SegmentResult(b, s, ProcessFin(ProcessData(ProcessAck(Work(b, <<>>, <<>>, FALSE), s), s), s))
<1> DEFINE w == ProcessFin(ProcessData(ProcessAck(Work(b, <<>>, <<>>, FALSE), s), s), s)
<1>w. w = ProcessFin(ProcessData(ProcessAck(Work(b, <<>>, <<>>, FALSE), s), s), s)
  OBVIOUS
<1> HIDE DEF w
<1> SUFFICES SegmentResult(b, s, w)
  BY <1>w
<1> USE <1>w DEF SegmentResult
<1> DEFINE x == ProcessAck(Work(b, <<>>, <<>>, FALSE), s)
           y == ProcessData(x, s)
<1>0. x = ProcessAck(Work(b, <<>>, <<>>, FALSE), s)
  OBVIOUS
<1> HIDE DEF x
<1>a. AckResult(b, s, x)
  BY <1>0, AckEffect
<1>1. /\ x \in Works /\ x.out = <<>> /\ x.got = <<>> /\ x.acked = FALSE
      /\ SegKept(b, x.b) /\ x.b.rcv_nxt = b.rcv_nxt /\ ~x.b.waiting /\ x.b.shadow = b.shadow
      /\ x.b.endpoint <=> b.endpoint \/ b.state = "SYN_RECEIVED"
      /\ x.b.state = "FIN_WAIT_1" => ~x.b.fin_ack
      /\ b.state = "FIN_WAIT_1" /\ x.b.state = "FIN_WAIT_2" => b.fin_seq <= s.ack
  BY <1>a DEF AckResult
<1>r. Room(x.b) = Room(b)
  BY <1>1 DEF Room
<1>2. /\ b.state \in {"SYN_RECEIVED", "ESTABLISHED"} =>
              x.b.state = "ESTABLISHED" \/ (x.b.state = "CLOSE_WAIT" /\ "FIN" \in s.flags)
      /\ b.state = "FIN_WAIT_1" => x.b.state \in {"FIN_WAIT_1", "FIN_WAIT_2"}
      /\ b.state = "FIN_WAIT_2" => x.b.state = "FIN_WAIT_2"
      /\ b.state = "CLOSE_WAIT" => x.b.state = "CLOSE_WAIT"
      /\ b.state = "CLOSING" => x.b.state \in {"CLOSING", "CLOSED"}
      /\ b.state = "LAST_ACK" => x.b.state \in {"LAST_ACK", "CLOSED"}
  BY <1>a DEF AckResult
<1>3. /\ y \in Works /\ SegKept(x.b, y.b) /\ y.b.state = x.b.state
      /\ y.b.endpoint = x.b.endpoint /\ y.b.waiting = x.b.waiting /\ y.b.fin_ack = x.b.fin_ack
      /\ Len(y.got) # Room(b) => y.b.shadow < StreamSize
      /\ IF x.b.state \in Taking /\ s.seq = b.rcv_nxt THEN Took(b, s, y)
         ELSE y.got = <<>> /\ y.b.rcv_nxt = b.rcv_nxt
      /\ \/ y.out = <<>> /\ y.acked = FALSE
         \/ \E m \in 0 .. StreamSize : y.out = <<AckUpTo(x.b, y.b.rcv_nxt, m)>> /\ y.acked = TRUE
  <2>1. DataResult(x, s, y)
    BY <1>1, DataEffect
  <2> HIDE DEF y
  <2>2. Took(x.b, s, y) <=> Took(b, s, y)
    BY <1>1, <1>r DEF Took
  <2> QED
    BY <1>1, <1>r, <2>1, <2>2 DEF DataResult
<1> HIDE DEF y
<1>4. w = ProcessFin(y, s)
  BY DEF x, y
<1>f. FinResult(y, s, w)
  BY <1>3, <1>4, FinEffect
<1>5. \A n, m : AckUpTo(x.b, n, m) = AckUpTo(b, n, m) /\ AckUpTo(y.b, n, m) = AckUpTo(b, n, m)
  BY <1>1, <1>3 DEF SegKept, AckUpTo
<1>6. s.data = <<>> => y.got = <<>> /\ y.b.rcv_nxt = b.rcv_nxt
  <2>1. b.rcv_nxt \in Nat /\ b.rcv_nxt < SeqMod
    BY TcpAssumption DEF Blocks, Numbers
  <2>2. Len(<<>>) = 0 /\ y.got \in Seq(Nat) /\ Len(y.got) \in Nat
    BY <1>3, EmptySeq, LenProperties DEF Works
  <2>3. Plus(b.rcv_nxt, 0) = b.rcv_nxt
    BY <2>1, PlusSmall
  <2>4. ASSUME s.data = <<>>, Took(b, s, y)
        PROVE  y.got = <<>> /\ y.b.rcv_nxt = b.rcv_nxt
    <3>1. Len(y.got) = 0
      BY <2>2, <2>4 DEF Took
    <3> QED
      BY <2>2, <2>3, <2>4, <3>1, EmptySeq DEF Took
  <2> QED
    BY <1>3, <2>4
<1>7. CASE "FIN" \notin s.flags
  <2>1. w = y
    BY <1>3, <1>7, <1>f DEF FinResult
  <2>2. x.b.state \in Taking <=> b.state \in Open
    BY <1>2, <1>7 DEF Taking, Open, Synchronized
  <2>3. w.out = <<>> \/ \E m \in 0 .. StreamSize : w.out = <<AckUpTo(b, w.b.rcv_nxt, m)>>
    BY <1>3, <1>5, <2>1
  <2>4. /\ w \in Works /\ SegKept(b, w.b)
        /\ w.b.endpoint <=> b.endpoint \/ b.state = "SYN_RECEIVED"
        /\ ~w.b.waiting
    BY <1>1, <1>3, <2>1 DEF SegKept
  <2> QED
    BY <1>1, <1>2, <1>3, <1>7, <2>1, <2>2, <2>3, <2>4
<1>8. CASE "FIN" \in s.flags /\ x.b.state = "CLOSED"
  <2>1. w = y
    BY <1>3, <1>8, <1>f DEF FinResult
  <2>2. w.got = <<>> /\ w.b.rcv_nxt = b.rcv_nxt
    BY <1>1, <1>3, <1>8, <2>1 DEF Taking
  <2>3. w.out = <<>> \/ \E m \in 0 .. StreamSize : w.out = <<AckUpTo(b, w.b.rcv_nxt, m)>>
    BY <1>3, <1>5, <2>1
  <2>4. /\ w \in Works /\ SegKept(b, w.b)
        /\ w.b.endpoint <=> b.endpoint \/ b.state = "SYN_RECEIVED"
        /\ ~w.b.waiting
    BY <1>1, <1>3, <2>1 DEF SegKept
  <2> QED
    BY <1>1, <1>2, <1>3, <1>8, <2>1, <2>2, <2>3, <2>4
<1>9. CASE "FIN" \in s.flags /\ x.b.state # "CLOSED"
  <2>1. /\ w \in Works /\ SegKept(y.b, w.b) /\ w.b.endpoint = y.b.endpoint /\ w.got = y.got
        /\ w.b.rcv_nxt = Plus(s.seq, 1)
        /\ w.b.waiting <=> w.b.state = "TIME_WAIT"
        /\ y.b.state \in {"SYN_RECEIVED", "ESTABLISHED"} => w.b.state = "CLOSE_WAIT"
        /\ y.b.state \in {"FIN_WAIT_1", "FIN_WAIT_2"} => w.b.state \in {"CLOSING", "TIME_WAIT"}
        /\ y.b.state = "FIN_WAIT_1" /\ ~y.b.fin_ack => w.b.state = "CLOSING"
        /\ y.b.state \notin Open => w.b.state = y.b.state
        /\ w.b.shadow = 0
        /\ w.out = IF y.acked THEN y.out ELSE Append(y.out, AckUpTo(y.b, w.b.rcv_nxt, Room(y.b)))
    BY <1>3, <1>9, <1>f DEF FinResult
  <2>2. y.b.rcv_nxt = b.rcv_nxt /\ y.got = <<>>
    BY <1>1, <1>3, <1>6, <1>9
  <2>3. w.b.shadow < StreamSize /\ Room(y.b) \in 0 .. StreamSize
    <3>1. y.b \in Blocks /\ StreamSize \in Nat \ {0}
      BY <1>3, TcpAssumption DEF Works
    <3>2. Room(y.b) \in 0 .. StreamSize
      BY <3>1, Windows, Zenon
    <3>3. w.b.shadow = 0
      BY <2>1, Zenon
    <3>4. 0 < StreamSize
      BY <3>1
    <3> QED
      BY <3>2, <3>3, <3>4, Zenon
  <2>4. b.state = "FIN_WAIT_1" /\ w.b.state \in {"FIN_WAIT_2", "TIME_WAIT"} => b.fin_seq <= s.ack
    BY <1>1, <1>2, <1>3, <2>1
  <2>5. CASE y.out = <<>> /\ y.acked = FALSE
    <3>1. Append(<<>>, AckUpTo(b, w.b.rcv_nxt, Room(y.b))) = <<AckUpTo(b, w.b.rcv_nxt, Room(y.b))>>
      OBVIOUS
    <3>2. w.out = <<AckUpTo(b, w.b.rcv_nxt, Room(y.b))>>
      BY <1>5, <2>1, <2>5, <3>1
    <3> QED
      BY <1>1, <1>2, <1>3, <1>9, <2>1, <2>2, <2>3, <2>4, <3>2 DEF SegKept, Open, Taking
  <2>6. ASSUME NEW m \in 0 .. StreamSize,
               y.out = <<AckUpTo(x.b, y.b.rcv_nxt, m)>> /\ y.acked = TRUE
        PROVE  SegmentResult(b, s, w)
    <3>1. w.out = <<AckUpTo(b, b.rcv_nxt, m)>>
      BY <1>5, <2>1, <2>2, <2>6
    <3> QED
      BY <1>1, <1>2, <1>3, <1>9, <2>1, <2>2, <2>3, <2>4, <3>1 DEF SegKept, Open, Taking
  <2> QED
    BY <1>3, <2>5, <2>6
<1> QED
  BY <1>7, <1>8, <1>9

\* A block that never opens, since what is acknowledged is older: data is not taken.
AgainResult(b, s, w) ==
  /\ w \in Works /\ SegKept(b, w.b) /\ w.b.snd_una = b.snd_una /\ w.got = <<>>
  /\ (w.b.endpoint <=> b.endpoint) /\ ~w.b.waiting
  /\ w.b.state = IF "FIN" \in s.flags THEN "CLOSE_WAIT" ELSE b.state
  /\ w.b.rcv_nxt = IF "FIN" \in s.flags THEN Plus(s.seq, 1) ELSE b.rcv_nxt
  /\ Elems(w.out) \subseteq {Reset(s.ack), AckUpTo(b, w.b.rcv_nxt, Room(b))}

LEMMA AgainEffect ==
  ASSUME NEW b \in Blocks, NEW s \in Segments, b.state \in {"SYN_RECEIVED", "CLOSE_WAIT"},
         ~b.waiting, s.ack < b.snd_una
  PROVE  AgainResult(b, s, ProcessFin(ProcessData(ProcessAck(Work(b, <<>>, <<>>, FALSE), s), s), s))
<1> DEFINE v == Work(b, <<>>, <<>>, FALSE)
           x == ProcessAck(v, s)
           w == ProcessFin(x, s)
<1>1. v \in Works /\ v.b = b /\ v.out = <<>> /\ v.got = <<>> /\ v.acked = FALSE
  BY EmptySeq DEF Work, Works
<1> HIDE DEF v
<1>2. x \in Works /\ x.b = b /\ x.got = <<>> /\ x.acked = FALSE
      /\ Elems(x.out) \subseteq {Reset(s.ack)}
  <2>0. Elems(<<>>) = {}
    BY EmptySeq DEF Elems
  <2>1. x \in Works
    BY <1>1, ProcessAckType
  <2>2. s.ack \in Int /\ b.snd_una \in Int
    BY DEF Segments, Blocks, Numbers
  <2>3. CASE b.state = "SYN_RECEIVED"
    <3>1. x = [v EXCEPT !.out = Append(<<>>, Reset(s.ack))]
      BY <1>1, <2>2, <2>3 DEF ProcessAck
    <3>2. Elems(Append(v.out, Reset(s.ack))) = {Reset(s.ack)}
      <4>1. v.out \in Seq(Segments) /\ Reset(s.ack) \in Segments
        BY <1>1, ResetType DEF Works, Segments
      <4>2. Elems(Append(v.out, Reset(s.ack))) = Elems(v.out) \cup {Reset(s.ack)}
        BY <4>1, AppendElems
      <4> QED
        BY <1>1, <2>0, <4>2
    <3> QED
      BY <1>1, <2>1, <3>1, <3>2 DEF Works
  <2>4. CASE b.state = "CLOSE_WAIT"
    <3>1. x = v
      BY <1>1, <2>2, <2>4 DEF ProcessAck, OpenAck
    <3> QED
      BY <1>1, <2>0, <2>1, <3>1
  <2> QED
    BY <2>3, <2>4
<1> HIDE DEF x
<1>3. ProcessData(x, s) = x
  BY <1>2 DEF ProcessData
<1>4. FinResult(x, s, w)
  BY <1>2, FinEffect
<1> HIDE DEF w
<1>5. CASE "FIN" \notin s.flags
  <2>1. w = x
    BY <1>4, <1>5 DEF FinResult
  <2>2. AgainResult(b, s, w)
    BY <1>2, <1>5, <2>1 DEF AgainResult, SegKept
  <2> QED
    BY <1>3, <2>2 DEF v, x, w
<1>6. CASE "FIN" \in s.flags
  <2>1. /\ w \in Works /\ SegKept(b, w.b) /\ w.b.endpoint = b.endpoint /\ w.got = <<>>
        /\ w.b.rcv_nxt = Plus(s.seq, 1) /\ w.b.snd_una = b.snd_una
        /\ w.b.state = "CLOSE_WAIT" /\ ~w.b.waiting
        /\ w.out = Append(x.out, AckUpTo(b, w.b.rcv_nxt, Room(b)))
    BY <1>2, <1>4, <1>6 DEF FinResult, Open, Taking
  <2>2. Elems(w.out) = Elems(x.out) \cup {AckUpTo(b, w.b.rcv_nxt, Room(b))}
    <3>1. w.b.rcv_nxt \in Numbers /\ b.snd_nxt \in Numbers /\ x.out \in Seq(Segments)
      BY <1>2, <2>1 DEF Works, Blocks
    <3>2. AckUpTo(b, w.b.rcv_nxt, Room(b)) \in Segments
      BY <3>1, EmptySeq, SegType, Windows DEF AckUpTo, Flags
    <3> QED
      BY <2>1, <3>1, <3>2, AppendElems
  <2>3. AgainResult(b, s, w)
    BY <1>2, <1>6, <2>1, <2>2 DEF AgainResult
  <2> QED
    BY <1>3, <2>3 DEF v, x, w
<1> QED
  BY <1>5, <1>6

----------------------------------------------------------------------------
\* The number after the last that e has used: its SYN, its bytes and its FIN.
Top(e) == FirstSeq[e] + 1 + wrote[e] + (IF e \in closing THEN 1 ELSE 0)

\* The segments to e.  None is ever sent again: see QueueOK.
To(e) == Elems(chan[e]) \cup late[e]

\* The client has taken the SYN of the server's first block.
ClientOpen ==
  /\ nextSeq[Client] # FirstSeq[Client]
  /\ tcb[Client].state # "SYN_SENT"
  /\ IF tcb[Client].state = "NONE" THEN Server \in closing
     ELSE tcb[Client].irs = FirstSeq[Server]

IsAck(g) == "ACK" \in g.flags /\ "RST" \notin g.flags

\* A segment to e: its flags and data, ...
ShapeOK(e, g) ==
  /\ g.flags \in {{"SYN"}, {"SYN", "ACK"}, {"ACK"}, {"ACK", "PSH"}, {"FIN", "ACK"}, {"RST"},
                  {"RST", "ACK"}}
  /\ g.data # <<>> =>
       /\ g.flags \in {{"ACK"}, {"ACK", "PSH"}} /\ FirstSeq[Peer(e)] < g.seq
       /\ g.seq + Len(g.data) <= FirstSeq[Peer(e)] + 1 + wrote[Peer(e)]
       /\ \A i \in 1 .. Len(g.data) : g.data[i] = g.seq - FirstSeq[Peer(e)] - 1 + i

\* ... where a FIN and a SYN may be ...
EndsOK(e, g) ==
  /\ "FIN" \in g.flags =>
       Peer(e) \in closing /\ g.seq = FirstSeq[Peer(e)] + 1 + wrote[Peer(e)]
  /\ "SYN" \in g.flags =>
       IF e = Server THEN g.flags = {"SYN"} /\ g.seq = FirstSeq[Client]
       ELSE g.flags = {"SYN", "ACK"} /\ (g.seq = FirstSeq[Server] \/ Server \in closing)

\* ... and what it acknowledges.
AckOK(e, g) ==
  IsAck(g) => /\ FirstSeq[e] < g.ack /\ g.ack <= Top(e)
              /\ e = Server => ClientOpen
              /\ "SYN" \notin g.flags => FirstSeq[Peer(e)] < g.seq

SegmentOK(e, g) == ShapeOK(e, g) /\ EndsOK(e, g) /\ AckOK(e, g)

SegmentsInv ==
  \A e \in Hosts : To(e) # {} => /\ nextSeq[Client] # FirstSeq[Client]
                                 /\ \A g \in To(e) : SegmentOK(e, g)

Live == Synchronized \cup {"TIME_WAIT"}
FinSent == {"FIN_WAIT_1", "FIN_WAIT_2", "CLOSING", "LAST_ACK", "TIME_WAIT"}
FinSeen == {"CLOSE_WAIT", "CLOSING", "LAST_ACK", "TIME_WAIT"}

\* Before the first connection of e, and after it.
GoneOK(e) ==
  tcb[e].state = "NONE" =>
    /\ tcb[e] = NoBlock
    /\ nextSeq[e] = FirstSeq[e] => wrote[e] = 0 /\ e \notin closing /\ stream[e] = <<>>
    /\ nextSeq[e] # FirstSeq[e] =>
         Hosts \subseteq closing /\ nextSeq[e] = Plus(FirstSeq[e], SeqStep)

\* The first block of e, and while it is being opened.
FirstOK(e) ==
  tcb[e].state # "NONE" /\ tcb[e].iss = FirstSeq[e] =>
    /\ nextSeq[e] = Plus(FirstSeq[e], SeqStep)
    /\ tcb[e].freeing => Hosts \subseteq closing /\ tcb[e].state = "CLOSED"
    /\ tcb[e].waiting => tcb[e].state = "TIME_WAIT"
    /\ tcb[e].state \in {"SYN_SENT", "SYN_RECEIVED"} =>
         /\ tcb[e].snd_nxt = FirstSeq[e] + 1 /\ tcb[e].snd_una = FirstSeq[e]
         /\ wrote[e] = 0 /\ e \notin closing /\ stream[e] = <<>> /\ tcb[e].rtq = <<>>
    /\ tcb[e].state = "SYN_SENT" => e = Client
    /\ tcb[e].state = "SYN_RECEIVED" => e = Server /\ ~tcb[e].endpoint

\* A second block: an old SYN has made it, and it does not open.
AgainOK(e) ==
  tcb[e].state # "NONE" /\ tcb[e].iss # FirstSeq[e] =>
    /\ e = Server /\ Hosts \subseteq closing
    /\ tcb[e].iss = FirstSeq[e] + SeqStep
    /\ tcb[e].snd_una = tcb[e].iss /\ tcb[e].snd_nxt = tcb[e].iss + 1
    /\ tcb[e].state \in {"SYN_RECEIVED", "CLOSE_WAIT", "CLOSED"}
    /\ ~tcb[e].freeing /\ ~tcb[e].waiting /\ ~tcb[e].endpoint /\ tcb[e].rtq = <<>>

\* A block that is open, or opening for the server.
LiveOK(e) ==
  /\ tcb[e].rcv_nxt <= Top(Peer(e))
  /\ tcb[e].state \in Live =>
       /\ tcb[e].irs = FirstSeq[Peer(e)] /\ FirstSeq[Peer(e)] < tcb[e].rcv_nxt
       /\ tcb[e].state \in Open => tcb[e].rcv_nxt = FirstSeq[Peer(e)] + 1 + Len(stream[e])
       /\ tcb[e].state \in FinSeen => Peer(e) \in closing
       /\ tcb[e].iss = FirstSeq[e] =>
            tcb[e].snd_nxt = Top(e) /\ (tcb[e].state \in FinSent <=> e \in closing)

\* The queue of the first block: nothing in it goes beyond what has been written, and it
\* is empty when the FIN has been acknowledged, so that the timer sends nothing again.
QueueOK(e) ==
  tcb[e].state # "NONE" /\ tcb[e].iss = FirstSeq[e] =>
    /\ \A g \in Elems(tcb[e].rtq) : g.seq + Len(g.data) <= FirstSeq[e] + 1 + wrote[e]
    /\ tcb[e].state \in FinSent => tcb[e].fin_seq = FirstSeq[e] + 1 + wrote[e]
    /\ tcb[e].state \in {"FIN_WAIT_2", "TIME_WAIT"} => tcb[e].rtq = <<>>

\* What has been deposited is what was sent, and a server that is in use is wanted.
StreamOK(e) ==
  /\ Len(stream[e]) <= wrote[Peer(e)] /\ \A i \in 1 .. Len(stream[e]) : stream[e][i] = i
  /\ e = Server /\ (tcb[e].endpoint \/ e \in closing \/ wrote[e] > 0) => ClientOpen

HostOK(e) == GoneOK(e) /\ FirstOK(e) /\ AgainOK(e) /\ LiveOK(e) /\ QueueOK(e) /\ StreamOK(e)

TcpInv == TypeOK /\ SegmentsInv /\ \A e \in Hosts : HostOK(e)

----------------------------------------------------------------------------
\* What a step of host e leaves alone or makes grow.
Acts(e) ==
  /\ tcb'[Peer(e)] = tcb[Peer(e)] /\ nextSeq'[Peer(e)] = nextSeq[Peer(e)]
  /\ stream'[Peer(e)] = stream[Peer(e)] /\ wrote'[Peer(e)] = wrote[Peer(e)]
  /\ Peer(e) \in closing' <=> Peer(e) \in closing
  /\ e \in closing => e \in closing' /\ wrote'[e] = wrote[e]
  /\ wrote[e] <= wrote'[e]
  /\ nextSeq[Client] # FirstSeq[Client] => nextSeq'[Client] # FirstSeq[Client]
  /\ ClientOpen => ClientOpen'

LEMMA BlockNumbers ==
  ASSUME NEW b \in Blocks
  PROVE  /\ b.iss \in Nat /\ b.snd_nxt \in Nat /\ b.snd_una \in Nat /\ b.rcv_nxt \in Nat
         /\ b.irs \in Nat /\ b.fin_seq \in Nat /\ b.rcv_nxt < SeqMod /\ b.snd_nxt < SeqMod
  BY TcpAssumption DEF Blocks, Numbers

LEMMA ToType ==
  ASSUME TypeOK, NEW e \in Hosts
  PROVE  To(e) \subseteq Segments
<1>1. \A q \in Seq(Segments) : Elems(q) \subseteq Segments
  BY ElementOfSeq DEF Elems
<1>2. chan[e] \in Seq(Segments) /\ late[e] \subseteq Segments
  BY DEF TypeOK
<1> QED
  BY <1>1, <1>2 DEF To

\* What is known of a segment stays true.
LEMMA SegmentKept ==
  ASSUME NEW h \in Hosts, NEW e \in Hosts, NEW g \in Segments, TypeOK, TypeOK', Acts(h),
         SegmentOK(e, g)
  PROVE  SegmentOK(e, g)'
<1>1. /\ \A k \in Hosts : /\ wrote[k] \in Nat /\ wrote'[k] \in Nat /\ wrote[k] <= wrote'[k]
                          /\ k \in closing => k \in closing' /\ wrote'[k] = wrote[k]
      /\ ClientOpen => ClientOpen'
  <2>1. wrote \in [Hosts -> Nat] /\ wrote' \in [Hosts -> Nat]
    BY DEF TypeOK
  <2> QED
    BY <2>1, PeerType DEF Acts
<1>2. FirstSeq[e] \in Int /\ FirstSeq[Peer(e)] \in Int /\ Peer(e) \in Hosts
  BY TcpAssumption, PeerType
<1>3. g.seq \in Int /\ g.ack \in Int /\ Len(g.data) \in Nat
  BY DEF Segments, Numbers
<1>4. ShapeOK(e, g)'
  <2> DEFINE p == Peer(e)
  <2>1. wrote[p] <= wrote'[p] /\ wrote[p] \in Int /\ wrote'[p] \in Int /\ FirstSeq[p] \in Int
    BY <1>1, <1>2
  <2> HIDE DEF p
  <2>2. p = Peer(e)
    BY DEF p
  <2>3. ASSUME g.data # <<>>, g.seq + Len(g.data) <= FirstSeq[p] + 1 + wrote[p]
        PROVE  g.seq + Len(g.data) <= FirstSeq[p] + 1 + wrote'[p]
    BY <1>3, <2>1, <2>3
  <2> QED
    BY <2>2, <2>3 DEF SegmentOK, ShapeOK
<1>5. EndsOK(e, g)'
  <2>1. Server \in Hosts
    BY DEF Hosts
  <2> QED
    BY <1>1, <1>2, <2>1 DEF SegmentOK, EndsOK
<1>6. Top(e) <= Top(e)' /\ Top(e) \in Int /\ Top(e)' \in Int
  BY <1>1, <1>2 DEF Top
<1>7. AckOK(e, g)'
  BY <1>1, <1>3, <1>6 DEF SegmentOK, AckOK
<1> QED
  BY <1>4, <1>5, <1>7 DEF SegmentOK

\* The other host.
LEMMA OtherHost ==
  ASSUME NEW e \in Hosts, TypeOK, TypeOK', Acts(e), HostOK(Peer(e))
  PROVE  HostOK(Peer(e))'
<1> DEFINE p == Peer(e)
<1>1. /\ p \in Hosts /\ Peer(p) = e /\ Hosts = {e, p}
      /\ Peer(p)' = e
  BY PeerType
<1>2. /\ wrote[e] \in Nat /\ wrote'[e] \in Nat /\ wrote[e] <= wrote'[e]
      /\ FirstSeq[e] \in Int /\ Len(stream[p]) \in Nat /\ tcb[p].rcv_nxt \in Int
  BY <1>1, TcpAssumption DEF TypeOK, Acts, Blocks, Numbers
<1>3. GoneOK(p)'
  BY <1>1 DEF Acts, HostOK, GoneOK
<1>4. FirstOK(p)'
  BY <1>1 DEF Acts, HostOK, FirstOK
<1>5. AgainOK(p)'
  BY <1>1 DEF Acts, HostOK, AgainOK
<1>6. LiveOK(p)'
  <2>1. /\ Top(e) <= Top(e)' /\ Top(e) \in Int /\ Top(e)' \in Int
        /\ Top(p)' = Top(p)
    BY <1>1, <1>2 DEF Top, Acts
  <2> QED
    BY <1>1, <1>2, <2>1 DEF Acts, HostOK, LiveOK
<1>7. StreamOK(p)'
  BY <1>1, <1>2 DEF Acts, HostOK, StreamOK
<1>8. QueueOK(p)'
  BY <1>1 DEF Acts, HostOK, QueueOK
<1> QED
  BY <1>3, <1>4, <1>5, <1>6, <1>7, <1>8 DEF HostOK

\* The segments and the other host after a step of e that adds the segments N.
LEMMA Gather ==
  ASSUME NEW e \in Hosts, NEW N \in SUBSET Segments, TcpInv, TypeOK', Acts(e),
         N # {} => nextSeq'[Client] # FirstSeq[Client],
         To(e)' \subseteq To(e), To(Peer(e))' \subseteq To(Peer(e)) \cup N,
         \A g \in N : SegmentOK(Peer(e), g)'
  PROVE  SegmentsInv' /\ HostOK(Peer(e))'
<1> DEFINE p == Peer(e)
<1>1. p \in Hosts /\ Peer(p) = e /\ Hosts = {e, p}
  BY PeerType
<1>2. To(e) \subseteq Segments /\ To(p) \subseteq Segments
  BY <1>1, ToType DEF TcpInv
<1>3. HostOK(p)'
  BY <1>1, OtherHost DEF TcpInv
<1>4. ASSUME NEW h \in Hosts, NEW g \in To(h)'
      PROVE  g \in Segments /\ SegmentOK(h, g)' /\ nextSeq'[Client] # FirstSeq[Client]
  <2>1. CASE g \in To(h)
    <3>1. SegmentOK(h, g) /\ nextSeq[Client] # FirstSeq[Client] /\ g \in Segments
      BY <1>1, <1>2, <2>1 DEF TcpInv, SegmentsInv
    <3> QED
      BY <3>1, SegmentKept DEF TcpInv, Acts
  <2>2. CASE g \notin To(h)
    <3>1. h = p /\ g \in N
      BY <1>1, <1>4, <2>2
    <3> QED
      BY <3>1
  <2> QED
    BY <2>1, <2>2
<1>5. SegmentsInv'
  BY <1>4 DEF SegmentsInv
<1> QED
  BY <1>3, <1>5

\* A step of e keeps the invariant if the segments it adds, N, are right and its own
\* state is right.
LEMMA Assemble ==
  ASSUME NEW e \in Hosts, NEW N \in SUBSET Segments, TcpInv, TypeOK', Acts(e),
         N # {} => nextSeq'[Client] # FirstSeq[Client],
         To(e)' \subseteq To(e), To(Peer(e))' \subseteq To(Peer(e)) \cup N,
         \A g \in N : SegmentOK(Peer(e), g)',
         HostOK(e)'
  PROVE  TcpInv'
<1>1. Hosts = {e, Peer(e)}
  BY PeerType
<1>2. SegmentsInv' /\ HostOK(Peer(e))'
  BY Gather
<1> QED
  BY <1>1, <1>2 DEF TcpInv

----------------------------------------------------------------------------
LEMMA ConcatElems ==
  ASSUME NEW S, NEW q \in Seq(S), NEW r \in Seq(S)
  PROVE  q \o r \in Seq(S) /\ Elems(q \o r) \subseteq Elems(q) \cup Elems(r)
<1>1. /\ q \o r \in Seq(S) /\ Len(q \o r) = Len(q) + Len(r) /\ Len(q) \in Nat /\ Len(r) \in Nat
      /\ \A i \in 1 .. Len(q) + Len(r) :
           (q \o r)[i] = IF i <= Len(q) THEN q[i] ELSE r[i - Len(q)]
  BY ConcatProperties, LenProperties
<1>2. ASSUME NEW i \in 1 .. Len(q) + Len(r)
      PROVE  (q \o r)[i] \in Elems(q) \cup Elems(r)
  <2>1. CASE i <= Len(q)
    BY <1>1, <2>1 DEF Elems
  <2>2. CASE ~(i <= Len(q))
    <3>1. i - Len(q) \in 1 .. Len(r)
      BY <1>1, <2>2
    <3> QED
      BY <1>1, <2>2, <3>1 DEF Elems
  <2> QED
    BY <2>1, <2>2
<1> QED
  BY <1>1, <1>2 DEF Elems

LEMMA SingleElems ==
  ASSUME NEW S, NEW x \in S
  PROVE  <<x>> \in Seq(S) /\ Elems(<<x>>) = {x} /\ Elems(<<>>) = {}
<1>1. <<x>> \in Seq(S) /\ Len(<<x>>) = 1 /\ <<x>>[1] = x /\ Len(<<>>) = 0
  BY EmptySeq
<1> QED
  BY <1>1 DEF Elems

\* What is on its way after e has sent out, from a network c with no more in it.
LEMMA Sends ==
  ASSUME NEW e \in Hosts, NEW c \in [Hosts -> Seq(Segments)], NEW out \in Seq(Segments),
         TypeOK, Transmit(c, e, out), c[Peer(e)] = chan[Peer(e)],
         Elems(c[e]) \subseteq Elems(chan[e]),
         late'[Peer(e)] = late[Peer(e)], late'[e] \subseteq late[e],
         tcb'[Peer(e)] = tcb[Peer(e)]
  PROVE  /\ To(e)' \subseteq To(e)
         /\ To(Peer(e))' \subseteq To(Peer(e)) \cup Elems(out)
<1> DEFINE p == Peer(e)
<1>1. p \in Hosts /\ p # e /\ Peer(p) = e
  BY PeerType
<1>2. chan'[e] = c[e] /\ chan'[p] = chan[p] \o out /\ chan[p] \in Seq(Segments)
  BY <1>1 DEF Transmit, TypeOK
<1>3. Elems(chan'[p]) \subseteq Elems(chan[p]) \cup Elems(out)
  BY <1>2, ConcatElems
<1> QED
  BY <1>1, <1>2, <1>3 DEF To

\* The numbers are small.
LEMMA Small ==
  ASSUME NoWrap, NEW e \in Hosts
  PROVE  /\ FirstSeq[e] \in Nat /\ MaxBytes[e] \in Nat /\ StreamSize \in Nat \ {0}
         /\ SeqMod \in Nat /\ SeqStep \in Nat /\ Server \in Hosts /\ Client \in Hosts
         /\ FirstSeq[e] + MaxBytes[e] + StreamSize + 2 < SeqMod
         /\ Plus(FirstSeq[e], 1) = FirstSeq[e] + 1
         /\ Plus(FirstSeq[e], SeqStep) # FirstSeq[e]
<1>1. /\ FirstSeq[e] \in Nat /\ MaxBytes[e] \in Nat /\ StreamSize \in Nat \ {0}
      /\ SeqMod \in Nat /\ SeqStep \in Nat /\ FirstSeq[e] < SeqMod
  BY TcpAssumption
<1>2. Server \in Hosts /\ Client \in Hosts
  BY DEF Hosts
<1>3. /\ FirstSeq[e] + MaxBytes[e] + StreamSize + 2 < SeqMod
      /\ MaxBytes[Server] + 2 < SeqStep /\ FirstSeq[Server] + SeqStep + 1 < SeqMod
      /\ MaxBytes[Server] \in Nat /\ FirstSeq[Server] \in Nat
  BY <1>2, TcpAssumption DEF NoWrap
<1>4. Plus(FirstSeq[e], 1) = FirstSeq[e] + 1
  BY <1>1, <1>3, PlusSmall
<1>5. 0 < SeqStep /\ SeqStep < SeqMod
  BY <1>1, <1>3
<1>6. Plus(FirstSeq[e], SeqStep) # FirstSeq[e]
  <2>1. CASE FirstSeq[e] + SeqStep < SeqMod
    BY <1>1, <1>5, <2>1, PlusSmall
  <2>2. CASE FirstSeq[e] + SeqStep >= SeqMod
    <3> DEFINE d == FirstSeq[e] + SeqStep - SeqMod
    <3>1. d \in Nat /\ d < SeqMod /\ FirstSeq[e] + SeqStep = d + SeqMod /\ d < FirstSeq[e]
      BY <1>1, <1>5, <2>2
    <3> HIDE DEF d
    <3>2. (d + SeqMod) % SeqMod = d
      BY <1>1, <3>1
    <3> QED
      BY <3>1, <3>2, <1>1 DEF Plus
  <2> QED
    BY <1>1, <2>1, <2>2
<1> QED
  BY <1>1, <1>2, <1>3, <1>4, <1>6

LEMMA TopType ==
  ASSUME NoWrap, TypeOK, NEW e \in Hosts
  PROVE  /\ wrote[e] \in Nat /\ Top(e) \in Nat
         /\ FirstSeq[e] < Top(e) /\ FirstSeq[e] + 1 + wrote[e] <= Top(e)
         /\ Top(e) + StreamSize < SeqMod
<1>1. wrote[e] \in Nat /\ wrote[e] <= MaxBytes[e]
  BY DEF TypeOK
<1> QED
  BY <1>1, Small DEF Top

\* A RST is always right.
LEMMA ResetOK ==
  ASSUME NEW e \in Hosts, NEW g \in Segments, g.flags \in {{"RST"}, {"RST", "ACK"}},
         g.data = <<>>
  PROVE  SegmentOK(e, g)' /\ ~IsAck(g)
<1>1. "RST" \in g.flags /\ "SYN" \notin g.flags /\ "FIN" \notin g.flags
  OBVIOUS
<1> QED
  BY <1>1 DEF SegmentOK, ShapeOK, EndsOK, AckOK, IsAck

\* An ACK of what the peer has sent.
LEMMA AckSegmentOK ==
  ASSUME NEW e \in Hosts, NEW b \in Blocks, NEW n \in Numbers, NEW m \in 0 .. StreamSize,
         FirstSeq[Peer(e)] < n, n <= Top(Peer(e))', FirstSeq[e] < b.snd_nxt,
         e = Client => ClientOpen'
  PROVE  /\ AckUpTo(b, n, m) \in Segments /\ AckUpTo(b, n, m).data = <<>>
         /\ SegmentOK(Peer(e), AckUpTo(b, n, m))'
<1> DEFINE g == AckUpTo(b, n, m)
<1>1. g \in Segments
  BY EmptySeq, SegType DEF AckUpTo, Flags, Blocks
<1>2. g.flags = {"ACK"} /\ g.seq = b.snd_nxt /\ g.ack = n /\ g.data = <<>>
  BY DEF AckUpTo, Seg
<1> HIDE DEF g
<1>3. Peer(Peer(e)) = e /\ (Peer(e) = Server => e = Client)
  BY PeerType, TcpAssumption DEF Peer, Hosts
<1>4. ShapeOK(Peer(e), g)' /\ EndsOK(Peer(e), g)'
  BY <1>2 DEF ShapeOK, EndsOK
<1>5. AckOK(Peer(e), g)'
  BY <1>2, <1>3 DEF AckOK
<1> QED
  BY <1>1, <1>2, <1>4, <1>5 DEF SegmentOK, g

LEMMA HostSame ==
  ASSUME NEW e \in Hosts, HostOK(e), UNCHANGED <<tcb, nextSeq, stream, wrote, closing>>
  PROVE  HostOK(e)' /\ (ClientOpen => ClientOpen')
<1>1. GoneOK(e)' /\ FirstOK(e)' /\ AgainOK(e)'
  BY DEF HostOK, GoneOK, FirstOK, AgainOK
<1>2. ClientOpen' = ClientOpen
  BY DEF ClientOpen
<1>3. LiveOK(e)' /\ QueueOK(e)' /\ StreamOK(e)'
  BY <1>2 DEF HostOK, LiveOK, QueueOK, StreamOK, Top
<1> QED
  BY <1>1, <1>2, <1>3 DEF HostOK

\* A segment s is taken out of the network, which leaves c.
Arrives(e, s, c) ==
  /\ s \in To(e) /\ c \in [Hosts -> Seq(Segments)]
  /\ c[Peer(e)] = chan[Peer(e)] /\ Elems(c[e]) \subseteq Elems(chan[e])
  /\ late'[Peer(e)] = late[Peer(e)] /\ late'[e] \subseteq late[e]
  /\ UNCHANGED <<wrote, closing>>

\* What an answer may be.
AnswerOK(e, g) == SegmentOK(Peer(e), g)' /\ g.data = <<>>

LEMMA ReceiveStep ==
  ASSUME NEW e \in Hosts, NEW s, NEW c, NEW out \in Seq(Segments), TcpInv, TypeOK',
         Arrives(e, s, c), Transmit(c, e, out),
         tcb'[Peer(e)] = tcb[Peer(e)], nextSeq'[Peer(e)] = nextSeq[Peer(e)],
         stream'[Peer(e)] = stream[Peer(e)], nextSeq'[Client] = nextSeq[Client],
         ClientOpen => ClientOpen',
         \A g \in Elems(out) : AnswerOK(e, g),
         HostOK(e)'
  PROVE  TcpInv'
<1>1. /\ To(e)' \subseteq To(e)
      /\ To(Peer(e))' \subseteq To(Peer(e)) \cup Elems(out)
  BY Sends, Zenon DEF Arrives, TcpInv
<1>2. Elems(out) \subseteq Segments
  BY ElementOfSeq DEF Elems
<1>3. nextSeq'[Client] # FirstSeq[Client]
  BY DEF Arrives, TcpInv, SegmentsInv
<1>4. Acts(e)
  <2>1. wrote' = wrote /\ closing' = closing /\ wrote[e] \in Nat
    BY DEF Arrives, TcpInv, TypeOK
  <2> QED
    BY <2>1 DEF Acts
<1> QED
  BY <1>1, <1>2, <1>3, <1>4, Assemble DEF AnswerOK

\* A segment that is answered and changes nothing else.
LEMMA Answered ==
  ASSUME NEW e \in Hosts, NEW s, NEW c, NEW out \in Seq(Segments), TcpInv, TypeOK',
         Arrives(e, s, c), Transmit(c, e, out), UNCHANGED <<tcb, nextSeq, stream>>,
         \A g \in Elems(out) : AnswerOK(e, g)
  PROVE  TcpInv'
<1>1. HostOK(e)' /\ (ClientOpen => ClientOpen')
  BY HostSame DEF Arrives, TcpInv
<1> QED
  BY <1>1, ReceiveStep

\* What a connection that is up knows of its peer.
LEMMA Up ==
  ASSUME NEW e \in Hosts, NoWrap, TcpInv, tcb[e].state \in Live
  PROVE  /\ FirstSeq[Peer(e)] < tcb[e].rcv_nxt /\ tcb[e].rcv_nxt <= Top(Peer(e))
         /\ FirstSeq[e] < tcb[e].snd_nxt
         /\ e = Client => ClientOpen
<1>0. HostOK(e) /\ TypeOK /\ tcb[e].state # "NONE" /\ tcb[e].state # "SYN_SENT"
  BY DEF TcpInv, Live, Synchronized
<1>1. /\ tcb[e].irs = FirstSeq[Peer(e)] /\ FirstSeq[Peer(e)] < tcb[e].rcv_nxt
      /\ tcb[e].rcv_nxt <= Top(Peer(e))
      /\ tcb[e].iss = FirstSeq[e] => tcb[e].snd_nxt = Top(e)
  BY <1>0 DEF HostOK, LiveOK
<1>2. CASE tcb[e].iss = FirstSeq[e]
  <2>1. FirstSeq[e] < tcb[e].snd_nxt
    BY <1>0, <1>1, <1>2, TopType
  <2>2. nextSeq[e] = Plus(FirstSeq[e], SeqStep)
    BY <1>0, <1>2 DEF HostOK, FirstOK
  <2>3. e = Client => Peer(e) = Server /\ nextSeq[Client] # FirstSeq[Client]
    BY <2>2, Small DEF Peer
  <2> QED
    BY <1>0, <1>1, <2>1, <2>3 DEF ClientOpen
<1>3. CASE tcb[e].iss # FirstSeq[e]
  <2>1. e = Server /\ tcb[e].iss = FirstSeq[e] + SeqStep /\ tcb[e].snd_nxt = tcb[e].iss + 1
    BY <1>0, <1>3 DEF HostOK, AgainOK
  <2>2. FirstSeq[e] < tcb[e].snd_nxt /\ e # Client
    BY <2>1, Small, TcpAssumption
  <2> QED
    BY <1>1, <2>2
<1> QED
  BY <1>2, <1>3

LEMMA ResetAnswer ==
  ASSUME NEW e \in Hosts, NEW g \in Segments, g.flags \in {{"RST"}, {"RST", "ACK"}},
         g.data = <<>>
  PROVE  <<g>> \in Seq(Segments) /\ \A h \in Elems(<<g>>) : AnswerOK(e, h)
<1>1. SegmentOK(Peer(e), g)' /\ ~IsAck(g)
  BY ResetOK, PeerType
<1> QED
  BY <1>1, SingleElems DEF AnswerOK

LEMMA NoAnswer ==
  ASSUME NEW e \in Hosts
  PROVE  <<>> \in Seq(Segments) /\ \A h \in Elems(<<>>) : AnswerOK(e, h)
  BY EmptySeq DEF Elems

LEMMA AckAnswer ==
  ASSUME NEW e \in Hosts, NEW b \in Blocks, NEW n \in Numbers, NEW m \in 0 .. StreamSize,
         FirstSeq[Peer(e)] < n, n <= Top(Peer(e))', FirstSeq[e] < b.snd_nxt,
         e = Client => ClientOpen'
  PROVE  /\ <<AckUpTo(b, n, m)>> \in Seq(Segments)
         /\ \A h \in Elems(<<AckUpTo(b, n, m)>>) : AnswerOK(e, h)
<1> DEFINE a == AckUpTo(b, n, m)
<1>1. a \in Segments /\ AnswerOK(e, a)
  BY AckSegmentOK DEF AnswerOK
<1> HIDE DEF a
<1>2. <<a>> \in Seq(Segments) /\ Elems(<<a>>) = {a}
  BY <1>1, SingleElems
<1>3. <<a>> \in Seq(Segments) /\ \A h \in Elems(<<a>>) : AnswerOK(e, h)
  BY <1>1, <1>2
<1> QED
  BY <1>3 DEF a

LEMMA ClosedStep ==
  ASSUME NEW e \in Hosts, NEW s, NEW c, TcpInv, TypeOK', Arrives(e, s, c), ReceiveClosed(e, s, c)
  PROVE  TcpInv'
<1> DEFINE g == Seg({"RST", "ACK"}, 0, Plus(s.seq, 1), 0, <<>>)
           out == IF "RST" \in s.flags THEN <<>>
                  ELSE IF "ACK" \in s.flags THEN <<Reset(s.ack)>> ELSE <<g>>
<1>1. s \in Segments
  BY ToType DEF Arrives, TcpInv
<1>2. g \in Segments /\ g.flags = {"RST", "ACK"} /\ g.data = <<>>
  <2>1. 0 \in Numbers /\ s.seq \in Int
    BY <1>1, TcpAssumption DEF Segments, Numbers
  <2>2. Plus(s.seq, 1) \in Numbers
    BY <2>1, PlusType
  <2> QED
    BY <2>1, <2>2, SegType, EmptySeq, Windows DEF Flags, Seg
<1>3. Reset(s.ack) \in Segments /\ Reset(s.ack).flags = {"RST"} /\ Reset(s.ack).data = <<>>
  BY <1>1, ResetType DEF Reset, Seg, Segments
<1>4. Transmit(c, e, out) /\ UNCHANGED <<tcb, nextSeq, stream>>
  BY DEF ReceiveClosed
<1> HIDE DEF g
<1>5. out \in Seq(Segments) /\ \A h \in Elems(out) : AnswerOK(e, h)
  BY <1>2, <1>3, ResetAnswer, NoAnswer
<1> HIDE DEF out
<1> QED
  BY <1>4, <1>5, Answered

LEMMA ListenOtherStep ==
  ASSUME NEW e \in Hosts, NEW s, NEW c, TcpInv, TypeOK', Arrives(e, s, c),
         ReceiveListenOther(e, s, c)
  PROVE  TcpInv'
<1> DEFINE out == IF "RST" \notin s.flags /\ "ACK" \in s.flags THEN <<Reset(s.ack)>> ELSE <<>>
<1>1. s \in Segments
  BY ToType DEF Arrives, TcpInv
<1>2. Reset(s.ack) \in Segments /\ Reset(s.ack).flags = {"RST"} /\ Reset(s.ack).data = <<>>
  BY <1>1, ResetType DEF Reset, Seg, Segments
<1>3. Transmit(c, e, out) /\ UNCHANGED <<tcb, nextSeq, stream>>
  BY DEF ReceiveListenOther
<1>4. out \in Seq(Segments) /\ \A h \in Elems(out) : AnswerOK(e, h)
  BY <1>2, ResetAnswer, NoAnswer
<1> HIDE DEF out
<1> QED
  BY <1>3, <1>4, Answered

LEMMA RefusedStep ==
  ASSUME NEW e \in Hosts, NEW s, NEW c, NoWrap, TcpInv, TypeOK', Arrives(e, s, c),
         ReceiveRefused(e, s, c)
  PROVE  TcpInv'
<1>b. PICK b : b = tcb[e]
  OBVIOUS
<1> DEFINE g == Seg({"ACK", "RST"}, b.snd_nxt, b.rcv_nxt, Room(b), <<>>)
           out == IF "SYN" \in s.flags THEN <<g>> ELSE <<AckOf(b)>>
<1>1. b \in Blocks /\ b.state \in Live
  BY <1>b DEF TcpInv, TypeOK, ReceiveRefused, Live
<1>2. b.snd_nxt \in Numbers /\ b.rcv_nxt \in Numbers /\ Room(b) \in 0 .. StreamSize
  BY <1>1, Windows DEF Blocks
<1>3. g \in Segments /\ g.flags = {"RST", "ACK"} /\ g.data = <<>>
  BY <1>2, SegType, EmptySeq DEF Flags, Seg
<1>4. Transmit(c, e, out) /\ UNCHANGED <<tcb, nextSeq, stream>>
  BY <1>b DEF ReceiveRefused
<1>5. /\ FirstSeq[Peer(e)] < b.rcv_nxt /\ b.rcv_nxt <= Top(Peer(e))
      /\ FirstSeq[e] < b.snd_nxt /\ (e = Client => ClientOpen)
  BY <1>1, <1>b, Up
<1>6. b.rcv_nxt <= Top(Peer(e))' /\ (e = Client => ClientOpen')
  <2>1. Top(Peer(e))' = Top(Peer(e)) /\ (ClientOpen <=> ClientOpen')
    BY <1>4 DEF Arrives, Top, ClientOpen
  <2> QED
    BY <1>5, <2>1
<1>7. AckOf(b) = AckUpTo(b, b.rcv_nxt, Room(b))
  BY DEF AckOf, AckUpTo
<1> HIDE DEF g
<1>9. <<AckOf(b)>> \in Seq(Segments) /\ \A h \in Elems(<<AckOf(b)>>) : AnswerOK(e, h)
  BY <1>1, <1>2, <1>5, <1>6, <1>7, <1>b, AckAnswer
<1>10. out \in Seq(Segments) /\ \A h \in Elems(out) : AnswerOK(e, h)
  BY <1>3, <1>9, ResetAnswer
<1> HIDE DEF out
<1> QED
  BY <1>4, <1>10, Answered

\* The queue of a block that has sent nothing, ...
LEMMA EmptyQueue ==
  ASSUME NEW e, tcb'[e].rtq = <<>>, tcb'[e].state \notin FinSent
  PROVE  QueueOK(e)'
<1>1. Elems(<<>>) = {}
  BY EmptySeq DEF Elems
<1> QED
  BY <1>1 DEF QueueOK

\* ... and of one that does not go on.
LEMMA SameQueue ==
  ASSUME NEW e, QueueOK(e), tcb'[e].rtq = tcb[e].rtq, tcb'[e].fin_seq = tcb[e].fin_seq,
         tcb'[e].iss = tcb[e].iss, tcb'[e].state = tcb[e].state \/ tcb'[e].state = "CLOSED",
         tcb[e].state # "NONE", wrote'[e] = wrote[e]
  PROVE  QueueOK(e)'
  BY DEF QueueOK, FinSent

LEMMA ListenStep ==
  ASSUME NEW e \in Hosts, NEW s, NEW c, NoWrap, TcpInv, TypeOK', Arrives(e, s, c),
         ReceiveListen(e, s, c)
  PROVE  TcpInv'
<1>b. PICK iss : iss = nextSeq[e]
  OBVIOUS
<1>d. PICK d : d = tcb'[e]
  OBVIOUS
<1> DEFINE n == FirstSeq[Client] + 1
           g == Seg({"SYN", "ACK"}, iss, n, StreamSize, <<>>)
<1>1. s \in Segments /\ SegmentOK(e, s)
  BY ToType DEF Arrives, TcpInv, SegmentsInv
<1>2. /\ e = Server /\ Peer(e) = Client /\ e # Client /\ Hosts = {Client, Server}
      /\ s.seq = FirstSeq[Client] /\ Plus(s.seq, 1) = n
  <2>1. e = Server /\ Peer(e) = Client /\ e # Client /\ Hosts = {Client, Server}
    BY TcpAssumption DEF ReceiveListen, Peer, Hosts
  <2>2. s.seq = FirstSeq[Client]
    BY <1>1, <2>1 DEF ReceiveListen, SegmentOK, EndsOK
  <2> QED
    BY <2>1, <2>2, Small
<1>3. /\ tcb \in [Hosts -> Blocks] /\ nextSeq \in [Hosts -> Numbers] /\ stream \in [Hosts -> Seq(Nat)]
      /\ TypeOK /\ tcb[e].state = "NONE" /\ iss \in Numbers
  BY <1>b DEF TcpInv, TypeOK, ReceiveListen
<1>4. d = [NoBlock EXCEPT !.state = "SYN_RECEIVED", !.iss = iss, !.snd_nxt = Plus(iss, 1),
                          !.snd_una = iss, !.irs = s.seq, !.rcv_nxt = Plus(s.seq, 1)]
  BY <1>3, <1>b, <1>d DEF ReceiveListen
<1>5. /\ d.state = "SYN_RECEIVED" /\ d.iss = iss /\ d.snd_nxt = Plus(iss, 1)
      /\ d.snd_una = iss /\ d.irs = FirstSeq[Client] /\ d.rcv_nxt = n /\ d.rtq = <<>>
      /\ d.endpoint = FALSE /\ d.freeing = FALSE /\ d.waiting = FALSE
  BY <1>2, <1>4 DEF NoBlock
<1>6. /\ tcb'[Client] = tcb[Client] /\ nextSeq'[Client] = nextSeq[Client]
      /\ stream'[Client] = stream[Client] /\ stream'[e] = <<>>
      /\ nextSeq'[e] = Plus(iss, SeqStep) /\ Transmit(c, e, <<g>>)
      /\ wrote' = wrote /\ closing' = closing
  BY <1>2, <1>3, <1>b DEF ReceiveListen, NextSequenceNumber, Arrives
<1>7. ClientOpen <=> ClientOpen'
  BY <1>6 DEF ClientOpen
<1>8. /\ n \in Nat /\ FirstSeq[Client] < n /\ n <= Top(Client) /\ n \in Numbers /\ Top(Client) \in Nat
      /\ Top(Client)' = Top(Client) /\ Top(e)' = Top(e)
  <2>1. FirstSeq[Client] \in Nat /\ FirstSeq[Client] + 1 + wrote[Client] <= Top(Client)
        /\ wrote[Client] \in Nat /\ Top(Client) \in Nat /\ Top(Client) + StreamSize < SeqMod
        /\ StreamSize \in Nat /\ SeqMod \in Nat
    BY <1>2, <1>3, Small, TopType
  <2>2. Top(Client)' = Top(Client) /\ Top(e)' = Top(e)
    BY <1>6 DEF Top
  <2> QED
    BY <2>1, <2>2 DEF Numbers
<1> HIDE DEF n
<1>9. AnswerOK(e, g) /\ g \in Segments
  <2>1. g \in Segments
    BY <1>3, <1>8, SegType, EmptySeq, Windows DEF Flags
  <2>2. g.flags = {"SYN", "ACK"} /\ g.seq = iss /\ g.ack = n /\ g.data = <<>>
    BY DEF Seg
  <2>3. iss = FirstSeq[Server] \/ Server \in closing
    BY <1>2, <1>3, <1>b DEF TcpInv, HostOK, GoneOK
  <2> HIDE DEF g
  <2>4. ShapeOK(Client, g)' /\ EndsOK(Client, g)'
    BY <1>2, <1>6, <2>2, <2>3 DEF ShapeOK, EndsOK
  <2>5. AckOK(Client, g)'
    BY <1>2, <1>8, <2>2 DEF AckOK
  <2> QED
    BY <1>2, <1>5, <1>d, <2>1, <2>2, <2>4, <2>5 DEF AnswerOK, SegmentOK
<1> HIDE DEF g
<1>10. <<g>> \in Seq(Segments) /\ Elems(<<g>>) = {g} /\ Elems(<<>>) = {}
  BY <1>9, SingleElems
<1>12. HostOK(e)'
  <2>1. HostOK(e) /\ GoneOK(e)
    BY <1>3 DEF TcpInv, HostOK
  <2>2. GoneOK(e)'
    BY <1>5, <1>d DEF GoneOK
  <2>3. LiveOK(e)'
    <3>1. Len(stream'[e]) = 0
      BY <1>6, EmptySeq
    <3>2. d.iss = FirstSeq[e] => d.snd_nxt = Top(e)' /\ e \notin closing'
      <4>1. ASSUME iss = FirstSeq[e]
            PROVE  wrote[e] = 0 /\ e \notin closing /\ Plus(iss, 1) = FirstSeq[e] + 1
        BY <1>2, <1>3, <1>b, <2>1, <4>1, Small DEF GoneOK
      <4> QED
        BY <1>2, <1>5, <1>6, <4>1, Small DEF Top
    <3>3. d.state \notin FinSent /\ d.state \notin FinSeen
      BY <1>5 DEF FinSent, FinSeen
    <3> QED
      BY <1>2, <1>5, <1>8, <1>d, <3>1, <3>2, <3>3, TcpAssumption DEF LiveOK, n
  <2>4. FirstOK(e)'
    BY <1>2, <1>3, <1>5, <1>6, <1>b, <1>d, <2>1, Small DEF GoneOK, FirstOK
  <2>5. AgainOK(e)'
    <3>1. ASSUME iss # FirstSeq[e]
          PROVE  /\ Hosts \subseteq closing /\ iss = FirstSeq[e] + SeqStep
                 /\ Plus(iss, 1) = iss + 1
      <4>1. Hosts \subseteq closing /\ iss = Plus(FirstSeq[e], SeqStep)
        BY <1>3, <1>b, <2>1, <3>1 DEF GoneOK
      <4>2. /\ FirstSeq[e] \in Nat /\ SeqStep \in Nat /\ SeqMod \in Nat
            /\ FirstSeq[e] + SeqStep + 1 < SeqMod
        BY <1>2, Small DEF NoWrap
      <4>3. iss = FirstSeq[e] + SeqStep
        BY <4>1, <4>2, PlusSmall
      <4> QED
        BY <4>1, <4>2, <4>3, PlusSmall
    <3> QED
      BY <1>2, <1>5, <1>6, <1>d, <3>1 DEF AgainOK
  <2>6. StreamOK(e)'
    <3>1. Len(stream'[e]) = 0 /\ wrote'[Client] \in Nat /\ wrote'[e] = wrote[e]
      BY <1>2, <1>6, EmptySeq DEF TypeOK
    <3>2. e \in closing \/ wrote[e] > 0 => ClientOpen
      BY <1>2, <2>1 DEF HostOK, StreamOK
    <3> QED
      BY <1>2, <1>5, <1>6, <1>7, <1>d, <3>1, <3>2 DEF StreamOK
  <2>7. QueueOK(e)'
    BY <1>5, <1>d, EmptyQueue DEF FinSent
  <2> QED
    BY <2>2, <2>3, <2>4, <2>5, <2>6, <2>7 DEF HostOK
<1>14. \A h \in Elems(<<g>>) : AnswerOK(e, h)
  BY <1>9, <1>10
<1> QED
  BY <1>2, <1>6, <1>7, <1>10, <1>12, <1>14, ReceiveStep

LEMMA SynSentStep ==
  ASSUME NEW e \in Hosts, NEW s, NEW c, NoWrap, TcpInv, TypeOK', Arrives(e, s, c),
         ReceiveSynSent(e, s, c)
  PROVE  TcpInv'
<1>b. PICK b : b = tcb[e]
  OBVIOUS
<1>d. PICK d : d = tcb'[e]
  OBVIOUS
<1> DEFINE wrong == "ACK" \in s.flags /\ (s.ack <= b.iss \/ s.ack > b.snd_nxt)
           open == ~wrong /\ {"SYN", "ACK"} \subseteq s.flags /\ "RST" \notin s.flags
           opened == [b EXCEPT !.state = "ESTABLISHED", !.irs = s.seq,
                               !.rcv_nxt = Plus(s.seq, 1), !.snd_una = s.ack]
           out == IF wrong /\ "RST" \notin s.flags THEN <<Reset(s.ack)>>
                  ELSE IF open THEN <<AckOf(opened)>> ELSE <<>>
<1>1. s \in Segments /\ SegmentOK(e, s) /\ nextSeq[Client] # FirstSeq[Client]
  BY ToType DEF Arrives, TcpInv, SegmentsInv
<1>2. /\ b \in Blocks /\ d \in Blocks /\ TypeOK /\ HostOK(e) /\ b.state = "SYN_SENT"
      /\ tcb \in [Hosts -> Blocks]
  BY <1>b, <1>d DEF TcpInv, TypeOK, ReceiveSynSent
<1>3. /\ tcb' = [tcb EXCEPT ![e] = d] /\ nextSeq' = nextSeq /\ stream' = stream
      /\ Transmit(c, e, out) /\ wrote' = wrote /\ closing' = closing
      /\ open => d = opened
      /\ ~open => d = b \/ d = [b EXCEPT !.state = "CLOSED"]
  BY <1>2, <1>b, <1>d DEF ReceiveSynSent, Arrives
<1>4. b.iss = FirstSeq[e]
  BY <1>2, <1>b DEF HostOK, AgainOK
<1>5. /\ e = Client /\ Peer(e) = Server /\ b.snd_nxt = FirstSeq[e] + 1 /\ wrote[e] = 0
      /\ e \notin closing /\ stream[e] = <<>> /\ b.rtq = <<>> /\ ~b.freeing /\ ~b.waiting
      /\ nextSeq[e] = Plus(FirstSeq[e], SeqStep)
  BY <1>2, <1>4, <1>b DEF HostOK, FirstOK, Peer
<1>6. b.rcv_nxt <= Top(Server) /\ Server \in Hosts /\ Server # Client
  BY <1>2, <1>5, <1>b, TcpAssumption DEF HostOK, LiveOK, Hosts
<1>7. ~ClientOpen /\ Server \notin closing
  BY <1>2, <1>5, <1>6, <1>b DEF ClientOpen, TcpInv, HostOK, StreamOK
<1>8. /\ tcb'[Server] = tcb[Server] /\ nextSeq'[Server] = nextSeq[Server]
      /\ stream'[Server] = stream[Server] /\ nextSeq'[Client] = nextSeq[Client]
      /\ Top(Server)' = Top(Server) /\ Top(e)' = Top(e)
  BY <1>3, <1>5, <1>6 DEF Top
<1>9. Reset(s.ack) \in Segments /\ Reset(s.ack).flags = {"RST"} /\ Reset(s.ack).data = <<>>
  BY <1>1, ResetType DEF Reset, Seg, Segments
<1>10. FirstSeq[Server] \in Nat /\ Plus(FirstSeq[Server], 1) = FirstSeq[Server] + 1
       /\ FirstSeq[Server] < Top(Server) /\ Top(Server) \in Nat /\ FirstSeq[e] \in Nat
  BY <1>2, <1>6, Small, TopType
<1>11. ASSUME open
       PROVE  /\ d.state = "ESTABLISHED" /\ d.irs = FirstSeq[Server]
              /\ d.rcv_nxt = FirstSeq[Server] + 1 /\ d.iss = b.iss /\ d.snd_nxt = b.snd_nxt
              /\ d.rtq = b.rtq /\ ~d.freeing /\ ~d.waiting /\ ClientOpen'
  <2>1. s.seq = FirstSeq[Server]
    BY <1>1, <1>5, <1>6, <1>7, <1>11 DEF SegmentOK, EndsOK
  <2>2. d = opened
    BY <1>3, <1>11
  <2>3. /\ d.state = "ESTABLISHED" /\ d.irs = FirstSeq[Server]
        /\ d.rcv_nxt = FirstSeq[Server] + 1 /\ d.iss = b.iss /\ d.snd_nxt = b.snd_nxt
        /\ d.rtq = b.rtq /\ ~d.freeing /\ ~d.waiting
    BY <1>2, <1>5, <1>10, <2>1, <2>2 DEF Blocks
  <2> QED
    BY <1>1, <1>5, <1>8, <1>d, <2>3 DEF ClientOpen
<1>12. ASSUME ~open
       PROVE  /\ d.state \in {"SYN_SENT", "CLOSED"} /\ d.rcv_nxt = b.rcv_nxt /\ d.iss = b.iss
              /\ d.snd_nxt = b.snd_nxt /\ d.snd_una = b.snd_una /\ d.rtq = b.rtq
              /\ ~d.freeing /\ ~d.waiting
  BY <1>2, <1>3, <1>5, <1>12 DEF Blocks
<1>13. out \in Seq(Segments) /\ \A h \in Elems(out) : AnswerOK(e, h)
  <2>1. CASE wrong /\ "RST" \notin s.flags
    BY <1>9, <2>1, ResetAnswer
  <2>2. CASE ~(wrong /\ "RST" \notin s.flags) /\ open
    <3>1. AckOf(opened) = AckUpTo(d, d.rcv_nxt, Room(d))
      BY <1>3, <2>2 DEF AckOf, AckUpTo
    <3>2. /\ d.rcv_nxt \in Numbers /\ FirstSeq[Peer(e)] < d.rcv_nxt
          /\ d.rcv_nxt <= Top(Peer(e))' /\ FirstSeq[e] < d.snd_nxt
          /\ Room(d) \in 0 .. StreamSize
      BY <1>2, <1>5, <1>8, <1>10, <1>11, <2>2, Windows DEF Blocks
    <3>3. /\ <<AckUpTo(d, d.rcv_nxt, Room(d))>> \in Seq(Segments)
          /\ \A h \in Elems(<<AckUpTo(d, d.rcv_nxt, Room(d))>>) : AnswerOK(e, h)
      BY <1>2, <1>11, <1>d, <2>2, <3>2, AckAnswer
    <3> QED
      BY <2>2, <3>1, <3>3
  <2>3. CASE ~(wrong /\ "RST" \notin s.flags) /\ ~open
    BY <2>3, NoAnswer
  <2> QED
    BY <2>1, <2>2, <2>3
<1> HIDE DEF out, wrong, open, opened
<1>15. GoneOK(e)' /\ AgainOK(e)'
  BY <1>4, <1>11, <1>12, <1>d DEF GoneOK, AgainOK
<1>16. FirstOK(e)'
  <2>1. CASE open
    BY <1>3, <1>5, <1>11, <1>d, <2>1 DEF FirstOK
  <2>2. CASE ~open
    BY <1>2, <1>3, <1>4, <1>5, <1>12, <1>b, <1>d, <2>2 DEF FirstOK, HostOK
  <2> QED
    BY <2>1, <2>2
<1>17. LiveOK(e)'
  <2>1. CASE open
    <3>1. Len(stream'[e]) = 0 /\ d.snd_nxt = Top(e)' /\ e \notin closing'
      BY <1>3, <1>5, <1>10, <1>11, <2>1, EmptySeq DEF Top
    <3>2. d.state \in Open /\ d.state \notin FinSent /\ d.state \notin FinSeen
      BY <1>11, <2>1 DEF FinSent, FinSeen, Open, Taking
    <3> QED
      BY <1>5, <1>8, <1>10, <1>11, <1>d, <2>1, <3>1, <3>2 DEF LiveOK
  <2>2. CASE ~open
    <3>1. d.state \notin Live
      BY <1>12, <2>2 DEF Live, Synchronized
    <3> QED
      BY <1>5, <1>6, <1>8, <1>12, <1>d, <2>2, <3>1 DEF LiveOK
  <2> QED
    BY <2>1, <2>2
<1>18. StreamOK(e)'
  BY <1>2, <1>3, <1>5, <1>6 DEF HostOK, StreamOK
<1>19. QueueOK(e)'
  <2>1. d.rtq = <<>> /\ d.state \notin FinSent
    BY <1>5, <1>11, <1>12 DEF FinSent
  <2> QED
    BY <1>d, <2>1, EmptyQueue
<1>20. HostOK(e)'
  BY <1>15, <1>16, <1>17, <1>18, <1>19 DEF HostOK
<1> QED
  BY <1>3, <1>5, <1>7, <1>8, <1>13, <1>20, ReceiveStep

LEMMA Quiet ==
  ASSUME NEW e \in Hosts, NEW c \in [Hosts -> Seq(Segments)], chan' = c
  PROVE  Transmit(c, e, <<>>)
<1>1. Peer(e) \in Hosts /\ c[Peer(e)] \in Seq(Segments)
  BY PeerType
<1>2. c[Peer(e)] \o <<>> = c[Peer(e)]
  BY <1>1, ConcatEmptySeq
<1> QED
  BY <1>1, <1>2 DEF Transmit

LEMMA ResetStep ==
  ASSUME NEW e \in Hosts, NEW s, NEW c, NoWrap, TcpInv, TypeOK', Arrives(e, s, c),
         ReceiveReset(e, s, c)
  PROVE  TcpInv'
<1>b. PICK b : b = tcb[e]
  OBVIOUS
<1>d. PICK d : d = tcb'[e]
  OBVIOUS
<1> DEFINE f == b.state \in {"LAST_ACK", "CLOSING"}
<1>1. f \in BOOLEAN
  OBVIOUS
<1>2. /\ b \in Blocks /\ TypeOK /\ HostOK(e) /\ b.state \in Synchronized
      /\ tcb \in [Hosts -> Blocks] /\ Peer(e) \in Hosts /\ Peer(e) # e /\ Hosts = {e, Peer(e)}
  BY <1>b, PeerType DEF TcpInv, TypeOK, ReceiveReset
<1>3. d = [b EXCEPT !.state = "CLOSED", !.freeing = f]
  BY <1>2, <1>b, <1>d DEF ReceiveReset
<1>4. /\ tcb'[Peer(e)] = tcb[Peer(e)] /\ nextSeq' = nextSeq /\ stream' = stream
      /\ chan' = c /\ wrote' = wrote /\ closing' = closing
  BY <1>2 DEF ReceiveReset, Arrives
<1> HIDE DEF f
<1>5. /\ d.state = "CLOSED" /\ d.freeing = f /\ d.rcv_nxt = b.rcv_nxt /\ d.iss = b.iss
      /\ d.irs = b.irs /\ d.snd_una = b.snd_una /\ d.snd_nxt = b.snd_nxt
      /\ d.rtq = b.rtq /\ d.waiting = b.waiting /\ d.endpoint = b.endpoint
      /\ d.fin_seq = b.fin_seq
  BY <1>1, <1>2, <1>3 DEF Blocks
<1>6. ClientOpen => ClientOpen'
  <2>1. b.state # "NONE" /\ b.state # "SYN_SENT"
    BY <1>2 DEF Synchronized
  <2>2. CASE e = Client
    BY <1>4, <1>5, <1>b, <1>d, <2>1, <2>2 DEF ClientOpen
  <2>3. CASE e # Client
    <3>1. Peer(e) = Client
      BY <1>2, <2>3 DEF Peer
    <3> QED
      BY <1>4, <3>1 DEF ClientOpen
  <2> QED
    BY <2>2, <2>3
<1>7. b.state \in Live /\ d.state \notin Live /\ b.state # "NONE"
  BY <1>2, <1>5 DEF Live, Synchronized
<1>8. f => Hosts \subseteq closing /\ b.iss = FirstSeq[e]
  <2>1. f => b.state \in FinSent /\ b.state \in FinSeen /\ b.iss = FirstSeq[e]
    BY <1>2, <1>7, <1>b DEF f, FinSent, FinSeen, HostOK, AgainOK
  <2> QED
    BY <1>2, <1>7, <1>b, <2>1 DEF HostOK, LiveOK
<1>9. GoneOK(e)'
  BY <1>5, <1>d DEF GoneOK
<1>10. FirstOK(e)'
  <2>1. b.iss = FirstSeq[e] => nextSeq[e] = Plus(FirstSeq[e], SeqStep) /\ ~b.waiting
    BY <1>2, <1>7, <1>b DEF HostOK, FirstOK, Synchronized
  <2> QED
    BY <1>4, <1>5, <1>8, <1>d, <2>1 DEF FirstOK
<1>11. AgainOK(e)'
  <2>1. b.iss # FirstSeq[e] => ~f
    BY <1>8
  <2> QED
    BY <1>2, <1>4, <1>5, <1>7, <1>b, <1>d, <2>1 DEF HostOK, AgainOK
<1>12. LiveOK(e)'
  BY <1>2, <1>4, <1>5, <1>7, <1>b, <1>d DEF HostOK, LiveOK, Top
<1>13. StreamOK(e)'
  BY <1>2, <1>4, <1>5, <1>6, <1>b, <1>d DEF HostOK, StreamOK
<1>14. QueueOK(e)'
  BY <1>2, <1>4, <1>5, <1>7, <1>b, <1>d, SameQueue DEF HostOK
<1>15. HostOK(e)'
  BY <1>9, <1>10, <1>11, <1>12, <1>13, <1>14 DEF HostOK
<1>16. Transmit(c, e, <<>>)
  BY <1>4, Quiet DEF Arrives
<1> QED
  BY <1>4, <1>6, <1>15, <1>16, NoAnswer, ReceiveStep

LEMMA TimeWaitStep ==
  ASSUME NEW e \in Hosts, NEW s, NEW c, NoWrap, TcpInv, TypeOK', Arrives(e, s, c),
         ReceiveTimeWait(e, s, c)
  PROVE  TcpInv'
<1>b. PICK b : b = tcb[e]
  OBVIOUS
<1>d. PICK d : d = tcb'[e]
  OBVIOUS
<1>2. /\ b \in Blocks /\ TypeOK /\ HostOK(e) /\ b.state = "TIME_WAIT"
      /\ tcb \in [Hosts -> Blocks] /\ Peer(e) \in Hosts /\ Peer(e) # e /\ Hosts = {e, Peer(e)}
  BY <1>b, PeerType DEF TcpInv, TypeOK, ReceiveTimeWait
<1>3. d = [b EXCEPT !.waiting = TRUE]
  BY <1>2, <1>b, <1>d DEF ReceiveTimeWait
<1>4. /\ tcb'[Peer(e)] = tcb[Peer(e)] /\ nextSeq' = nextSeq /\ stream' = stream
      /\ chan' = c /\ wrote' = wrote /\ closing' = closing
  BY <1>2 DEF ReceiveTimeWait, Arrives
<1>5. /\ d.state = b.state /\ d.freeing = b.freeing /\ d.rcv_nxt = b.rcv_nxt /\ d.iss = b.iss
      /\ d.irs = b.irs /\ d.snd_una = b.snd_una /\ d.snd_nxt = b.snd_nxt
      /\ d.rtq = b.rtq /\ d.endpoint = b.endpoint /\ d.fin_seq = b.fin_seq
  BY <1>2, <1>3 DEF Blocks
<1>6. ClientOpen => ClientOpen'
  <2>1. CASE e = Client
    BY <1>2, <1>4, <1>5, <1>b, <1>d, <2>1 DEF ClientOpen
  <2>2. CASE e # Client
    <3>1. Peer(e) = Client
      BY <1>2, <2>2 DEF Peer
    <3> QED
      BY <1>4, <3>1 DEF ClientOpen
  <2> QED
    BY <2>1, <2>2
<1>7. b.iss = FirstSeq[e]
  BY <1>2, <1>b DEF HostOK, AgainOK
<1>8. GoneOK(e)' /\ AgainOK(e)'
  BY <1>2, <1>5, <1>7, <1>d DEF GoneOK, AgainOK
<1>9. FirstOK(e)'
  BY <1>2, <1>4, <1>5, <1>7, <1>b, <1>d DEF HostOK, FirstOK
<1>10. LiveOK(e)'
  BY <1>2, <1>4, <1>5, <1>b, <1>d DEF HostOK, LiveOK, Top
<1>11. StreamOK(e)'
  BY <1>2, <1>4, <1>5, <1>6, <1>b, <1>d DEF HostOK, StreamOK
<1>12. QueueOK(e)'
  BY <1>2, <1>4, <1>5, <1>b, <1>d, SameQueue DEF HostOK
<1>13. HostOK(e)'
  BY <1>8, <1>9, <1>10, <1>11, <1>12 DEF HostOK
<1>14. Transmit(c, e, <<>>)
  BY <1>4, Quiet DEF Arrives
<1> QED
  BY <1>4, <1>6, <1>13, <1>14, NoAnswer, ReceiveStep

\* What may be taken of a segment.
LEMMA Taken ==
  ASSUME NEW e \in Hosts, NEW s \in To(e), NoWrap, TcpInv, tcb[e].state \in Live,
         IsAck(s), "SYN" \notin s.flags
  PROVE  LET p == Peer(e)
             n == tcb[e].rcv_nxt
         IN /\ s \in Segments /\ FirstSeq[e] < s.ack /\ s.ack <= Top(e)
            /\ e = Server => ClientOpen
            /\ "FIN" \in s.flags => /\ s.data = <<>> /\ p \in closing
                                    /\ Plus(s.seq, 1) = Top(p)
            /\ s.seq = n =>
                 \A k \in 0 .. Len(s.data) :
                   /\ Plus(n, k) = n + k
                   /\ k = 0 \/ n + k <= FirstSeq[p] + 1 + wrote[p]
                   /\ \A i \in 1 .. k : s.data[i] = n - FirstSeq[p] - 1 + i
<1> DEFINE p == Peer(e)
           n == tcb[e].rcv_nxt
<1>1. To(e) \subseteq Segments /\ SegmentOK(e, s) /\ p \in Hosts /\ TypeOK
  BY ToType, PeerType DEF TcpInv, SegmentsInv
<1>2. /\ FirstSeq[e] < s.ack /\ s.ack <= Top(e) /\ (e = Server => ClientOpen)
      /\ FirstSeq[p] < s.seq
  BY <1>1 DEF SegmentOK, AckOK
<1>3. /\ wrote[p] \in Nat /\ Top(p) \in Nat /\ FirstSeq[p] \in Nat
      /\ FirstSeq[p] + 1 + wrote[p] <= Top(p) /\ Top(p) + StreamSize < SeqMod /\ StreamSize \in Nat
      /\ SeqMod \in Nat
  BY <1>1, Small, TopType
<1>4. n \in Nat /\ n < SeqMod
  BY <1>1, BlockNumbers DEF TypeOK
<1>5. s.seq \in Nat /\ Len(s.data) \in Nat
  BY <1>1 DEF Segments, Numbers
<1>6. ASSUME "FIN" \in s.flags
      PROVE  s.data = <<>> /\ p \in closing /\ Plus(s.seq, 1) = Top(p)
  <2>1. s.data = <<>> /\ p \in closing /\ s.seq = FirstSeq[p] + 1 + wrote[p]
    BY <1>1, <1>6 DEF SegmentOK, ShapeOK, EndsOK
  <2>2. Top(p) = s.seq + 1
    BY <1>3, <2>1 DEF Top
  <2>3. Plus(s.seq, 1) = s.seq + 1
    BY <1>3, <1>5, <2>2, PlusSmall
  <2> QED
    BY <2>1, <2>2, <2>3
<1>7. Plus(n, 0) = n + 0
  BY <1>4, PlusSmall
<1>8. ASSUME s.seq = n, NEW k \in 0 .. Len(s.data)
      PROVE  /\ Plus(n, k) = n + k
             /\ k = 0 \/ n + k <= FirstSeq[p] + 1 + wrote[p]
             /\ \A i \in 1 .. k : s.data[i] = n - FirstSeq[p] - 1 + i
  <2>1. CASE k = 0
    BY <1>7, <2>1
  <2>2. CASE k # 0
    <3>0. k \in Nat /\ k <= Len(s.data) /\ Len(s.data) # 0
      BY <1>5, <2>2
    <3>1. s.data # <<>>
      BY <3>0, EmptySeq
    <3>2. /\ n + Len(s.data) <= FirstSeq[p] + 1 + wrote[p]
          /\ \A i \in 1 .. Len(s.data) : s.data[i] = n - FirstSeq[p] - 1 + i
      BY <1>1, <1>8, <3>1 DEF SegmentOK, ShapeOK
    <3>3. PICK m \in Nat : m = Len(s.data)
      BY <1>5
    <3>4. n + k <= FirstSeq[p] + 1 + wrote[p] /\ n + k < SeqMod
      <4>1. PICK f \in Nat, v \in Nat, u \in Nat, z \in Nat, d \in Nat :
              f = FirstSeq[p] /\ v = wrote[p] /\ u = Top(p) /\ z = StreamSize /\ d = SeqMod
        BY <1>3
      <4>2. k <= m /\ n + m <= f + 1 + v /\ f + 1 + v <= u /\ u + z < d
        BY <1>3, <3>0, <3>2, <3>3, <4>1
      <4>3. n + k <= f + 1 + v /\ n + k < d
        BY <1>4, <3>0, <4>2
      <4> QED
        BY <4>1, <4>3
    <3>5. Plus(n, k) = n + k
      BY <1>4, <3>0, <3>4, PlusSmall
    <3>6. \A i \in 1 .. k : i \in 1 .. Len(s.data)
      BY <1>5, <3>0
    <3> QED
      BY <3>2, <3>4, <3>5, <3>6
  <2> QED
    BY <2>1, <2>2
<1> QED
  BY <1>1, <1>2, <1>6, <1>8

\* ReceiveSegment, step by step: b is the block with the queue after the ACK, and w what
\* becomes of it.
Handled(e, s, c, b, w) ==
  /\ b \in Blocks /\ w \in Works /\ tcb[e] \in Blocks
  /\ w = ProcessFin(ProcessData(ProcessAck(Work(b, <<>>, <<>>, FALSE), s), s), s)
  /\ SegKept([tcb[e] EXCEPT !.rtq = b.rtq], b)
  /\ b.state = tcb[e].state /\ b.rcv_nxt = tcb[e].rcv_nxt /\ b.snd_una = tcb[e].snd_una
  /\ b.endpoint = tcb[e].endpoint /\ b.waiting = tcb[e].waiting /\ b.shadow = tcb[e].shadow
  /\ b.state \in Synchronized /\ IsAck(s) /\ "SYN" \notin s.flags
  /\ b.rtq = AfterAckSegment(tcb[e].rtq, s.ack) /\ ~b.fin_ack
  /\ tcb[e].rtq = <<>> => b.rtq = <<>>
  /\ tcb'[e].state = w.b.state /\ tcb'[e].rcv_nxt = w.b.rcv_nxt /\ tcb'[e].iss = w.b.iss
  /\ tcb'[e].irs = w.b.irs /\ tcb'[e].snd_nxt = w.b.snd_nxt /\ tcb'[e].snd_una = w.b.snd_una
  /\ tcb'[e].rtq = w.b.rtq /\ tcb'[e].waiting = w.b.waiting
  /\ tcb'[e].fin_seq = w.b.fin_seq /\ tcb'[e].shadow = w.b.shadow
  /\ tcb'[e].endpoint = w.b.endpoint /\ (tcb'[e].freeing <=> w.b.state = "CLOSED")
  /\ stream'[e] = stream[e] \o w.got /\ Transmit(c, e, w.out)
  /\ tcb'[Peer(e)] = tcb[Peer(e)] /\ stream'[Peer(e)] = stream[Peer(e)]
  /\ nextSeq' = nextSeq /\ wrote' = wrote /\ closing' = closing
  /\ filled' = IF Room(b) = Len(w.got) THEN filled \cup {e} ELSE filled

LEMMA Handling ==
  ASSUME NEW e \in Hosts, NEW s, NEW c, NoWrap, TcpInv, Arrives(e, s, c),
         ReceiveSegment(e, s, c)
  PROVE  \E b, w : Handled(e, s, c, b, w)
<1>t. PICK t : t = tcb[e]
  OBVIOUS
<1> DEFINE q == AfterAckSegment(t.rtq, s.ack)
           b == [t EXCEPT !.rtq = q, !.fin_ack = FALSE]
           w == ProcessFin(ProcessData(ProcessAck(Work(b, <<>>, <<>>, FALSE), s), s), s)
<1>1. /\ tcb \in [Hosts -> Blocks] /\ t \in Blocks /\ stream \in [Hosts -> Seq(Nat)]
      /\ s \in Segments /\ s \in To(e) /\ Peer(e) \in Hosts /\ Peer(e) # e
  BY <1>t, ToType, PeerType DEF TcpInv, TypeOK, Arrives
<1>2. q \in Seq(Segments)
  BY <1>1, AfterAckLemma DEF Blocks, Segments
<1>3. b \in Blocks
  BY <1>1, <1>2 DEF Blocks
<1>4. /\ SegKept([t EXCEPT !.rtq = b.rtq], b)
      /\ b.state = t.state /\ b.rcv_nxt = t.rcv_nxt /\ b.snd_una = t.snd_una
      /\ b.endpoint = t.endpoint /\ b.waiting = t.waiting /\ b.rtq = q
      /\ b.shadow = t.shadow /\ ~b.fin_ack
  BY <1>1, <1>2 DEF Blocks, SegKept
<1>5. /\ b.state \in Synchronized /\ IsAck(s) /\ "SYN" \notin s.flags
      /\ tcb' = [tcb EXCEPT ![e] = [w.b EXCEPT !.freeing = (w.b.state = "CLOSED")]]
      /\ stream' = [stream EXCEPT ![e] = stream[e] \o w.got]
      /\ filled' = IF Room(b) = Len(w.got) THEN filled \cup {e} ELSE filled
      /\ Transmit(c, e, w.out) /\ nextSeq' = nextSeq /\ wrote' = wrote /\ closing' = closing
  <2>1. b = [tcb[e] EXCEPT !.rtq = AfterAckSegment(@, s.ack), !.fin_ack = FALSE]
    BY <1>t
  <2> HIDE DEF b
  <2>2. b.state \in Synchronized /\ "ACK" \in s.flags /\ s.flags \cap {"SYN", "RST"} = {}
    BY <2>1 DEF ReceiveSegment
  <2>3. IsAck(s) /\ "SYN" \notin s.flags
    BY <2>2 DEF IsAck
  <2>4. /\ tcb' = [tcb EXCEPT ![e] = [w.b EXCEPT !.freeing = (w.b.state = "CLOSED")]]
        /\ stream' = [stream EXCEPT ![e] = stream[e] \o w.got]
        /\ filled' = IF Room(b) = Len(w.got) THEN filled \cup {e} ELSE filled
        /\ Transmit(c, e, w.out) /\ nextSeq' = nextSeq
    BY <1>1, <2>1 DEF ReceiveSegment
  <2> QED
    BY <2>2, <2>3, <2>4 DEF Arrives
<1>6. b.rtq = AfterAckSegment(t.rtq, s.ack)
  BY <1>4
<1>7. t.rtq = <<>> => q = <<>>
  <2>1. t.rtq \in Seq(Segments) /\ s.ack \in Numbers
    BY <1>1 DEF Blocks, Segments
  <2>2. t.rtq = <<>> => Elems(t.rtq) = {}
    BY EmptySeq DEF Elems
  <2> QED
    BY <2>1, <2>2, AfterAckLemma
<1> HIDE DEF b, q
<1>8. w \in Works
  <2>1. Work(b, <<>>, <<>>, FALSE) \in Works
    BY <1>3, EmptySeq DEF Work, Works
  <2> QED
    BY <2>1, <1>1, ProcessAckType, ProcessDataType, ProcessFinType
<1>9. w = ProcessFin(ProcessData(ProcessAck(Work(b, <<>>, <<>>, FALSE), s), s), s)
  OBVIOUS
<1> HIDE DEF w
<1> DEFINE f == w.b.state = "CLOSED"
           d == [w.b EXCEPT !.freeing = f]
<1>10. f \in BOOLEAN /\ w.b \in Blocks
  BY <1>8 DEF Works
<1>11. tcb'[e] = d /\ tcb'[Peer(e)] = tcb[Peer(e)]
  BY <1>1, <1>5
<1>12. f <=> w.b.state = "CLOSED"
  OBVIOUS
<1> HIDE DEF f
<1>13. /\ d.state = w.b.state /\ d.rcv_nxt = w.b.rcv_nxt /\ d.iss = w.b.iss
       /\ d.irs = w.b.irs /\ d.snd_nxt = w.b.snd_nxt /\ d.snd_una = w.b.snd_una
       /\ d.rtq = w.b.rtq /\ d.waiting = w.b.waiting
       /\ d.fin_seq = w.b.fin_seq /\ d.shadow = w.b.shadow
       /\ d.endpoint = w.b.endpoint /\ d.freeing = f
  BY <1>10 DEF Blocks
<1> HIDE DEF d
<1>14. /\ stream'[e] = stream[e] \o w.got /\ stream'[Peer(e)] = stream[Peer(e)]
  BY <1>1, <1>5
<1>15. Handled(e, s, c, b, w)
  BY <1>1, <1>3, <1>4, <1>5, <1>6, <1>7, <1>8, <1>9, <1>11, <1>12, <1>13, <1>14, <1>t DEF Handled
<1> QED
  BY <1>15

\* What the first block of e takes, and how it goes on.
LEMMA FirstHandled ==
  ASSUME NEW e \in Hosts, NEW s, NEW c, NEW b, NEW w, NoWrap, TcpInv, Arrives(e, s, c),
         Handled(e, s, c, b, w), tcb[e].iss = FirstSeq[e]
  PROVE  SegmentResult(b, s, w)
<1>1. /\ b \in Blocks /\ tcb[e] \in Blocks /\ b.state = tcb[e].state /\ b.state \in Synchronized
      /\ b.snd_una = tcb[e].snd_una /\ b.waiting = tcb[e].waiting /\ b.snd_nxt = tcb[e].snd_nxt
      /\ IsAck(s) /\ "SYN" \notin s.flags /\ s \in To(e) /\ HostOK(e) /\ ~b.fin_ack
  <2>1. tcb[e] \in Blocks /\ b \in Blocks /\ SegKept([tcb[e] EXCEPT !.rtq = b.rtq], b)
    BY DEF Handled
  <2>2. b.snd_nxt = tcb[e].snd_nxt
    BY <2>1 DEF SegKept, Blocks
  <2> QED
    BY <2>1, <2>2 DEF Handled, Arrives, TcpInv
<1>2. b.state \in Live /\ b.state # "NONE" /\ b.state # "TIME_WAIT"
  BY <1>1 DEF Live, Synchronized
<1>3. /\ s \in Segments /\ FirstSeq[e] < s.ack /\ s.ack <= Top(e)
      /\ "FIN" \in s.flags => s.data = <<>>
  BY <1>1, <1>2, Taken
<1>4. b.snd_nxt = Top(e) /\ ~b.waiting
  BY <1>1, <1>2 DEF HostOK, LiveOK, FirstOK
<1>5. b.state = "SYN_RECEIVED" => b.snd_una <= s.ack
  <2>1. s.ack \in Int /\ FirstSeq[e] \in Int
    BY <1>3, TcpAssumption DEF Segments, Numbers
  <2>2. b.state = "SYN_RECEIVED" => b.snd_una = FirstSeq[e]
    BY <1>1, <1>2 DEF HostOK, FirstOK
  <2> QED
    BY <1>3, <2>1, <2>2
<1> QED
  BY <1>1, <1>3, <1>4, <1>5, SegmentEffect DEF Handled

\* What is taken: the next byte to come, and what has been deposited.
LEMMA FirstTaken ==
  ASSUME NEW e \in Hosts, NEW s, NEW c, NEW b, NEW w, NoWrap, TcpInv, TypeOK', Arrives(e, s, c),
         Handled(e, s, c, b, w), SegmentResult(b, s, w)
  PROVE  /\ FirstSeq[Peer(e)] < w.b.rcv_nxt /\ w.b.rcv_nxt <= Top(Peer(e))
         /\ "FIN" \in s.flags => Peer(e) \in closing
         /\ Len(stream'[e]) <= wrote[Peer(e)]
         /\ \A i \in 1 .. Len(stream'[e]) : stream'[e][i] = i
         /\ b.state \in Open /\ "FIN" \notin s.flags =>
              w.b.rcv_nxt = FirstSeq[Peer(e)] + 1 + Len(stream'[e])
<1>p. PICK p : p = Peer(e)
  OBVIOUS
<1>n. PICK n : n = tcb[e].rcv_nxt
  OBVIOUS
<1>q. PICK q : q = stream[e]
  OBVIOUS
<1>1. /\ b.state = tcb[e].state /\ b.state \in Synchronized /\ b.rcv_nxt = n
      /\ IsAck(s) /\ "SYN" \notin s.flags /\ s \in To(e) /\ HostOK(e) /\ TypeOK
      /\ stream'[e] = q \o w.got /\ q \in Seq(Nat) /\ w.got \in Seq(Nat)
      /\ p \in Hosts /\ b.state \in Live /\ n \in Nat
  <2>1. TypeOK /\ q \in Seq(Nat) /\ n \in Nat /\ p \in Hosts
    BY <1>p, <1>n, <1>q, PeerType, BlockNumbers DEF TcpInv, TypeOK
  <2> QED
    BY <1>n, <1>q, <2>1 DEF Handled, Arrives, TcpInv, Works, Live
<1>2. /\ s \in Segments
      /\ "FIN" \in s.flags => /\ s.data = <<>> /\ p \in closing
                              /\ Plus(s.seq, 1) = Top(p)
      /\ s.seq = n =>
           \A k \in 0 .. Len(s.data) :
             /\ Plus(n, k) = n + k
             /\ k = 0 \/ n + k <= FirstSeq[p] + 1 + wrote[p]
             /\ \A i \in 1 .. k : s.data[i] = n - FirstSeq[p] - 1 + i
  BY <1>1, <1>n, <1>p, Taken
<1>3. FirstSeq[p] < n /\ n <= Top(p)
  BY <1>1, <1>n, <1>p, Up
<1>4. /\ FirstSeq[p] \in Nat /\ wrote[p] \in Nat /\ Top(p) \in Nat /\ FirstSeq[p] < Top(p)
      /\ FirstSeq[p] + 1 + wrote[p] <= Top(p)
  BY <1>1, Small, TopType
<1>5. /\ Len(q) <= wrote[p] /\ \A i \in 1 .. Len(q) : q[i] = i
      /\ b.state \in Open => n = FirstSeq[p] + 1 + Len(q)
  BY <1>1, <1>n, <1>p, <1>q DEF HostOK, StreamOK, LiveOK
<1>6. Len(q) \in Nat /\ Len(s.data) \in Nat /\ q \o <<>> = q /\ s.data \in Seq(Nat)
  BY <1>1, <1>2, ConcatEmptySeq DEF Segments
<1>l. PICK l \in Nat : l = Len(w.got)
  BY <1>1
<1>7. CASE w.got = <<>> /\ w.b.rcv_nxt = n
  <2>1. stream'[e] = q
    BY <1>1, <1>6, <1>7
  <2> QED
    BY <1>2, <1>3, <1>5, <1>7, <1>p, <2>1
<1>8. CASE "FIN" \in s.flags /\ w.got = <<>> /\ w.b.rcv_nxt = Plus(s.seq, 1)
  <2>1. stream'[e] = q
    BY <1>1, <1>6, <1>8
  <2> QED
    BY <1>2, <1>4, <1>5, <1>8, <1>p, <2>1
<1>9. CASE /\ "FIN" \notin s.flags /\ b.state \in Open /\ s.seq = n /\ Took(b, s, w) /\ l # 0
  <2>0. l \in 0 .. Len(s.data) /\ w.b.rcv_nxt = Plus(n, l) /\ \A i \in 1 .. l : w.got[i] = s.data[i]
    <3>1. l <= Len(s.data) /\ w.b.rcv_nxt = Plus(n, l) /\ \A i \in 1 .. l : w.got[i] = s.data[i]
      BY <1>1, <1>9, <1>l DEF Took
    <3> QED
      BY <1>6, <3>1
  <2>1. /\ w.b.rcv_nxt = n + l /\ n = FirstSeq[p] + 1 + Len(q)
        /\ n + l <= FirstSeq[p] + 1 + wrote[p]
        /\ \A i \in 1 .. l : w.got[i] = Len(q) + i
    <3>1. /\ w.b.rcv_nxt = n + l /\ n = FirstSeq[p] + 1 + Len(q)
          /\ n + l <= FirstSeq[p] + 1 + wrote[p]
          /\ \A i \in 1 .. l : s.data[i] = n - FirstSeq[p] - 1 + i
      BY <1>2, <1>5, <1>9, <2>0
    <3>2. n - FirstSeq[p] - 1 = Len(q)
      BY <1>4, <1>6, <3>1
    <3> QED
      BY <2>0, <3>1, <3>2
  <2>2. /\ Len(stream'[e]) = Len(q) + l
        /\ \A i \in 1 .. Len(q) + l :
             stream'[e][i] = IF i <= Len(q) THEN q[i] ELSE w.got[i - Len(q)]
    BY <1>1, <1>l, ConcatProperties
  <2>3. ASSUME NEW i \in 1 .. Len(q) + l
        PROVE  stream'[e][i] = i
    <3>1. CASE i <= Len(q)
      BY <1>5, <1>6, <2>2, <3>1
    <3>2. CASE ~(i <= Len(q))
      <4>1. i - Len(q) \in 1 .. l
        BY <1>6, <3>2
      <4> QED
        BY <1>6, <2>1, <2>2, <3>2, <4>1
    <3> QED
      BY <3>1, <3>2
  <2>4. FirstSeq[p] < w.b.rcv_nxt /\ w.b.rcv_nxt <= Top(p) /\ Len(stream'[e]) <= wrote[p]
        /\ w.b.rcv_nxt = FirstSeq[p] + 1 + Len(stream'[e])
    <3>1. PICK f \in Nat, k \in Nat, v \in Nat, u \in Nat :
            f = FirstSeq[p] /\ k = Len(q) /\ v = wrote[p] /\ u = Top(p)
      BY <1>4, <1>6
    <3>2. n = f + 1 + k /\ n + l <= f + 1 + v /\ f + 1 + v <= u
      BY <1>4, <2>1, <3>1
    <3>3. k + l <= v /\ f < n + l /\ n + l <= u /\ n + l = f + 1 + (k + l)
      <4>1. n \in Nat /\ l \in Nat
        BY <1>1, <1>l
      <4> QED
        BY <3>2, <4>1
    <3> QED
      BY <2>1, <2>2, <3>1, <3>3
  <2> QED
    BY <1>9, <1>p, <2>2, <2>3, <2>4
<1>10. l = 0 => w.got = <<>>
  BY <1>1, <1>l, EmptySeq
<1>11. Took(b, s, w) /\ l = 0 => w.b.rcv_nxt = n
  <2>1. Plus(n, 0) = n
    <3>1. n < SeqMod
      BY <1>1, <1>n, BlockNumbers DEF TypeOK
    <3> QED
      BY <1>1, <3>1, PlusSmall
  <2> QED
    BY <1>1, <1>l, <2>1 DEF Took
<1>12. \/ w.got = <<>> /\ w.b.rcv_nxt = n
       \/ "FIN" \in s.flags /\ w.got = <<>> /\ w.b.rcv_nxt = Plus(s.seq, 1)
       \/ "FIN" \notin s.flags /\ b.state \in Open /\ s.seq = n /\ Took(b, s, w) /\ l # 0
  BY <1>1, <1>10, <1>11 DEF SegmentResult
<1> QED
  BY <1>7, <1>8, <1>9, <1>12

\* The queue after an ACK of what has been sent.
LEMMA QueueStep ==
  ASSUME NEW e \in Hosts, NEW s, NEW c, NEW b, NEW w, NoWrap, TcpInv, TypeOK', Arrives(e, s, c),
         Handled(e, s, c, b, w), SegmentResult(b, s, w), tcb[e].iss = FirstSeq[e]
  PROVE  QueueOK(e)'
<1>v. PICK v : v = FirstSeq[e] + 1 + wrote[e]
  OBVIOUS
<1>q. PICK q : q = tcb[e].rtq
  OBVIOUS
<1>1. /\ b \in Blocks /\ tcb[e] \in Blocks /\ b.state = tcb[e].state /\ b.state \in Synchronized
      /\ s \in To(e) /\ HostOK(e) /\ TypeOK /\ wrote' = wrote
      /\ b.rtq = AfterAckSegment(q, s.ack) /\ (q = <<>> => b.rtq = <<>>)
      /\ tcb'[e].rtq = w.b.rtq /\ tcb'[e].fin_seq = w.b.fin_seq /\ tcb'[e].state = w.b.state
  BY <1>q DEF Handled, Arrives, TcpInv
<1>2. /\ s \in Segments /\ s.ack \in Numbers /\ s.ack \in Nat /\ q \in Seq(Segments)
      /\ v \in Nat
  <2>1. s \in Segments
    BY <1>1, ToType
  <2>2. wrote[e] \in Nat /\ FirstSeq[e] \in Nat
    BY <1>1, Small DEF TypeOK
  <2>3. v \in Nat
    BY <1>v, <2>2
  <2>4. q \in Seq(Segments)
    BY <1>1, <1>q DEF Blocks
  <2>5. s.ack \in Numbers /\ s.ack \in Nat
    BY <2>1 DEF Segments, Numbers
  <2> QED
    BY <2>1, <2>3, <2>4, <2>5
<1>3. b.fin_seq = tcb[e].fin_seq
  <2>1. SegKept([tcb[e] EXCEPT !.rtq = b.rtq], b)
    BY DEF Handled
  <2> QED
    BY <1>1, <2>1 DEF SegKept, Blocks
<1>4. w.b.rtq = b.rtq /\ w.b.fin_seq = b.fin_seq
  BY DEF SegmentResult, SegKept
<1>5. b.state # "NONE" /\ b.state # "TIME_WAIT"
  BY <1>1 DEF Synchronized
<1>6. /\ \A g \in Elems(q) : g.seq + Len(g.data) <= v
      /\ b.state \in FinSent => b.fin_seq = v
      /\ b.state = "FIN_WAIT_2" => q = <<>>
  BY <1>1, <1>3, <1>5, <1>q, <1>v DEF HostOK, QueueOK
<1>7. \A g \in Elems(b.rtq) : g.seq + Len(g.data) <= v
  BY <1>1, <1>2, <1>6, AfterAckLemma
<1>8. /\ w.b.state \in FinSent => b.state \in FinSent
      /\ w.b.state \in {"FIN_WAIT_2", "TIME_WAIT"} => b.state \in {"FIN_WAIT_1", "FIN_WAIT_2"}
      /\ w.b.state \in {"FIN_WAIT_2", "TIME_WAIT"} /\ b.state = "FIN_WAIT_1" => b.fin_seq <= s.ack
  BY <1>1 DEF SegmentResult, Synchronized, FinSent
<1>9. ASSUME w.b.state \in {"FIN_WAIT_2", "TIME_WAIT"}
      PROVE  b.rtq = <<>>
  <2>1. CASE b.state = "FIN_WAIT_2"
    BY <1>1, <1>6, <2>1
  <2>2. CASE b.state = "FIN_WAIT_1"
    <3>1. v <= s.ack
      BY <1>6, <1>8, <1>9, <2>2 DEF FinSent
    <3>2. ASSUME NEW h \in Elems(q)
          PROVE  Plus(h.seq, Len(h.data)) <= s.ack
      <4>1. h \in Segments
        BY <1>2, ElementOfSeq DEF Elems
      <4>2. PICK a \in Nat, k \in Nat : a = h.seq /\ k = Len(h.data)
        BY <4>1, LenProperties DEF Segments, Numbers
      <4>3. Plus(a, k) \in Nat /\ Plus(a, k) <= a + k /\ a + k <= v
        BY <1>6, <4>2, PlusAtMost
      <4>4. Plus(a, k) <= s.ack
        BY <1>2, <3>1, <4>3
      <4> QED
        BY <4>2, <4>4
    <3> QED
      BY <1>1, <1>2, <3>2, AfterAckLemma
  <2> QED
    BY <1>8, <1>9, <2>1, <2>2
<1> QED
  BY <1>1, <1>4, <1>6, <1>7, <1>8, <1>9, <1>v DEF QueueOK

LEMMA FirstStep ==
  ASSUME NEW e \in Hosts, NEW s, NEW c, NEW b, NEW w, NoWrap, TcpInv, TypeOK', Arrives(e, s, c),
         Handled(e, s, c, b, w), tcb[e].iss = FirstSeq[e]
  PROVE  TcpInv'
<1>r. SegmentResult(b, s, w)
  BY FirstHandled
<1>p. PICK p : p = Peer(e)
  OBVIOUS
<1>d. PICK d : d = tcb'[e]
  OBVIOUS
<1>1. /\ b \in Blocks /\ w \in Works /\ tcb[e] \in Blocks
      /\ b.state = tcb[e].state /\ b.rcv_nxt = tcb[e].rcv_nxt
      /\ b.state \in Synchronized /\ IsAck(s) /\ "SYN" \notin s.flags
      /\ s \in To(e) /\ HostOK(e) /\ TypeOK /\ p \in Hosts /\ Peer(p) = e /\ Hosts = {e, p}
      /\ e # p
  BY <1>p, PeerType DEF Handled, Arrives, TcpInv
<1>2. b.iss = tcb[e].iss /\ b.irs = tcb[e].irs /\ b.snd_nxt = tcb[e].snd_nxt
  <2>1. SegKept([tcb[e] EXCEPT !.rtq = b.rtq], b)
    BY DEF Handled
  <2> QED
    BY <1>1, <2>1 DEF SegKept, Blocks
<1>3. /\ d.state = w.b.state /\ d.rcv_nxt = w.b.rcv_nxt /\ d.iss = w.b.iss
      /\ d.irs = w.b.irs /\ d.snd_nxt = w.b.snd_nxt
      /\ d.rtq = w.b.rtq /\ d.waiting = w.b.waiting
      /\ d.endpoint = w.b.endpoint /\ (d.freeing <=> w.b.state = "CLOSED")
      /\ Transmit(c, e, w.out) /\ tcb'[p] = tcb[p] /\ stream'[p] = stream[p]
      /\ nextSeq' = nextSeq /\ wrote' = wrote /\ closing' = closing
  BY <1>d, <1>p DEF Handled
<1>4. /\ d.iss = FirstSeq[e] /\ d.irs = tcb[e].irs /\ d.snd_nxt = tcb[e].snd_nxt
      /\ d.rtq = b.rtq
  BY <1>2, <1>3, <1>r DEF SegmentResult, SegKept
<1>5. /\ b.state \in Live /\ b.state \notin {"NONE", "SYN_SENT", "TIME_WAIT"}
      /\ e = Server => ClientOpen
  <2>1. b.state \in Live /\ b.state \notin {"NONE", "SYN_SENT", "TIME_WAIT"}
    BY <1>1 DEF Live, Synchronized
  <2> QED
    BY <1>1, <2>1, Taken
<1>6. /\ tcb[e].irs = FirstSeq[p] /\ tcb[e].snd_nxt = Top(e)
      /\ b.state \in FinSent <=> e \in closing
      /\ b.state \in FinSeen => p \in closing
      /\ nextSeq[e] = Plus(FirstSeq[e], SeqStep)
  BY <1>1, <1>5, <1>p DEF HostOK, LiveOK, FirstOK
<1>7. /\ FirstSeq[p] < d.rcv_nxt /\ d.rcv_nxt <= Top(p)
      /\ "FIN" \in s.flags => p \in closing
      /\ Len(stream'[e]) <= wrote[p]
      /\ \A i \in 1 .. Len(stream'[e]) : stream'[e][i] = i
      /\ b.state \in Open /\ "FIN" \notin s.flags => d.rcv_nxt = FirstSeq[p] + 1 + Len(stream'[e])
  BY <1>3, <1>p, <1>r, FirstTaken
<1>8. /\ d.state \in States \ {"NONE", "SYN_SENT", "SYN_RECEIVED"}
      /\ d.waiting => d.state = "TIME_WAIT"
      /\ d.state \in Open => b.state \in Open /\ "FIN" \notin s.flags
      /\ d.state \in FinSeen => b.state \in FinSeen \/ "FIN" \in s.flags
      /\ d.state # "CLOSED" => (d.state \in FinSent <=> b.state \in FinSent)
      /\ d.state = "CLOSED" => b.state \in FinSeen /\ b.state \in FinSent
  BY <1>1, <1>3, <1>r DEF SegmentResult, Synchronized, FinSent, FinSeen, Open, Taking, States
<1>9. Top(e)' = Top(e) /\ Top(p)' = Top(p)
  BY <1>3 DEF Top
<1>10. ClientOpen => ClientOpen'
  <2>1. CASE e = Client
    BY <1>1, <1>3, <1>4, <1>5, <1>8, <1>d, <2>1 DEF ClientOpen
  <2>2. CASE e # Client
    <3>1. p = Client
      BY <1>p, <2>2 DEF Peer
    <3> QED
      BY <1>3, <3>1 DEF ClientOpen
  <2> QED
    BY <2>1, <2>2
<1>11. GoneOK(e)' /\ AgainOK(e)'
  BY <1>4, <1>8, <1>d DEF GoneOK, AgainOK
<1>12. FirstOK(e)'
  <2>1. d.freeing => Hosts \subseteq closing' /\ d.state = "CLOSED"
    BY <1>1, <1>3, <1>6, <1>8
  <2> QED
    BY <1>3, <1>6, <1>8, <1>d, <2>1 DEF FirstOK
<1>13. LiveOK(e)'
  <2>1. d.state \in Live => d.state # "CLOSED"
    BY DEF Live, Synchronized
  <2> QED
    BY <1>3, <1>4, <1>6, <1>7, <1>8, <1>9, <1>d, <1>p, <2>1 DEF LiveOK
<1>14. StreamOK(e)'
  BY <1>3, <1>5, <1>7, <1>10, <1>p DEF StreamOK
<1>15. HostOK(e)'
  BY <1>11, <1>12, <1>13, <1>14, <1>r, QueueStep DEF HostOK
<1>16. w.out \in Seq(Segments) /\ \A g \in Elems(w.out) : AnswerOK(e, g)
  <2>1. CASE w.out = <<>>
    BY <2>1, NoAnswer
  <2>2. ASSUME NEW n \in {b.rcv_nxt, w.b.rcv_nxt}, NEW m \in 0 .. StreamSize,
               w.out = <<AckUpTo(b, n, m)>>
        PROVE  w.out \in Seq(Segments) /\ \A g \in Elems(w.out) : AnswerOK(e, g)
    <3>1. /\ FirstSeq[p] < tcb[e].rcv_nxt /\ tcb[e].rcv_nxt <= Top(p)
          /\ FirstSeq[e] < tcb[e].snd_nxt /\ (e = Client => ClientOpen)
      BY <1>1, <1>5, <1>p, Up
    <3>2. /\ FirstSeq[Peer(e)] < n
          /\ n <= Top(Peer(e))' /\ FirstSeq[e] < b.snd_nxt /\ (e = Client => ClientOpen')
      BY <1>1, <1>2, <1>3, <1>7, <1>9, <1>10, <1>d, <1>p, <3>1
    <3>3. n \in Numbers
      BY <1>1 DEF Blocks, Works
    <3> QED
      BY <1>1, <2>2, <3>2, <3>3, AckAnswer
  <2> QED
    BY <1>r, <2>1, <2>2 DEF SegmentResult
<1> QED
  BY <1>3, <1>10, <1>15, <1>16, <1>p, ReceiveStep

\* A second block does not open: what is acknowledged is below its ISS.
LEMMA AgainHandled ==
  ASSUME NEW e \in Hosts, NEW s, NEW c, NEW b, NEW w, NoWrap, TcpInv, Arrives(e, s, c),
         Handled(e, s, c, b, w), tcb[e].iss # FirstSeq[e]
  PROVE  AgainResult(b, s, w) /\ ~b.endpoint
<1>1. /\ b \in Blocks /\ w \in Works /\ tcb[e] \in Blocks /\ b.state = tcb[e].state
      /\ b.snd_una = tcb[e].snd_una /\ b.waiting = tcb[e].waiting /\ b.endpoint = tcb[e].endpoint
      /\ b.state \in Synchronized /\ IsAck(s) /\ "SYN" \notin s.flags
      /\ s \in To(e) /\ HostOK(e) /\ TypeOK
  BY DEF Handled, Arrives, TcpInv
<1>4. b.state \in Live /\ b.state \notin {"NONE", "CLOSED"}
  BY <1>1 DEF Live, Synchronized
<1>5. /\ e = Server /\ tcb[e].iss = FirstSeq[e] + SeqStep /\ b.snd_una = tcb[e].iss
      /\ b.state \in {"SYN_RECEIVED", "CLOSE_WAIT"} /\ ~b.waiting /\ ~b.endpoint
  BY <1>1, <1>4 DEF HostOK, AgainOK
<1>6. s \in Segments /\ s.ack <= Top(e)
  BY <1>1, <1>4, Taken
<1>7. s.ack < b.snd_una
  <2>1. wrote[e] \in Nat /\ wrote[e] <= MaxBytes[e]
    BY <1>1 DEF TypeOK
  <2>2. /\ MaxBytes[e] + 2 < SeqStep /\ SeqStep \in Nat /\ FirstSeq[e] \in Nat
        /\ MaxBytes[e] \in Nat
    BY <1>5, Small DEF NoWrap
  <2>3. Top(e) < FirstSeq[e] + SeqStep /\ Top(e) \in Nat
    BY <2>1, <2>2 DEF Top
  <2>4. s.ack \in Int
    BY <1>6 DEF Segments, Numbers
  <2> QED
    BY <1>5, <1>6, <2>2, <2>3, <2>4
<1> QED
  BY <1>1, <1>5, <1>6, <1>7, AgainEffect DEF Handled

LEMMA AgainStep ==
  ASSUME NEW e \in Hosts, NEW s, NEW c, NEW b, NEW w, NoWrap, TcpInv, TypeOK', Arrives(e, s, c),
         Handled(e, s, c, b, w), tcb[e].iss # FirstSeq[e]
  PROVE  TcpInv'
<1>p. PICK p : p = Peer(e)
  OBVIOUS
<1>d. PICK d : d = tcb'[e]
  OBVIOUS
<1>1. /\ b \in Blocks /\ w \in Works /\ tcb[e] \in Blocks
      /\ b.state = tcb[e].state /\ b.rcv_nxt = tcb[e].rcv_nxt
      /\ b.snd_una = tcb[e].snd_una /\ b.waiting = tcb[e].waiting /\ b.endpoint = tcb[e].endpoint
      /\ b.state \in Synchronized /\ IsAck(s) /\ "SYN" \notin s.flags
      /\ tcb[e].rtq = <<>> => b.rtq = <<>>
      /\ s \in To(e) /\ HostOK(e) /\ TypeOK /\ p \in Hosts /\ Peer(p) = e /\ Hosts = {e, p}
      /\ e # p
  BY <1>p, PeerType DEF Handled, Arrives, TcpInv
<1>2. b.iss = tcb[e].iss /\ b.irs = tcb[e].irs /\ b.snd_nxt = tcb[e].snd_nxt
  <2>1. SegKept([tcb[e] EXCEPT !.rtq = b.rtq], b)
    BY DEF Handled
  <2> QED
    BY <1>1, <2>1 DEF SegKept, Blocks
<1>3. /\ d.state = w.b.state /\ d.rcv_nxt = w.b.rcv_nxt /\ d.iss = w.b.iss
      /\ d.irs = w.b.irs /\ d.snd_nxt = w.b.snd_nxt /\ d.snd_una = w.b.snd_una
      /\ d.rtq = w.b.rtq /\ d.waiting = w.b.waiting
      /\ d.endpoint = w.b.endpoint /\ (d.freeing <=> w.b.state = "CLOSED")
      /\ stream'[e] = stream[e] \o w.got
      /\ Transmit(c, e, w.out) /\ tcb'[p] = tcb[p] /\ stream'[p] = stream[p]
      /\ nextSeq' = nextSeq /\ wrote' = wrote /\ closing' = closing
  BY <1>d, <1>p DEF Handled
<1>4. b.state \in Live /\ b.state \notin {"NONE", "CLOSED"}
  BY <1>1 DEF Live, Synchronized
<1>5. /\ e = Server /\ Hosts \subseteq closing /\ tcb[e].iss = FirstSeq[e] + SeqStep
      /\ b.snd_una = tcb[e].iss /\ tcb[e].snd_nxt = tcb[e].iss + 1
      /\ b.state \in {"SYN_RECEIVED", "CLOSE_WAIT"} /\ ~b.waiting /\ ~b.endpoint /\ b.rtq = <<>>
      /\ tcb[e].rtq = <<>>
  BY <1>1, <1>4 DEF HostOK, AgainOK
<1>6. /\ s \in Segments /\ s.ack <= Top(e)
      /\ "FIN" \in s.flags => /\ p \in closing /\ Plus(s.seq, 1) = Top(p)
  BY <1>1, <1>4, <1>p, Taken
<1>r. AgainResult(b, s, w)
  BY AgainHandled
<1>8. /\ d.iss = tcb[e].iss /\ d.irs = tcb[e].irs /\ d.snd_nxt = tcb[e].snd_nxt
      /\ d.rtq = <<>> /\ d.snd_una = tcb[e].iss /\ ~d.endpoint /\ ~d.waiting
      /\ d.state = IF "FIN" \in s.flags THEN "CLOSE_WAIT" ELSE b.state
      /\ d.rcv_nxt = IF "FIN" \in s.flags THEN Top(p) ELSE b.rcv_nxt
      /\ w.got = <<>> /\ w.out \in Seq(Segments)
      /\ Elems(w.out) \subseteq {Reset(s.ack), AckUpTo(b, d.rcv_nxt, Room(b))}
  BY <1>1, <1>2, <1>3, <1>5, <1>6, <1>r DEF AgainResult, SegKept, Works
<1>9. Top(e)' = Top(e) /\ Top(p)' = Top(p) /\ ClientOpen' = ClientOpen /\ p = Client
  <2>1. p = Client /\ p # e
    BY <1>1, <1>5, <1>p, TcpAssumption DEF Peer
  <2> QED
    BY <1>3, <2>1 DEF Top, ClientOpen
<1>10. stream'[e] = stream[e]
  <2>1. stream[e] \in Seq(Nat)
    BY <1>1 DEF TypeOK
  <2> QED
    BY <1>3, <1>8, <2>1, ConcatEmptySeq
<1>11. FirstSeq[p] < b.rcv_nxt /\ b.rcv_nxt <= Top(p) /\ FirstSeq[e] < b.snd_nxt
  BY <1>1, <1>2, <1>4, <1>p, Up
<1>12. FirstSeq[p] < d.rcv_nxt /\ d.rcv_nxt <= Top(p) /\ FirstSeq[p] < Top(p)
  <2>1. FirstSeq[p] < Top(p) /\ Top(p) \in Nat
    BY <1>1, TopType
  <2>3. CASE "FIN" \in s.flags
    BY <1>6, <1>8, <2>1, <2>3
  <2>4. CASE "FIN" \notin s.flags
    BY <1>8, <1>11, <2>1, <2>4
  <2> QED
    BY <2>3, <2>4
<1>13. GoneOK(e)' /\ FirstOK(e)' /\ AgainOK(e)'
  <2>1. d.state \in {"SYN_RECEIVED", "CLOSE_WAIT"} /\ ~d.freeing
    BY <1>3, <1>5, <1>8
  <2> QED
    BY <1>3, <1>5, <1>8, <1>d, <2>1 DEF GoneOK, FirstOK, AgainOK
<1>14. LiveOK(e)'
  <2>1. /\ tcb[e].irs = FirstSeq[p]
        /\ b.state \in Open => b.rcv_nxt = FirstSeq[p] + 1 + Len(stream[e])
    BY <1>1, <1>4, <1>p DEF HostOK, LiveOK
  <2>2. d.state \in Open => d.rcv_nxt = FirstSeq[p] + 1 + Len(stream'[e])
    BY <1>8, <1>10, <2>1 DEF Open, Taking
  <2>3. p \in closing'
    BY <1>1, <1>3, <1>5
  <2> QED
    BY <1>8, <1>9, <1>12, <1>d, <1>p, <2>1, <2>2, <2>3, <1>5 DEF LiveOK
<1>15. StreamOK(e)'
  <2>1. ClientOpen
    BY <1>1, <1>5 DEF HostOK, StreamOK
  <2> QED
    BY <1>1, <1>3, <1>9, <1>10, <2>1 DEF HostOK, StreamOK
<1>16. HostOK(e)'
  <2>1. QueueOK(e)'
    BY <1>5, <1>8, <1>d, EmptyQueue DEF FinSent
  <2> QED
    BY <1>13, <1>14, <1>15, <2>1 DEF HostOK
<1>17. \A g \in Elems(w.out) : AnswerOK(e, g)
  <2>1. AnswerOK(e, Reset(s.ack))
    <3>1. PICK g : g = Reset(s.ack)
      OBVIOUS
    <3>2. g \in Segments /\ g.flags = {"RST"} /\ g.data = <<>>
      BY <1>6, <3>1, ResetType DEF Reset, Seg, Segments
    <3>3. SegmentOK(Peer(e), g)' /\ ~IsAck(g)
      BY <3>2, ResetOK, PeerType
    <3> QED
      BY <3>1, <3>2, <3>3 DEF AnswerOK
  <2>2. AnswerOK(e, AckUpTo(b, d.rcv_nxt, Room(b)))
    <3>1. d.rcv_nxt \in Numbers
      BY <1>1, <1>3 DEF Works, Blocks
    <3>2. d.rcv_nxt <= Top(Peer(e))' /\ FirstSeq[Peer(e)] < d.rcv_nxt /\ e # Client
      BY <1>9, <1>12, <1>p, <1>1
    <3> QED
      BY <1>1, <1>11, <1>d, <3>1, <3>2, AckSegmentOK, Windows DEF AnswerOK
  <2> QED
    BY <1>8, <2>1, <2>2
<1> QED
  BY <1>3, <1>8, <1>9, <1>16, <1>17, <1>p, ReceiveStep

LEMMA SegmentStep ==
  ASSUME NEW e \in Hosts, NEW s, NEW c, NoWrap, TcpInv, TypeOK', Arrives(e, s, c),
         ReceiveSegment(e, s, c)
  PROVE  TcpInv'
<1>1. PICK b, w : Handled(e, s, c, b, w)
  BY Handling
<1> QED
  BY <1>1, FirstStep, AgainStep

LEMMA ReceiveAnyStep ==
  ASSUME NEW e \in Hosts, NEW s, NEW c, NoWrap, TcpInv, TypeOK', Arrives(e, s, c),
         ReceiveAny(e, s, c)
  PROVE  TcpInv'
  BY ClosedStep, ListenStep, ListenOtherStep, SynSentStep, RefusedStep, ResetStep,
     SegmentStep, TimeWaitStep DEF ReceiveAny

\* What is received is one segment to e, which the network is without.
LEMMA Arrival ==
  ASSUME NEW e \in Hosts, TypeOK, Receive(e) \/ ReceiveLate(e)
  PROVE  \E s, c : Arrives(e, s, c) /\ ReceiveAny(e, s, c)
<1>1. /\ chan \in [Hosts -> Seq(Segments)] /\ late \in [Hosts -> SUBSET Segments]
      /\ Peer(e) \in Hosts /\ Peer(e) # e /\ chan[e] \in Seq(Segments)
  BY PeerType DEF TypeOK
<1>2. CASE Receive(e)
  <2>1. PICK s, c : /\ s = Head(chan[e]) /\ c = [chan EXCEPT ![e] = Tail(@)]
                    /\ chan[e] # <<>> /\ ReceiveAny(e, s, c) /\ late' = late
    BY <1>2 DEF Receive
  <2>2. /\ Tail(chan[e]) \in Seq(Segments) /\ s \in Elems(chan[e])
        /\ Elems(Tail(chan[e])) \subseteq Elems(chan[e])
    BY <1>1, <2>1, TailElems
  <2>3. Arrives(e, s, c)
    BY <1>1, <2>1, <2>2 DEF Arrives, ReceiveAny, To
  <2> QED
    BY <2>1, <2>3
<1>3. CASE ReceiveLate(e)
  <2>1. PICK s \in late[e] : ReceiveAny(e, s, chan) /\ late' = [late EXCEPT ![e] = @ \ {s}]
    BY <1>3 DEF ReceiveLate
  <2>2. Arrives(e, s, chan)
    BY <1>1, <2>1 DEF Arrives, ReceiveAny, To
  <2> QED
    BY <2>1, <2>2
<1> QED
  BY <1>2, <1>3

LEMMA ReceiveBoth ==
  ASSUME NEW e \in Hosts, NoWrap, TcpInv, TypeOK', Receive(e) \/ ReceiveLate(e)
  PROVE  TcpInv'
  BY Arrival, ReceiveAnyStep DEF TcpInv

LEMMA ConnectStep ==
  ASSUME NoWrap, TcpInv, TypeOK', Connect
  PROVE  TcpInv'
<1> DEFINE e == Client
           p == Server
           n == FirstSeq[Client]
<1>g. PICK g : g = Seg({"SYN"}, n, 0, StreamSize, <<>>)
  OBVIOUS
<1>d. PICK d : d = tcb'[Client]
  OBVIOUS
<1>1. /\ e \in Hosts /\ p \in Hosts /\ Peer(e) = p /\ e # p
      /\ tcb \in [Hosts -> Blocks] /\ nextSeq \in [Hosts -> Numbers] /\ TypeOK /\ HostOK(e)
      /\ chan \in [Hosts -> Seq(Segments)]
  BY TcpAssumption DEF Hosts, Peer, TcpInv, TypeOK
<1>2. /\ tcb[e].state = "NONE" /\ nextSeq[e] = n /\ nextSeq'[e] = Plus(n, SeqStep)
      /\ nextSeq'[p] = nextSeq[p] /\ tcb'[p] = tcb[p] /\ Transmit(chan, e, <<g>>)
      /\ stream' = stream /\ wrote' = wrote /\ closing' = closing /\ late' = late
      /\ d = [NoBlock EXCEPT !.state = "SYN_SENT", !.iss = n, !.snd_nxt = Plus(n, 1),
                             !.snd_una = n, !.endpoint = TRUE]
  BY <1>1, <1>d, <1>g DEF Connect, NextSequenceNumber
<1>3. /\ d.state = "SYN_SENT" /\ d.iss = n /\ d.snd_nxt = n + 1 /\ d.snd_una = n
      /\ d.rcv_nxt = 0 /\ d.rtq = <<>> /\ ~d.freeing /\ ~d.waiting
  <2>1. Plus(n, 1) = n + 1
    BY <1>1, Small
  <2> QED
    BY <1>2, <2>1 DEF NoBlock
<1>4. wrote[e] = 0 /\ e \notin closing /\ stream[e] = <<>>
  BY <1>1, <1>2 DEF HostOK, GoneOK
<1>5. g \in Segments /\ g.flags = {"SYN"} /\ g.seq = n /\ g.data = <<>>
  <2>1. n \in Numbers /\ 0 \in Numbers
    BY <1>1, TcpAssumption DEF Numbers
  <2> QED
    BY <1>g, <2>1, SegType, EmptySeq, Windows DEF Flags, Seg
<1>6. SegmentOK(p, g)' /\ ~IsAck(g)
  BY <1>5 DEF SegmentOK, ShapeOK, EndsOK, AckOK, IsAck
<1>7. nextSeq'[Client] # FirstSeq[Client] /\ ~ClientOpen
  BY <1>1, <1>2, Small DEF ClientOpen
<1>8. Acts(e)
  <2>1. wrote[e] \in Nat
    BY <1>1 DEF TypeOK
  <2> QED
    BY <1>1, <1>2, <1>7, <2>1 DEF Acts
<1>9. <<g>> \in Seq(Segments) /\ Elems(<<g>>) = {g} /\ Elems(<<>>) = {}
  BY <1>5, SingleElems
<1>10. To(e)' \subseteq To(e) /\ To(p)' \subseteq To(p) \cup {g}
  <2>1. To(e)' \subseteq To(e) /\ To(Peer(e))' \subseteq To(Peer(e)) \cup Elems(<<g>>)
    BY <1>1, <1>2, <1>9, Sends, Zenon
  <2> QED
    BY <1>1, <1>9, <2>1
<1>12. HostOK(e)'
  <2>1. GoneOK(e)' /\ AgainOK(e)' /\ FirstOK(e)'
    BY <1>1, <1>2, <1>3, <1>4, <1>d DEF GoneOK, AgainOK, FirstOK
  <2>2. LiveOK(e)'
    <3>1. d.state \notin Live
      BY <1>3 DEF Live, Synchronized
    <3>2. Top(p)' = Top(p) /\ 0 <= Top(p)
      BY <1>1, <1>2, TopType DEF Top
    <3> QED
      BY <1>1, <1>3, <1>d, <3>1, <3>2 DEF LiveOK
  <2>3. StreamOK(e)'
    BY <1>1, <1>2 DEF HostOK, StreamOK
  <2>4. QueueOK(e)'
    BY <1>3, <1>d, EmptyQueue DEF FinSent
  <2> QED
    BY <2>1, <2>2, <2>3, <2>4 DEF HostOK
<1>13. PICK N : N = {g}
  OBVIOUS
<1>14. \A h \in N : SegmentOK(Peer(e), h)'
  BY <1>1, <1>5, <1>6, <1>13
<1>15. N \in SUBSET Segments /\ To(e)' \subseteq To(e) /\ To(Peer(e))' \subseteq To(Peer(e)) \cup N
  BY <1>1, <1>5, <1>10, <1>13
<1> HIDE DEF e
<1> QED
  BY <1>1, <1>7, <1>8, <1>12, <1>14, <1>15, Assemble DEF e

\* A block of e that is open is its first one, and e has not closed.
LEMMA InUse ==
  ASSUME NEW e \in Hosts, NoWrap, TcpInv, HasEndpoint(e),
         tcb[e].state \in {"ESTABLISHED", "CLOSE_WAIT"}
  PROVE  /\ tcb[e].iss = FirstSeq[e] /\ e \notin closing
         /\ tcb[e].snd_nxt = FirstSeq[e] + 1 + wrote[e] /\ Top(e) = FirstSeq[e] + 1 + wrote[e]
         /\ ClientOpen
<1>1. HostOK(e) /\ TypeOK /\ tcb[e].state # "NONE" /\ tcb[e].endpoint
  BY DEF TcpInv, HasEndpoint
<1>2. tcb[e].state \in Live /\ tcb[e].state \notin FinSent
  BY DEF Live, Synchronized, FinSent
<1>3. tcb[e].iss = FirstSeq[e]
  BY <1>1 DEF HostOK, AgainOK
<1>4. e \notin closing /\ tcb[e].snd_nxt = Top(e)
  BY <1>1, <1>2, <1>3 DEF HostOK, LiveOK
<1>5. Top(e) = FirstSeq[e] + 1 + wrote[e]
  <2>1. wrote[e] \in Nat /\ FirstSeq[e] \in Nat
    BY <1>1, Small, TopType
  <2> QED
    BY <1>4, <2>1 DEF Top
<1>6. ClientOpen
  <2>1. CASE e = Client
    BY <1>2, <2>1, Up
  <2>2. CASE e # Client
    <3>1. e = Server
      BY <2>2 DEF Hosts
    <3> QED
      BY <1>1, <3>1 DEF HostOK, StreamOK
  <2> QED
    BY <2>1, <2>2
<1> QED
  BY <1>3, <1>4, <1>5, <1>6

\* A segment without data that is sent and may be sent again.
LEMMA SendOne ==
  ASSUME NEW b \in Blocks, NEW flags \in SUBSET Flags
  PROVE  LET g == Seg(flags, b.snd_nxt, b.rcv_nxt, Room(b), <<>>)
             d == SendSegment(b, flags, <<>>)
         IN /\ Pieces(b, flags, <<>>) = <<g>> /\ g \in Segments /\ d \in Blocks
            /\ Elems(d.rtq) \subseteq Elems(b.rtq) \cup {g} /\ d.shadow = b.shadow
            /\ d.snd_nxt = b.snd_nxt /\ d.rcv_nxt = b.rcv_nxt /\ d.iss = b.iss /\ d.irs = b.irs
            /\ d.snd_una = b.snd_una /\ d.state = b.state /\ (d.freeing <=> b.freeing)
            /\ (d.waiting <=> b.waiting) /\ (d.endpoint <=> b.endpoint)
<1> DEFINE g == Seg(flags, b.snd_nxt, b.rcv_nxt, Room(b), <<>>)
           d == SendSegment(b, flags, <<>>)
<1>1. Pieces(b, flags, <<>>) = <<g>>
  BY DEF Pieces
<1>2. g \in Segments
  BY SegType, EmptySeq, Windows DEF Blocks
<1>3. d \in Blocks
  BY EmptySeq, PiecesType
<1> HIDE DEF g
<1>4. <<g>> \in Seq(Segments) /\ Elems(<<g>>) = {g}
  BY <1>2, SingleElems
<1>5. Elems(b.rtq \o <<g>>) \subseteq Elems(b.rtq) \cup {g}
  BY <1>4, ConcatElems DEF Blocks
<1>6. Plus(b.snd_nxt, Len(<<>>)) = b.snd_nxt
  <2>1. Len(<<>>) = 0
    BY EmptySeq
  <2>2. Plus(b.snd_nxt, 0) = b.snd_nxt
    BY BlockNumbers, PlusSmall
  <2> QED
    BY <2>1, <2>2
<1>7. d = [b EXCEPT !.rtq = b.rtq \o <<g>>, !.snd_nxt = b.snd_nxt]
  BY <1>1, <1>6 DEF SendSegment
<1>8. /\ d.rtq = b.rtq \o <<g>> /\ d.snd_nxt = b.snd_nxt /\ d.rcv_nxt = b.rcv_nxt /\ d.iss = b.iss
      /\ d.irs = b.irs /\ d.snd_una = b.snd_una /\ d.state = b.state /\ d.freeing = b.freeing
      /\ d.waiting = b.waiting /\ d.endpoint = b.endpoint /\ d.shadow = b.shadow
  BY <1>7 DEF Blocks
<1> QED
  BY <1>1, <1>2, <1>3, <1>5, <1>8 DEF g

LEMMA CloseStep ==
  ASSUME NEW e \in Hosts, NoWrap, TcpInv, TypeOK', Close(e)
  PROVE  TcpInv'
<1>p. PICK p : p = Peer(e)
  OBVIOUS
<1>b. PICK b : b = tcb[e]
  OBVIOUS
<1>d. PICK d : d = tcb'[e]
  OBVIOUS
<1>f. PICK f : f = SendSegment(b, {"FIN", "ACK"}, <<>>)
  OBVIOUS
<1>g. PICK g : g = Seg({"FIN", "ACK"}, b.snd_nxt, b.rcv_nxt, Room(b), <<>>)
  OBVIOUS
<1>1. /\ p \in Hosts /\ p # e /\ Peer(p) = e /\ Hosts = {e, p} /\ TypeOK /\ HostOK(e) /\ b \in Blocks
      /\ tcb \in [Hosts -> Blocks] /\ chan \in [Hosts -> Seq(Segments)] /\ wrote[e] \in Nat
      /\ FirstSeq[e] \in Nat /\ b.state \in {"ESTABLISHED", "CLOSE_WAIT"} /\ HasEndpoint(e)
      /\ b.rcv_nxt \in Nat
  <2>1. p \in Hosts /\ p # e /\ Peer(p) = e /\ Hosts = {e, p}
    BY <1>p, PeerType
  <2>2. TypeOK /\ HostOK(e)
    BY DEF TcpInv
  <2>3. b \in Blocks /\ tcb \in [Hosts -> Blocks] /\ chan \in [Hosts -> Seq(Segments)] /\ wrote[e] \in Nat
    BY <1>b, <2>2 DEF TypeOK
  <2> QED
    BY <1>b, <2>1, <2>2, <2>3, Small, BlockNumbers DEF Close
<1>2. /\ Pieces(b, {"FIN", "ACK"}, <<>>) = <<g>> /\ g \in Segments /\ f \in Blocks
      /\ Elems(f.rtq) \subseteq Elems(b.rtq) \cup {g}
      /\ f.rcv_nxt = b.rcv_nxt /\ f.iss = b.iss /\ f.irs = b.irs
      /\ f.snd_una = b.snd_una /\ (f.freeing <=> b.freeing)
      /\ (f.waiting <=> b.waiting) /\ (f.endpoint <=> b.endpoint)
  <2>1. {"FIN", "ACK"} \in SUBSET Flags
    BY DEF Flags
  <2> QED
    BY <1>1, <1>f, <1>g, <2>1, SendOne
<1>3. /\ tcb'[p] = tcb[p] /\ Transmit(chan, e, <<g>>) /\ closing' = closing \cup {e}
      /\ nextSeq' = nextSeq /\ stream' = stream /\ wrote' = wrote /\ late' = late
      /\ d = [f EXCEPT !.state = IF b.state = "ESTABLISHED" THEN "FIN_WAIT_1" ELSE "LAST_ACK",
                       !.fin_seq = b.snd_nxt, !.snd_nxt = Plus(b.snd_nxt, 1)]
  BY <1>1, <1>2, <1>b, <1>d, <1>f DEF Close
<1>4. /\ b.iss = FirstSeq[e] /\ e \notin closing /\ b.snd_nxt = FirstSeq[e] + 1 + wrote[e]
      /\ Top(e) = FirstSeq[e] + 1 + wrote[e] /\ ClientOpen
  BY <1>1, <1>b, InUse
<1>5. Plus(b.snd_nxt, 1) = FirstSeq[e] + 2 + wrote[e]
  <2>1. Top(e) \in Nat /\ Top(e) + StreamSize < SeqMod /\ StreamSize \in Nat \ {0} /\ SeqMod \in Nat
    BY <1>1, TopType, Small
  <2>2. Plus(b.snd_nxt, 1) = b.snd_nxt + 1
    BY <1>4, <2>1, PlusSmall
  <2>3. \A m, n \in Nat : m + 1 + n + 1 = m + 2 + n
    OBVIOUS
  <2> QED
    BY <1>1, <1>4, <2>2, <2>3
<1>6. /\ d.state = IF b.state = "ESTABLISHED" THEN "FIN_WAIT_1" ELSE "LAST_ACK"
      /\ d.snd_nxt = FirstSeq[e] + 2 + wrote[e] /\ d.rtq = f.rtq
      /\ d.rcv_nxt = b.rcv_nxt /\ d.iss = b.iss /\ d.irs = b.irs /\ d.fin_seq = b.snd_nxt
      /\ (d.freeing <=> b.freeing) /\ (d.waiting <=> b.waiting) /\ (d.endpoint <=> b.endpoint)
  BY <1>2, <1>3, <1>5 DEF Blocks
<1>7. ClientOpen'
  <2>1. CASE e = Client
    <3>1. b.state # "NONE" /\ d.state \notin {"NONE", "SYN_SENT"}
      BY <1>1, <1>6
    <3> QED
      BY <1>3, <1>4, <1>6, <1>b, <1>d, <2>1, <3>1 DEF ClientOpen
  <2>2. CASE e # Client
    <3>1. p = Client
      BY <1>p, <2>2 DEF Peer
    <3> QED
      BY <1>3, <1>4, <3>1 DEF ClientOpen
  <2> QED
    BY <2>1, <2>2
<1>8. Acts(e)
  BY <1>1, <1>3, <1>7, <1>p DEF Acts
<1>9. Top(e)' = FirstSeq[e] + 2 + wrote[e] /\ Top(p)' = Top(p)
  <2>1. e \in closing' /\ (p \in closing' <=> p \in closing) /\ wrote' = wrote
    BY <1>1, <1>3
  <2>2. \A m, n \in Nat : m + 1 + n + 1 = m + 2 + n
    OBVIOUS
  <2> QED
    BY <1>1, <2>1, <2>2 DEF Top
<1>10. b.state \in Live /\ FirstSeq[p] < b.rcv_nxt /\ b.rcv_nxt <= Top(p)
  <2>1. b.state \in Live
    BY <1>1 DEF Live, Synchronized
  <2> QED
    BY <1>b, <1>p, <2>1, Up
<1>11. /\ SegmentOK(p, g)' /\ g.data = <<>> /\ g.seq = FirstSeq[e] + 1 + wrote[e]
  <2>1. /\ g.flags = {"FIN", "ACK"} /\ g.seq = FirstSeq[e] + 1 + wrote[e] /\ g.ack = b.rcv_nxt
        /\ g.data = <<>>
    BY <1>4, <1>g DEF Seg
  <2>2. ShapeOK(p, g)' /\ EndsOK(p, g)'
    BY <1>1, <1>3, <2>1 DEF ShapeOK, EndsOK
  <2>3. AckOK(p, g)'
    BY <1>1, <1>7, <1>9, <1>10, <2>1 DEF AckOK
  <2> QED
    BY <1>b, <2>1, <2>2, <2>3 DEF SegmentOK
<1>12. PICK N : N = {g}
  OBVIOUS
<1>13. \A h \in N : SegmentOK(Peer(e), h)'
  BY <1>11, <1>12, <1>p
<1>14. N \in SUBSET Segments /\ To(e)' \subseteq To(e) /\ To(Peer(e))' \subseteq To(Peer(e)) \cup N
  <2>1. <<g>> \in Seq(Segments) /\ Elems(<<g>>) = N
    BY <1>2, <1>12, SingleElems
  <2>3. /\ tcb'[Peer(e)] = tcb[Peer(e)] /\ late'[Peer(e)] = late[Peer(e)]
        /\ late'[e] \subseteq late[e]
    BY <1>3, <1>p
  <2>4. To(e)' \subseteq To(e) /\ To(Peer(e))' \subseteq To(Peer(e)) \cup Elems(<<g>>)
    BY <1>1, <1>3, <2>1, <2>3, Sends
  <2> QED
    BY <1>2, <1>12, <2>1, <2>4
<1>15. QueueOK(e)'
  <2>1. \A h \in Elems(b.rtq) : h.seq + Len(h.data) <= FirstSeq[e] + 1 + wrote[e]
    BY <1>1, <1>4, <1>b DEF HostOK, QueueOK
  <2>2. g.seq + Len(g.data) <= FirstSeq[e] + 1 + wrote[e]
    <3>1. PICK k \in Nat : k = FirstSeq[e] + 1 + wrote[e]
      BY <1>1
    <3>2. g.seq = k /\ Len(g.data) = 0
      BY <1>11, <3>1, EmptySeq
    <3>3. g.seq + Len(g.data) = k
      BY <3>2
    <3> QED
      BY <3>1, <3>3
  <2>3. d.fin_seq = FirstSeq[e] + 1 + wrote[e] /\ d.state \notin {"FIN_WAIT_2", "TIME_WAIT"}
    BY <1>4, <1>6
  <2> QED
    <3>1. \A h \in Elems(d.rtq) : h.seq + Len(h.data) <= FirstSeq[e] + 1 + wrote[e]
      BY <1>2, <1>6, <2>1, <2>2, Zenon
    <3> QED
      BY <1>3, <1>d, <2>3, <3>1, Zenon DEF QueueOK
<1>16. nextSeq[e] = Plus(FirstSeq[e], SeqStep) /\ ~b.freeing /\ ~b.waiting
  BY <1>1, <1>4, <1>b DEF HostOK, FirstOK
<1>17. nextSeq'[Client] # FirstSeq[Client]
  BY <1>7 DEF ClientOpen
<1>18. HostOK(e)'
  <2>1. GoneOK(e)' /\ AgainOK(e)'
    BY <1>1, <1>4, <1>6, <1>d DEF GoneOK, AgainOK
  <2>2. FirstOK(e)'
    BY <1>1, <1>3, <1>6, <1>16, <1>d DEF FirstOK
  <2>3. LiveOK(e)'
    <3>1. /\ b.irs = FirstSeq[p] /\ (b.state = "CLOSE_WAIT" => p \in closing)
          /\ b.state = "ESTABLISHED" => b.rcv_nxt = FirstSeq[p] + 1 + Len(stream[e])
      BY <1>1, <1>10, <1>b, <1>p DEF HostOK, LiveOK, FinSeen, Open, Taking
    <3>2. /\ d.state \in Open => b.state = "ESTABLISHED"
          /\ d.state \in FinSeen => b.state = "CLOSE_WAIT"
          /\ d.state \in FinSent
      BY <1>1, <1>6 DEF Open, Taking, FinSeen, FinSent
    <3> QED
      BY <1>1, <1>3, <1>6, <1>9, <1>10, <1>d, <1>p, <3>1, <3>2 DEF LiveOK
  <2>4. StreamOK(e)'
    BY <1>1, <1>3, <1>7 DEF HostOK, StreamOK
  <2> QED
    BY <1>15, <2>1, <2>2, <2>3, <2>4 DEF HostOK
<1> QED
  BY <1>8, <1>13, <1>14, <1>17, <1>18, Assemble

LEMMA CloseEarlyStep ==
  ASSUME NEW e \in Hosts, NoWrap, TcpInv, TypeOK', CloseEarly(e)
  PROVE  TcpInv'
<1>p. PICK p : p = Peer(e)
  OBVIOUS
<1>b. PICK b : b = tcb[e]
  OBVIOUS
<1>d. PICK d : d = tcb'[e]
  OBVIOUS
<1>f. PICK f : f = SendSegment(b, {"RST"}, <<>>)
  OBVIOUS
<1>g. PICK g, h : /\ g = Seg({"RST"}, b.snd_nxt, b.rcv_nxt, Room(b), <<>>)
                  /\ h = Seg({"RST"}, b.snd_nxt, 0, Room(b), <<>>)
  OBVIOUS
<1>1. /\ p \in Hosts /\ p # e /\ TypeOK /\ HostOK(e) /\ b \in Blocks
      /\ tcb \in [Hosts -> Blocks] /\ chan \in [Hosts -> Seq(Segments)] /\ wrote[e] \in Nat
      /\ b.state = "SYN_SENT"
  <2>1. p \in Hosts /\ p # e
    BY <1>p, PeerType
  <2>2. TypeOK /\ HostOK(e)
    BY DEF TcpInv
  <2> QED
    BY <1>b, <2>1, <2>2 DEF TypeOK, CloseEarly
<1>2. /\ g \in Segments /\ f \in Blocks
      /\ Elems(f.rtq) \subseteq Elems(b.rtq) \cup {g}
      /\ f.rcv_nxt = b.rcv_nxt /\ f.iss = b.iss
      /\ (f.freeing <=> b.freeing) /\ (f.waiting <=> b.waiting)
  <2>1. {"RST"} \in SUBSET Flags
    BY DEF Flags
  <2> QED
    BY <1>1, <1>f, <1>g, <2>1, SendOne
<1>3. /\ tcb'[p] = tcb[p] /\ Transmit(chan, e, <<h>>) /\ closing' = closing \cup {e}
      /\ nextSeq' = nextSeq /\ stream' = stream /\ wrote' = wrote /\ late' = late
      /\ d = [f EXCEPT !.state = "CLOSED"]
  BY <1>1, <1>b, <1>d, <1>f, <1>g DEF CloseEarly
<1>4. /\ d.state = "CLOSED" /\ d.rtq = f.rtq /\ d.rcv_nxt = b.rcv_nxt /\ d.iss = b.iss
      /\ (d.freeing <=> b.freeing) /\ (d.waiting <=> b.waiting)
  BY <1>2, <1>3 DEF Blocks
<1>5. b.iss = FirstSeq[e]
  BY <1>1, <1>b DEF HostOK, AgainOK
<1>6. e = Client /\ p = Server /\ nextSeq[e] = Plus(FirstSeq[e], SeqStep) /\ ~b.freeing /\ ~b.waiting
  BY <1>1, <1>5, <1>b, <1>p DEF HostOK, FirstOK, Peer
<1>7. ~ClientOpen /\ nextSeq[Client] # FirstSeq[Client]
  BY <1>1, <1>6, <1>b, Small DEF ClientOpen
<1>8. Acts(e)
  BY <1>1, <1>3, <1>7, <1>p DEF Acts
<1>9. h \in Segments
  <2>1. b.snd_nxt \in Numbers /\ 0 \in Numbers
    BY <1>1, TcpAssumption DEF Blocks, Numbers
  <2> QED
    BY <1>1, <1>g, <2>1, SegType, EmptySeq, Windows DEF Flags
<1>10. /\ g.flags = {"RST"} /\ g.data = <<>> /\ g.seq = b.snd_nxt /\ h.flags = {"RST"} /\ h.data = <<>>
  BY <1>g DEF Seg
<1>11. PICK N : N = {h}
  OBVIOUS
<1>12. \A k \in N : SegmentOK(Peer(e), k)'
  BY <1>2, <1>9, <1>10, <1>11, PeerType, ResetOK
<1>13. N \in SUBSET Segments /\ To(e)' \subseteq To(e) /\ To(Peer(e))' \subseteq To(Peer(e)) \cup N
  <2>1. <<h>> \in Seq(Segments) /\ Elems(<<h>>) \subseteq N
    BY <1>9, <1>11, SingleElems
  <2>3. /\ tcb'[Peer(e)] = tcb[Peer(e)] /\ late'[Peer(e)] = late[Peer(e)]
        /\ late'[e] \subseteq late[e]
    BY <1>3, <1>p
  <2>4. To(e)' \subseteq To(e) /\ To(Peer(e))' \subseteq To(Peer(e)) \cup Elems(<<h>>)
    BY <1>1, <1>3, <2>1, <2>3, Sends
  <2> QED
    BY <1>2, <1>9, <1>11, <2>1, <2>4
<1>14. QueueOK(e)'
  <2>1. b.rtq = <<>> /\ b.snd_nxt = FirstSeq[e] + 1 /\ wrote[e] = 0
    BY <1>1, <1>5, <1>b DEF HostOK, FirstOK
  <2>2. Elems(d.rtq) \subseteq {g}
    BY <1>2, <1>4, <2>1, SingleElems
  <2>3. g.seq + Len(g.data) <= FirstSeq[e] + 1 + wrote[e]
    <3>1. FirstSeq[e] \in Nat /\ Len(g.data) = 0
      BY <1>10, EmptySeq, Small
    <3>2. g.seq = FirstSeq[e] + 1
      BY <1>10, <2>1
    <3> QED
      BY <2>1, <3>1, <3>2
  <2>4. d.state \notin FinSent \cup {"FIN_WAIT_2", "TIME_WAIT"}
    BY <1>4 DEF FinSent
  <2> QED
    BY <1>3, <1>d, <2>2, <2>3, <2>4 DEF QueueOK
<1>15. HostOK(e)'
  <2>1. GoneOK(e)' /\ AgainOK(e)'
    BY <1>4, <1>5, <1>d DEF GoneOK, AgainOK
  <2>2. FirstOK(e)'
    BY <1>3, <1>4, <1>6, <1>d DEF FirstOK
  <2>3. LiveOK(e)'
    <3>1. d.state \notin Live
      BY <1>4 DEF Live, Synchronized
    <3>2. Top(p)' = Top(p)
      <4>1. p \in closing' <=> p \in closing
        BY <1>1, <1>3
      <4> QED
        BY <1>3, <4>1 DEF Top
    <3> QED
      BY <1>1, <1>4, <1>b, <1>d, <1>p, <3>1, <3>2 DEF HostOK, LiveOK
  <2>4. StreamOK(e)'
    BY <1>1, <1>3, <1>6 DEF HostOK, StreamOK
  <2> QED
    BY <1>14, <2>1, <2>2, <2>3, <2>4 DEF HostOK
<1> QED
  BY <1>3, <1>7, <1>8, <1>12, <1>13, <1>15, Assemble

\* A step that adds no segment.
LEMMA AssembleQuiet ==
  ASSUME NEW e \in Hosts, TcpInv, TypeOK', Acts(e),
         To(e)' \subseteq To(e), To(Peer(e))' \subseteq To(Peer(e)) \cup {},
         HostOK(e)'
  PROVE  TcpInv'
<1>1. PICK N : N = {}
  OBVIOUS
<1>2. To(Peer(e))' \subseteq To(Peer(e)) \cup N /\ N \in SUBSET Segments
  BY <1>1
<1>3. (N # {} => nextSeq'[Client] # FirstSeq[Client])
      /\ \A g \in N : SegmentOK(Peer(e), g)'
  BY <1>1
<1> QED
  BY <1>2, <1>3, Assemble

LEMMA ExpiresStep ==
  ASSUME NEW e \in Hosts, NoWrap, TcpInv, TypeOK', TimeWaitExpires(e)
  PROVE  TcpInv'
<1>p. PICK p : p = Peer(e)
  OBVIOUS
<1>b. PICK b : b = tcb[e]
  OBVIOUS
<1>d. PICK d : d = tcb'[e]
  OBVIOUS
<1>1. /\ p \in Hosts /\ p # e /\ Hosts = {e, p} /\ TypeOK /\ HostOK(e) /\ b \in Blocks
      /\ tcb \in [Hosts -> Blocks] /\ chan \in [Hosts -> Seq(Segments)] /\ wrote[e] \in Nat
      /\ b.waiting
  <2>1. p \in Hosts /\ p # e /\ Hosts = {e, p}
    BY <1>p, PeerType
  <2>2. TypeOK /\ HostOK(e)
    BY DEF TcpInv
  <2> QED
    BY <1>b, <2>1, <2>2 DEF TypeOK, TimeWaitExpires
<1>2. b.iss = FirstSeq[e] /\ b.state = "TIME_WAIT" /\ nextSeq[e] = Plus(FirstSeq[e], SeqStep)
  <2>1. b.state # "NONE"
    BY <1>1, <1>b DEF HostOK, GoneOK, NoBlock
  <2>2. b.iss = FirstSeq[e]
    BY <1>1, <1>b, <2>1 DEF HostOK, AgainOK
  <2> QED
    BY <1>1, <1>b, <2>1, <2>2 DEF HostOK, FirstOK
<1>3. b.state \in Live /\ b.state \in FinSent /\ b.state \in FinSeen /\ ~b.freeing
  BY <1>1, <1>2, <1>b DEF Live, FinSent, FinSeen, HostOK, FirstOK
<1>4. Hosts \subseteq closing
  BY <1>1, <1>2, <1>3, <1>b, <1>p DEF HostOK, LiveOK
<1>5. b.rtq = <<>> /\ chan' = chan
  <2>1. b.rtq = <<>>
    BY <1>1, <1>2, <1>b DEF HostOK, QueueOK
  <2> QED
    BY <1>b, <2>1 DEF TimeWaitExpires
<1>6. /\ tcb'[p] = tcb[p] /\ closing' = closing
      /\ nextSeq' = nextSeq /\ stream' = stream /\ wrote' = wrote /\ late' = late
      /\ d = [b EXCEPT !.waiting = FALSE, !.state = "CLOSED", !.freeing = TRUE]
  BY <1>1, <1>5, <1>b, <1>d DEF TimeWaitExpires
<1>7. /\ d.rcv_nxt = b.rcv_nxt /\ d.iss = b.iss /\ d.irs = b.irs /\ d.rtq = b.rtq
      /\ d.snd_nxt = b.snd_nxt /\ d.endpoint = b.endpoint /\ ~d.waiting
      /\ d.state = "CLOSED" /\ d.fin_seq = b.fin_seq
  BY <1>1, <1>2, <1>3, <1>6 DEF Blocks
<1>8. ClientOpen => ClientOpen'
  <2>1. CASE e = Client
    BY <1>2, <1>6, <1>7, <1>b, <1>d, <2>1 DEF ClientOpen
  <2>2. CASE e # Client
    <3>1. p = Client
      BY <1>p, <2>2 DEF Peer
    <3> QED
      BY <1>6, <3>1 DEF ClientOpen
  <2> QED
    BY <2>1, <2>2
<1>9. Acts(e)
  BY <1>1, <1>6, <1>8, <1>p DEF Acts
<1>10. To(e)' \subseteq To(e) /\ To(Peer(e))' \subseteq To(Peer(e)) \cup {}
  BY <1>5, <1>6 DEF To
<1>12. HostOK(e)'
  <2>1. GoneOK(e)' /\ AgainOK(e)'
    BY <1>2, <1>7, <1>d DEF GoneOK, AgainOK
  <2>2. FirstOK(e)'
    BY <1>2, <1>4, <1>6, <1>7, <1>d DEF FirstOK
  <2>3. LiveOK(e)'
    <3>1. Top(p)' = Top(p) /\ Top(e)' = Top(e)
      BY <1>6 DEF Top
    <3>2. b.rcv_nxt <= Top(p)
      BY <1>1, <1>b, <1>p DEF HostOK, LiveOK
    <3>3. d.state \notin Live
      BY <1>7 DEF Live, Synchronized
    <3> QED
      BY <1>7, <1>d, <1>p, <3>1, <3>2, <3>3 DEF LiveOK
  <2>4. StreamOK(e)'
    BY <1>1, <1>6, <1>7, <1>8, <1>b, <1>d DEF HostOK, StreamOK
  <2>5. QueueOK(e)'
    BY <1>5, <1>7, <1>d, EmptyQueue DEF FinSent
  <2> QED
    BY <2>1, <2>2, <2>3, <2>4, <2>5 DEF HostOK
<1> QED
  BY <1>9, <1>10, <1>12, AssembleQuiet

LEMMA RemoveStep ==
  ASSUME NEW e \in Hosts, NoWrap, TcpInv, TypeOK', RemoveConn(e)
  PROVE  TcpInv'
<1>p. PICK p : p = Peer(e)
  OBVIOUS
<1>1. /\ p \in Hosts /\ p # e /\ TypeOK /\ HostOK(e)
      /\ tcb \in [Hosts -> Blocks] /\ chan \in [Hosts -> Seq(Segments)] /\ wrote[e] \in Nat
      /\ tcb[e].freeing
  <2>1. p \in Hosts /\ p # e
    BY <1>p, PeerType
  <2>2. TypeOK /\ HostOK(e)
    BY DEF TcpInv
  <2> QED
    BY <2>1, <2>2 DEF TypeOK, RemoveConn
<1>2. /\ tcb'[e] = NoBlock /\ tcb'[p] = tcb[p] /\ closing' = closing /\ chan' = chan
      /\ nextSeq' = nextSeq /\ stream' = stream /\ wrote' = wrote /\ late' = late
  BY <1>1 DEF RemoveConn
<1>3. Hosts \subseteq closing /\ nextSeq[e] = Plus(FirstSeq[e], SeqStep)
  <2>1. tcb[e].state # "NONE"
    BY <1>1 DEF HostOK, GoneOK, NoBlock
  <2>2. tcb[e].iss = FirstSeq[e]
    BY <1>1, <2>1 DEF HostOK, AgainOK
  <2> QED
    BY <1>1, <2>1, <2>2 DEF HostOK, FirstOK
<1>4. /\ NoBlock.state = "NONE" /\ NoBlock.rtq = <<>> /\ NoBlock.rcv_nxt = 0
      /\ NoBlock.endpoint = FALSE
  BY DEF NoBlock
<1>5. Server \in closing
  BY <1>3 DEF Hosts
<1>6. ClientOpen => ClientOpen'
  <2>1. CASE e = Client
    BY <1>2, <1>4, <1>5, <2>1 DEF ClientOpen
  <2>2. CASE e # Client
    <3>1. p = Client
      BY <1>p, <2>2 DEF Peer
    <3> QED
      BY <1>2, <3>1 DEF ClientOpen
  <2> QED
    BY <2>1, <2>2
<1>7. Acts(e)
  BY <1>1, <1>2, <1>6, <1>p DEF Acts
<1>8. To(e)' \subseteq To(e) /\ To(Peer(e))' \subseteq To(Peer(e)) \cup {}
  BY <1>2 DEF To
<1>10. HostOK(e)'
  <2>1. nextSeq[e] # FirstSeq[e]
    BY <1>3, Small
  <2>2. GoneOK(e)'
    BY <1>2, <1>3, <2>1 DEF GoneOK
  <2>3. FirstOK(e)' /\ AgainOK(e)' /\ QueueOK(e)'
    BY <1>2, <1>4 DEF FirstOK, AgainOK, QueueOK
  <2>4. LiveOK(e)'
    <3>1. Top(p)' = Top(p) /\ 0 <= Top(p)
      BY <1>1, <1>2, TopType DEF Top
    <3>2. "NONE" \notin Live
      BY DEF Live, Synchronized
    <3> QED
      BY <1>2, <1>4, <1>p, <3>1, <3>2 DEF LiveOK
  <2>5. StreamOK(e)'
    BY <1>1, <1>2, <1>4, <1>6 DEF HostOK, StreamOK
  <2> QED
    BY <2>2, <2>3, <2>4, <2>5 DEF HostOK
<1> QED
  BY <1>7, <1>8, <1>10, AssembleQuiet

\* The network adds nothing.
LEMMA NetworkStep ==
  ASSUME NEW e \in Hosts, NoWrap, TcpInv, TypeOK', Stray(e) \/ Copy(e)
  PROVE  TcpInv'
<1>1. /\ UNCHANGED <<tcb, nextSeq, stream, wrote, closing>>
      /\ chan[e] # <<>> /\ late' = [late EXCEPT ![e] = @ \cup {Head(chan[e])}]
      /\ chan' = chan \/ chan' = [chan EXCEPT ![e] = Tail(@)]
  BY DEF Stray, Copy
<1>2. /\ Peer(e) \in Hosts /\ Peer(e) # e /\ TypeOK /\ HostOK(e) /\ chan[e] \in Seq(Segments)
      /\ chan \in [Hosts -> Seq(Segments)] /\ late \in [Hosts -> SUBSET Segments]
      /\ wrote[e] \in Nat
  <2>1. Peer(e) \in Hosts /\ Peer(e) # e
    BY PeerType
  <2>2. TypeOK /\ HostOK(e)
    BY DEF TcpInv
  <2> QED
    BY <2>1, <2>2 DEF TypeOK
<1>3. Elems(Tail(chan[e])) \subseteq Elems(chan[e]) /\ Head(chan[e]) \in Elems(chan[e])
  BY <1>1, <1>2, TailElems
<1>4. /\ Elems(chan'[e]) \subseteq Elems(chan[e]) /\ chan'[Peer(e)] = chan[Peer(e)]
      /\ late'[e] \subseteq late[e] \cup Elems(chan[e]) /\ late'[Peer(e)] = late[Peer(e)]
  BY <1>1, <1>2, <1>3
<1>5. To(e)' \subseteq To(e)
  BY <1>1, <1>4 DEF To
<1>6. To(Peer(e))' \subseteq To(Peer(e)) \cup {}
  BY <1>1, <1>4 DEF To
<1>7. HostOK(e)' /\ (ClientOpen => ClientOpen')
  BY <1>1, <1>2, HostSame
<1>8. Acts(e)
  BY <1>1, <1>2, <1>7 DEF Acts
<1> QED
  BY <1>5, <1>6, <1>7, <1>8, AssembleQuiet

----------------------------------------------------------------------------
\* The numbers a segment takes.
Span(g) == Len(g.data) + (IF "SYN" \in g.flags THEN 1 ELSE 0)

NoFin(q) == \A i \in 1 .. Len(q) : "FIN" \notin q[i].flags

\* Where segment i of q begins, if the first begins at x.
Place(q, i, x) == IF i = 1 THEN x ELSE q[i - 1].seq + Span(q[i - 1])

\* The segments of q go from x to y.
Chain(q, x, y) ==
  /\ \A i \in 1 .. Len(q) : (\A j \in 1 .. i - 1 : "FIN" \notin q[j].flags) =>
       "RST" \notin q[i].flags /\ q[i].seq = Place(q, i, x)
  /\ NoFin(q) => y = Place(q, Len(q) + 1, x)

\* What a call of send sends: the next bytes, in pieces.
SentOK(e, n, P, f) ==
  /\ f = FirstSeq[e] + 1 + wrote[e] /\ f = tcb[e].snd_nxt /\ f + n < SeqMod /\ n \in Nat
  /\ Transmit(chan, e, P)
  /\ tcb' = [tcb EXCEPT ![e] = [tcb[e] EXCEPT !.rtq = @ \o P, !.snd_nxt = f + n]]
  /\ \A g \in Elems(P) :
       /\ g.flags \in {{"ACK"}, {"ACK", "PSH"}} /\ g.ack = tcb[e].rcv_nxt /\ g.wnd = Room(tcb[e])
       /\ g.data # <<>> /\ f <= g.seq /\ g.seq + Len(g.data) <= f + n
       /\ \A j \in 1 .. Len(g.data) : g.data[j] = g.seq - FirstSeq[e] - 1 + j
  /\ Chain(P, f, f + n)

LEMMA SentPieces ==
  ASSUME NEW e \in Hosts, NEW n \in Sizes[e], NoWrap, TcpInv, Send(e, n)
  PROVE  \E P \in Seq(Segments), f \in Nat : SentOK(e, n, P, f)
<1>b. PICK b : b = tcb[e]
  OBVIOUS
<1>k. PICK k : k = wrote[e]
  OBVIOUS
<1>f. PICK f : f = FirstSeq[e] + 1 + k
  OBVIOUS
<1>q. PICK data : data = [i \in 1 .. n |-> k + i]
  OBVIOUS
<1>m. PICK m : m = (n + Mss - 1) \div Mss
  OBVIOUS
<1>P. PICK P : P = Pieces(b, {"ACK"}, data)
  OBVIOUS
<1>1. /\ b \in Blocks /\ k \in Nat /\ n \in Nat \ {0} /\ k + n <= MaxBytes[e] /\ TypeOK
      /\ tcb \in [Hosts -> Blocks] /\ f \in Nat /\ FirstSeq[e] \in Nat /\ f + n < SeqMod
  <2>1. TypeOK /\ n \in Nat \ {0} /\ k + n <= MaxBytes[e]
    BY <1>k, TcpAssumption DEF TcpInv, Send
  <2>2. b \in Blocks /\ k \in Nat /\ tcb \in [Hosts -> Blocks]
    BY <1>b, <1>k, <2>1 DEF TypeOK
  <2>3. /\ FirstSeq[e] \in Nat /\ MaxBytes[e] \in Nat /\ StreamSize \in Nat /\ SeqMod \in Nat
        /\ FirstSeq[e] + MaxBytes[e] + StreamSize + 2 < SeqMod
    BY Small
  <2> QED
    BY <1>f, <2>1, <2>2, <2>3
<1>2. data \in Seq(Nat) /\ Len(data) = n /\ data # <<>> /\ \A i \in 1 .. n : data[i] = k + i
  <2>1. data \in Seq(Nat) /\ Len(data) = n
    BY <1>1, <1>q
  <2>2. Len(<<>>) = 0
    BY EmptySeq
  <2> QED
    BY <1>1, <1>q, <2>1, <2>2
<1>3. b.snd_nxt = f
  BY <1>b, <1>f, <1>k, InUse DEF Send
<1>4. /\ P \in Seq(Segments) /\ Len(P) = m
      /\ \A i \in 1 .. m :
           /\ P[i].flags \in {{"ACK"}, {"ACK", "PSH"}} /\ P[i].seq = Plus(f, Offset(i))
           /\ P[i].ack = b.rcv_nxt /\ P[i].wnd = Room(b)
           /\ Len(P[i].data) = Size(n, m, i)
           /\ \A j \in 1 .. Size(n, m, i) : P[i].data[j] = data[Offset(i) + j]
  <2>1. {"ACK"} \in SUBSET Flags
    BY DEF Flags
  <2>2. m = (Len(data) + Mss - 1) \div Mss
    BY <1>2, <1>m
  <2>3. PiecesOK(b, {"ACK"}, data, m)
    BY <1>1, <1>2, <2>1, <2>2, PieceShape
  <2>4. \A i \in 1 .. m : PieceFlags({"ACK"}, m, i) \in {{"ACK"}, {"ACK", "PSH"}}
    BY DEF PieceFlags
  <2> QED
    BY <1>2, <1>3, <1>P, <2>3, <2>4 DEF PiecesOK
<1>5. /\ m \in Nat \ {0}
      /\ \A i \in 1 .. m :
           /\ Offset(i) \in Nat /\ Size(n, m, i) \in Nat \ {0}
           /\ Offset(i) + Size(n, m, i) <= n
           /\ Offset(i) + Size(n, m, i) = IF i = m THEN n ELSE Offset(i + 1)
      /\ \A i, j \in 1 .. m : i < j => Offset(i) + Size(n, m, i) <= Offset(j)
  BY <1>1, <1>m, PieceBounds
<1>6. ASSUME NEW i \in 1 .. m
      PROVE  /\ P[i].seq = f + Offset(i) /\ P[i].data # <<>>
             /\ f <= P[i].seq /\ P[i].seq + Len(P[i].data) <= f + n
             /\ \A j \in 1 .. Len(P[i].data) : P[i].data[j] = P[i].seq - FirstSeq[e] - 1 + j
  <2>1. PICK o \in Nat, l \in Nat \ {0} : o = Offset(i) /\ l = Size(n, m, i) /\ o + l <= n
    BY <1>5
  <2>2. Plus(f, o) = f + o
    <3>1. f + o < SeqMod
      BY <1>1, <2>1, TcpAssumption
    <3> QED
      BY <1>1, <2>1, <3>1, PlusSmall
  <2>3. P[i].seq = f + o /\ Len(P[i].data) = l
    BY <1>4, <2>1, <2>2
  <2>4. P[i].data # <<>>
    BY <2>1, <2>3, EmptySeq
  <2>5. f <= f + o /\ f + o + l <= f + n
    BY <1>1, <2>1
  <2>6. ASSUME NEW j \in 1 .. l
        PROVE  P[i].data[j] = (f + o) - FirstSeq[e] - 1 + j
    <3>1. P[i].data[j] = data[o + j]
      BY <1>4, <2>1
    <3>2. o + j \in 1 .. n
      BY <1>1, <2>1
    <3>3. data[o + j] = k + (o + j)
      BY <1>2, <3>2
    <3>4. k + (o + j) = (f + o) - FirstSeq[e] - 1 + j
      BY <1>1, <1>f, <2>1
    <3> QED
      BY <3>1, <3>3, <3>4
  <2>7. \A j \in 1 .. Len(P[i].data) : P[i].data[j] = P[i].seq - FirstSeq[e] - 1 + j
    <3> TAKE j \in 1 .. Len(P[i].data)
    <3>1. j \in 1 .. l /\ f + o = P[i].seq
      BY <2>3
    <3>2. P[i].data[j] = (f + o) - FirstSeq[e] - 1 + j
      BY <2>6, <3>1
    <3> QED
      BY <3>1, <3>2, Zenon
  <2> QED
    BY <2>1, <2>3, <2>4, <2>5, <2>7
<1>8. Transmit(chan, e, P)
  BY <1>b, <1>k, <1>q, <1>P DEF Send
<1>9. tcb' = [tcb EXCEPT ![e] = [tcb[e] EXCEPT !.rtq = @ \o P, !.snd_nxt = f + n]]
  <2>1. Plus(f, n) = f + n
    BY <1>1, PlusSmall
  <2>2. SendSegment(b, {"ACK"}, data) = [b EXCEPT !.rtq = @ \o P, !.snd_nxt = f + n]
    BY <1>2, <1>3, <1>P, <2>1 DEF SendSegment
  <2>3. tcb' = [tcb EXCEPT ![e] = SendSegment(b, {"ACK"}, data)]
    BY <1>b, <1>k, <1>q DEF Send
  <2> QED
    BY <1>b, <2>2, <2>3
<1>10. \A g \in Elems(P) : \E i \in 1 .. m : g = P[i]
  BY <1>4 DEF Elems
<1>11. \A g \in Elems(P) :
         /\ g.flags \in {{"ACK"}, {"ACK", "PSH"}} /\ g.ack = tcb[e].rcv_nxt
         /\ g.wnd = Room(tcb[e])
         /\ g.data # <<>> /\ f <= g.seq /\ g.seq + Len(g.data) <= f + n
         /\ \A j \in 1 .. Len(g.data) : g.data[j] = g.seq - FirstSeq[e] - 1 + j
  BY <1>4, <1>6, <1>10, <1>b
<1>13. Chain(P, f, f + n)
  <2>1. \A i \in 1 .. m : Span(P[i]) = Size(n, m, i)
    <3> TAKE i \in 1 .. m
    <3>1. P[i].flags \in {{"ACK"}, {"ACK", "PSH"}} /\ Len(P[i].data) = Size(n, m, i) /\ Size(n, m, i) \in Nat
      BY <1>4, <1>5
    <3> QED
      BY <3>1 DEF Span
  <2>2. ASSUME NEW i \in 1 .. m + 1
        PROVE  Place(P, i, f) = IF i = m + 1 THEN f + n ELSE f + Offset(i)
    <3>1. CASE i = 1
      <4>1. Offset(1) = 0 /\ i # m + 1
        BY <1>5, <3>1, TcpAssumption DEF Offset
      <4> QED
        BY <1>1, <3>1, <4>1 DEF Place
    <3>2. CASE i # 1
      <4>1. PICK prev \in 1 .. m : i = prev + 1
        <5>1. i - 1 \in 1 .. m /\ i = (i - 1) + 1
          BY <1>5, <3>2
        <5> QED
          BY <5>1
      <4>2. PICK o \in Nat, l \in Nat : o = Offset(prev) /\ l = Size(n, m, prev)
        BY <1>5
      <4>3. Place(P, i, f) = (f + o) + l
        <5>1. i - 1 = prev /\ P[prev].seq = f + o /\ Span(P[prev]) = l
          BY <1>6, <2>1, <4>1, <4>2
        <5> QED
          BY <3>2, <5>1 DEF Place
      <4>4. o + l = IF prev = m THEN n ELSE Offset(i)
        BY <1>5, <4>1, <4>2
      <4>5. (f + o) + l = f + (o + l) /\ (prev = m <=> i = m + 1)
        BY <1>1, <1>5, <4>1, <4>2
      <4> QED
        BY <4>3, <4>4, <4>5
    <3> QED
      BY <3>1, <3>2
  <2>3. ASSUME NEW i \in 1 .. m
        PROVE  "RST" \notin P[i].flags /\ P[i].seq = Place(P, i, f)
    <3>1. i \in 1 .. m + 1 /\ i # m + 1
      BY <1>5
    <3> QED
      BY <1>4, <1>6, <2>2, <3>1
  <2>4. Place(P, m + 1, f) = f + n
    <3>1. m + 1 \in 1 .. m + 1
      BY <1>5
    <3> QED
      BY <2>2, <3>1
  <2> QED
    BY <1>4, <2>3, <2>4 DEF Chain
<1>14. SentOK(e, n, P, f)
  BY <1>1, <1>3, <1>13, <1>8, <1>9, <1>11, <1>b, <1>f, <1>k DEF SentOK
<1> QED
  BY <1>1, <1>4, <1>14

LEMMA SendStep ==
  ASSUME NEW e \in Hosts, NEW n \in Sizes[e], NoWrap, TcpInv, TypeOK', Send(e, n)
  PROVE  TcpInv'
<1>p. PICK p : p = Peer(e)
  OBVIOUS
<1>b. PICK b : b = tcb[e]
  OBVIOUS
<1>d. PICK d : d = tcb'[e]
  OBVIOUS
<1>0. PICK P \in Seq(Segments), f \in Nat : SentOK(e, n, P, f)
  BY SentPieces
<1>P. /\ f = FirstSeq[e] + 1 + wrote[e] /\ f = b.snd_nxt /\ f + n < SeqMod /\ n \in Nat
      /\ Transmit(chan, e, P)
      /\ tcb' = [tcb EXCEPT ![e] = [b EXCEPT !.rtq = @ \o P, !.snd_nxt = f + n]]
      /\ \A g \in Elems(P) :
           /\ g.flags \in {{"ACK"}, {"ACK", "PSH"}} /\ g.ack = b.rcv_nxt
           /\ g.data # <<>> /\ f <= g.seq /\ g.seq + Len(g.data) <= f + n
           /\ \A j \in 1 .. Len(g.data) : g.data[j] = g.seq - FirstSeq[e] - 1 + j
      /\ P \in Seq(Segments) /\ f \in Nat
  BY <1>0, <1>b DEF SentOK
<1>N. PICK N : N = Elems(P)
  OBVIOUS
<1>1. /\ p \in Hosts /\ p # e /\ Peer(p) = e /\ Hosts = {e, p} /\ TypeOK /\ HostOK(e)
      /\ b \in Blocks /\ tcb \in [Hosts -> Blocks] /\ chan \in [Hosts -> Seq(Segments)]
      /\ wrote[e] \in Nat /\ wrote \in [Hosts -> Nat]
  <2>1. p \in Hosts /\ p # e /\ Peer(p) = e /\ Hosts = {e, p}
    BY <1>p, PeerType
  <2>2. TypeOK /\ HostOK(e)
    BY DEF TcpInv
  <2> QED
    BY <1>b, <2>1, <2>2 DEF TypeOK
<1>2. /\ wrote'[e] = wrote[e] + n /\ wrote'[p] = wrote[p] /\ nextSeq' = nextSeq
      /\ stream' = stream /\ closing' = closing /\ late' = late
      /\ HasEndpoint(e) /\ b.state \in {"ESTABLISHED", "CLOSE_WAIT"}
  BY <1>1, <1>b DEF Send
<1>3. d = [b EXCEPT !.rtq = @ \o P, !.snd_nxt = f + n] /\ tcb'[p] = tcb[p]
  BY <1>1, <1>P, <1>d
<1>4. /\ d.rtq = b.rtq \o P /\ d.snd_nxt = f + n /\ d.state = b.state /\ d.rcv_nxt = b.rcv_nxt
      /\ d.iss = b.iss /\ d.irs = b.irs /\ d.snd_una = b.snd_una /\ d.freeing = b.freeing
      /\ d.waiting = b.waiting /\ d.endpoint = b.endpoint /\ d.fin_seq = b.fin_seq
  BY <1>1, <1>3 DEF Blocks
<1>5. b.iss = FirstSeq[e] /\ e \notin closing /\ ClientOpen /\ Top(e) = f
  BY <1>2, <1>b, <1>P, InUse
<1>6. ClientOpen'
  <2>1. CASE e = Client
    BY <1>2, <1>4, <1>5, <1>b, <1>d, <2>1 DEF ClientOpen
  <2>2. CASE e # Client
    <3>1. p = Client
      BY <1>p, <2>2 DEF Peer
    <3> QED
      BY <1>2, <1>3, <1>5, <3>1 DEF ClientOpen
  <2> QED
    BY <2>1, <2>2
<1>7. Acts(e)
  BY <1>1, <1>2, <1>3, <1>5, <1>6, <1>p, <1>P DEF Acts
<1>8. N \in SUBSET Segments
  BY <1>N, <1>P, ElementOfSeq DEF Elems
<1>9. To(e)' \subseteq To(e) /\ To(Peer(e))' \subseteq To(Peer(e)) \cup N
  <2>2. /\ tcb'[Peer(e)] = tcb[Peer(e)] /\ late'[Peer(e)] = late[Peer(e)]
        /\ late'[e] \subseteq late[e]
    BY <1>2, <1>3, <1>p
  <2>3. To(e)' \subseteq To(e) /\ To(Peer(e))' \subseteq To(Peer(e)) \cup Elems(P)
    BY <1>1, <1>P, <2>2, Sends
  <2> QED
    BY <1>N, <2>3
<1>10. FirstSeq[e] \in Nat /\ Top(e)' = f + n /\ Top(p)' = Top(p) /\ f = FirstSeq[e] + 1 + wrote[e]
  <2>1. FirstSeq[e] \in Nat /\ e \notin closing' /\ f = FirstSeq[e] + 1 + wrote[e]
    BY <1>2, <1>5, <1>P, Small
  <2>2. Top(e)' = FirstSeq[e] + 1 + (wrote[e] + n) + 0
    BY <1>2, <2>1 DEF Top
  <2>3. f + n = FirstSeq[e] + 1 + (wrote[e] + n) + 0
    BY <1>1, <1>P, <2>1
  <2>4. Top(p)' = Top(p)
    BY <1>2 DEF Top
  <2> QED
    BY <2>1, <2>2, <2>3, <2>4
<1>11. b.state \in Live /\ FirstSeq[p] < b.rcv_nxt /\ b.rcv_nxt <= Top(p)
  <2>1. b.state \in Live
    BY <1>2 DEF Live, Synchronized
  <2> QED
    BY <1>b, <1>p, <2>1, Up
<1>12. ASSUME NEW g \in N
       PROVE  SegmentOK(p, g)'
  <2>1. /\ g.flags \in {{"ACK"}, {"ACK", "PSH"}} /\ g.ack = b.rcv_nxt /\ g.data # <<>>
        /\ f <= g.seq /\ g.seq + Len(g.data) <= f + n
        /\ \A j \in 1 .. Len(g.data) : g.data[j] = g.seq - FirstSeq[e] - 1 + j
    BY <1>N, <1>P
  <2>2. g.seq \in Nat /\ Len(g.data) \in Nat
    BY <1>8 DEF Segments, Numbers
  <2>3. FirstSeq[e] < g.seq /\ g.seq + Len(g.data) <= FirstSeq[e] + 1 + wrote'[e]
    <3>1. FirstSeq[e] + 1 + wrote'[e] = f + n
      BY <1>1, <1>2, <1>10, <1>P
    <3>2. FirstSeq[e] < f
      BY <1>1, <1>10
    <3> QED
      BY <1>10, <1>P, <2>1, <2>2, <3>1, <3>2
  <2>4. ShapeOK(p, g)' /\ EndsOK(p, g)'
    BY <1>1, <2>1, <2>3 DEF ShapeOK, EndsOK
  <2>5. AckOK(p, g)'
    BY <1>1, <1>6, <1>10, <1>11, <2>1, <2>3 DEF AckOK
  <2> QED
    BY <2>4, <2>5 DEF SegmentOK
<1>13. nextSeq'[Client] # FirstSeq[Client]
  BY <1>6 DEF ClientOpen
<1>14. SegmentsInv' /\ HostOK(p)'
  <2>1. \A g \in N : SegmentOK(Peer(e), g)'
    BY <1>12, <1>p
  <2>2. SegmentsInv' /\ HostOK(Peer(e))'
    BY <1>7, <1>8, <1>9, <1>13, <2>1, Gather
  <2> QED
    BY <1>p, <2>2
<1>16. QueueOK(e)'
  <2>1. Elems(d.rtq) \subseteq Elems(b.rtq) \cup N
    <3>1. b.rtq \in Seq(Segments)
      BY <1>1 DEF Blocks
    <3> QED
      BY <1>4, <1>N, <1>P, <3>1, ConcatElems
  <2>2. \A g \in Elems(b.rtq) : g \in Segments /\ g.seq + Len(g.data) <= f
    <3>1. \A g \in Elems(b.rtq) : g.seq + Len(g.data) <= f
      BY <1>1, <1>2, <1>5, <1>10, <1>b DEF HostOK, QueueOK
    <3>2. b.rtq \in Seq(Segments)
      BY <1>1 DEF Blocks
    <3> QED
      BY <3>1, <3>2, ElementOfSeq DEF Elems
  <2>3. FirstSeq[e] + 1 + wrote'[e] = f + n
    BY <1>1, <1>2, <1>10, <1>P
  <2>4. ASSUME NEW g \in Elems(d.rtq)
        PROVE  g.seq + Len(g.data) <= f + n
    <3>1. CASE g \in N
      BY <1>N, <1>P, <3>1
    <3>2. CASE g \in Elems(b.rtq)
      <4>1. g.seq \in Nat /\ Len(g.data) \in Nat /\ g.seq + Len(g.data) <= f
        BY <2>2, <3>2 DEF Segments, Numbers
      <4>2. PICK a \in Nat, k \in Nat : a = g.seq /\ k = Len(g.data) /\ a + k <= f
        BY <4>1
      <4>3. a + k <= f + n
        BY <1>P, <4>2
      <4> QED
        BY <4>2, <4>3
    <3> QED
      BY <2>1, <3>1, <3>2
  <2>5. d.state \notin FinSent
    BY <1>2, <1>4 DEF FinSent
  <2> QED
    BY <1>d, <2>3, <2>4, <2>5 DEF QueueOK, FinSent
<1>15. HostOK(e)'
  <2>1. GoneOK(e)' /\ AgainOK(e)'
    BY <1>2, <1>4, <1>5, <1>d DEF GoneOK, AgainOK
  <2>2. FirstOK(e)'
    BY <1>1, <1>2, <1>4, <1>5, <1>b, <1>d DEF HostOK, FirstOK
  <2>3. LiveOK(e)'
    BY <1>1, <1>2, <1>4, <1>5, <1>10, <1>11, <1>b, <1>d, <1>p DEF HostOK, LiveOK
  <2>4. StreamOK(e)'
    BY <1>1, <1>2, <1>6, <1>p DEF HostOK, StreamOK
  <2> QED
    BY <1>16, <2>1, <2>2, <2>3, <2>4 DEF HostOK
<1> QED
  BY <1>1, <1>14, <1>15 DEF TcpInv

----------------------------------------------------------------------------
LEMMA InvInit == NoWrap /\ Init => TcpInv
<1> SUFFICES ASSUME NoWrap, Init PROVE TcpInv
  OBVIOUS
<1>1. TypeOK
  BY TypeInit
<1>2. \A e \in Hosts : /\ tcb[e] = NoBlock /\ nextSeq[e] = FirstSeq[e] /\ stream[e] = <<>>
                       /\ wrote[e] = 0 /\ chan[e] = <<>> /\ late[e] = {}
  BY TcpAssumption DEF Init
<1>3. closing = {}
  BY DEF Init
<1>4. /\ NoBlock.state = "NONE" /\ NoBlock.rtq = <<>> /\ NoBlock.rcv_nxt = 0
      /\ NoBlock.endpoint = FALSE
  BY DEF NoBlock
<1>5. \A e \in Hosts : To(e) = {}
  <2>1. Elems(<<>>) = {}
    BY EmptySeq DEF Elems
  <2> QED
    BY <1>2, <1>4, <2>1, PeerType DEF To
<1>6. SegmentsInv
  BY <1>5 DEF SegmentsInv
<1>7. ASSUME NEW e \in Hosts
      PROVE  HostOK(e)
  <2>1. GoneOK(e) /\ FirstOK(e) /\ AgainOK(e) /\ QueueOK(e)
    BY <1>2, <1>3, <1>4 DEF GoneOK, FirstOK, AgainOK, QueueOK
  <2>2. LiveOK(e)
    <3>1. Peer(e) \in Hosts /\ 0 <= Top(Peer(e))
      BY <1>1, PeerType, TopType
    <3>2. "NONE" \notin Live
      BY DEF Live, Synchronized
    <3> QED
      BY <1>2, <1>4, <3>1, <3>2 DEF LiveOK
  <2>3. StreamOK(e)
    <3>1. Len(<<>>) = 0 /\ wrote[Peer(e)] = 0
      BY <1>2, PeerType, EmptySeq
    <3> QED
      BY <1>2, <1>3, <1>4, <3>1 DEF StreamOK
  <2> QED
    BY <2>1, <2>2, <2>3 DEF HostOK
<1> QED
  BY <1>1, <1>6, <1>7 DEF TcpInv

LEMMA InvStep == NoWrap /\ TcpInv /\ [Next]_vars => TcpInv'
<1> SUFFICES ASSUME NoWrap, TcpInv, [Next]_vars PROVE TcpInv'
  OBVIOUS
<1>1. TypeOK'
  BY TypeStep DEF TcpInv
<1>2. CASE UNCHANGED vars
  <2>1. SegmentsInv'
    <3>1. /\ tcb' = tcb /\ nextSeq' = nextSeq /\ wrote' = wrote /\ closing' = closing
          /\ chan' = chan /\ late' = late
      BY <1>2 DEF vars
    <3>2. ClientOpen' = ClientOpen /\ \A e : To(e)' = To(e) /\ Top(e)' = Top(e)
      BY <3>1 DEF ClientOpen, To, Top
    <3>3. ASSUME NEW e \in Hosts, NEW g \in To(e)
          PROVE  SegmentOK(e, g)' <=> SegmentOK(e, g)
      BY <3>1, <3>2 DEF SegmentOK, ShapeOK, EndsOK, AckOK
    <3> QED
      BY <3>1, <3>2, <3>3 DEF TcpInv, SegmentsInv
  <2>2. \A e \in Hosts : HostOK(e)'
    BY <1>2, HostSame DEF vars, TcpInv
  <2> QED
    BY <1>1, <2>1, <2>2 DEF TcpInv
<1>3. CASE Next
  BY <1>1, <1>3, ConnectStep, SendStep, CloseStep, CloseEarlyStep, ReceiveBoth, ExpiresStep,
     RemoveStep, NetworkStep DEF Next
<1> QED
  BY <1>2, <1>3

\* Where no number wraps, the invariant holds of every state that is reached.
LEMMA TcpInvariant == ASSUME NoWrap PROVE Spec => []TcpInv
<1>1. Init => TcpInv
  BY InvInit
<1>2. TcpInv /\ [Next]_vars => TcpInv'
  BY InvStep
<1> QED
  BY <1>1, <1>2, PTL DEF Spec

----------------------------------------------------------------------------
\* A user gets the bytes the other one sent, in their order and none twice, whatever the
\* network loses, copies, delays or brings back: receive deposits a payload only if it is at
\* rcv_nxt, and what is there is what was sent under that number.
THEOREM TcpReceivedInOrder == ASSUME NoWrap PROVE Spec => []ReceivedInOrder
<1>1. TcpInv => ReceivedInOrder
  BY DEF TcpInv, HostOK, StreamOK, ReceivedInOrder
<1> QED
  BY <1>1, TcpInvariant, PTL

\* Where an endpoint comes from: the server's first block, and an ACK that the client has
\* sent.
LEMMA EndpointGiven ==
  ASSUME NoWrap, TcpInv, Next, ~tcb[Server].endpoint, tcb'[Server].endpoint
  PROVE  tcb[Client].state # "NONE" /\ tcb[Client].irs = tcb[Server].iss
<1>1. /\ Server \in Hosts /\ Client \in Hosts /\ Client # Server /\ tcb \in [Hosts -> Blocks]
      /\ tcb[Server] \in Blocks /\ HostOK(Server) /\ TypeOK
  BY TcpAssumption DEF Hosts, TcpInv, TypeOK
<1>2. ~NoBlock.endpoint
  BY DEF NoBlock
<1>3. \A e \in Hosts : tcb[e].endpoint => e # Server
  OBVIOUS
<1>4. CASE Connect
  BY <1>1, <1>4 DEF Connect
<1>5. ASSUME NEW e \in Hosts, (\E n \in Sizes[e] : Send(e, n)) \/ Close(e) \/ CloseEarly(e)
      PROVE  FALSE
  <2>1. e # Server
    BY <1>3, <1>5 DEF Send, Close, CloseEarly, HasEndpoint
  <2>2. tcb'[Server] = tcb[Server]
    BY <1>1, <1>5, <2>1 DEF Send, Close, CloseEarly
  <2> QED
    BY <2>2
<1>6. ASSUME NEW e \in Hosts, TimeWaitExpires(e) \/ RemoveConn(e) \/ Stray(e) \/ Copy(e)
      PROVE  FALSE
  <2>1. CASE RemoveConn(e)
    BY <1>1, <1>2, <2>1 DEF RemoveConn
  <2>2. CASE Stray(e) \/ Copy(e)
    BY <2>2 DEF Stray, Copy
  <2>3. CASE TimeWaitExpires(e)
    <3>1. \E d \in {[tcb[e] EXCEPT !.waiting = FALSE],
                    [tcb[e] EXCEPT !.waiting = FALSE, !.state = "CLOSED", !.freeing = TRUE]} :
            tcb' = [tcb EXCEPT ![e] = d]
      BY <2>3 DEF TimeWaitExpires
    <3>2. tcb[e] \in Blocks
      BY <1>1
    <3>3. tcb'[e].endpoint = tcb[e].endpoint /\ (e # Server => tcb'[Server] = tcb[Server])
      BY <1>1, <3>1, <3>2 DEF Blocks
    <3> QED
      BY <3>3
  <2> QED
    BY <1>6, <2>1, <2>2, <2>3
<1>7. ASSUME NEW e \in Hosts, Receive(e) \/ ReceiveLate(e)
      PROVE  tcb[Client].state # "NONE" /\ tcb[Client].irs = tcb[Server].iss
  <2>1. PICK s, c : Arrives(e, s, c) /\ ReceiveAny(e, s, c)
    BY <1>1, <1>7, Arrival
  <2>2. e = Server
    <3>1. e # Server => tcb'[Server] = tcb[Server]
      BY <1>1, <2>1 DEF ReceiveAny, ReceiveClosed, ReceiveListen, ReceiveListenOther,
                        ReceiveSynSent, ReceiveRefused, ReceiveReset, ReceiveSegment,
                        ReceiveTimeWait
    <3> QED
      BY <3>1
  <2>3. ReceiveSegment(e, s, c)
    <3>1. ~(ReceiveClosed(e, s, c) \/ ReceiveListenOther(e, s, c) \/ ReceiveRefused(e, s, c))
      BY DEF ReceiveClosed, ReceiveListenOther, ReceiveRefused
    <3>2. ~ReceiveListen(e, s, c)
      <4> SUFFICES ASSUME ReceiveListen(e, s, c) PROVE ~tcb'[e].endpoint
        BY <2>2
      <4>1. PICK d : /\ d = [NoBlock EXCEPT !.state = "SYN_RECEIVED", !.iss = nextSeq[e],
                                 !.snd_nxt = Plus(nextSeq[e], 1), !.snd_una = nextSeq[e],
                                 !.irs = s.seq, !.rcv_nxt = Plus(s.seq, 1)]
                     /\ tcb' = [tcb EXCEPT ![e] = d]
        BY DEF ReceiveListen
      <4>2. d.endpoint = FALSE
        BY <4>1 DEF NoBlock
      <4> QED
        BY <1>1, <2>2, <4>1, <4>2
    <3>3. ~ReceiveSynSent(e, s, c)
      BY <1>1, <2>2 DEF ReceiveSynSent, HostOK, FirstOK, AgainOK
    <3>4. ~ReceiveReset(e, s, c)
      <4>1. PICK f \in BOOLEAN : f <=> tcb[e].state \in {"LAST_ACK", "CLOSING"}
        OBVIOUS
      <4>2. ReceiveReset(e, s, c) => tcb'[e] = [tcb[e] EXCEPT !.state = "CLOSED", !.freeing = f]
        BY <1>1, <4>1 DEF ReceiveReset
      <4> QED
        BY <1>1, <2>2, <4>1, <4>2 DEF Blocks
    <3>5. ~ReceiveTimeWait(e, s, c)
      BY <1>1, <2>2 DEF ReceiveTimeWait, Blocks
    <3> QED
      BY <2>1, <3>1, <3>2, <3>3, <3>4, <3>5 DEF ReceiveAny
  <2>4. PICK b, w : Handled(e, s, c, b, w)
    BY <2>1, <2>3, Handling
  <2>5. /\ b.state = tcb[e].state /\ (b.endpoint <=> tcb[e].endpoint)
        /\ (tcb'[e].endpoint <=> w.b.endpoint) /\ b.state \in Live /\ IsAck(s)
        /\ "SYN" \notin s.flags /\ s \in To(e) /\ b.state # "NONE"
    BY <2>1, <2>4 DEF Handled, Arrives, Live, Synchronized
  <2>6. tcb[e].iss = FirstSeq[e]
    <3> SUFFICES ASSUME tcb[e].iss # FirstSeq[e] PROVE FALSE
      OBVIOUS
    <3>1. ~tcb'[e].endpoint
      BY <2>1, <2>4, <2>5, AgainHandled DEF AgainResult
    <3> QED
      BY <2>2, <3>1
  <2>7. SegmentResult(b, s, w)
    BY <2>1, <2>4, <2>6, FirstHandled
  <2>8. tcb[e].state = "SYN_RECEIVED"
    BY <2>2, <2>5, <2>7 DEF SegmentResult
  <2>9. Server \notin closing
    BY <1>1, <2>2, <2>6, <2>8 DEF HostOK, FirstOK
  <2>10. ClientOpen
    BY <2>2, <2>5, Taken
  <2> QED
    BY <2>2, <2>6, <2>9, <2>10 DEF ClientOpen
<1> QED
  BY <1>4, <1>5, <1>6, <1>7 DEF Next

\* The server gives a connection to accept only while the client has a block that has taken
\* the SYN of this block: copies of an old SYN and of old ACKs do not make up a connection,
\* since their ACK is below the ISS of the block that the SYN makes.
THEOREM TcpAcceptedIsWanted == ASSUME NoWrap PROVE Spec => AcceptedIsWanted
<1> DEFINE Step == ~tcb[Server].endpoint /\ tcb'[Server].endpoint
                     => tcb[Client].state # "NONE" /\ tcb[Client].irs = tcb[Server].iss
<1>1. TcpInv /\ [Next]_vars => [Step]_vars
  BY EndpointGiven
<1>2. AcceptedIsWanted <=> [][Step]_vars
  BY DEF AcceptedIsWanted
<1> HIDE DEF Step
<1>3. Spec => [][Step]_vars
  BY <1>1, TcpInvariant, PTL DEF Spec
<1> QED
  BY <1>2, <1>3

----------------------------------------------------------------------------
(***************************************************************************)
(* What a network in order brings.  As long as nothing is late, what is on *)
(* its way to a host is all that was sent and not received, in order: the  *)
(* next segment begins at RCV_NXT, each begins where the one before ends,  *)
(* and the last ends where the sender is.  After a FIN only ACKs and RSTs  *)
(* come.  The shadow streams have room, so that all of a segment is taken, *)
(* and a segment with data advertises a window.                            *)
(***************************************************************************)

\* e has seen the FIN, or is done; e has not seen the SYN.
Ended(e) ==
  \/ tcb[e].state \in FinSeen \cup {"CLOSED"}
  \/ tcb[e].state = "NONE" /\ nextSeq[e] # FirstSeq[e]

Unopened(e) ==
  \/ tcb[e].state = "SYN_SENT"
  \/ tcb[e].state = "NONE" /\ nextSeq[e] = FirstSeq[e]

LEMMA ChainPop ==
  ASSUME NEW q \in Seq(Segments), q # <<>>, NEW x, NEW y, Chain(q, x, y)
  PROVE  /\ Head(q).seq = x /\ "RST" \notin Head(q).flags
         /\ "FIN" \notin Head(q).flags =>
              /\ Chain(Tail(q), x + Span(Head(q)), y) /\ (NoFin(Tail(q)) <=> NoFin(q))
<1>t. PICK t : t = Tail(q)
  OBVIOUS
<1>n. PICK n : n = Len(q)
  OBVIOUS
<1>1. /\ n \in Nat \ {0} /\ Len(t) = n - 1 /\ Head(q) = q[1]
      /\ \A j \in 1 .. n - 1 : t[j] = q[j + 1]
  BY <1>t, <1>n, TailLemma
<1>2. q[1].seq = x /\ "RST" \notin q[1].flags
  <2>1. 1 \in 1 .. n /\ \A j \in 1 .. 1 - 1 : FALSE
    BY <1>1
  <2> QED
    BY <1>n, <2>1 DEF Chain, Place
<1>3. ASSUME "FIN" \notin q[1].flags
      PROVE  Chain(t, x + Span(q[1]), y) /\ (NoFin(t) <=> NoFin(q))
  <2>1. NoFin(t) <=> NoFin(q)
    <3>1. ASSUME NoFin(t), NEW i \in 1 .. n
          PROVE  "FIN" \notin q[i].flags
      <4>1. CASE i = 1
        BY <1>3, <4>1
      <4>2. CASE i # 1
        <5>1. i - 1 \in 1 .. n - 1 /\ (i - 1) + 1 = i
          BY <1>1, <4>2
        <5>2. t[i - 1] = q[i]
          BY <1>1, <5>1
        <5> QED
          BY <1>1, <3>1, <5>1, <5>2 DEF NoFin
      <4> QED
        BY <4>1, <4>2
    <3>2. ASSUME NoFin(q), NEW i \in 1 .. n - 1
          PROVE  "FIN" \notin t[i].flags
      <4>1. t[i] = q[i + 1] /\ i + 1 \in 1 .. n
        BY <1>1
      <4> QED
        BY <1>n, <3>2, <4>1 DEF NoFin
    <3> QED
      BY <1>1, <1>n, <3>1, <3>2 DEF NoFin
  <2>2. ASSUME NEW i \in 1 .. n
        PROVE  Place(t, i, x + Span(q[1])) = Place(q, i + 1, x)
    <3>1. CASE i = 1
      BY <1>2, <3>1 DEF Place
    <3>2. CASE i # 1
      <4>1. i - 1 \in 1 .. n - 1 /\ (i - 1) + 1 = i /\ (i + 1) - 1 = i /\ i + 1 # 1
        BY <1>1, <3>2
      <4>2. t[i - 1] = q[i]
        BY <1>1, <4>1
      <4> QED
        BY <3>2, <4>1, <4>2 DEF Place
    <3> QED
      BY <3>1, <3>2
  <2>3. ASSUME NEW i \in 1 .. n - 1, \A j \in 1 .. i - 1 : "FIN" \notin t[j].flags
        PROVE  "RST" \notin t[i].flags /\ t[i].seq = Place(t, i, x + Span(q[1]))
    <3>1. i \in 1 .. n /\ i + 1 \in 1 .. n /\ t[i] = q[i + 1]
      BY <1>1
    <3>2. ASSUME NEW j \in 1 .. (i + 1) - 1
          PROVE  "FIN" \notin q[j].flags
      <4>1. CASE j = 1
        BY <1>3, <4>1
      <4>2. CASE j # 1
        <5>1. j - 1 \in 1 .. i - 1 /\ j - 1 \in 1 .. n - 1 /\ (j - 1) + 1 = j
          BY <1>1, <4>2
        <5> QED
          BY <1>1, <2>3, <5>1
      <4> QED
        BY <4>1, <4>2
    <3>3. "RST" \notin q[i + 1].flags /\ q[i + 1].seq = Place(q, i + 1, x)
      BY <1>n, <3>1, <3>2 DEF Chain
    <3> QED
      BY <2>2, <3>1, <3>3
  <2>4. NoFin(t) => y = Place(t, Len(t) + 1, x + Span(q[1]))
    <3>1. Len(t) + 1 = n /\ n \in 1 .. n
      BY <1>1
    <3>2. NoFin(q) => y = Place(q, n + 1, x)
      BY <1>n DEF Chain
    <3> QED
      BY <2>1, <2>2, <3>1, <3>2
  <2> QED
    BY <1>1, <2>1, <2>3, <2>4 DEF Chain
<1> QED
  BY <1>1, <1>2, <1>3, <1>t

LEMMA ChainConcat ==
  ASSUME NEW q \in Seq(Segments), NEW r \in Seq(Segments), NEW x, NEW y, NEW z, Chain(q, x, y),
         NoFin(q) => Chain(r, y, z)
  PROVE  Chain(q \o r, x, z) /\ (NoFin(q \o r) => NoFin(q) /\ NoFin(r))
<1>t. PICK t : t = q \o r
  OBVIOUS
<1>n. PICK n \in Nat, m \in Nat : n = Len(q) /\ m = Len(r)
  BY LenProperties
<1>1. /\ Len(t) = n + m
      /\ \A i \in 1 .. n + m : t[i] = IF i <= n THEN q[i] ELSE r[i - n]
  BY <1>t, <1>n, ConcatProperties
<1>2. (\A i \in 1 .. n : t[i] = q[i]) /\ (\A i \in 1 .. m : t[n + i] = r[i])
  <2>1. ASSUME NEW i \in 1 .. n
        PROVE  t[i] = q[i]
    BY <1>1
  <2>2. ASSUME NEW i \in 1 .. m
        PROVE  t[n + i] = r[i]
    <3>1. n + i \in 1 .. n + m /\ ~(n + i <= n) /\ (n + i) - n = i
      OBVIOUS
    <3> QED
      BY <1>1, <3>1
  <2> QED
    BY <2>1, <2>2
<1>3. NoFin(t) => NoFin(q) /\ NoFin(r)
  <2>1. ASSUME NoFin(t), NEW i \in 1 .. n
        PROVE  "FIN" \notin q[i].flags
    <3>1. i \in 1 .. Len(t)
      BY <1>1
    <3> QED
      BY <1>2, <2>1, <3>1 DEF NoFin
  <2>2. ASSUME NoFin(t), NEW i \in 1 .. m
        PROVE  "FIN" \notin r[i].flags
    <3>1. n + i \in 1 .. Len(t)
      BY <1>1
    <3> QED
      BY <1>2, <2>2, <3>1 DEF NoFin
  <2> QED
    BY <1>n, <2>1, <2>2 DEF NoFin
<1>4. \A i \in 1 .. n + 1 : Place(t, i, x) = Place(q, i, x)
  <2> TAKE i \in 1 .. n + 1
  <2>1. CASE i = 1
    BY <2>1 DEF Place
  <2>2. CASE i # 1
    <3>1. i - 1 \in 1 .. n
      BY <2>2
    <3> QED
      BY <1>2, <2>2, <3>1 DEF Place
  <2> QED
    BY <2>1, <2>2
<1>5. NoFin(q) => \A i \in 1 .. m + 1 : Place(t, n + i, x) = Place(r, i, y)
  <2> SUFFICES ASSUME NoFin(q), NEW i \in 1 .. m + 1 PROVE Place(t, n + i, x) = Place(r, i, y)
    OBVIOUS
  <2>1. CASE i = 1
    <3>1. y = Place(q, n + 1, x) /\ n + 1 \in 1 .. n + 1
      BY <1>n DEF Chain
    <3>2. Place(t, n + 1, x) = y
      BY <1>4, <3>1
    <3> QED
      BY <2>1, <3>2 DEF Place
  <2>2. CASE i # 1
    <3>1. i - 1 \in 1 .. m /\ n + (i - 1) = (n + i) - 1 /\ n + i # 1
      BY <2>2
    <3>2. t[(n + i) - 1] = r[i - 1]
      BY <1>2, <3>1
    <3> QED
      BY <2>2, <3>1, <3>2 DEF Place
  <2> QED
    BY <2>1, <2>2
<1>6. ASSUME NEW i \in 1 .. Len(t), \A j \in 1 .. i - 1 : "FIN" \notin t[j].flags
      PROVE  "RST" \notin t[i].flags /\ t[i].seq = Place(t, i, x)
  <2>1. CASE i <= n
    <3>1. i \in 1 .. n /\ i \in 1 .. n + 1
      BY <1>1, <2>1
    <3>2. \A j \in 1 .. i - 1 : j \in 1 .. n /\ "FIN" \notin q[j].flags
      BY <1>2, <1>6, <3>1
    <3>3. "RST" \notin q[i].flags /\ q[i].seq = Place(q, i, x)
      BY <1>n, <3>1, <3>2 DEF Chain
    <3> QED
      BY <1>2, <1>4, <3>1, <3>3
  <2>2. CASE ~(i <= n)
    <3>1. PICK k \in 1 .. m : i = n + k
      <4>1. i - n \in 1 .. m /\ i = n + (i - n)
        BY <1>1, <2>2
      <4> QED
        BY <4>1
    <3>2. \A j \in 1 .. n : "FIN" \notin q[j].flags
      <4> TAKE j \in 1 .. n
      <4>1. j \in 1 .. i - 1
        BY <3>1
      <4> QED
        BY <1>2, <1>6, <4>1
    <3>3. \A j \in 1 .. k - 1 : "FIN" \notin r[j].flags
      <4> TAKE j \in 1 .. k - 1
      <4>1. n + j \in 1 .. i - 1 /\ j \in 1 .. m
        BY <3>1
      <4> QED
        BY <1>2, <1>6, <4>1
    <3>4. NoFin(q) /\ k \in 1 .. Len(r) /\ k \in 1 .. m + 1
      BY <1>n, <3>1, <3>2 DEF NoFin
    <3>5. "RST" \notin r[k].flags /\ r[k].seq = Place(r, k, y)
      BY <3>3, <3>4 DEF Chain
    <3>6. t[i] = r[k] /\ Place(t, i, x) = Place(r, k, y)
      BY <1>2, <1>5, <3>1, <3>4
    <3> QED
      BY <3>5, <3>6
  <2> QED
    BY <2>1, <2>2
<1>7. NoFin(t) => z = Place(t, Len(t) + 1, x)
  <2> SUFFICES ASSUME NoFin(t) PROVE z = Place(t, Len(t) + 1, x)
    OBVIOUS
  <2>1. m + 1 \in 1 .. m + 1 /\ Len(t) + 1 = n + (m + 1)
    BY <1>1
  <2>2. z = Place(r, m + 1, y)
    BY <1>3, <1>n DEF Chain
  <2> QED
    BY <1>3, <1>5, <2>1, <2>2
<1> QED
  BY <1>3, <1>6, <1>7, <1>t DEF Chain

LEMMA ChainEmpty ==
  ASSUME NEW x
  PROVE  Chain(<<>>, x, x) /\ NoFin(<<>>)
<1>1. Len(<<>>) = 0
  BY EmptySeq
<1> QED
  BY <1>1 DEF Chain, NoFin, Place

LEMMA ChainOne ==
  ASSUME NEW g \in Segments, NEW y, "RST" \notin g.flags,
         "FIN" \notin g.flags => y = g.seq + Span(g)
  PROVE  Chain(<<g>>, g.seq, y)
<1>1. Len(<<g>>) = 1 /\ <<g>>[1] = g
  OBVIOUS
<1>2. \A i \in 1 .. 1 : i = 1
  OBVIOUS
<1>3. 1 \in 1 .. 1 /\ 1 + 1 # 1 /\ (1 + 1) - 1 = 1
  OBVIOUS
<1> QED
  BY <1>1, <1>2, <1>3 DEF Chain, NoFin, Place

----------------------------------------------------------------------------
\* The number e takes next, and the one it sends next.
Expect(e) == IF Unopened(e) THEN FirstSeq[Peer(e)] ELSE tcb[e].rcv_nxt
Sent(e) == IF nextSeq[e] = FirstSeq[e] THEN FirstSeq[e] ELSE Top(e)

\* The way to e.  An end that is done has got everything.
WayOK(e) ==
  /\ Ended(e) => /\ Peer(e) \in closing /\ Len(stream[e]) = wrote[Peer(e)]
                 /\ tcb[e].state \notin FinSeen => e \in closing
  /\ ~Ended(e) => /\ Chain(chan[e], Expect(e), Sent(Peer(e)))
                  /\ Peer(e) \in closing => ~NoFin(chan[e])
  /\ \A i \in 1 .. Len(chan[e]) :
       /\ "RST" \in chan[e][i].flags => e \in closing
       /\ "SYN" \in chan[e][i].flags => i = 1 /\ Unopened(e)
       /\ chan[e][i].data # <<>> => chan[e][i].wnd > 0

\* Each SYN comes once, and makes the only block of its host, which has room.
OnceOK ==
  /\ \A e \in Hosts : /\ late[e] = {} /\ tcb[e].shadow < StreamSize
                      /\ tcb[e].state # "NONE" => tcb[e].iss = FirstSeq[e]
  /\ nextSeq[Server] = FirstSeq[Server] => chan[Client] = <<>> /\ Unopened(Client)
  /\ nextSeq[Client] = FirstSeq[Client] => nextSeq[Server] = FirstSeq[Server]

CleanOK == OnceOK /\ \A e \in Hosts : WayOK(e)

CleanInv == Clean => CleanOK

\* What e may send, P, for the way to the other host to stay right.
LEMMA OtherWay ==
  ASSUME NEW e \in Hosts, NEW P \in Seq(Segments), TypeOK, WayOK(Peer(e)),
         chan'[Peer(e)] = chan[Peer(e)] \o P, tcb'[Peer(e)] = tcb[Peer(e)],
         nextSeq'[Peer(e)] = nextSeq[Peer(e)], stream'[Peer(e)] = stream[Peer(e)],
         Ended(Peer(e)) => e \in closing' /\ wrote'[e] = wrote[e],
         Peer(e) \in closing => Peer(e) \in closing',
         e \in closing' => e \in closing \/ ~NoFin(P),
         e \in closing \/ Chain(P, Sent(e), Sent(e)'),
         \A i \in 1 .. Len(P) :
           /\ "RST" \in P[i].flags => Peer(e) \in closing'
           /\ "SYN" \in P[i].flags => i = 1 /\ chan[Peer(e)] = <<>> /\ Unopened(Peer(e))
           /\ P[i].data # <<>> => P[i].wnd > 0
  PROVE  WayOK(Peer(e))'
<1>p. PICK p : p = Peer(e)
  OBVIOUS
<1>q. PICK q : q = chan[p]
  OBVIOUS
<1>t. PICK t : t = chan'[p]
  OBVIOUS
<1>n. PICK n \in Nat, m \in Nat : n = Len(q) /\ m = Len(P)
  BY <1>p, <1>q, PeerType, LenProperties DEF TypeOK
<1>1. p \in Hosts /\ Peer(p) = e /\ q \in Seq(Segments) /\ t = q \o P
  BY <1>p, <1>q, <1>t, PeerType DEF TypeOK
<1>2. /\ Ended(p)' <=> Ended(p)
      /\ Unopened(p)' <=> Unopened(p)
      /\ Expect(p)' = Expect(p) /\ tcb'[p].state = tcb[p].state
  <2>1. tcb'[p] = tcb[p] /\ nextSeq'[p] = nextSeq[p]
    BY <1>p
  <2>2. Unopened(p)' <=> Unopened(p)
    BY <2>1 DEF Unopened
  <2> QED
    BY <2>1, <2>2 DEF Ended, Expect
<1>3. ASSUME Ended(p)
      PROVE  /\ e \in closing' /\ Len(stream'[p]) = wrote'[e]
             /\ tcb'[p].state \notin FinSeen => p \in closing'
  BY <1>1, <1>2, <1>3, <1>p DEF WayOK
<1>4. ASSUME ~Ended(p)
      PROVE  Chain(t, Expect(p), Sent(e)') /\ (e \in closing' => ~NoFin(t))
  <2>1. Chain(q, Expect(p), Sent(e)) /\ (e \in closing => ~NoFin(q))
    BY <1>1, <1>4, <1>p, <1>q DEF WayOK
  <2>2. NoFin(q) => Chain(P, Sent(e), Sent(e)')
    BY <2>1
  <2>3. PICK x, y, z : x = Expect(p) /\ y = Sent(e) /\ z = Sent(e)'
    OBVIOUS
  <2>4. Chain(q, x, y) /\ (NoFin(q) => Chain(P, y, z))
    BY <2>1, <2>2, <2>3
  <2>5. Chain(q \o P, x, z) /\ (NoFin(q \o P) => NoFin(q) /\ NoFin(P))
    BY <1>1, <2>4, ChainConcat
  <2> QED
    BY <1>1, <2>1, <2>3, <2>5
<1>5. ASSUME NEW i \in 1 .. Len(t)
      PROVE  /\ "RST" \in t[i].flags => p \in closing'
             /\ "SYN" \in t[i].flags => i = 1 /\ Unopened(p)
             /\ t[i].data # <<>> => t[i].wnd > 0
  <2>1. Len(t) = n + m /\ t[i] = IF i <= n THEN q[i] ELSE P[i - n]
    BY <1>1, <1>n, ConcatProperties
  <2>2. CASE i <= n
    <3>1. i \in 1 .. Len(q) /\ t[i] = q[i]
      BY <1>n, <2>1, <2>2
    <3> QED
      BY <1>p, <1>q, <3>1 DEF WayOK
  <2>3. CASE ~(i <= n)
    <3>1. i - n \in 1 .. Len(P) /\ t[i] = P[i - n]
      BY <1>n, <2>1, <2>3
    <3>2. /\ "RST" \in t[i].flags => p \in closing'
          /\ "SYN" \in t[i].flags => i - n = 1 /\ q = <<>> /\ Unopened(p)
          /\ t[i].data # <<>> => t[i].wnd > 0
      BY <1>p, <1>q, <3>1
    <3>3. q = <<>> => n = 0
      BY <1>n, EmptySeq
    <3>4. i - n = 1 /\ n = 0 => i = 1
      BY <1>n
    <3> QED
      BY <3>2, <3>3, <3>4
  <2> QED
    BY <2>2, <2>3
<1>6. WayOK(p)'
  BY <1>1, <1>2, <1>3, <1>4, <1>5, <1>t DEF WayOK
<1> QED
  BY <1>p, <1>6

\* What may become of e when it takes a segment s off its way.
TakesOK(e, s) ==
  \/ /\ Ended(e) /\ Ended(e)' /\ stream'[e] = stream[e]
     /\ tcb'[e].state \notin FinSeen => e \in closing
  \/ /\ ~Ended(e) /\ ~Ended(e)' /\ "FIN" \notin s.flags
     /\ Expect(e)' = Expect(e) + Span(s)
  \/ /\ Ended(e)' /\ tcb'[e].state \in FinSeen
     /\ Peer(e) \in closing /\ Len(stream'[e]) = wrote[Peer(e)]

LEMMA OwnWay ==
  ASSUME NEW e \in Hosts, NEW s, TypeOK, WayOK(e), chan[e] # <<>>, s = Head(chan[e]),
         chan'[e] = Tail(chan[e]), Sent(Peer(e))' = Sent(Peer(e)), TakesOK(e, s),
         wrote' = wrote, closing' = closing
  PROVE  WayOK(e)'
<1>q. PICK q : q = chan[e]
  OBVIOUS
<1>t. PICK t : t = chan'[e]
  OBVIOUS
<1>1. q \in Seq(Segments) /\ t = Tail(q) /\ q # <<>> /\ s = Head(q)
  BY <1>q, <1>t DEF TypeOK
<1>2. ASSUME NEW i \in 1 .. Len(t)
      PROVE  /\ "RST" \in t[i].flags => e \in closing'
             /\ "SYN" \notin t[i].flags
             /\ t[i].data # <<>> => t[i].wnd > 0
  <2>1. i + 1 \in 1 .. Len(q) /\ t[i] = q[i + 1] /\ i + 1 # 1
    BY <1>1, TailLemma
  <2> QED
    BY <1>q, <2>1 DEF WayOK
<1>3. Ended(e)' => /\ Peer(e) \in closing' /\ Len(stream'[e]) = wrote'[Peer(e)]
                   /\ tcb'[e].state \notin FinSeen => e \in closing'
  BY DEF WayOK, TakesOK
<1>4. ASSUME ~Ended(e)'
      PROVE  /\ Chain(t, Expect(e)', Sent(Peer(e))')
             /\ Peer(e) \in closing' => ~NoFin(t)
  <2>1. ~Ended(e) /\ "FIN" \notin s.flags /\ Expect(e)' = Expect(e) + Span(s)
    BY <1>4 DEF TakesOK
  <2>2. PICK x, y : x = Expect(e) /\ y = Sent(Peer(e))
    OBVIOUS
  <2>3. Chain(q, x, y) /\ (Peer(e) \in closing => ~NoFin(q))
    BY <1>q, <2>1, <2>2 DEF WayOK
  <2>4. Chain(t, x + Span(s), y) /\ (NoFin(t) <=> NoFin(q))
    BY <1>1, <2>1, <2>3, ChainPop
  <2> QED
    BY <2>1, <2>2, <2>3, <2>4
<1> QED
  BY <1>2, <1>3, <1>4, <1>t DEF WayOK

----------------------------------------------------------------------------
\* The next segment comes.
Comes(e, s, c) ==
  /\ chan[e] # <<>> /\ s = Head(chan[e]) /\ c = [chan EXCEPT ![e] = Tail(@)]
  /\ UNCHANGED <<late, wrote, closing>>

\* What e may answer.
OutOK(e, P) ==
  /\ P \in Seq(Segments) /\ (e \in closing \/ Chain(P, Sent(e), Sent(e)))
  /\ \A i \in 1 .. Len(P) :
       /\ "SYN" \notin P[i].flags /\ ("RST" \in P[i].flags => Peer(e) \in closing)
       /\ P[i].data = <<>>

LEMMA NoOut ==
  ASSUME NEW e \in Hosts
  PROVE  OutOK(e, <<>>)
<1>1. <<>> \in Seq(Segments) /\ Len(<<>>) = 0
  BY EmptySeq
<1> QED
  BY <1>1, ChainEmpty DEF OutOK

LEMMA AckOut ==
  ASSUME NEW e \in Hosts, NEW b \in Blocks, NEW n \in Numbers, NEW m \in 0 .. StreamSize,
         b.snd_nxt = Sent(e)
  PROVE  OutOK(e, <<AckUpTo(b, n, m)>>)
<1>g. PICK g : g = AckUpTo(b, n, m)
  OBVIOUS
<1>1. g \in Segments
  BY <1>g, EmptySeq, SegType DEF AckUpTo, Flags, Blocks
<1>2. g.flags = {"ACK"} /\ g.seq = b.snd_nxt /\ g.data = <<>>
  BY <1>g DEF AckUpTo, Seg
<1>3. Span(g) = 0
  BY <1>2, EmptySeq DEF Span
<1>4. g.seq + Span(g) = g.seq
  BY <1>1, <1>3 DEF Segments, Numbers
<1>5. Chain(<<g>>, g.seq, g.seq)
  BY <1>1, <1>2, <1>4, ChainOne
<1>6. <<g>> \in Seq(Segments) /\ Len(<<g>>) = 1 /\ \A i \in 1 .. 1 : <<g>>[i] = g
  BY <1>1
<1>7. OutOK(e, <<g>>)
  BY <1>2, <1>5, <1>6 DEF OutOK
<1> QED
  BY <1>7, <1>g

LEMMA DoneOut ==
  ASSUME NEW e \in Hosts, NEW P \in Seq(Segments), Hosts \subseteq closing,
         \A g \in Elems(P) : "SYN" \notin g.flags /\ g.data = <<>>
  PROVE  OutOK(e, P)
  BY PeerType DEF OutOK, Elems

\* What is known of the next segment.
LEMMA NextSegment ==
  ASSUME NEW e \in Hosts, NEW s, NEW c, NoWrap, TcpInv, CleanOK, Comes(e, s, c)
  PROVE  /\ s \in Segments /\ s \in To(e) /\ SegmentOK(e, s)
         /\ c[e] = Tail(chan[e]) /\ c[Peer(e)] = chan[Peer(e)]
         /\ ~Ended(e) => s.seq = Expect(e) /\ "RST" \notin s.flags
         /\ "SYN" \in s.flags => Unopened(e)
         /\ "RST" \in s.flags => e \in closing
         /\ nextSeq[Client] # FirstSeq[Client]
         /\ e = Client => nextSeq[Server] # FirstSeq[Server]
         /\ s.data # <<>> => s.wnd > 0
<1>1. /\ chan \in [Hosts -> Seq(Segments)] /\ chan[e] \in Seq(Segments) /\ chan[e] # <<>>
      /\ s = Head(chan[e]) /\ c = [chan EXCEPT ![e] = Tail(@)]
  BY DEF TcpInv, TypeOK, Comes
<1>2. s \in Segments /\ s \in Elems(chan[e]) /\ s = chan[e][1] /\ 1 \in 1 .. Len(chan[e])
  BY <1>1, TailElems, TailLemma
<1>3. s \in To(e)
  BY <1>2 DEF To
<1>4. SegmentOK(e, s) /\ nextSeq[Client] # FirstSeq[Client]
  BY <1>3 DEF TcpInv, SegmentsInv
<1>5. c[e] = Tail(chan[e]) /\ c[Peer(e)] = chan[Peer(e)]
  BY <1>1, PeerType
<1>6. ~Ended(e) => s.seq = Expect(e) /\ "RST" \notin s.flags
  <2>1. ~Ended(e) => Chain(chan[e], Expect(e), Sent(Peer(e)))
    BY DEF CleanOK, WayOK
  <2> QED
    BY <1>1, <2>1, ChainPop
<1>7. /\ ("SYN" \in s.flags => Unopened(e)) /\ ("RST" \in s.flags => e \in closing)
      /\ s.data # <<>> => s.wnd > 0
  BY <1>2 DEF CleanOK, WayOK
<1>8. e = Client => nextSeq[Server] # FirstSeq[Server]
  BY <1>1 DEF CleanOK, OnceOK
<1> QED
  BY <1>2, <1>3, <1>4, <1>5, <1>6, <1>7, <1>8

\* All but the SYN that makes a block.
LEMMA CleanReceive ==
  ASSUME NEW e \in Hosts, NEW s, NEW c, NEW P, NoWrap, TcpInv, CleanOK, Comes(e, s, c),
         Transmit(c, e, P), OutOK(e, P), TakesOK(e, s),
         nextSeq' = nextSeq, nextSeq[Server] # FirstSeq[Server],
         tcb'[Peer(e)] = tcb[Peer(e)], stream'[Peer(e)] = stream[Peer(e)],
         tcb'[e].shadow < StreamSize,
         tcb'[e].iss = tcb[e].iss, tcb[e].state # "NONE" \/ tcb'[e] = tcb[e]
  PROVE  CleanOK'
<1>p. PICK p : p = Peer(e)
  OBVIOUS
<1>1. /\ p \in Hosts /\ p # e /\ Peer(p) = e /\ Hosts = {e, p} /\ TypeOK
      /\ chan[e] # <<>> /\ s = Head(chan[e]) /\ c[e] = Tail(chan[e]) /\ c[p] = chan[p]
      /\ late' = late /\ wrote' = wrote /\ closing' = closing /\ WayOK(e) /\ WayOK(p)
      /\ nextSeq[Client] # FirstSeq[Client]
  <2>1. p \in Hosts /\ p # e /\ Peer(p) = e /\ Hosts = {e, p}
    BY <1>p, PeerType
  <2>2. TypeOK /\ WayOK(e) /\ WayOK(p)
    BY <2>1 DEF TcpInv, CleanOK
  <2>3. /\ chan[e] # <<>> /\ s = Head(chan[e])
        /\ late' = late /\ wrote' = wrote /\ closing' = closing
    BY DEF Comes
  <2>4. c[e] = Tail(chan[e]) /\ c[p] = chan[p] /\ nextSeq[Client] # FirstSeq[Client]
    BY <1>p, NextSegment
  <2> QED
    BY <2>1, <2>2, <2>3, <2>4
<1>2. chan'[e] = Tail(chan[e]) /\ chan'[p] = chan[p] \o P
  <2>1. c = [chan EXCEPT ![e] = Tail(@)] /\ chan \in [Hosts -> Seq(Segments)]
    BY <1>1 DEF Comes, TypeOK
  <2> QED
    BY <1>1, <1>p, <2>1 DEF Transmit
<1>3. Sent(e)' = Sent(e) /\ Sent(p)' = Sent(p)
  BY <1>1 DEF Sent, Top
<1>4. WayOK(e)'
  BY <1>1, <1>2, <1>3, <1>p, OwnWay
<1>5. WayOK(p)'
  <2>1. Ended(p) => e \in closing' /\ wrote'[e] = wrote[e]
    BY <1>1 DEF WayOK
  <2>2. e \in closing \/ Chain(P, Sent(e), Sent(e)')
    BY <1>3 DEF OutOK
  <2>3. /\ P \in Seq(Segments)
        /\ \A i \in 1 .. Len(P) :
             /\ "SYN" \notin P[i].flags /\ ("RST" \in P[i].flags => p \in closing')
             /\ P[i].data = <<>>
    BY <1>1, <1>p DEF OutOK
  <2>4. nextSeq'[Peer(e)] = nextSeq[Peer(e)]
    OBVIOUS
  <2>5. WayOK(Peer(e))'
    BY <1>1, <1>2, <1>p, <2>1, <2>2, <2>3, <2>4, OtherWay
  <2> QED
    BY <1>p, <2>5
<1>6. OnceOK'
  <2>1. ASSUME NEW h \in Hosts
        PROVE  /\ late'[h] = {} /\ tcb'[h].shadow < StreamSize
               /\ tcb'[h].state # "NONE" => tcb'[h].iss = FirstSeq[h]
    <3>1. /\ late[h] = {} /\ tcb[h].shadow < StreamSize
          /\ tcb[h].state # "NONE" => tcb[h].iss = FirstSeq[h]
      BY DEF CleanOK, OnceOK
    <3>2. CASE h = p
      BY <1>1, <1>p, <3>1, <3>2
    <3>3. CASE h = e
      BY <1>1, <3>1, <3>3
    <3> QED
      BY <1>1, <3>2, <3>3
  <2> QED
    BY <1>1, <2>1 DEF OnceOK
<1> QED
  BY <1>1, <1>4, <1>5, <1>6 DEF CleanOK

LEMMA Started ==
  ASSUME NEW e \in Hosts, NoWrap, TcpInv, CleanOK, tcb[e].state # "NONE"
  PROVE  /\ tcb[e].iss = FirstSeq[e] /\ nextSeq[e] # FirstSeq[e] /\ HostOK(e) /\ Sent(e) = Top(e)
         /\ tcb[e].shadow < StreamSize
         /\ tcb[e].state \in Live => tcb[e].snd_nxt = Sent(e)
<1>1. tcb[e].iss = FirstSeq[e] /\ HostOK(e) /\ tcb[e].shadow < StreamSize
  BY DEF TcpInv, CleanOK, OnceOK
<1>2. nextSeq[e] = Plus(FirstSeq[e], SeqStep)
  BY <1>1 DEF HostOK, FirstOK
<1>3. nextSeq[e] # FirstSeq[e]
  BY <1>2, Small
<1> QED
  BY <1>1, <1>3 DEF HostOK, LiveOK, Sent

\* The server has taken the SYN before anything else comes.
LEMMA ServerStarted ==
  ASSUME NEW e \in Hosts, NEW s, NEW c, NoWrap, TcpInv, CleanOK, Comes(e, s, c),
         tcb[e].state # "NONE" \/ nextSeq[e] # FirstSeq[e]
  PROVE  nextSeq[Server] # FirstSeq[Server] /\ nextSeq[e] # FirstSeq[e]
<1>1. nextSeq[e] # FirstSeq[e]
  BY Started
<1>2. CASE e = Client
  BY <1>1, <1>2, NextSegment
<1>3. CASE e = Server
  BY <1>1, <1>3
<1> QED
  BY <1>1, <1>2, <1>3 DEF Hosts

\* What comes first is the SYN.
LEMMA SynFirst ==
  ASSUME NEW e \in Hosts, NEW s, NEW c, NoWrap, TcpInv, CleanOK, Comes(e, s, c), Unopened(e)
  PROVE  /\ s.flags = IF e = Server THEN {"SYN"} ELSE {"SYN", "ACK"}
         /\ s.seq = FirstSeq[Peer(e)] /\ Span(s) = 1 /\ ~Ended(e)
<1>1. ~Ended(e) /\ Expect(e) = FirstSeq[Peer(e)]
  BY DEF Unopened, Ended, Expect, FinSeen
<1>2. /\ s \in Segments /\ SegmentOK(e, s) /\ s.seq = FirstSeq[Peer(e)] /\ "RST" \notin s.flags
  BY <1>1, NextSegment
<1>3. FirstSeq[Peer(e)] \in Nat
  BY PeerType, Small
<1>4. "SYN" \in s.flags
  <2> SUFFICES ASSUME "SYN" \notin s.flags PROVE FALSE
    OBVIOUS
  <2>1. IsAck(s)
    BY <1>2 DEF SegmentOK, ShapeOK, IsAck
  <2>2. FirstSeq[Peer(e)] < s.seq
    BY <1>2, <2>1 DEF SegmentOK, AckOK
  <2> QED
    BY <1>2, <1>3, <2>2
<1>5. s.data = <<>> /\ s.flags = IF e = Server THEN {"SYN"} ELSE {"SYN", "ACK"}
  <2>1. s.data # <<>> => s.flags \in {{"ACK"}, {"ACK", "PSH"}}
    BY <1>2 DEF SegmentOK, ShapeOK
  <2>2. s.flags = IF e = Server THEN {"SYN"} ELSE {"SYN", "ACK"}
    BY <1>2, <1>4 DEF SegmentOK, EndsOK
  <2>3. s.data = <<>>
    BY <1>4, <2>1
  <2> QED
    BY <2>2, <2>3
<1>6. Span(s) = 1
  BY <1>4, <1>5, EmptySeq DEF Span
<1> QED
  BY <1>1, <1>2, <1>5, <1>6

\* A host that is done answers with a RST, and both users have closed.
LEMMA CleanDone ==
  ASSUME NEW e \in Hosts, NEW s, NEW c, NEW P \in Seq(Segments), NoWrap, TcpInv, CleanOK,
         Comes(e, s, c), Transmit(c, e, P), UNCHANGED <<tcb, nextSeq, stream>>,
         tcb[e].state \in {"CLOSED", "NONE"}, tcb[e].state # "NONE" \/ nextSeq[e] # FirstSeq[e],
         \A g \in Elems(P) : "SYN" \notin g.flags /\ g.data = <<>>
  PROVE  CleanOK'
<1>1. Ended(e) /\ tcb[e].state \notin FinSeen
  BY DEF Ended, FinSeen
<1>2. Peer(e) \in closing /\ e \in closing /\ Hosts = {e, Peer(e)}
  BY <1>1, PeerType DEF CleanOK, WayOK
<1>3. OutOK(e, P)
  BY <1>2, DoneOut
<1>4. TakesOK(e, s)
  <2>1. Ended(e)'
    BY <1>1 DEF Ended
  <2> QED
    BY <1>1, <1>2, <2>1 DEF TakesOK
<1>5. nextSeq[Server] # FirstSeq[Server]
  BY ServerStarted
<1>6. /\ tcb'[Peer(e)] = tcb[Peer(e)] /\ stream'[Peer(e)] = stream[Peer(e)]
      /\ tcb'[e].shadow < StreamSize /\ tcb'[e].iss = tcb[e].iss /\ tcb'[e] = tcb[e]
  BY DEF CleanOK, OnceOK
<1> QED
  BY <1>3, <1>4, <1>5, <1>6, CleanReceive

LEMMA CleanClosed ==
  ASSUME NEW e \in Hosts, NEW s, NEW c, NoWrap, TcpInv, CleanOK, Comes(e, s, c),
         ReceiveClosed(e, s, c) \/ ReceiveListenOther(e, s, c)
  PROVE  CleanOK'
<1>1. s \in Segments /\ nextSeq[Client] # FirstSeq[Client]
  BY NextSegment
<1>2. tcb[e].state \in {"CLOSED", "NONE"} /\ UNCHANGED <<tcb, nextSeq, stream>>
  BY DEF ReceiveClosed, ReceiveListenOther
<1>3. tcb[e].state # "NONE" \/ nextSeq[e] # FirstSeq[e]
  <2>1. CASE ReceiveClosed(e, s, c)
    BY <1>1, <2>1 DEF ReceiveClosed
  <2>2. CASE ReceiveListenOther(e, s, c)
    <3>1. tcb[e].state = "NONE" /\ e = Server /\ s.flags # {"SYN"}
      BY <2>2 DEF ReceiveListenOther
    <3>2. ~Unopened(e)
      BY <3>1, SynFirst
    <3> QED
      BY <3>1, <3>2 DEF Unopened
  <2> QED
    BY <2>1, <2>2
<1>r. PICK r : r = Reset(s.ack)
  OBVIOUS
<1>a. PICK a : a = Seg({"RST", "ACK"}, 0, Plus(s.seq, 1), 0, <<>>)
  OBVIOUS
<1>4. r \in Segments /\ "SYN" \notin r.flags /\ r.data = <<>>
  BY <1>1, <1>r, ResetType DEF Segments, Reset, Seg
<1>5. a \in Segments /\ "SYN" \notin a.flags /\ a.data = <<>>
  <2>1. {"RST", "ACK"} \in SUBSET Flags /\ 0 \in Numbers /\ <<>> \in Seq(Nat)
    BY TcpAssumption, EmptySeq DEF Flags, Numbers
  <2>2. Plus(s.seq, 1) \in Numbers
    BY <1>1, TcpAssumption DEF Plus, Segments, Numbers
  <2> QED
    BY <1>a, <2>1, <2>2, SegType, Windows DEF Seg
<1>6. \E P \in {<<>>, <<r>>, <<a>>} : Transmit(c, e, P)
  BY <1>r, <1>a DEF ReceiveClosed, ReceiveListenOther
<1>7. PICK P \in {<<>>, <<r>>, <<a>>} : Transmit(c, e, P)
  BY <1>6
<1>8. P \in Seq(Segments) /\ \A g \in Elems(P) : "SYN" \notin g.flags /\ g.data = <<>>
  <2>1. CASE P = <<>>
    BY <2>1, EmptySeq DEF Elems
  <2>2. CASE P = <<r>>
    BY <1>4, <2>2, SingleElems
  <2>3. CASE P = <<a>>
    BY <1>5, <2>3, SingleElems
  <2> QED
    BY <2>1, <2>2, <2>3
<1> QED
  BY <1>2, <1>3, <1>7, <1>8, CleanDone

\* In order, every segment is acceptable.
LEMMA NextAcceptable ==
  ASSUME NEW e \in Hosts, NEW s, NEW c, NoWrap, TcpInv, CleanOK, Comes(e, s, c),
         tcb[e].state \in Synchronized, ~Ended(e)
  PROVE  Acceptable(tcb[e], s)
<1>1. ~Unopened(e) /\ tcb[e].state \in Live
  BY DEF Unopened, Synchronized, Live
<1>2. /\ s \in Segments /\ SegmentOK(e, s) /\ s.seq = tcb[e].rcv_nxt
      /\ "RST" \notin s.flags /\ "SYN" \notin s.flags
  BY <1>1, NextSegment DEF Expect
<1>3. (s.data # <<>> => s.wnd > 0) /\ s.wnd \in 0 .. StreamSize
  BY <1>2, NextSegment DEF Segments
<1>4. PICK n \in Nat, m \in Nat, z \in Nat :
        n = tcb[e].rcv_nxt /\ m = s.wnd /\ z = StreamSize /\ m <= z
  <2>1. tcb[e] \in Blocks /\ StreamSize \in Nat
    BY TcpAssumption DEF TcpInv, TypeOK
  <2> QED
    BY <1>3, <2>1, BlockNumbers
<1>5. n + m < SeqMod
  <2>1. Peer(e) \in Hosts /\ TypeOK
    BY PeerType DEF TcpInv
  <2>2. PICK u \in Nat : u = Top(Peer(e)) /\ u + z < SeqMod
    BY <1>4, <2>1, TopType
  <2>3. n <= u
    BY <1>1, <1>4, <2>2, Up
  <2> QED
    BY <1>4, <2>2, <2>3, TcpAssumption
<1>6. Plus(n, m) = n + m
  BY <1>4, <1>5, PlusSmall
<1>7. m > 0 => InWindow(tcb[e], s, s.seq)
  BY <1>2, <1>4, <1>6 DEF InWindow
<1>8. CASE s.data = <<>>
  BY <1>2, <1>4, <1>7, <1>8 DEF Acceptable
<1>9. CASE s.data # <<>>
  BY <1>3, <1>4, <1>7, <1>9 DEF Acceptable
<1> QED
  BY <1>8, <1>9

LEMMA CleanRefused ==
  ASSUME NEW e \in Hosts, NEW s, NEW c, NoWrap, TcpInv, CleanOK, Comes(e, s, c),
         ReceiveRefused(e, s, c)
  PROVE  CleanOK'
<1>b. PICK b : b = tcb[e]
  OBVIOUS
<1>1. /\ b.state \in Synchronized /\ UNCHANGED <<tcb, nextSeq, stream>>
      /\ "SYN" \in s.flags \/ ~Acceptable(b, s)
  BY <1>b DEF ReceiveRefused
<1>2. b.state \in Live /\ b.state # "NONE" /\ ~Unopened(e)
  BY <1>1, <1>b DEF Live, Synchronized, Unopened
<1>3. "SYN" \notin s.flags
  BY <1>2, NextSegment
<1>4. Ended(e)
  BY <1>1, <1>3, <1>b, NextAcceptable
<1>5. TakesOK(e, s)
  <2>1. Ended(e)' /\ tcb'[e].state \in FinSeen
    BY <1>1, <1>2, <1>4, <1>b DEF Ended, Synchronized
  <2> QED
    BY <1>1, <1>4, <2>1 DEF TakesOK
<1>6. b \in Blocks /\ b.rcv_nxt \in Numbers /\ b.snd_nxt = Sent(e)
  BY <1>2, <1>b, Started DEF TcpInv, TypeOK, Blocks
<1>7. Transmit(c, e, <<AckUpTo(b, b.rcv_nxt, Room(b))>>)
  BY <1>3, <1>b DEF ReceiveRefused, AckOf, AckUpTo
<1>8. OutOK(e, <<AckUpTo(b, b.rcv_nxt, Room(b))>>)
  BY <1>6, AckOut, Windows
<1>9. nextSeq[Server] # FirstSeq[Server]
  BY <1>2, <1>b, ServerStarted
<1>10. /\ tcb'[Peer(e)] = tcb[Peer(e)] /\ stream'[Peer(e)] = stream[Peer(e)]
       /\ tcb'[e].shadow < StreamSize /\ tcb'[e].iss = tcb[e].iss /\ tcb'[e] = tcb[e]
  BY <1>1 DEF CleanOK, OnceOK
<1> QED
  BY <1>1, <1>5, <1>7, <1>8, <1>9, <1>10, CleanReceive

LEMMA CleanReset ==
  ASSUME NEW e \in Hosts, NEW s, NEW c, NoWrap, TcpInv, CleanOK, Comes(e, s, c),
         Arrives(e, s, c), ReceiveReset(e, s, c)
  PROVE  CleanOK'
<1>b. PICK b : b = tcb[e]
  OBVIOUS
<1>d. PICK d : d = tcb'[e]
  OBVIOUS
<1>f. PICK f \in BOOLEAN : f <=> b.state \in {"LAST_ACK", "CLOSING"}
  OBVIOUS
<1>1. /\ b \in Blocks /\ b.state \in Synchronized /\ "RST" \in s.flags
      /\ tcb \in [Hosts -> Blocks] /\ Peer(e) \in Hosts /\ Peer(e) # e
  BY <1>b, PeerType DEF TcpInv, TypeOK, ReceiveReset
<1>2. d = [b EXCEPT !.state = "CLOSED", !.freeing = f] /\ tcb'[Peer(e)] = tcb[Peer(e)]
  BY <1>1, <1>b, <1>d, <1>f DEF ReceiveReset
<1>3. d.state = "CLOSED" /\ d.shadow = b.shadow /\ d.iss = b.iss
  BY <1>1, <1>2, <1>f DEF Blocks
<1>4. nextSeq' = nextSeq /\ stream' = stream /\ chan' = c /\ b.state # "NONE"
  BY <1>1 DEF ReceiveReset, Synchronized
<1>5. Ended(e) /\ e \in closing
  BY <1>1, NextSegment
<1>6. TakesOK(e, s)
  BY <1>3, <1>4, <1>5, <1>d DEF TakesOK, Ended
<1>7. Transmit(c, e, <<>>) /\ OutOK(e, <<>>)
  BY <1>4, Quiet, NoOut DEF Arrives
<1>8. nextSeq[Server] # FirstSeq[Server]
  BY <1>4, <1>b, ServerStarted
<1>9. /\ stream'[Peer(e)] = stream[Peer(e)] /\ tcb'[e].shadow < StreamSize
      /\ tcb'[e].iss = tcb[e].iss /\ tcb[e].state # "NONE"
  BY <1>3, <1>4, <1>b, <1>d DEF CleanOK, OnceOK
<1> QED
  BY <1>2, <1>4, <1>6, <1>7, <1>8, <1>9, CleanReceive

LEMMA CleanTimeWait ==
  ASSUME NEW e \in Hosts, NEW s, NEW c, NoWrap, TcpInv, CleanOK, Comes(e, s, c),
         Arrives(e, s, c), ReceiveTimeWait(e, s, c)
  PROVE  CleanOK'
<1>b. PICK b : b = tcb[e]
  OBVIOUS
<1>d. PICK d : d = tcb'[e]
  OBVIOUS
<1>1. /\ b \in Blocks /\ b.state = "TIME_WAIT"
      /\ tcb \in [Hosts -> Blocks] /\ Peer(e) \in Hosts /\ Peer(e) # e
  BY <1>b, PeerType DEF TcpInv, TypeOK, ReceiveTimeWait
<1>2. d = [b EXCEPT !.waiting = TRUE] /\ tcb'[Peer(e)] = tcb[Peer(e)]
  BY <1>1, <1>b, <1>d DEF ReceiveTimeWait
<1>3. d.state = "TIME_WAIT" /\ d.shadow = b.shadow /\ d.iss = b.iss
  BY <1>1, <1>2 DEF Blocks
<1>4. nextSeq' = nextSeq /\ stream' = stream /\ chan' = c
  BY DEF ReceiveTimeWait
<1>5. TakesOK(e, s)
  BY <1>1, <1>3, <1>4, <1>b, <1>d DEF TakesOK, Ended, FinSeen
<1>6. Transmit(c, e, <<>>) /\ OutOK(e, <<>>)
  BY <1>4, Quiet, NoOut DEF Arrives
<1>7. nextSeq[Server] # FirstSeq[Server]
  BY <1>1, <1>b, ServerStarted
<1>8. /\ stream'[Peer(e)] = stream[Peer(e)] /\ tcb'[e].shadow < StreamSize
      /\ tcb'[e].iss = tcb[e].iss /\ tcb[e].state # "NONE"
  BY <1>1, <1>3, <1>4, <1>b, <1>d DEF CleanOK, OnceOK
<1> QED
  BY <1>2, <1>4, <1>5, <1>6, <1>7, <1>8, CleanReceive

\* The SYN of the server, which opens the connection of the client.
LEMMA CleanSynSent ==
  ASSUME NEW e \in Hosts, NEW s, NEW c, NoWrap, TcpInv, CleanOK, Comes(e, s, c),
         ReceiveSynSent(e, s, c)
  PROVE  CleanOK'
<1>b. PICK b : b = tcb[e]
  OBVIOUS
<1>d. PICK d : d = [b EXCEPT !.state = "ESTABLISHED", !.irs = s.seq,
                             !.rcv_nxt = Plus(s.seq, 1), !.snd_una = s.ack]
  OBVIOUS
<1>1. /\ b \in Blocks /\ b.state = "SYN_SENT" /\ Unopened(e) /\ nextSeq' = nextSeq
      /\ tcb \in [Hosts -> Blocks] /\ Peer(e) \in Hosts /\ Peer(e) # e /\ stream' = stream
  BY <1>b, PeerType DEF TcpInv, TypeOK, ReceiveSynSent, Unopened
<1>2. /\ b.iss = FirstSeq[e] /\ HostOK(e) /\ Sent(e) = Top(e)
  BY <1>1, <1>b, Started
<1>3. /\ e = Client /\ b.snd_nxt = FirstSeq[e] + 1 /\ wrote[e] = 0 /\ e \notin closing
  BY <1>1, <1>2, <1>b DEF HostOK, FirstOK
<1>4. /\ s \in Segments /\ SegmentOK(e, s) /\ s.flags = {"SYN", "ACK"} /\ Span(s) = 1
      /\ s.seq = FirstSeq[Peer(e)] /\ ~Ended(e)
  BY <1>1, <1>3, NextSegment, SynFirst, TcpAssumption
<1>5. FirstSeq[e] \in Nat /\ Top(e) = FirstSeq[e] + 1
  BY <1>3, Small DEF Top
<1>6. FirstSeq[e] < s.ack /\ s.ack <= Top(e) /\ s.ack \in Numbers /\ s.ack \in Int
  BY <1>4 DEF SegmentOK, AckOK, IsAck, Segments, Numbers
<1>7. ~("ACK" \in s.flags /\ (s.ack <= b.iss \/ s.ack > b.snd_nxt))
  BY <1>2, <1>3, <1>5, <1>6
<1>8. /\ tcb' = [tcb EXCEPT ![e] = d]
      /\ Transmit(c, e, <<AckOf(d)>>)
  BY <1>4, <1>7, <1>b, <1>d DEF ReceiveSynSent
<1>9. Plus(s.seq, 1) = FirstSeq[Peer(e)] + 1 /\ Plus(s.seq, 1) \in Numbers
  <2>1. Plus(s.seq, 1) = FirstSeq[Peer(e)] + 1
    BY <1>1, <1>4, Small
  <2>2. Plus(s.seq, 1) \in Numbers
    BY <1>4, TcpAssumption DEF Plus, Segments, Numbers
  <2> QED
    BY <2>1, <2>2
<1>10. /\ d \in Blocks /\ d.state = "ESTABLISHED" /\ d.rcv_nxt = FirstSeq[Peer(e)] + 1
       /\ d.snd_nxt = b.snd_nxt /\ d.shadow = b.shadow /\ d.iss = b.iss /\ d.rcv_nxt \in Numbers
  <2>1. s.seq \in Numbers /\ "ESTABLISHED" \in States
    BY <1>4 DEF Segments, States
  <2> QED
    BY <1>1, <1>6, <1>9, <1>d, <2>1 DEF Blocks
<1>11. OutOK(e, <<AckUpTo(d, d.rcv_nxt, Room(d))>>)
  BY <1>2, <1>3, <1>5, <1>10, AckOut, Windows
<1>12. Transmit(c, e, <<AckUpTo(d, d.rcv_nxt, Room(d))>>)
  BY <1>8 DEF AckOf, AckUpTo
<1>13. tcb'[e] = d /\ tcb'[Peer(e)] = tcb[Peer(e)]
  BY <1>1, <1>8
<1>14. TakesOK(e, s)
  <2>1. ~Ended(e)' /\ ~Unopened(e)'
    BY <1>10, <1>13 DEF Ended, Unopened, FinSeen
  <2>2. Expect(e)' = FirstSeq[Peer(e)] + 1 /\ Expect(e) = FirstSeq[Peer(e)]
    BY <1>1, <1>10, <1>13, <2>1 DEF Expect
  <2> QED
    BY <1>4, <2>1, <2>2 DEF TakesOK
<1>15. nextSeq[Server] # FirstSeq[Server]
  BY <1>1, <1>b, ServerStarted
<1>16. /\ stream'[Peer(e)] = stream[Peer(e)] /\ tcb'[e].shadow < StreamSize
       /\ tcb'[e].iss = tcb[e].iss /\ tcb[e].state # "NONE"
  BY <1>1, <1>10, <1>13, <1>b DEF CleanOK, OnceOK
<1> QED
  BY <1>1, <1>11, <1>12, <1>13, <1>14, <1>15, <1>16, CleanReceive

\* The SYN of the client, which makes the block of the server.
LEMMA CleanListen ==
  ASSUME NEW e \in Hosts, NEW s, NEW c, NoWrap, TcpInv, CleanOK, Comes(e, s, c),
         ReceiveListen(e, s, c)
  PROVE  CleanOK'
<1>p. PICK p : p = Peer(e)
  OBVIOUS
<1>d. PICK d : d = [NoBlock EXCEPT !.state = "SYN_RECEIVED", !.iss = nextSeq[e],
                                   !.snd_nxt = Plus(nextSeq[e], 1), !.snd_una = nextSeq[e],
                                   !.irs = s.seq, !.rcv_nxt = Plus(s.seq, 1)]
  OBVIOUS
<1>g. PICK g : g = Seg({"SYN", "ACK"}, nextSeq[e], Plus(s.seq, 1), StreamSize, <<>>)
  OBVIOUS
<1>1. /\ e = Server /\ p = Client /\ p \in Hosts /\ p # e /\ Peer(p) = e /\ Hosts = {e, p}
      /\ TypeOK /\ HostOK(e) /\ tcb[e].state = "NONE" /\ s.flags = {"SYN"}
      /\ tcb \in [Hosts -> Blocks] /\ nextSeq \in [Hosts -> Numbers]
      /\ stream \in [Hosts -> Seq(Nat)] /\ chan \in [Hosts -> Seq(Segments)]
  <2>1. e = Server /\ tcb[e].state = "NONE" /\ s.flags = {"SYN"}
    BY DEF ReceiveListen
  <2>2. p \in Hosts /\ p # e /\ Peer(p) = e /\ Hosts = {e, p} /\ p = Client
    BY <1>p, <2>1, PeerType, TcpAssumption DEF Peer
  <2> QED
    BY <2>1, <2>2 DEF TcpInv, TypeOK
<1>2. Unopened(e) /\ s \in Segments /\ nextSeq[Client] # FirstSeq[Client]
  BY <1>1, NextSegment
<1>3. nextSeq[e] = FirstSeq[e] /\ wrote[e] = 0 /\ e \notin closing
  BY <1>1, <1>2 DEF Unopened, HostOK, GoneOK
<1>4. /\ s.seq = FirstSeq[p] /\ Span(s) = 1 /\ ~Ended(e)
  BY <1>2, <1>p, SynFirst
<1>5. chan[p] = <<>> /\ Unopened(p) /\ WayOK(p) /\ WayOK(e)
  BY <1>1, <1>3 DEF CleanOK, OnceOK
<1>6. /\ tcb' = [tcb EXCEPT ![e] = d] /\ nextSeq' = [nextSeq EXCEPT ![e] = Plus(@, SeqStep)]
      /\ stream' = [stream EXCEPT ![e] = <<>>] /\ Transmit(c, e, <<g>>)
  BY <1>d, <1>g DEF ReceiveListen, NextSequenceNumber
<1>7. /\ tcb'[e] = d /\ tcb'[p] = tcb[p] /\ nextSeq'[e] = Plus(FirstSeq[e], SeqStep)
      /\ nextSeq'[p] = nextSeq[p] /\ stream'[p] = stream[p]
      /\ late' = late /\ wrote' = wrote /\ closing' = closing
  BY <1>1, <1>3, <1>6 DEF Comes
<1>8. Plus(s.seq, 1) = FirstSeq[p] + 1 /\ Plus(s.seq, 1) \in Numbers
  <2>1. Plus(s.seq, 1) = FirstSeq[p] + 1
    BY <1>1, <1>4, Small
  <2>2. Plus(s.seq, 1) \in Numbers
    BY <1>2, TcpAssumption DEF Plus, Segments, Numbers
  <2> QED
    BY <2>1, <2>2
<1>9. d.state = "SYN_RECEIVED" /\ d.iss = FirstSeq[e] /\ d.rcv_nxt = FirstSeq[p] + 1 /\ d.shadow = 0
  BY <1>3, <1>8, <1>d DEF NoBlock
<1>10. nextSeq'[e] # FirstSeq[e] /\ FirstSeq[e] \in Nat
  BY <1>7, Small
<1>11. Sent(e) = FirstSeq[e] /\ Sent(e)' = FirstSeq[e] + 1 /\ Sent(p)' = Sent(p)
  BY <1>3, <1>7, <1>10 DEF Sent, Top
<1>12. chan'[e] = Tail(chan[e]) /\ chan'[p] = chan[p] \o <<g>>
  <2>1. c = [chan EXCEPT ![e] = Tail(@)]
    BY DEF Comes
  <2> QED
    BY <1>1, <1>6, <1>p, <2>1 DEF Transmit
<1>13. WayOK(e)'
  <2>1. ~Ended(e)' /\ ~Unopened(e)'
    BY <1>7, <1>9 DEF Ended, Unopened, FinSeen
  <2>2. Expect(e)' = FirstSeq[p] + 1 /\ Expect(e) = FirstSeq[p]
    BY <1>2, <1>7, <1>9, <1>p, <2>1 DEF Expect
  <2>3. TakesOK(e, s)
    BY <1>1, <1>4, <2>1, <2>2 DEF TakesOK
  <2>4. chan[e] # <<>> /\ s = Head(chan[e]) /\ Sent(Peer(e))' = Sent(Peer(e))
    BY <1>11, <1>p DEF Comes
  <2> QED
    BY <1>1, <1>5, <1>7, <1>12, <2>3, <2>4, OwnWay
<1>14. WayOK(p)'
  <2>1. g \in Segments
    <3>1. {"SYN", "ACK"} \in SUBSET Flags /\ <<>> \in Seq(Nat) /\ nextSeq[e] \in Numbers
      BY <1>1, EmptySeq DEF Flags
    <3> QED
      BY <1>8, <1>g, <3>1, SegType, Windows
  <2>2. g.flags = {"SYN", "ACK"} /\ g.seq = FirstSeq[e] /\ g.data = <<>>
    BY <1>3, <1>g DEF Seg
  <2>3. Span(g) = 1
    BY <2>2, EmptySeq DEF Span
  <2>4. Chain(<<g>>, FirstSeq[e], FirstSeq[e] + 1)
    BY <2>1, <2>2, <2>3, ChainOne
  <2>5. Chain(<<g>>, Sent(e), Sent(e)')
    BY <1>11, <2>4
  <2>6. <<g>> \in Seq(Segments) /\ Len(<<g>>) = 1 /\ \A i \in 1 .. 1 : i = 1 /\ <<g>>[i] = g
    BY <2>1
  <2>7. \A i \in 1 .. Len(<<g>>) :
          /\ "RST" \in <<g>>[i].flags => Peer(e) \in closing'
          /\ "SYN" \in <<g>>[i].flags => i = 1 /\ chan[Peer(e)] = <<>> /\ Unopened(Peer(e))
          /\ <<g>>[i].data # <<>> => <<g>>[i].wnd > 0
    BY <1>5, <1>p, <2>2, <2>6
  <2>8. /\ Ended(Peer(e)) => e \in closing' /\ wrote'[e] = wrote[e]
        /\ Peer(e) \in closing => Peer(e) \in closing'
        /\ e \in closing' => e \in closing \/ ~NoFin(<<g>>)
    BY <1>1, <1>5, <1>7, <1>p DEF WayOK
  <2>9. WayOK(Peer(e)) /\ chan'[Peer(e)] = chan[Peer(e)] \o <<g>> /\ tcb'[Peer(e)] = tcb[Peer(e)]
        /\ nextSeq'[Peer(e)] = nextSeq[Peer(e)] /\ stream'[Peer(e)] = stream[Peer(e)]
    BY <1>5, <1>7, <1>12, <1>p
  <2>10. WayOK(Peer(e))'
    BY <1>1, <2>5, <2>6, <2>7, <2>8, <2>9, OtherWay
  <2> QED
    BY <1>p, <2>10
<1>15. OnceOK'
  <2>1. ASSUME NEW h \in Hosts
        PROVE  /\ late'[h] = {} /\ tcb'[h].shadow < StreamSize
               /\ tcb'[h].state # "NONE" => tcb'[h].iss = FirstSeq[h]
    <3>1. /\ late[h] = {} /\ tcb[h].shadow < StreamSize
          /\ tcb[h].state # "NONE" => tcb[h].iss = FirstSeq[h]
      BY DEF CleanOK, OnceOK
    <3>2. CASE h = p
      BY <1>7, <3>1, <3>2
    <3>3. CASE h = e
      BY <1>7, <1>9, <3>1, <3>3, TcpAssumption
    <3> QED
      BY <1>1, <3>2, <3>3
  <2> QED
    BY <1>1, <1>2, <1>7, <1>10, <2>1 DEF OnceOK
<1> QED
  BY <1>1, <1>13, <1>14, <1>15 DEF CleanOK

\* A segment in an open connection.
LEMMA CleanSegment ==
  ASSUME NEW e \in Hosts, NEW s, NEW c, NoWrap, TcpInv, CleanOK, Comes(e, s, c),
         Arrives(e, s, c), ReceiveSegment(e, s, c), filled' = {}
  PROVE  CleanOK'
<1>0. PICK b, w : Handled(e, s, c, b, w)
  BY Handling
<1>p. PICK p : p = Peer(e)
  OBVIOUS
<1>n. PICK n : n = tcb[e].rcv_nxt
  OBVIOUS
<1>1. /\ b \in Blocks /\ w \in Works /\ tcb[e] \in Blocks
      /\ b.state = tcb[e].state /\ b.rcv_nxt = n
      /\ b.state \in Synchronized /\ IsAck(s) /\ "SYN" \notin s.flags
      /\ s \in To(e) /\ p \in Hosts /\ p # e /\ Hosts = {e, p}
      /\ tcb'[e].state = w.b.state /\ tcb'[e].rcv_nxt = w.b.rcv_nxt
      /\ tcb'[e].iss = w.b.iss /\ tcb'[e].shadow = w.b.shadow
      /\ stream'[e] = stream[e] \o w.got /\ Transmit(c, e, w.out)
      /\ tcb'[Peer(e)] = tcb[Peer(e)] /\ stream'[Peer(e)] = stream[Peer(e)]
      /\ nextSeq' = nextSeq /\ Room(b) # Len(w.got)
  BY <1>0, <1>n, <1>p, PeerType DEF Handled, Arrives
<1>2. /\ b.state \in Live /\ b.state # "NONE" /\ ~Unopened(e)
  BY <1>1 DEF Live, Synchronized, Unopened
<1>3. /\ tcb[e].iss = FirstSeq[e] /\ HostOK(e) /\ tcb[e].snd_nxt = Sent(e)
      /\ nextSeq[Server] # FirstSeq[Server]
  BY <1>1, <1>2, Started, ServerStarted
<1>4. SegmentResult(b, s, w)
  BY <1>0, <1>3, FirstHandled
<1>5. b.iss = tcb[e].iss /\ b.snd_nxt = tcb[e].snd_nxt
  <2>1. SegKept([tcb[e] EXCEPT !.rtq = b.rtq], b)
    BY <1>0 DEF Handled
  <2> QED
    BY <1>1, <2>1 DEF SegKept, Blocks
<1>6. tcb'[e].iss = tcb[e].iss /\ tcb'[e].shadow < StreamSize
  BY <1>1, <1>4, <1>5 DEF SegmentResult, SegKept
<1>7. OutOK(e, w.out)
  <2>1. CASE w.out = <<>>
    BY <2>1, NoOut
  <2>2. ASSUME NEW m \in {b.rcv_nxt, w.b.rcv_nxt}, NEW r \in 0 .. StreamSize,
               w.out = <<AckUpTo(b, m, r)>>
        PROVE  OutOK(e, w.out)
    <3>1. m \in Numbers
      BY <1>1 DEF Blocks, Works
    <3> QED
      BY <1>1, <1>3, <1>5, <2>2, <3>1, AckOut
  <2> QED
    BY <1>4, <2>1, <2>2 DEF SegmentResult
<1>8. w.got = <<>> => stream'[e] = stream[e]
  <2>1. stream[e] \in Seq(Nat)
    BY DEF TcpInv, TypeOK
  <2> QED
    BY <1>1, <2>1, ConcatEmptySeq
<1>9. TakesOK(e, s)
  <2>1. CASE b.state \in FinSeen
    <3>1. Ended(e) /\ b.state \notin Open
      BY <1>1, <2>1 DEF Ended, FinSeen, Open, Taking
    <3>2. w.got = <<>>
      BY <1>4, <3>1 DEF SegmentResult
    <3>3. /\ w.b.state \in FinSeen \cup {"CLOSED"}
          /\ w.b.state \notin FinSeen => b.state \in FinSent
      BY <1>4, <1>1, <2>1 DEF SegmentResult, FinSeen, FinSent, Synchronized
    <3>4. b.state \in FinSent => e \in closing
      BY <1>1, <1>2, <1>3 DEF HostOK, LiveOK
    <3>5. Ended(e)'
      BY <1>1, <3>3 DEF Ended
    <3> QED
      BY <1>1, <1>8, <3>1, <3>2, <3>3, <3>4, <3>5 DEF TakesOK
  <2>2. CASE b.state \notin FinSeen
    <3>1. b.state \in Open /\ ~Ended(e)
      BY <1>1, <1>2, <2>2 DEF Open, Taking, Synchronized, FinSeen, Ended
    <3>2. s.seq = n /\ Expect(e) = n
      BY <1>2, <1>n, <3>1, NextSegment DEF Expect
    <3>3. n = FirstSeq[p] + 1 + Len(stream[e])
      BY <1>1, <1>2, <1>3, <1>n, <1>p, <3>1 DEF HostOK, LiveOK
    <3>4. /\ "FIN" \in s.flags => p \in closing
          /\ s.seq = n => \A k \in 0 .. Len(s.data) : Plus(n, k) = n + k
      BY <1>1, <1>2, <1>n, <1>p, Taken
    <3>5. CASE "FIN" \in s.flags
      <4>1. s.seq = FirstSeq[p] + 1 + wrote[p]
        BY <1>1, <1>p, <3>5 DEF TcpInv, SegmentsInv, SegmentOK, EndsOK
      <4>2. Len(stream[e]) \in Nat /\ wrote[p] \in Nat /\ FirstSeq[p] \in Nat
        BY <1>1, Small DEF TcpInv, TypeOK
      <4>3. Len(stream[e]) = wrote[p]
        BY <3>2, <3>3, <4>1, <4>2
      <4>4. w.got = <<>> /\ w.b.state \in FinSeen
        BY <1>4, <3>1, <3>5 DEF SegmentResult, FinSeen, Open, Taking
      <4>5. Ended(e)'
        BY <1>1, <4>4 DEF Ended
      <4> QED
        BY <1>1, <1>8, <1>p, <3>4, <3>5, <4>3, <4>4, <4>5 DEF TakesOK
    <3>6. CASE "FIN" \notin s.flags
      <4>1. w.b.rcv_nxt = Plus(n, Len(s.data)) /\ w.b.state \in Taking
        <5>1. Took(b, s, w) /\ w.b.state \in Taking
          BY <1>1, <1>4, <3>1, <3>2, <3>6 DEF SegmentResult, Open, Taking
        <5> QED
          BY <1>1, <5>1 DEF Took
      <4>2. Span(s) = Len(s.data) /\ n \in Nat /\ Len(s.data) \in Nat
        <5>1. s \in Segments
          BY NextSegment
        <5>2. Len(s.data) \in Nat
          BY <5>1 DEF Segments
        <5> QED
          BY <1>1, <1>n, <5>2, BlockNumbers DEF Span
      <4>3. Plus(n, Len(s.data)) = n + Len(s.data)
        <5>1. Len(s.data) \in 0 .. Len(s.data)
          BY <4>2
        <5> QED
          BY <3>2, <3>4, <5>1
      <4>4. ~Ended(e)' /\ ~Unopened(e)'
        BY <1>1, <4>1 DEF Ended, Unopened, FinSeen, Taking
      <4>5. Expect(e)' = n + Span(s)
        BY <1>1, <4>1, <4>2, <4>3, <4>4 DEF Expect
      <4> QED
        BY <3>1, <3>2, <3>6, <4>4, <4>5 DEF TakesOK
    <3> QED
      BY <3>5, <3>6
  <2> QED
    BY <2>1, <2>2
<1> QED
  BY <1>1, <1>2, <1>3, <1>6, <1>7, <1>9, CleanReceive

LEMMA CleanReceives ==
  ASSUME NEW e \in Hosts, NoWrap, TcpInv, CleanOK, Receive(e) \/ ReceiveLate(e),
         filled' = {}
  PROVE  CleanOK'
<1>1. late[e] = {} /\ TypeOK
  BY DEF TcpInv, CleanOK, OnceOK
<1>2. Receive(e)
  BY <1>1 DEF ReceiveLate
<1>3. PICK s, c : /\ chan[e] # <<>> /\ s = Head(chan[e]) /\ c = [chan EXCEPT ![e] = Tail(@)]
                  /\ ReceiveAny(e, s, c) /\ late' = late
  BY <1>2 DEF Receive
<1>4. Comes(e, s, c)
  BY <1>3 DEF Comes, ReceiveAny
<1>5. Arrives(e, s, c)
  <2>1. /\ chan \in [Hosts -> Seq(Segments)] /\ chan[e] \in Seq(Segments)
        /\ Peer(e) \in Hosts /\ Peer(e) # e
    BY <1>1, PeerType DEF TypeOK
  <2>2. /\ Tail(chan[e]) \in Seq(Segments) /\ s \in Elems(chan[e])
        /\ Elems(Tail(chan[e])) \subseteq Elems(chan[e])
    BY <1>3, <2>1, TailElems
  <2> QED
    BY <1>3, <2>1, <2>2 DEF Arrives, ReceiveAny, To
<1> QED
  BY <1>3, <1>4, <1>5, CleanClosed, CleanListen, CleanSynSent, CleanRefused, CleanReset,
     CleanSegment, CleanTimeWait DEF ReceiveAny

----------------------------------------------------------------------------
\* The calls and the timer: e has a connection, and sends P.
LEMMA CleanAct ==
  ASSUME NEW e \in Hosts, NEW P \in Seq(Segments), NoWrap, TcpInv, CleanOK,
         tcb[e].state \notin {"NONE", "SYN_SENT"},
         chan'[e] = chan[e], chan'[Peer(e)] = chan[Peer(e)] \o P, tcb'[Peer(e)] = tcb[Peer(e)],
         UNCHANGED <<nextSeq, stream, late>>, wrote'[Peer(e)] = wrote[Peer(e)],
         Peer(e) \in closing' <=> Peer(e) \in closing, e \in closing => e \in closing',
         Ended(Peer(e)) => e \in closing' /\ wrote'[e] = wrote[e],
         e \in closing' => e \in closing \/ ~NoFin(P),
         e \in closing \/ Chain(P, Sent(e), Sent(e)'),
         \A g \in Elems(P) : /\ "SYN" \notin g.flags /\ ("RST" \in g.flags => Peer(e) \in closing')
                             /\ g.data # <<>> => g.wnd > 0,
         tcb'[e].shadow < StreamSize,
         tcb'[e].state # "NONE" => tcb'[e].iss = tcb[e].iss,
         Ended(e)' <=> Ended(e), ~Ended(e) => tcb'[e].rcv_nxt = tcb[e].rcv_nxt,
         ~Unopened(e)', Ended(e) /\ tcb'[e].state \notin FinSeen => e \in closing'
  PROVE  CleanOK'
<1>p. PICK p : p = Peer(e)
  OBVIOUS
<1>1. /\ p \in Hosts /\ p # e /\ Hosts = {e, p} /\ TypeOK /\ WayOK(e) /\ WayOK(p)
      /\ tcb[e].iss = FirstSeq[e] /\ nextSeq[e] # FirstSeq[e] /\ ~Unopened(e) /\ OnceOK
  BY <1>p, PeerType, Started DEF TcpInv, CleanOK, Unopened
<1>2. nextSeq[Server] # FirstSeq[Server] /\ nextSeq[Client] # FirstSeq[Client]
  <2>1. CASE e = Client
    BY <1>1, <2>1 DEF OnceOK
  <2>2. CASE e = Server
    BY <1>1, <2>2 DEF OnceOK
  <2> QED
    BY <2>1, <2>2 DEF Hosts
<1>3. WayOK(p)'
  <2>1. \A i \in 1 .. Len(P) :
          /\ "RST" \in P[i].flags => Peer(e) \in closing'
          /\ "SYN" \in P[i].flags => i = 1 /\ chan[Peer(e)] = <<>> /\ Unopened(Peer(e))
          /\ P[i].data # <<>> => P[i].wnd > 0
    BY DEF Elems
  <2>2. WayOK(Peer(e)) /\ Peer(e) \in closing => Peer(e) \in closing'
    OBVIOUS
  <2>3. nextSeq'[Peer(e)] = nextSeq[Peer(e)] /\ stream'[Peer(e)] = stream[Peer(e)]
    OBVIOUS
  <2>4. WayOK(Peer(e))'
    BY <1>1, <1>p, <2>1, <2>2, <2>3, OtherWay
  <2> QED
    BY <1>p, <2>4
<1>4. WayOK(e)'
  <2>1. Sent(p)' = Sent(p)
    BY <1>p DEF Sent, Top
  <2>2. ~Ended(e) => Expect(e)' = Expect(e)
    BY <1>1 DEF Expect
  <2>3. Ended(e)' => /\ Peer(e) \in closing' /\ Len(stream'[e]) = wrote'[Peer(e)]
                     /\ tcb'[e].state \notin FinSeen => e \in closing'
    BY <1>1 DEF WayOK
  <2>4. ~Ended(e)' => /\ Chain(chan'[e], Expect(e)', Sent(Peer(e))')
                      /\ Peer(e) \in closing' => ~NoFin(chan'[e])
    BY <1>1, <1>p, <2>1, <2>2 DEF WayOK
  <2>5. \A i \in 1 .. Len(chan'[e]) :
          /\ "RST" \in chan'[e][i].flags => e \in closing'
          /\ "SYN" \notin chan'[e][i].flags
          /\ chan'[e][i].data # <<>> => chan'[e][i].wnd > 0
    BY <1>1 DEF WayOK
  <2> QED
    BY <2>3, <2>4, <2>5 DEF WayOK
<1>5. OnceOK'
  <2>1. ASSUME NEW h \in Hosts
        PROVE  /\ late'[h] = {} /\ tcb'[h].shadow < StreamSize
               /\ tcb'[h].state # "NONE" => tcb'[h].iss = FirstSeq[h]
    <3>1. CASE h = p
      BY <1>1, <1>p, <3>1 DEF OnceOK
    <3>2. CASE h = e
      BY <1>1, <3>2 DEF OnceOK
    <3> QED
      BY <1>1, <3>1, <3>2
  <2> QED
    BY <1>2, <2>1 DEF OnceOK
<1> QED
  BY <1>1, <1>3, <1>4, <1>5 DEF CleanOK

LEMMA CleanSend ==
  ASSUME NEW e \in Hosts, NEW n \in Sizes[e], NoWrap, TcpInv, CleanOK, Send(e, n)
  PROVE  CleanOK'
<1>b. PICK b : b = tcb[e]
  OBVIOUS
<1>d. PICK d : d = tcb'[e]
  OBVIOUS
<1>0. PICK P \in Seq(Segments), f \in Nat : SentOK(e, n, P, f)
  BY SentPieces
<1>1. /\ f = FirstSeq[e] + 1 + wrote[e] /\ f = b.snd_nxt /\ n \in Nat /\ Chain(P, f, f + n)
      /\ Transmit(chan, e, P) /\ tcb' = [tcb EXCEPT ![e] = [b EXCEPT !.rtq = @ \o P, !.snd_nxt = f + n]]
      /\ \A g \in Elems(P) : g.flags \in {{"ACK"}, {"ACK", "PSH"}} /\ g.wnd = Room(b)
  BY <1>0, <1>b DEF SentOK
<1>2. /\ b \in Blocks /\ tcb \in [Hosts -> Blocks] /\ chan \in [Hosts -> Seq(Segments)]
      /\ Peer(e) \in Hosts /\ Peer(e) # e /\ wrote \in [Hosts -> Nat] /\ TypeOK
  BY <1>b, PeerType DEF TcpInv, TypeOK
<1>3. /\ HasEndpoint(e) /\ b.state \in {"ESTABLISHED", "CLOSE_WAIT"} /\ e \notin closing
      /\ UNCHANGED <<nextSeq, stream, late, closing>> /\ wrote' = [wrote EXCEPT ![e] = @ + n]
  BY <1>b DEF Send
<1>4. d = [b EXCEPT !.rtq = b.rtq \o P, !.snd_nxt = f + n] /\ tcb'[Peer(e)] = tcb[Peer(e)]
  BY <1>1, <1>2, <1>d
<1>5. d.state = b.state /\ d.rcv_nxt = b.rcv_nxt /\ d.iss = b.iss /\ d.shadow = b.shadow
  BY <1>2, <1>4 DEF Blocks
<1>6. chan'[e] = chan[e] /\ chan'[Peer(e)] = chan[Peer(e)] \o P
  BY <1>1, <1>2 DEF Transmit
<1>7. ~Ended(Peer(e))
  BY <1>2, <1>3, PeerType DEF CleanOK, WayOK
<1>8. Chain(P, Sent(e), Sent(e)')
  <2>1. b.state # "NONE" /\ Sent(e) = Top(e) /\ nextSeq[e] # FirstSeq[e]
    BY <1>3, <1>b, Started
  <2>2. Top(e) = f
    BY <1>1, <1>3, <1>b, InUse
  <2>3. Sent(e)' = FirstSeq[e] + 1 + (wrote[e] + n) + 0
    BY <1>2, <1>3, <2>1 DEF Sent, Top
  <2>4. FirstSeq[e] + 1 + (wrote[e] + n) + 0 = f + n
    <3>1. PICK i \in Nat, j \in Nat : i = FirstSeq[e] /\ j = wrote[e]
      BY <1>2, Small
    <3>2. f = i + 1 + j /\ n \in Nat
      BY <1>1, <3>1
    <3>3. i + 1 + (j + n) + 0 = f + n
      BY <3>2
    <3> QED
      BY <3>1, <3>3
  <2> QED
    BY <1>1, <2>1, <2>2, <2>3, <2>4
<1>9. tcb'[e].shadow < StreamSize /\ Room(b) > 0
  <2>1. b.shadow < StreamSize
    BY <1>b DEF CleanOK, OnceOK
  <2>2. b.shadow \in Nat /\ StreamSize \in Nat
    BY <1>2, TcpAssumption DEF Blocks
  <2> QED
    BY <1>5, <1>d, <2>1, <2>2 DEF Room
<1>10. (Ended(e)' <=> Ended(e)) /\ ~Unopened(e)' /\ (Ended(e) => tcb'[e].state \in FinSeen)
  BY <1>3, <1>5, <1>b, <1>d DEF Ended, Unopened, FinSeen
<1>11. /\ tcb'[e].state # "NONE" => tcb'[e].iss = tcb[e].iss
       /\ ~Ended(e) => tcb'[e].rcv_nxt = tcb[e].rcv_nxt
       /\ tcb[e].state \notin {"NONE", "SYN_SENT"}
  BY <1>3, <1>5, <1>b, <1>d
<1>12. /\ Peer(e) \in closing' <=> Peer(e) \in closing
       /\ e \in closing => e \in closing'
       /\ e \in closing' => e \in closing \/ ~NoFin(P)
       /\ wrote'[Peer(e)] = wrote[Peer(e)]
       /\ \A g \in Elems(P) : /\ "SYN" \notin g.flags /\ ("RST" \in g.flags => Peer(e) \in closing')
                              /\ g.data # <<>> => g.wnd > 0
  <2>1. \A g \in Elems(P) : "SYN" \notin g.flags /\ "RST" \notin g.flags
    BY <1>1
  <2>2. \A g \in Elems(P) : g.wnd > 0
    BY <1>1, <1>9
  <2>3. closing' = closing /\ wrote'[Peer(e)] = wrote[Peer(e)]
    BY <1>2, <1>3
  <2> QED
    BY <2>1, <2>2, <2>3
<1>13. /\ UNCHANGED <<nextSeq, stream, late>>
       /\ Ended(Peer(e)) => e \in closing' /\ wrote'[e] = wrote[e]
       /\ Ended(e) /\ tcb'[e].state \notin FinSeen => e \in closing'
  BY <1>3, <1>7, <1>10
<1> QED
  BY <1>4, <1>6, <1>8, <1>9, <1>10, <1>11, <1>12, <1>13, CleanAct

LEMMA CleanClose ==
  ASSUME NEW e \in Hosts, NoWrap, TcpInv, CleanOK, Close(e)
  PROVE  CleanOK'
<1>b. PICK b : b = tcb[e]
  OBVIOUS
<1>d. PICK d : d = tcb'[e]
  OBVIOUS
<1>f. PICK fin : fin = SendSegment(b, {"FIN", "ACK"}, <<>>)
  OBVIOUS
<1>g. PICK g : g = Seg({"FIN", "ACK"}, b.snd_nxt, b.rcv_nxt, Room(b), <<>>)
  OBVIOUS
<1>1. /\ b \in Blocks /\ tcb \in [Hosts -> Blocks] /\ chan \in [Hosts -> Seq(Segments)]
      /\ Peer(e) \in Hosts /\ Peer(e) # e /\ TypeOK
  BY <1>b, PeerType DEF TcpInv, TypeOK
<1>2. /\ Pieces(b, {"FIN", "ACK"}, <<>>) = <<g>> /\ g \in Segments /\ fin \in Blocks
      /\ fin.shadow = b.shadow
      /\ fin.rcv_nxt = b.rcv_nxt /\ fin.iss = b.iss
  <2>1. {"FIN", "ACK"} \in SUBSET Flags
    BY DEF Flags
  <2> QED
    BY <1>1, <1>f, <1>g, <2>1, SendOne
<1>3. /\ HasEndpoint(e) /\ b.state \in {"ESTABLISHED", "CLOSE_WAIT"}
      /\ UNCHANGED <<nextSeq, stream, late, wrote>> /\ closing' = closing \cup {e}
      /\ Transmit(chan, e, <<g>>)
  BY <1>2, <1>b DEF Close
<1>4. PICK t \in {"FIN_WAIT_1", "LAST_ACK"} :
        t = IF b.state = "ESTABLISHED" THEN "FIN_WAIT_1" ELSE "LAST_ACK"
  OBVIOUS
<1>5. /\ d = [fin EXCEPT !.state = t, !.fin_seq = b.snd_nxt, !.snd_nxt = Plus(b.snd_nxt, 1)]
      /\ tcb'[Peer(e)] = tcb[Peer(e)]
  BY <1>1, <1>4, <1>b, <1>d, <1>f DEF Close
<1>6. d.state = t /\ d.rcv_nxt = b.rcv_nxt /\ d.iss = b.iss /\ d.shadow = fin.shadow
  BY <1>2, <1>5 DEF Blocks
<1>7. chan'[e] = chan[e] /\ chan'[Peer(e)] = chan[Peer(e)] \o <<g>>
  BY <1>1, <1>3 DEF Transmit
<1>8. e \notin closing /\ b.snd_nxt = Sent(e) /\ ~Ended(Peer(e))
  <2>1. e \notin closing
    BY <1>3, <1>b, InUse
  <2>2. b.state # "NONE" /\ b.state \in Live
    BY <1>3 DEF Live, Synchronized
  <2>3. b.snd_nxt = Sent(e)
    BY <1>b, <2>2, Started
  <2>4. ~Ended(Peer(e))
    BY <1>1, <2>1, PeerType DEF CleanOK, WayOK
  <2> QED
    BY <2>1, <2>3, <2>4
<1>9. g.flags = {"FIN", "ACK"} /\ g.seq = b.snd_nxt /\ g.data = <<>>
  BY <1>g DEF Seg
<1>10. Chain(<<g>>, Sent(e), Sent(e)')
  <2>1. PICK y : y = Sent(e)'
    OBVIOUS
  <2>2. Chain(<<g>>, g.seq, y)
    BY <1>2, <1>9, ChainOne
  <2> QED
    BY <1>8, <1>9, <2>1, <2>2
<1>11. <<g>> \in Seq(Segments) /\ Elems(<<g>>) = {g} /\ ~NoFin(<<g>>)
  <2>1. Len(<<g>>) = 1 /\ <<g>>[1] = g /\ 1 \in 1 .. 1
    OBVIOUS
  <2> QED
    BY <1>2, <1>9, <2>1, SingleElems DEF NoFin
<1>12. tcb'[e].shadow < StreamSize
  <2>1. b.shadow < StreamSize
    BY <1>b DEF CleanOK, OnceOK
  <2> QED
    BY <1>2, <1>6, <1>d, <2>1
<1>13. (Ended(e)' <=> Ended(e)) /\ ~Unopened(e)'
  BY <1>3, <1>4, <1>6, <1>b, <1>d DEF Ended, Unopened, FinSeen
<1>14. /\ tcb'[e].state # "NONE" => tcb'[e].iss = tcb[e].iss
       /\ ~Ended(e) => tcb'[e].rcv_nxt = tcb[e].rcv_nxt
       /\ tcb[e].state \notin {"NONE", "SYN_SENT"}
  BY <1>3, <1>6, <1>b, <1>d
<1>15. /\ Peer(e) \in closing' <=> Peer(e) \in closing
       /\ e \in closing => e \in closing'
       /\ e \in closing' => e \in closing \/ ~NoFin(<<g>>)
       /\ wrote'[Peer(e)] = wrote[Peer(e)]
       /\ \A k \in Elems(<<g>>) : /\ "SYN" \notin k.flags /\ ("RST" \in k.flags => Peer(e) \in closing')
                                  /\ k.data # <<>> => k.wnd > 0
       /\ Ended(e) /\ tcb'[e].state \notin FinSeen => e \in closing'
  <2>1. \A k \in Elems(<<g>>) : "SYN" \notin k.flags /\ "RST" \notin k.flags /\ k.data = <<>>
    BY <1>9, <1>11
  <2>2. e \in closing' /\ (Peer(e) \in closing' <=> Peer(e) \in closing) /\ wrote' = wrote
    BY <1>1, <1>3
  <2> QED
    BY <1>11, <2>1, <2>2
<1>16. /\ UNCHANGED <<nextSeq, stream, late>>
       /\ Ended(Peer(e)) => e \in closing' /\ wrote'[e] = wrote[e]
  BY <1>3, <1>8
<1> QED
  BY <1>5, <1>7, <1>10, <1>11, <1>12, <1>13, <1>14, <1>15, <1>16, CleanAct

LEMMA CleanConnect ==
  ASSUME NoWrap, TcpInv, CleanOK, Connect
  PROVE  CleanOK'
<1>e. PICK e : e = Client
  OBVIOUS
<1>p. PICK p : p = Server
  OBVIOUS
<1>d. PICK d : d = [NoBlock EXCEPT !.state = "SYN_SENT", !.iss = nextSeq[e],
                                   !.snd_nxt = Plus(nextSeq[e], 1), !.snd_una = nextSeq[e],
                                   !.endpoint = TRUE]
  OBVIOUS
<1>g. PICK g : g = Seg({"SYN"}, nextSeq[e], 0, StreamSize, <<>>)
  OBVIOUS
<1>1. /\ e \in Hosts /\ p \in Hosts /\ p # e /\ Peer(e) = p /\ Peer(p) = e /\ Hosts = {e, p}
  BY <1>e, <1>p, TcpAssumption DEF Peer, Hosts
<1>2. /\ TypeOK /\ HostOK(e) /\ HostOK(p) /\ WayOK(e) /\ WayOK(p) /\ OnceOK
      /\ tcb \in [Hosts -> Blocks] /\ nextSeq \in [Hosts -> Numbers]
      /\ chan \in [Hosts -> Seq(Segments)]
  BY <1>1 DEF TcpInv, CleanOK, TypeOK
<1>3. /\ tcb[e].state = "NONE" /\ nextSeq[e] = FirstSeq[e]
      /\ tcb' = [tcb EXCEPT ![e] = d] /\ nextSeq' = [nextSeq EXCEPT ![e] = Plus(@, SeqStep)]
      /\ Transmit(chan, e, <<g>>) /\ UNCHANGED <<stream, wrote, closing, late>>
  BY <1>e, <1>d, <1>g DEF Connect, NextSequenceNumber
<1>4. nextSeq[p] = FirstSeq[p] /\ tcb[p].state = "NONE"
  <2>1. nextSeq[p] = FirstSeq[p]
    BY <1>2, <1>3, <1>e, <1>p DEF OnceOK
  <2> QED
    BY <1>1, <2>1, Started
<1>5. wrote[e] = 0 /\ e \notin closing /\ p \notin closing
  BY <1>2, <1>3, <1>4 DEF HostOK, GoneOK
<1>6. \A h \in Hosts : chan[h] = <<>>
  <2> TAKE h \in Hosts
  <2>1. To(h) = {}
    BY <1>3, <1>e DEF TcpInv, SegmentsInv
  <2>2. chan[h] # <<>> => Head(chan[h]) \in Elems(chan[h])
    BY <1>2, TailElems
  <2> QED
    BY <2>1, <2>2 DEF To
<1>7. /\ tcb'[e] = d /\ tcb'[p] = tcb[p] /\ nextSeq'[e] = Plus(FirstSeq[e], SeqStep)
      /\ nextSeq'[p] = nextSeq[p]
  BY <1>1, <1>2, <1>3
<1>8. d.state = "SYN_SENT" /\ d.iss = FirstSeq[e] /\ d.shadow = 0
  BY <1>3, <1>d DEF NoBlock
<1>9. nextSeq'[e] # FirstSeq[e] /\ FirstSeq[e] \in Nat
  BY <1>1, <1>7, Small
<1>10. /\ Sent(e) = FirstSeq[e] /\ Sent(e)' = FirstSeq[e] + 1
       /\ Sent(p)' = FirstSeq[p]
  BY <1>3, <1>4, <1>5, <1>7, <1>9 DEF Sent, Top
<1>11. chan'[e] = <<>> /\ chan'[p] = chan[p] \o <<g>>
  BY <1>1, <1>2, <1>3, <1>6 DEF Transmit
<1>12. ~Ended(e)' /\ Unopened(e)' /\ Unopened(p)
  BY <1>4, <1>7, <1>8 DEF Ended, Unopened, FinSeen
<1>13. WayOK(e)'
  <2>1. Expect(e)' = FirstSeq[p]
    BY <1>1, <1>12 DEF Expect
  <2>2. Chain(chan'[e], Expect(e)', Sent(Peer(e))')
    BY <1>1, <1>10, <1>11, <2>1, ChainEmpty
  <2>3. Len(chan'[e]) = 0
    BY <1>11, EmptySeq
  <2> QED
    BY <1>1, <1>3, <1>5, <1>12, <2>2, <2>3 DEF WayOK
<1>14. WayOK(p)'
  <2>1. g \in Segments
    <3>1. {"SYN"} \in SUBSET Flags /\ <<>> \in Seq(Nat) /\ nextSeq[e] \in Numbers /\ 0 \in Numbers
      BY <1>1, <1>2, EmptySeq, TcpAssumption DEF Flags, Numbers
    <3> QED
      BY <1>g, <3>1, SegType, Windows
  <2>2. g.flags = {"SYN"} /\ g.seq = FirstSeq[e] /\ g.data = <<>>
    BY <1>3, <1>g DEF Seg
  <2>3. Span(g) = 1
    BY <2>2, EmptySeq DEF Span
  <2>4. Chain(<<g>>, FirstSeq[e], FirstSeq[e] + 1)
    BY <2>1, <2>2, <2>3, ChainOne
  <2>5. Chain(<<g>>, Sent(e), Sent(e)')
    BY <1>10, <2>4
  <2>6. <<g>> \in Seq(Segments) /\ Len(<<g>>) = 1 /\ \A i \in 1 .. 1 : i = 1 /\ <<g>>[i] = g
    BY <2>1
  <2>7. \A i \in 1 .. Len(<<g>>) :
          /\ "RST" \in <<g>>[i].flags => Peer(e) \in closing'
          /\ "SYN" \in <<g>>[i].flags => i = 1 /\ chan[Peer(e)] = <<>> /\ Unopened(Peer(e))
          /\ <<g>>[i].data # <<>> => <<g>>[i].wnd > 0
    BY <1>1, <1>6, <1>12, <2>2, <2>6
  <2>8. /\ Ended(Peer(e)) => e \in closing' /\ wrote'[e] = wrote[e]
        /\ Peer(e) \in closing => Peer(e) \in closing'
        /\ e \in closing' => e \in closing \/ ~NoFin(<<g>>)
    BY <1>1, <1>2, <1>3 DEF WayOK
  <2>9. WayOK(Peer(e)) /\ chan'[Peer(e)] = chan[Peer(e)] \o <<g>> /\ tcb'[Peer(e)] = tcb[Peer(e)]
        /\ nextSeq'[Peer(e)] = nextSeq[Peer(e)] /\ stream'[Peer(e)] = stream[Peer(e)]
    BY <1>1, <1>2, <1>3, <1>7, <1>11
  <2>10. WayOK(Peer(e))'
    BY <1>1, <1>2, <2>5, <2>6, <2>7, <2>8, <2>9, OtherWay
  <2> QED
    BY <1>1, <2>10
<1>15. OnceOK'
  <2>1. ASSUME NEW h \in Hosts
        PROVE  /\ late'[h] = {} /\ tcb'[h].shadow < StreamSize
               /\ tcb'[h].state # "NONE" => tcb'[h].iss = FirstSeq[h]
    <3>1. CASE h = p
      BY <1>1, <1>2, <1>3, <1>7, <3>1 DEF OnceOK
    <3>2. CASE h = e
      BY <1>1, <1>2, <1>3, <1>7, <1>8, <3>2, TcpAssumption DEF OnceOK
    <3> QED
      BY <1>1, <3>1, <3>2
  <2> QED
    BY <1>9, <1>11, <1>12, <1>e, <1>p, <2>1 DEF OnceOK
<1> QED
  BY <1>1, <1>13, <1>14, <1>15 DEF CleanOK

LEMMA CleanExpires ==
  ASSUME NEW e \in Hosts, NoWrap, TcpInv, CleanOK, TimeWaitExpires(e)
  PROVE  CleanOK'
<1>b. PICK b : b = tcb[e]
  OBVIOUS
<1>d. PICK d : d = tcb'[e]
  OBVIOUS
<1>1. /\ b \in Blocks /\ tcb \in [Hosts -> Blocks] /\ chan \in [Hosts -> Seq(Segments)]
      /\ Peer(e) \in Hosts /\ Peer(e) # e /\ HostOK(e) /\ b.waiting
      /\ UNCHANGED <<nextSeq, stream, wrote, closing, late>>
  BY <1>b, PeerType DEF TcpInv, TypeOK, TimeWaitExpires
<1>2. b.state = "TIME_WAIT" /\ b.iss = FirstSeq[e]
  <2>1. b.state # "NONE"
    BY <1>1, <1>b DEF HostOK, GoneOK, NoBlock
  <2>2. b.iss = FirstSeq[e]
    BY <1>b, <2>1, Started
  <2> QED
    BY <1>1, <1>b, <2>1, <2>2 DEF HostOK, FirstOK
<1>3. e \in closing /\ Peer(e) \in closing /\ Ended(e)
  <2>1. b.state \in Live /\ b.state \in FinSent /\ b.state \in FinSeen
    BY <1>2 DEF Live, FinSent, FinSeen
  <2> QED
    BY <1>1, <1>2, <1>b, <2>1 DEF HostOK, LiveOK, Ended
<1>4. b.rtq = <<>>
  BY <1>1, <1>2, <1>b DEF HostOK, QueueOK
<1>5. /\ d = [b EXCEPT !.waiting = FALSE, !.state = "CLOSED", !.freeing = TRUE]
      /\ tcb'[Peer(e)] = tcb[Peer(e)] /\ chan' = chan
  BY <1>1, <1>4, <1>b, <1>d DEF TimeWaitExpires
<1>6. d.state = "CLOSED" /\ d.shadow = b.shadow /\ d.iss = b.iss
  BY <1>1, <1>5 DEF Blocks
<1>7. /\ chan'[e] = chan[e] /\ chan'[Peer(e)] = chan[Peer(e)] \o <<>>
      /\ <<>> \in Seq(Segments) /\ Elems(<<>>) = {}
  BY <1>1, <1>5, EmptySeq, ConcatEmptySeq DEF Elems
<1>8. Ended(e)' /\ ~Unopened(e)'
  BY <1>6, <1>d DEF Ended, Unopened, FinSeen
<1>9. /\ tcb'[e].shadow < StreamSize
      /\ tcb'[e].state # "NONE" => tcb'[e].iss = tcb[e].iss
      /\ tcb[e].state \notin {"NONE", "SYN_SENT"}
  BY <1>2, <1>6, <1>b, <1>d DEF CleanOK, OnceOK
<1>10. /\ Peer(e) \in closing' <=> Peer(e) \in closing
       /\ e \in closing => e \in closing'
       /\ Ended(Peer(e)) => e \in closing' /\ wrote'[e] = wrote[e]
       /\ e \in closing' => e \in closing \/ ~NoFin(<<>>)
       /\ e \in closing \/ Chain(<<>>, Sent(e), Sent(e)')
       /\ wrote'[Peer(e)] = wrote[Peer(e)]
       /\ \A g \in Elems(<<>>) : /\ "SYN" \notin g.flags /\ ("RST" \in g.flags => Peer(e) \in closing')
                                 /\ g.data # <<>> => g.wnd > 0
       /\ Ended(e) /\ tcb'[e].state \notin FinSeen => e \in closing'
  BY <1>1, <1>3, <1>7
<1> QED
  BY <1>1, <1>3, <1>5, <1>7, <1>8, <1>9, <1>10, CleanAct

LEMMA CleanRemove ==
  ASSUME NEW e \in Hosts, NoWrap, TcpInv, CleanOK, RemoveConn(e)
  PROVE  CleanOK'
<1>b. PICK b : b = tcb[e]
  OBVIOUS
<1>1. /\ b \in Blocks /\ tcb \in [Hosts -> Blocks] /\ chan \in [Hosts -> Seq(Segments)]
      /\ Peer(e) \in Hosts /\ Peer(e) # e /\ HostOK(e) /\ b.freeing
      /\ tcb' = [tcb EXCEPT ![e] = NoBlock]
      /\ UNCHANGED <<nextSeq, stream, wrote, closing, late, chan>>
  BY <1>b, PeerType DEF TcpInv, TypeOK, RemoveConn
<1>2. b.state # "NONE"
  BY <1>1, <1>b DEF HostOK, GoneOK, NoBlock
<1>3. b.iss = FirstSeq[e] /\ nextSeq[e] # FirstSeq[e]
  BY <1>2, <1>b, Started
<1>4. b.state = "CLOSED" /\ e \in closing /\ Peer(e) \in closing
  BY <1>1, <1>2, <1>3, <1>b DEF HostOK, FirstOK
<1>5. tcb'[e] = NoBlock /\ tcb'[Peer(e)] = tcb[Peer(e)] /\ NoBlock.state = "NONE" /\ NoBlock.shadow = 0
  BY <1>1 DEF NoBlock
<1>6. Ended(e) /\ Ended(e)' /\ ~Unopened(e)'
  BY <1>1, <1>3, <1>4, <1>5, <1>b DEF Ended, Unopened
<1>7. /\ chan[Peer(e)] \o <<>> = chan[Peer(e)] /\ <<>> \in Seq(Segments) /\ Elems(<<>>) = {}
  BY <1>1, EmptySeq, ConcatEmptySeq DEF Elems
<1>8. /\ tcb'[e].shadow < StreamSize
      /\ tcb'[e].state # "NONE" => tcb'[e].iss = tcb[e].iss
      /\ tcb[e].state \notin {"NONE", "SYN_SENT"}
      /\ chan'[e] = chan[e] /\ chan'[Peer(e)] = chan[Peer(e)] \o <<>>
  BY <1>1, <1>4, <1>5, <1>7, <1>b, TcpAssumption
<1>9. /\ Peer(e) \in closing' <=> Peer(e) \in closing
      /\ e \in closing => e \in closing'
      /\ Ended(Peer(e)) => e \in closing' /\ wrote'[e] = wrote[e]
      /\ e \in closing' => e \in closing \/ ~NoFin(<<>>)
      /\ e \in closing \/ Chain(<<>>, Sent(e), Sent(e)')
      /\ wrote'[Peer(e)] = wrote[Peer(e)]
      /\ \A g \in Elems(<<>>) : /\ "SYN" \notin g.flags /\ ("RST" \in g.flags => Peer(e) \in closing')
                                /\ g.data # <<>> => g.wnd > 0
      /\ Ended(e) /\ tcb'[e].state \notin FinSeen => e \in closing'
  BY <1>1, <1>4, <1>7
<1> QED
  BY <1>1, <1>5, <1>6, <1>7, <1>8, <1>9, CleanAct

----------------------------------------------------------------------------
LEMMA CleanInit == NoWrap /\ Init => CleanInv
<1> SUFFICES ASSUME NoWrap, Init PROVE CleanOK
  BY DEF CleanInv
<1>1. \A e \in Hosts : /\ tcb[e] = NoBlock /\ nextSeq[e] = FirstSeq[e]
                       /\ chan[e] = <<>> /\ late[e] = {}
  BY TcpAssumption DEF Init
<1>2. closing = {} /\ NoBlock.state = "NONE" /\ NoBlock.shadow = 0
  BY DEF Init, NoBlock
<1>3. Elems(<<>>) = {} /\ Len(<<>>) = 0
  BY EmptySeq DEF Elems
<1>4. Client \in Hosts /\ Server \in Hosts
  BY DEF Hosts
<1>5. \A e \in Hosts : ~Ended(e) /\ Unopened(e) /\ Sent(e) = FirstSeq[e]
  BY <1>1, <1>2 DEF Ended, Unopened, Sent, FinSeen
<1>6. OnceOK
  BY <1>1, <1>2, <1>4, <1>5, TcpAssumption DEF OnceOK
<1>7. ASSUME NEW e \in Hosts
      PROVE  WayOK(e)
  <2>1. Peer(e) \in Hosts /\ Expect(e) = FirstSeq[Peer(e)]
    BY <1>5, PeerType DEF Expect
  <2>2. Chain(chan[e], Expect(e), Sent(Peer(e)))
    BY <1>1, <1>5, <2>1, ChainEmpty
  <2> QED
    BY <1>1, <1>2, <1>3, <1>5, <2>2 DEF WayOK
<1> QED
  BY <1>6, <1>7 DEF CleanOK

\* A host stays in filled.
LEMMA FilledStays ==
  ASSUME NEW e \in Hosts, Receive(e) \/ ReceiveLate(e), filled' = {}
  PROVE  filled = {}
<1>1. PICK s, c : ReceiveAny(e, s, c)
  BY DEF Receive, ReceiveLate
<1>2. CASE ReceiveSegment(e, s, c)
  <2>1. filled' = filled \cup {e} \/ filled' = filled
    BY <1>2 DEF ReceiveSegment
  <2> QED
    BY <2>1
<1>3. CASE ~ReceiveSegment(e, s, c)
  BY <1>1, <1>3 DEF ReceiveAny, ReceiveClosed, ReceiveListen, ReceiveListenOther,
                    ReceiveSynSent, ReceiveRefused, ReceiveReset, ReceiveTimeWait
<1> QED
  BY <1>2, <1>3

LEMMA CleanStep == NoWrap /\ TcpInv /\ CleanInv /\ [Next]_vars => CleanInv'
<1> SUFFICES ASSUME NoWrap, TcpInv, CleanInv, [Next]_vars, Clean' PROVE CleanOK'
  BY DEF CleanInv
<1>1. CASE UNCHANGED vars
  <2>1. CleanOK
    BY <1>1 DEF CleanInv, Clean, vars
  <2>2. OnceOK'
    BY <1>1, <2>1 DEF CleanOK, OnceOK, Unopened, vars
  <2>3. \A e \in Hosts : WayOK(e)'
    BY <1>1, <2>1 DEF CleanOK, WayOK, Ended, Unopened, Expect, Sent, Top, vars
  <2> QED
    BY <2>2, <2>3 DEF CleanOK
<1>2. CASE Next
  <2>1. ASSUME NEW e \in Hosts
        PROVE  ~CloseEarly(e) /\ ~Stray(e) /\ ~Copy(e)
    <3>1. ~CloseEarly(e)
      BY DEF CloseEarly, Clean
    <3>2. faults \in Nat
      BY TcpAssumption DEF TcpInv, TypeOK
    <3>3. ~Stray(e) /\ ~Copy(e)
      BY <3>2 DEF Stray, Copy, Clean
    <3> QED
      BY <3>1, <3>3
  <2>2. CASE Connect
    <3>1. CleanOK
      BY <2>2 DEF Connect, CleanInv, Clean
    <3> QED
      BY <2>2, <3>1, CleanConnect
  <2>3. ASSUME NEW e \in Hosts, NEW n \in Sizes[e], Send(e, n)
        PROVE  CleanOK'
    <3>1. CleanOK
      BY <2>3 DEF Send, CleanInv, Clean
    <3> QED
      BY <2>3, <3>1, CleanSend
  <2>4. ASSUME NEW e \in Hosts, Close(e)
        PROVE  CleanOK'
    <3>1. CleanOK
      BY <2>4 DEF Close, CleanInv, Clean
    <3> QED
      BY <2>4, <3>1, CleanClose
  <2>5. ASSUME NEW e \in Hosts, Receive(e) \/ ReceiveLate(e)
        PROVE  CleanOK'
    <3>1. filled' = {}
      BY DEF Clean
    <3>2. filled = {}
      BY <2>5, <3>1, FilledStays
    <3>3. faults' = faults /\ stuck' = stuck
      BY <2>5 DEF Receive, ReceiveLate, ReceiveAny
    <3>4. CleanOK
      BY <3>2, <3>3 DEF CleanInv, Clean
    <3> QED
      BY <2>5, <3>1, <3>4, CleanReceives
  <2>6. ASSUME NEW e \in Hosts, TimeWaitExpires(e)
        PROVE  CleanOK'
    <3>1. CleanOK
      BY <2>6 DEF TimeWaitExpires, CleanInv, Clean
    <3> QED
      BY <2>6, <3>1, CleanExpires
  <2>7. ASSUME NEW e \in Hosts, RemoveConn(e)
        PROVE  CleanOK'
    <3>1. CleanOK
      BY <2>7 DEF RemoveConn, CleanInv, Clean
    <3> QED
      BY <2>7, <3>1, CleanRemove
  <2> QED
    BY <1>2, <2>1, <2>2, <2>3, <2>4, <2>5, <2>6, <2>7 DEF Next
<1> QED
  BY <1>1, <1>2

\* As long as the network brings everything once and in order and no shadow stream fills up,
\* an end that has seen the FIN has all that the other user sent: no segment is found
\* unacceptable or taken in part, nothing is taken after a gap, and the FIN is the last
\* number of its sender.
THEOREM TcpEndMeansAll == ASSUME NoWrap PROVE Spec => []EndMeansAll
<1>1. Init => CleanInv
  BY CleanInit
<1>2. TcpInv /\ CleanInv /\ [Next]_vars => CleanInv'
  BY CleanStep
<1>3. CleanInv => EndMeansAll
  BY DEF CleanInv, CleanOK, WayOK, Ended, FinSeen, EndMeansAll, EndHasAll
<1> QED
  BY <1>1, <1>2, <1>3, TcpInvariant, PTL DEF Spec
=============================================================================
