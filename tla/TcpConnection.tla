---------------------------- MODULE TcpConnection ----------------------------
(***************************************************************************)
(* A TCP connection between two hosts that run TcpManager: a client that   *)
(* connects and a server that listens, the user's calls at both ends, and  *)
(* a network that may lose, duplicate and reorder segments.  receive and   *)
(* the calls run under m_TcpMutex and are one step each.  What is received *)
(* goes to the shadow stream of an endpoint, of which the model keeps how  *)
(* much it holds; a push empties it into the stream the user reads, whose  *)
(* own bound is not modelled.                                              *)
(***************************************************************************)
EXTENDS Integers, Sequences, FiniteSets

CONSTANTS
  Client, Server,
  SeqMod,      \* sequence numbers are taken modulo SeqMod: 2^32
  StreamSize,  \* of a TcpBuffer, 32768: the most a host advertises
  Mss,         \* tcp_mss
  FirstSeq,    \* m_NextTcpSequence of each host at the start
  SeqStep,     \* what getNextSequenceNumber adds: 64000
  Sizes,       \* how much each user sends in a call
  MaxBytes,    \* bound: bytes each user sends in all
  MaxFaults    \* bound: segments the network mistreats

Hosts == {Client, Server}

Peer(e) == IF e = Client THEN Server ELSE Client

ASSUME TcpAssumption ==
  /\ Client # Server
  /\ SeqMod \in Nat \ {0} /\ StreamSize \in Nat \ {0} /\ Mss \in Nat \ {0} /\ SeqStep \in Nat
  /\ FirstSeq \in [Hosts -> 0 .. SeqMod - 1]
  /\ Sizes \in [Hosts -> SUBSET (Nat \ {0})] /\ MaxBytes \in [Hosts -> Nat] /\ MaxFaults \in Nat

VARIABLES
  tcb,      \* StateBlock of each host's end; "NONE" when there is none
  nextSeq,  \* m_NextTcpSequence
  stream,   \* bytes each end has deposited for its user
  wrote,    \* bytes each user has sent, numbered from 1
  closing,  \* ends whose user has called close or shutdown
  stuck,    \* hosts with m_TcpMutex acquired for ever
  filled,   \* history: hosts that have had a shadow stream with no room left
  chan,     \* segments on their way to each host
  late,     \* segments to each host that the network has delayed, copied or lost
  faults    \* how many those are

\* Sequence numbers, and what is sent: uint32_t, and the header of a segment.
Numbers == 0 .. SeqMod - 1

Segments ==
  [flags : SUBSET {"SYN", "ACK", "FIN", "RST", "PSH"}, seq : Numbers, ack : Numbers,
   wnd : 0 .. StreamSize, data : Seq(Nat)]

States ==
  {"NONE", "CLOSED", "SYN_SENT", "SYN_RECEIVED", "ESTABLISHED", "FIN_WAIT_1", "FIN_WAIT_2",
   "CLOSE_WAIT", "CLOSING", "LAST_ACK", "TIME_WAIT"}

Blocks ==
  [state : States, iss : Numbers, snd_nxt : Numbers, snd_una : Numbers, rcv_nxt : Numbers,
   irs : Numbers, fin_seq : Numbers, fin_ack : BOOLEAN, rtq : Seq(Segments),
   shadow : 0 .. StreamSize, waiting : BOOLEAN, endpoint : BOOLEAN, freeing : BOOLEAN]

TypeOK ==
  /\ tcb \in [Hosts -> Blocks]
  /\ nextSeq \in [Hosts -> Numbers]
  /\ stream \in [Hosts -> Seq(Nat)]
  /\ wrote \in [Hosts -> Nat] /\ \A e \in Hosts : wrote[e] <= MaxBytes[e]
  /\ closing \subseteq Hosts /\ stuck \subseteq Hosts /\ filled \subseteq Hosts
  /\ chan \in [Hosts -> Seq(Segments)]
  /\ late \in [Hosts -> SUBSET Segments]
  /\ faults \in 0 .. MaxFaults

vars == <<tcb, nextSeq, stream, filled, wrote, closing, stuck, chan, late, faults>>

Plus(a, n) == (a + n) % SeqMod

NoBlock ==
  [state |-> "NONE", iss |-> 0, snd_nxt |-> 0, snd_una |-> 0, rcv_nxt |-> 0, irs |-> 0,
   fin_seq |-> 0, fin_ack |-> FALSE, rtq |-> <<>>, shadow |-> 0, waiting |-> FALSE,
   endpoint |-> FALSE, freeing |-> FALSE]

Init ==
  /\ tcb = [e \in Hosts |-> NoBlock]
  /\ nextSeq = FirstSeq
  /\ stream = [e \in Hosts |-> <<>>]
  /\ wrote = [e \in Hosts |-> 0]
  /\ closing = {} /\ stuck = {} /\ filled = {}
  /\ chan = [e \in Hosts |-> <<>>]
  /\ late = [e \in Hosts |-> {}]
  /\ faults = 0

----------------------------------------------------------------------------
(* Segments *)

\* Tcp::send; every field is what the receiver will read.
Seg(flags, seq, ack, wnd, data) ==
  [flags |-> flags, seq |-> seq, ack |-> ack, wnd |-> wnd, data |-> data]

Reset(seq) == Seg({"RST"}, seq, 0, 0, <<>>)

\* getRemainingSize of the shadow stream of b's endpoint: the window b advertises.
Room(b) == StreamSize - b.shadow

\* An ACK of everything that b has received.
AckOf(b) == Seg({"ACK"}, b.snd_nxt, b.rcv_nxt, Room(b), <<>>)

\* What e sends goes to its peer; c is what is on its way otherwise.
Transmit(c, e, segs) == chan' = [c EXCEPT ![Peer(e)] = @ \o segs]

\* sendSegment: data goes out in pieces of Mss bytes, the last of them with PSH, and no
\* data as one segment; all of it is put in the queue for retransmission.
Pieces(b, flags, data) ==
  LET n == (Len(data) + Mss - 1) \div Mss
      Piece(i) == SubSeq(data, (i - 1) * Mss + 1, IF i = n THEN Len(data) ELSE i * Mss)
  IN IF data = <<>> THEN <<Seg(flags, b.snd_nxt, b.rcv_nxt, Room(b), <<>>)>>
     ELSE [i \in 1 .. n |->
             Seg(IF i = n THEN flags \cup {"PSH"} ELSE flags,
                 Plus(b.snd_nxt, (i - 1) * Mss), b.rcv_nxt, Room(b), Piece(i))]

SendSegment(b, flags, data) ==
  [b EXCEPT !.rtq = @ \o Pieces(b, flags, data), !.snd_nxt = Plus(@, Len(data))]

----------------------------------------------------------------------------
(* The user's calls *)

\* getNextSequenceNumber has returned nextSeq[e].
NextSequenceNumber(e) == nextSeq' = [nextSeq EXCEPT ![e] = Plus(@, SeqStep)]

Connect ==
  /\ Client \notin stuck \cup closing /\ tcb[Client].state = "NONE"
  /\ nextSeq[Client] = FirstSeq[Client]
  /\ tcb' = [tcb EXCEPT ![Client] =
       [NoBlock EXCEPT !.state = "SYN_SENT", !.iss = nextSeq[Client],
                       !.snd_nxt = Plus(nextSeq[Client], 1), !.snd_una = nextSeq[Client],
                       !.endpoint = TRUE]]
  /\ NextSequenceNumber(Client)
  /\ Transmit(chan, Client, <<Seg({"SYN"}, nextSeq[Client], 0, StreamSize, <<>>)>>)
  /\ UNCHANGED <<stream, filled, wrote, closing, stuck, late, faults>>

\* The user of e has an endpoint for the connection.
HasEndpoint(e) == tcb[e].endpoint /\ e \notin stuck

Send(e, n) ==
  LET data == [i \in 1 .. n |-> wrote[e] + i]
  IN /\ HasEndpoint(e) /\ e \notin closing
     /\ tcb[e].state \in {"ESTABLISHED", "CLOSE_WAIT"}
     /\ wrote[e] + n <= MaxBytes[e]
     /\ wrote' = [wrote EXCEPT ![e] = @ + n]
     /\ tcb' = [tcb EXCEPT ![e] = SendSegment(@, {"ACK"}, data)]
     /\ Transmit(chan, e, Pieces(tcb[e], {"ACK"}, data))
     /\ UNCHANGED <<nextSeq, stream, filled, closing, stuck, late, faults>>

\* Shutdown, and Disconnect of an open connection: a FIN goes out.
Close(e) ==
  LET b == tcb[e]
      fin == SendSegment(b, {"FIN", "ACK"}, <<>>)
  IN /\ HasEndpoint(e) /\ b.state \in {"ESTABLISHED", "CLOSE_WAIT"}
     /\ tcb' = [tcb EXCEPT ![e] =
          [fin EXCEPT !.state = IF b.state = "ESTABLISHED" THEN "FIN_WAIT_1" ELSE "LAST_ACK",
                      !.fin_seq = b.snd_nxt, !.snd_nxt = Plus(b.snd_nxt, 1)]]
     /\ Transmit(chan, e, Pieces(b, {"FIN", "ACK"}, <<>>))
     /\ closing' = closing \cup {e}
     /\ UNCHANGED <<nextSeq, stream, filled, wrote, stuck, late, faults>>

\* Disconnect before the answer to the SYN: removeConn is called with m_TcpMutex held,
\* which it acquires.
CloseEarly(e) ==
  LET b == tcb[e]
  IN /\ HasEndpoint(e) /\ b.state = "SYN_SENT"
     /\ tcb' = [tcb EXCEPT ![e] = [SendSegment(b, {"RST"}, <<>>) EXCEPT !.state = "CLOSED"]]
     /\ Transmit(chan, e, <<Seg({"RST"}, b.snd_nxt, 0, Room(b), <<>>)>>)
     /\ closing' = closing \cup {e}
     /\ stuck' = stuck \cup {e}
     /\ UNCHANGED <<nextSeq, stream, filled, wrote, late, faults>>

----------------------------------------------------------------------------
(* TcpManager::receive: segment s is taken out of the network, which leaves c *)

\* No connection, and nobody listens; or a block that is closed.
ReceiveClosed(e, s, c) ==
  /\ tcb[e].state = "CLOSED" \/ (tcb[e].state = "NONE" /\ e = Client)
  /\ Transmit(c, e, IF "RST" \in s.flags THEN <<>>
                 ELSE IF "ACK" \in s.flags THEN <<Reset(s.ack)>>
                 ELSE <<Seg({"RST", "ACK"}, 0, Plus(s.seq, 1), 0, <<>>)>>)
  /\ UNCHANGED <<tcb, nextSeq, stream, filled>>

\* A SYN for a listening port makes a new block.  Nobody reads the window of its answer,
\* which is another number in the code.
ReceiveListen(e, s, c) ==
  LET iss == nextSeq[e]
  IN /\ tcb[e].state = "NONE" /\ e = Server
     /\ s.flags = {"SYN"}
     /\ tcb' = [tcb EXCEPT ![e] =
          [NoBlock EXCEPT !.state = "SYN_RECEIVED", !.iss = iss, !.snd_nxt = Plus(iss, 1),
                          !.snd_una = iss, !.irs = s.seq, !.rcv_nxt = Plus(s.seq, 1)]]
     /\ NextSequenceNumber(e)
     /\ stream' = [stream EXCEPT ![e] = <<>>]
     /\ UNCHANGED filled
     /\ Transmit(c, e, <<Seg({"SYN", "ACK"}, iss, Plus(s.seq, 1), StreamSize, <<>>)>>)

ReceiveListenOther(e, s, c) ==
  /\ tcb[e].state = "NONE" /\ e = Server
  /\ s.flags # {"SYN"}
  /\ Transmit(c, e, IF "RST" \notin s.flags /\ "ACK" \in s.flags THEN <<Reset(s.ack)>>
                 ELSE <<>>)
  /\ UNCHANGED <<tcb, nextSeq, stream, filled>>

ReceiveSynSent(e, s, c) ==
  LET b == tcb[e]
      wrong == "ACK" \in s.flags /\ (s.ack <= b.iss \/ s.ack > b.snd_nxt)
      open == ~wrong /\ {"SYN", "ACK"} \subseteq s.flags /\ "RST" \notin s.flags
      reset == /\ {"RST", "ACK"} \subseteq s.flags
               /\ b.snd_una <= s.ack /\ s.ack <= b.snd_nxt
      opened == [b EXCEPT !.state = "ESTABLISHED", !.irs = s.seq,
                          !.rcv_nxt = Plus(s.seq, 1), !.snd_una = s.ack]
  IN /\ b.state = "SYN_SENT"
     /\ tcb' = [tcb EXCEPT ![e] = IF open THEN opened
                                  ELSE IF reset THEN [b EXCEPT !.state = "CLOSED"] ELSE b]
     /\ Transmit(c, e, IF wrong /\ "RST" \notin s.flags THEN <<Reset(s.ack)>>
                    ELSE IF open THEN <<AckOf(opened)>> ELSE <<>>)
     /\ UNCHANGED <<nextSeq, stream, filled>>

\* The states in which segments are handled in the order of RFC 793.
Synchronized == {"SYN_RECEIVED", "ESTABLISHED", "FIN_WAIT_1", "FIN_WAIT_2", "CLOSE_WAIT",
                 "CLOSING", "LAST_ACK"}

InWindow(b, s, n) == b.rcv_nxt <= n /\ n < Plus(b.rcv_nxt, s.wnd)

Acceptable(b, s) ==
  LET last == Plus(s.seq, Len(s.data) - 1)
  IN IF s.data = <<>>
     THEN IF s.wnd = 0 THEN s.seq = b.rcv_nxt ELSE InWindow(b, s, s.seq)
     ELSE s.wnd > 0 /\ (InWindow(b, s, s.seq) \/ InWindow(b, s, last))

\* A SYN, or a segment out of the window: it is answered and not looked at any further.
ReceiveRefused(e, s, c) ==
  LET b == tcb[e]
  IN /\ b.state \in Synchronized
     /\ "SYN" \in s.flags \/ ~Acceptable(b, s)
     /\ Transmit(c, e, IF "SYN" \in s.flags
                    THEN <<Seg({"ACK", "RST"}, b.snd_nxt, b.rcv_nxt, Room(b), <<>>)>>
                    ELSE <<AckOf(b)>>)
     /\ UNCHANGED <<tcb, nextSeq, stream, filled>>

ReceiveReset(e, s, c) ==
  LET b == tcb[e]
  IN /\ b.state \in Synchronized
     /\ "SYN" \notin s.flags /\ Acceptable(b, s) /\ "RST" \in s.flags
     /\ tcb' = [tcb EXCEPT ![e] =
          [b EXCEPT !.state = "CLOSED", !.freeing = b.state \in {"LAST_ACK", "CLOSING"}]]
     /\ chan' = c
     /\ UNCHANGED <<nextSeq, stream, filled>>

\* ackSegment: the queue after an ACK.  Segments are taken off its front until one holds
\* the byte that is to come next.  That one is split and put back, with its new number
\* and length, but what is copied of its payload is taken from the start.
AfterAckSegment(rtq, ack) ==
  LET holds == {i \in 1 .. Len(rtq) :
                  rtq[i].seq <= ack /\ ack < Plus(rtq[i].seq, Len(rtq[i].data))}
      k == CHOOSE i \in holds : \A j \in holds : i <= j
  IN IF holds = {} THEN <<>>
     ELSE <<[rtq[k] EXCEPT !.seq = ack,
                           !.data = SubSeq(@, 1, Len(@) - (ack - rtq[k].seq))]>>
          \o SubSeq(rtq, k + 1, Len(rtq))

\* What is known in the course of one segment: the block, what has been sent, what the
\* user gets, and alreadyAck.
Work(b, out, got, acked) == [b |-> b, out |-> out, got |-> got, acked |-> acked]

\* The ACK of a segment in a state in which data has been or may be exchanged.
OpenAck(w, s) ==
  LET b == w.b
      state == IF b.state = "ESTABLISHED" /\ "FIN" \in s.flags THEN "CLOSE_WAIT" ELSE b.state
      finAcked == b.state \in {"FIN_WAIT_1", "FIN_WAIT_2", "CLOSING"} /\ b.fin_seq <= s.ack
  IN IF s.ack < b.snd_una THEN w
     ELSE IF s.ack > b.snd_nxt
     THEN Work([b EXCEPT !.state = state],
               Append(w.out, Seg({"ACK"}, b.snd_nxt, s.seq, Room(b), <<>>)), w.got, TRUE)
     ELSE Work([b EXCEPT !.snd_una = s.ack, !.fin_ack = finAcked,
                         !.state = IF ~finAcked THEN state
                                   ELSE IF b.state = "CLOSING" THEN "CLOSED"
                                   ELSE "FIN_WAIT_2"],
               w.out, w.got, w.acked)

\* Mutant: any ACK opens a connection.
MutantProcessAck(w, s) ==
  IF w.b.state = "SYN_RECEIVED"
  THEN OpenAck([w EXCEPT !.b.state = "ESTABLISHED", !.b.endpoint = TRUE], s)
  ELSE OpenAck(w, s)

\* Mutant: LAST_ACK ends with an ACK of the data before the FIN only.
MutantLastAck(w, s) ==
  IF w.b.state = "LAST_ACK"
  THEN IF s.ack = w.b.fin_seq THEN [w EXCEPT !.b.state = "CLOSED"] ELSE w
  ELSE IF w.b.state = "SYN_RECEIVED"
       THEN OpenAck([w EXCEPT !.b.state = "ESTABLISHED", !.b.endpoint = TRUE], s)
       ELSE OpenAck(w, s)

ProcessAck(w, s) ==
  LET b == w.b
  IN CASE b.state = "SYN_RECEIVED" ->
            IF b.snd_una <= s.ack /\ s.ack <= b.snd_nxt
            THEN OpenAck([w EXCEPT !.b.state = "ESTABLISHED", !.b.endpoint = TRUE], s)
            ELSE [w EXCEPT !.out = Append(@, Reset(s.ack))]
       [] b.state = "LAST_ACK" ->
            IF s.ack = Plus(b.fin_seq, 1)
            THEN [w EXCEPT !.b.state = "CLOSED", !.b.fin_ack = TRUE] ELSE w
       [] OTHER -> OpenAck(w, s)

\* The payload as far as there is room is put in the shadow stream, which PSH empties; what
\* is taken is acknowledged, and taken off the window, but not more than the segment's own.
Deposit(w, s, from) ==
  LET b == w.b
      n == IF Len(s.data) <= Room(b) THEN Len(s.data) ELSE Room(b)
      used == IF n <= s.wnd THEN n ELSE s.wnd
      kept == [b EXCEPT !.rcv_nxt = Plus(from, n),
                        !.shadow = IF "PSH" \in s.flags THEN 0 ELSE @ + n]
  IN Work(kept, Append(w.out, Seg({"ACK"}, b.snd_nxt, kept.rcv_nxt, Room(b) - used, <<>>)),
          SubSeq(s.data, 1, n), TRUE)

\* Mutant: data after a gap is kept.
MutantProcessData(w, s) ==
  IF w.b.state \notin {"ESTABLISHED", "FIN_WAIT_1", "FIN_WAIT_2"} \/ s.data = <<>> THEN w
  ELSE Deposit(w, s, s.seq)

\* Mutant: an end that has closed takes no more data.
MutantHalfClosed(w, s) ==
  IF w.b.state # "ESTABLISHED" \/ s.data = <<>> \/ s.seq # w.b.rcv_nxt THEN w
  ELSE Deposit(w, s, s.seq)

\* The payload.  Out of order it is not kept.
ProcessData(w, s) ==
  LET b == w.b
  IN IF b.state \notin {"ESTABLISHED", "FIN_WAIT_1", "FIN_WAIT_2"} THEN w
     ELSE IF s.seq # b.rcv_nxt THEN Work(b, Append(w.out, AckOf(b)), w.got, TRUE)
     ELSE IF s.data = <<>> THEN w
     ELSE Deposit(w, s, b.rcv_nxt)

\* A FIN pushes what the shadow stream holds, and its number is the last one received,
\* whatever is missing before it.
ProcessFin(w, s) ==
  LET b == [w.b EXCEPT !.rcv_nxt = Plus(s.seq, 1)]
      state == CASE b.state \in {"SYN_RECEIVED", "ESTABLISHED"} -> "CLOSE_WAIT"
                 [] b.state = "FIN_WAIT_1" -> IF b.fin_ack THEN "TIME_WAIT" ELSE "CLOSING"
                 [] b.state = "FIN_WAIT_2" -> "TIME_WAIT"
                 [] OTHER -> b.state
  IN IF "FIN" \notin s.flags \/ b.state = "CLOSED" THEN w
     ELSE Work([b EXCEPT !.state = state, !.shadow = 0, !.waiting = (state = "TIME_WAIT")],
               IF w.acked THEN w.out ELSE Append(w.out, AckOf(b)), w.got, TRUE)

ReceiveSegment(e, s, c) ==
  LET b == [tcb[e] EXCEPT !.rtq = AfterAckSegment(@, s.ack), !.fin_ack = FALSE]
  IN /\ b.state \in Synchronized
     /\ Acceptable(b, s) /\ "ACK" \in s.flags /\ s.flags \cap {"SYN", "RST"} = {}
     /\ \E acked \in {ProcessAck(Work(b, <<>>, <<>>, FALSE), s)} :
        \E kept \in {ProcessData(acked, s)} :
        \E w \in {ProcessFin(kept, s)} :
          /\ tcb' = [tcb EXCEPT ![e] = [w.b EXCEPT !.freeing = (w.b.state = "CLOSED")]]
          /\ stream' = [stream EXCEPT ![e] = @ \o w.got]
          /\ filled' = IF Room(b) = Len(w.got) THEN filled \cup {e} ELSE filled
          /\ Transmit(c, e, w.out)
     /\ UNCHANGED nextSeq

\* Traffic in TIME_WAIT starts the timer again.
ReceiveTimeWait(e, s, c) ==
  /\ tcb[e].state = "TIME_WAIT"
  /\ tcb' = [tcb EXCEPT ![e].waiting = TRUE]
  /\ chan' = c
  /\ UNCHANGED <<nextSeq, stream, filled>>

ReceiveAny(e, s, c) ==
  /\ e \notin stuck
  /\ \/ ReceiveClosed(e, s, c) \/ ReceiveListen(e, s, c) \/ ReceiveListenOther(e, s, c)
     \/ ReceiveSynSent(e, s, c) \/ ReceiveRefused(e, s, c) \/ ReceiveReset(e, s, c)
     \/ ReceiveSegment(e, s, c) \/ ReceiveTimeWait(e, s, c)
  /\ UNCHANGED <<wrote, closing, stuck, faults>>

\* The next segment arrives, or one that was late.
Receive(e) ==
  /\ chan[e] # <<>>
  /\ \E s \in {Head(chan[e])}, c \in {[chan EXCEPT ![e] = Tail(@)]} : ReceiveAny(e, s, c)
  /\ UNCHANGED late

ReceiveLate(e) ==
  \E s \in late[e] : /\ ReceiveAny(e, s, chan)
                     /\ late' = [late EXCEPT ![e] = @ \ {s}]

----------------------------------------------------------------------------
(* Timers and the network *)

\* The timer of TIME_WAIT, two minutes after the last segment came: only a segment that
\* is late can still be on its way.  It is the only timer that is ever started.
TimeWaitExpires(e) ==
  LET b == tcb[e]
  IN /\ b.waiting /\ \A h \in Hosts : chan[h] = <<>>
     /\ IF b.rtq # <<>>
        THEN /\ tcb' = [tcb EXCEPT ![e].waiting = FALSE]
             /\ Transmit(chan, e, <<Head(b.rtq)>>)
        ELSE /\ tcb' = [tcb EXCEPT ![e] = [b EXCEPT !.waiting = FALSE, !.state = "CLOSED",
                                                   !.freeing = TRUE]]
             /\ UNCHANGED chan
     /\ UNCHANGED <<nextSeq, stream, filled, wrote, closing, stuck, late, faults>>

\* removeConn, after receive has released m_TcpMutex or in the thread of the timer.
RemoveConn(e) ==
  /\ tcb[e].freeing /\ e \notin stuck
  /\ tcb' = [tcb EXCEPT ![e] = NoBlock]
  /\ UNCHANGED <<nextSeq, stream, filled, wrote, closing, stuck, chan, late, faults>>

\* The network, and the requests of NetworkStack, which no order is kept of: a segment
\* is late, perhaps for ever, or comes twice.
Stray(e) ==
  /\ faults < MaxFaults /\ chan[e] # <<>>
  /\ late' = [late EXCEPT ![e] = @ \cup {Head(chan[e])}]
  /\ chan' = [chan EXCEPT ![e] = Tail(@)]
  /\ faults' = faults + 1
  /\ UNCHANGED <<tcb, nextSeq, stream, filled, wrote, closing, stuck>>

Copy(e) ==
  /\ faults < MaxFaults /\ chan[e] # <<>>
  /\ late' = [late EXCEPT ![e] = @ \cup {Head(chan[e])}]
  /\ faults' = faults + 1
  /\ UNCHANGED <<tcb, nextSeq, stream, filled, wrote, closing, stuck, chan>>

----------------------------------------------------------------------------
Next ==
  \/ Connect
  \/ \E e \in Hosts :
       \/ \E n \in Sizes[e] : Send(e, n)
       \/ Close(e) \/ CloseEarly(e)
       \/ Receive(e) \/ ReceiveLate(e) \/ TimeWaitExpires(e) \/ RemoveConn(e)
       \/ Stray(e) \/ Copy(e)

Spec == Init /\ [][Next]_vars

(***************************************************************************)
(* As long as a segment that is not mistreated can arrive, a timer can     *)
(* expire or a block can be removed, one of these happens.  Nothing makes  *)
(* a user call.                                                            *)
(***************************************************************************)
FairSpec ==
  Spec /\ WF_vars(\E e \in Hosts : Receive(e) \/ TimeWaitExpires(e) \/ RemoveConn(e))

----------------------------------------------------------------------------
(* Properties *)

\* Nothing wraps, as the code takes for granted when it compares sequence numbers: those of
\* a connection stay below SeqMod, with a window to spare, and those of the server's next
\* one are not reached by what it sends on this one.
NoWrap ==
  /\ \A e \in Hosts : FirstSeq[e] + MaxBytes[e] + StreamSize + 2 < SeqMod
  /\ FirstSeq[Server] + SeqStep + 1 < SeqMod
  /\ MaxBytes[Server] + 2 < SeqStep

\* Whatever the network does and whatever there is no room for, what is deposited for a
\* user is the bytes the other one sent, in their order and none twice, without a gap.
ReceivedInOrder ==
  \A e \in Hosts :
    /\ Len(stream[e]) <= wrote[Peer(e)]
    /\ \A i \in 1 .. Len(stream[e]) : stream[e][i] = i

\* A connection is given to accept only if the client has seen the SYN of this very
\* block: old SYNs and ACKs do not make up a connection.
AcceptedIsWanted ==
  [][~tcb[Server].endpoint /\ tcb'[Server].endpoint
       => tcb[Client].state # "NONE" /\ tcb[Client].irs = tcb[Server].iss]_vars

\* All is in order so far: the network has done nothing wrong, no host is stuck and the
\* shadow streams have always had room.
Clean == faults = 0 /\ stuck = {} /\ filled = {}

\* An end that has seen the FIN has all the data.
EndHasAll ==
  \A e \in Hosts :
    tcb[e].state \in {"CLOSE_WAIT", "CLOSING", "LAST_ACK", "TIME_WAIT"}
      => Len(stream[e]) = wrote[Peer(e)]

\* In order, an end that has seen the FIN has all the data: in every state in which data and
\* FINs can cross, what is on its way before the FIN is taken before it.
EndMeansAll == Clean => EndHasAll

\* When both users have closed, all that either has sent arrives and both blocks are
\* removed, whoever closes first and also if both do at the same time.
CloseCompletes ==
  closing = Hosts ~>
    \/ \A e \in Hosts : tcb[e].state = "NONE" /\ Len(stream[e]) = wrote[Peer(e)]
    \/ ~Clean
=============================================================================
