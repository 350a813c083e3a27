------------------------------- MODULE NutTcp -------------------------------
(***************************************************************************)
(* net/tcpsm.c, tcpsock.c, tcpout.c: one TCP connection between two hosts   *)
(* that both run this code, each with the state machine thread NutTcpSm and *)
(* one application thread.                                                  *)
(*                                                                          *)
(* Data is counted in units: a segment carries one unit or none, known by   *)
(* its sequence number; windows and the maximum segment size are in units,  *)
(* so that segments are full (Mss = 1) or shorter than they may be.         *)
(* The network keeps every segment ever sent, so that it may be delivered   *)
(* late, more than once or never; sending a segment again changes nothing.  *)
(*                                                                          *)
(* A step is the handling of one segment, a round of the timers, or what    *)
(* the application does up to the next call that may give up the CPU.  The  *)
(* thread that the IP layer blocks while it resolves an address is not      *)
(* interrupted in between.                                                  *)
(***************************************************************************)
EXTENDS Integers, Sequences, FiniteSets, SequencesExt

CONSTANTS
    Client, Server,   \* the host that connects, and the one that accepts
    SeqSpace,           \* sequence numbers are counted modulo SeqSpace: 2^32
    Isn,              \* the initial sequence number of each host
    Mss,              \* so_mss, in units, as both hosts have agreed on it
    WinSize,          \* so_rx_bsz, in units
    WinSpace,         \* uint16_t counts modulo WinSpace: 2^16
    NarrowInt,        \* int has the 16 bits of uint16_t, as on AVR
    AdvMax,           \* tcp_adv_max, in segments
    RetriesMax,       \* TCP_RETRIES_MAX
    TimeWaitMax,      \* timer rounds in TIME_WAIT or FIN_WAIT_2: 9
    SynRcvdMax,       \* timer rounds in SYN_RECEIVED: 45
    BacklogTime,      \* TCP_BACKLOG_TIME
    Data,             \* bound: how many segments of data each application sends
    Syns,             \* bound: how many times a listening socket answers a SYN
    Closers,          \* the hosts whose applications close the connection
    NetFails,         \* NutIpOutput() may fail
    Timeouts          \* the applications use SO_RCVTIMEO and SO_SNDTIMEO

Host == {Client, Server}

ASSUME HostAssumption == Client # Server /\ Closers \subseteq Host
ASSUME SeqAssumption ==
    /\ SeqSpace \in Nat /\ Isn \in [Host -> 0..(SeqSpace - 1)] /\ Data \in [Host -> Nat]
    /\ Syns \in Nat \ {0} /\ \A h \in Host : Data[h] + Syns + 2 < SeqSpace \div 2
ASSUME SizeAssumption ==
    /\ Mss \in Nat \ {0} /\ WinSize \in Nat \ {0} /\ AdvMax \in Nat
    /\ WinSpace \in Nat /\ WinSize < WinSpace /\ NarrowInt \in BOOLEAN
    /\ {RetriesMax, TimeWaitMax, SynRcvdMax, BacklogTime} \subseteq Nat
ASSUME NetAssumption == NetFails \in BOOLEAN /\ Timeouts \in BOOLEAN

Peer(h) == IF h = Client THEN Server ELSE Client

VARIABLES
    sock,      \* the socket of each host, the out-of-order count of the host,
               \* and what the step in progress sends
    backlog,   \* the SYN kept for a host that does not listen yet, and its age
    net,       \* the segments sent to each host
    pc,        \* the call of each application that is in progress
    sent,      \* history: the data of each application, by sequence number,
    read       \* and the data each application received

vars == <<sock, backlog, net, pc, sent, read>>

-----------------------------------------------------------------------------
(* Sequence numbers.                                                        *)

SeqPlus(x, n) == (x + n) % SeqSpace

SeqIsBetween(x, low, high) == (x - low) % SeqSpace <= (high - low) % SeqSpace

SeqIsAfter(x, low) == (low - x) % SeqSpace >= SeqSpace \div 2

(* The sequence number after segment n.                                     *)
SeqEnd(n) == SeqPlus(n.seq, n.len + (IF n.flags \cap {"SYN", "FIN"} # {} THEN 1 ELSE 0))

(* Where a walk along list s stops: the first of the places, or its end.    *)
FirstPlace(s, places) ==
    CHOOSE i \in places \cup {Len(s) + 1} : \A j \in places \cup {Len(s) + 1} : i <= j

-----------------------------------------------------------------------------
(* Sockets.  Field x is the source's so_x.  retran says whether             *)
(* so_retran_time is set; wait is the queue the application sleeps on and   *)
(* signaled the queues that remember an event; adv is the host's            *)
(* tcp_adv_cnt; out is emptied when the step ends.                          *)

NoSocket == [state |-> "NONE", tx_flags |-> {}, tx_una |-> 0, tx_nxt |-> 0,
             tx_win |-> 0, tx_wl1 |-> 0, tx_wl2 |-> 0, tx_dup |-> 0, tx_nbq |-> <<>>,
             rx_isn |-> 0, rx_nxt |-> 0, rx_win |-> 0, rx_cnt |-> 0, rx_buf |-> <<>>,
             rx_nbq |-> <<>>, retran |-> FALSE, retransmits |-> 0, time_wait |-> 0,
             wait |-> "none", signaled |-> {}, adv |-> 0, out |-> {}]

NutTcpCreateSocket(h) ==
    [NoSocket EXCEPT !.state = "CLOSED", !.tx_una = Isn[h], !.tx_nxt = Isn[h], !.rx_win = WinSize]

NoSyn == [syn |-> <<>>, time |-> 0]

Init ==
    /\ sock = [h \in Host |-> NutTcpCreateSocket(h)]
    /\ backlog = [h \in Host |-> NoSyn]
    /\ net = [h \in Host |-> {}]
    /\ pc = [h \in Host |-> "start"]
    /\ sent = [h \in Host |-> <<>>]
    /\ read = [h \in Host |-> <<>>]

(* NutEventPost(), NutEventBroadcast() and the begin of NutEventWait().     *)
Post(s, q) == IF s.wait = q THEN [s EXCEPT !.wait = "none"]
                            ELSE [s EXCEPT !.signaled = @ \cup {q}]

Broadcast(s, q) == IF s.wait = q THEN [s EXCEPT !.wait = "none"]
                                 ELSE [s EXCEPT !.signaled = @ \ {q}]

Wait(s, q) == IF q \in s.signaled THEN [s EXCEPT !.signaled = @ \ {q}]
                                  ELSE [s EXCEPT !.wait = q]

NutTcpDiscardBuffers(s) == [s EXCEPT !.rx_buf = <<>>, !.tx_nbq = <<>>, !.rx_nbq = <<>>]

NutTcpDestroySocket(s) == [NoSocket EXCEPT !.adv = s.adv, !.out = s.out]

Closed(s) == s.state \in {"FIN_WAIT_1", "FIN_WAIT_2", "CLOSING", "LAST_ACK", "TIME_WAIT"}

NutTcpAbortSocket_Silent(s) ==   \* fault: threads that wait are not told
    NutTcpDiscardBuffers([s EXCEPT !.retran = FALSE, !.time_wait = 0,
                                   !.state = IF Closed(s) THEN "TIME_WAIT" ELSE "CLOSED"])

NutTcpAbortSocket(s) ==
    LET t == NutTcpDiscardBuffers([s EXCEPT !.retran = FALSE, !.time_wait = 0,
                                            !.state = IF Closed(s) THEN "TIME_WAIT" ELSE "CLOSED"])
    IN  Broadcast(Broadcast(Broadcast(Broadcast(t, "rx_tq"), "tx_tq"), "pc_tq"), "ac_tq")

-----------------------------------------------------------------------------
(* Output.                                                                  *)

(* The segment NutTcpOutput() builds for size units of data.  A window that *)
(* is smaller than a segment may be is closed.                              *)
Segment(s, size) ==
    [seq |-> s.tx_nxt,
     ack |-> IF "ACK" \in s.tx_flags THEN s.rx_nxt ELSE 0,
     flags |-> (s.tx_flags \cap {"ACK", "SYN"})
                 \cup (IF size = 0 /\ "SYN" \notin s.tx_flags THEN s.tx_flags \cap {"FIN"} ELSE {}),
     win |-> IF s.rx_win < Mss THEN 0 ELSE s.rx_win,
     len |-> IF "SYN" \in s.tx_flags THEN 0 ELSE size]

NutTcpOutput_NotQueued(s, size) ==   \* fault: a FIN is not kept for retransmission
    IF size = 0 /\ s.tx_flags \cap {"SYN", "FIN", "FORCE"} = {} THEN s
    ELSE LET n == Segment(s, size)
             again == n.len > 0 \/ "SYN" \in n.flags
         IN  [s EXCEPT !.tx_flags = @ \ ({"FORCE", "ACK"} \cup n.flags),
                       !.tx_nxt = SeqEnd(n),
                       !.tx_nbq = IF again THEN Append(@, n) ELSE @,
                       !.retran = @ \/ (again /\ s.tx_nbq = <<>>),
                       !.out = @ \cup {n}]

(* Segments that use up sequence numbers are kept until acknowledged.       *)
NutTcpOutput(s, size) ==
    IF size = 0 /\ s.tx_flags \cap {"SYN", "FIN", "FORCE"} = {} THEN s
    ELSE LET n == Segment(s, size)
             again == n.len > 0 \/ n.flags \cap {"SYN", "FIN"} # {}
         IN  [s EXCEPT !.tx_flags = @ \ ({"FORCE", "ACK"} \cup n.flags),
                       !.tx_nxt = SeqEnd(n),
                       !.tx_nbq = IF again THEN Append(@, n) ELSE @,
                       !.retran = @ \/ (again /\ s.tx_nbq = <<>>),
                       !.out = @ \cup {n}]

AckNow(s) == NutTcpOutput([s EXCEPT !.tx_flags = @ \cup {"ACK", "FORCE"}], 0)

(* The answers to segment n: none, or a reset.  One without an ACK has the  *)
(* number that n acknowledges, which is left out: every state looks for RST *)
(* before it looks at the sequence number.                                  *)
NutTcpReject(n) ==
    IF "RST" \in n.flags THEN {}
    ELSE IF "ACK" \in n.flags
      THEN {[seq |-> 0, ack |-> 0, flags |-> {"RST"}, win |-> 0, len |-> 0]}
      ELSE {[seq |-> 0, ack |-> IF "SYN" \in n.flags THEN SeqPlus(n.seq, 1) ELSE n.seq,
             flags |-> {"RST", "ACK"}, win |-> 0, len |-> 0]}

Reject(s, n) == [s EXCEPT !.out = @ \cup NutTcpReject(n)]

(* up: NutIpOutput() succeeds.                                              *)
NutTcpStateRetranTimeout(s, up) ==
    LET t == [s EXCEPT !.retransmits = @ + 1]
    IN  IF s.retransmits > RetriesMax THEN NutTcpAbortSocket(t)
        ELSE IF ~up THEN NutTcpAbortSocket([t EXCEPT !.tx_nbq = Tail(@)])
        ELSE [t EXCEPT !.out = @ \cup {Head(s.tx_nbq)}, !.retran = TRUE]

-----------------------------------------------------------------------------
(* Parts of the state machine.                                              *)

(* The changes of state, with the flags they set.                           *)
Changes ==
    {<<"CLOSED", "LISTEN", {}>>,
     <<"CLOSED", "SYN_SENT", {"SYN"}>>,
     <<"LISTEN", "SYN_RECEIVED", {"SYN", "ACK"}>>,
     <<"SYN_SENT", "LISTEN", {}>>,
     <<"SYN_SENT", "SYN_RECEIVED", {"SYN", "ACK"}>>,
     <<"SYN_SENT", "ESTABLISHED", {"ACK", "FORCE"}>>,
     <<"SYN_RECEIVED", "LISTEN", {}>>,
     <<"SYN_RECEIVED", "ESTABLISHED", {}>>,
     <<"SYN_RECEIVED", "FIN_WAIT_1", {"FIN"}>>,
     <<"SYN_RECEIVED", "CLOSE_WAIT", {"FIN", "ACK"}>>,
     <<"ESTABLISHED", "FIN_WAIT_1", {"FIN", "ACK"}>>,
     <<"ESTABLISHED", "CLOSE_WAIT", {"ACK", "FORCE"}>>,
     <<"FIN_WAIT_1", "FIN_WAIT_1", {}>>,
     <<"FIN_WAIT_1", "FIN_WAIT_2", {}>>,
     <<"FIN_WAIT_1", "CLOSING", {"ACK", "FORCE"}>>,
     <<"FIN_WAIT_1", "TIME_WAIT", {}>>,
     <<"FIN_WAIT_2", "TIME_WAIT", {"ACK", "FORCE"}>>,
     <<"CLOSE_WAIT", "LAST_ACK", {"FIN", "ACK"}>>,
     <<"CLOSING", "TIME_WAIT", {}>>}

(* A change that is not in the table is refused.                            *)
NutTcpStateChange(s, state) ==
    LET change == {c \in Changes : c[1] = s.state /\ c[2] = state}
        flags  == UNION {c[3] : c \in change}
        t == [s EXCEPT !.state = state, !.tx_flags = @ \cup flags]
        u == IF flags # {} THEN NutTcpOutput(t, 0) ELSE t
    IN  IF change = {} THEN s
        ELSE IF state = "CLOSE_WAIT"
          THEN Broadcast(Broadcast(Broadcast(u, "rx_tq"), "pc_tq"), "ac_tq")
          ELSE u

NutTcpProcessSyn(s, n) ==
    [s EXCEPT !.rx_isn = n.seq, !.tx_wl1 = n.seq, !.rx_nxt = SeqPlus(n.seq, 1), !.tx_win = n.win]

(* The acknowledgment repeats the last one; the third such one of segments  *)
(* without data sends the oldest segment again.                             *)
DuplicateAck(s, n, up) ==
    IF s.tx_nbq # <<>> /\ n.len = 0 /\ n.flags \cap {"SYN", "FIN"} = {}
      THEN IF s.tx_dup >= 2 THEN NutTcpStateRetranTimeout([s EXCEPT !.tx_dup = 0], up)
                            ELSE [s EXCEPT !.tx_dup = @ + 1]
      ELSE s

WindowUpdate(s, n) ==
    IF SeqIsAfter(n.seq, s.tx_wl1) \/ (n.seq = s.tx_wl1 /\ ~SeqIsAfter(s.tx_wl2, n.ack))
      THEN [s EXCEPT !.tx_win = n.win, !.tx_wl1 = n.seq, !.tx_wl2 = n.ack]
      ELSE s

NewAck(s, n) ==
    LET q    == s.tx_nbq
        left == SubSeq(q, FirstPlace(q, {i \in DOMAIN q : SeqIsAfter(SeqEnd(q[i]), n.ack)}), Len(q))
    IN  [s EXCEPT !.tx_dup = 0, !.tx_una = n.ack, !.tx_win = n.win, !.tx_nbq = left,
                  !.retran = left # <<>>, !.retransmits = 0]

NutTcpProcessAck(s, n, up) ==
    IF SeqIsAfter(n.ack, s.tx_nxt) THEN [s EXCEPT !.tx_flags = @ \cup {"ACK", "FORCE"}]
    ELSE IF n.ack = s.tx_una THEN DuplicateAck(WindowUpdate(s, n), n, up)
    ELSE IF SeqIsAfter(s.tx_una, n.ack) THEN s
    ELSE NewAck(s, n)

(* more: other segments follow in the list that n was taken from, so that   *)
(* the acknowledgment may wait.                                             *)
NutTcpProcessAppData(s, n, more) ==
    NutTcpOutput([s EXCEPT !.rx_buf = Append(@, n), !.rx_cnt = @ + n.len,
                           !.rx_nxt = SeqPlus(@, n.len),
                           !.rx_win = IF n.len >= @ THEN 0 ELSE @ - n.len,
                           !.tx_flags = @ \cup (IF more THEN {"ACK"} ELSE {"ACK", "FORCE"})], 0)

-----------------------------------------------------------------------------
(* Segment n arrives, by the state of the socket.                           *)

NutTcpStateListen(s, n) ==
    IF n.flags \cap {"SYN", "ACK", "RST"} = {"SYN"}
      THEN NutTcpStateChange(NutTcpProcessSyn(s, n), "SYN_RECEIVED")
      ELSE Reject(s, n)

NutTcpStateSynSent(s, n, isn, up) ==
    IF "ACK" \in n.flags /\ ~SeqIsBetween(n.ack, SeqPlus(isn, 1), s.tx_nxt) THEN Reject(s, n)
    ELSE IF "RST" \in n.flags THEN IF "ACK" \in n.flags THEN NutTcpAbortSocket(s) ELSE s
    ELSE IF "SYN" \notin n.flags THEN s
    ELSE IF "ACK" \in n.flags
      THEN Post(NutTcpStateChange(NutTcpProcessAck(NutTcpProcessSyn(s, n), n, up), "ESTABLISHED"), "ac_tq")
      ELSE NutTcpStateChange(NutTcpProcessSyn(s, n), "SYN_RECEIVED")

(* A handle is not zero when a thread sleeps on it or an event waits.       *)
Handle(s, q) == s.wait = q \/ q \in s.signaled

NutTcpStateSynReceived(s, n, up, more) ==
    IF "RST" \in n.flags
      THEN LET t == IF Handle(s, "pc_tq") THEN NutTcpStateChange(s, "LISTEN") ELSE NutTcpAbortSocket(s)
           IN  NutTcpDiscardBuffers([t EXCEPT !.retran = FALSE])
    ELSE IF "SYN" \in n.flags THEN Reject(s, n)
    ELSE IF "ACK" \notin n.flags THEN s
    ELSE IF ~SeqIsBetween(n.ack, SeqPlus(s.tx_una, 1), s.tx_nxt) THEN Reject(s, n)
    ELSE LET t == NutTcpProcessAck(s, n, up)
             u == IF n.len > 0 THEN NutTcpProcessAppData(t, n, more) ELSE t
         IN  IF "FIN" \in n.flags
               THEN NutTcpStateChange([u EXCEPT !.rx_nxt = SeqPlus(@, 1)], "CLOSE_WAIT")
               ELSE Post(Post(NutTcpStateChange(u, "ESTABLISHED"), "pc_tq"), "ac_tq")

(* A segment received in advance is kept in the order of sequence numbers.  *)
(* That of one that is there already is not taken back from tcp_adv_cnt.    *)
InAdvance(s, n) ==
    LET q == s.rx_nbq
        i == FirstPlace(q, {j \in DOMAIN q : q[j].seq = n.seq \/ SeqIsAfter(q[j].seq, n.seq)})
    IN  IF n.len = 0 \/ s.adv + n.len > AdvMax THEN AckNow(s)
        ELSE IF i \in DOMAIN q /\ q[i].seq = n.seq THEN AckNow([s EXCEPT !.adv = @ + n.len])
        ELSE AckNow([s EXCEPT !.adv = @ + n.len, !.rx_nbq = InsertAt(q, i, n)])

(* Takes from the segments received in advance those that now follow, and   *)
(* gives back what tcp_adv_cnt counts for them and for those that are late. *)
(* The result has the socket, and the flags of the segments taken.          *)
TakeOne(a, q) ==
    LET t == [a.s EXCEPT !.rx_nbq = Tail(@), !.adv = @ - q.len]
    IN  IF a.stop \/ SeqIsAfter(q.seq, a.s.rx_nxt) THEN [a EXCEPT !.stop = TRUE]
        ELSE IF q.seq # a.s.rx_nxt THEN [a EXCEPT !.s = t]
        ELSE [a EXCEPT !.s = NutTcpProcessAppData(t, q, t.rx_nbq # <<>>), !.flags = @ \cup q.flags]

TakeAdvance(s) ==
    LET taken[i \in 0..Len(s.rx_nbq)] ==
          IF i = 0 THEN [s |-> s, flags |-> {}, stop |-> FALSE]
                   ELSE TakeOne(taken[i - 1], s.rx_nbq[i])
    IN  taken[Len(s.rx_nbq)]

FinReceived(s, flags) ==
    IF "FIN" \in flags THEN NutTcpStateChange([s EXCEPT !.rx_nxt = SeqPlus(@, 1)], "CLOSE_WAIT")
                       ELSE s

(* The segment of an established connection, after its acknowledgment.      *)
EstablishedData_Late(s, n, more) ==   \* fault: late segments are taken too
    IF SeqIsAfter(n.seq, s.rx_nxt) THEN InAdvance(s, n)
    ELSE IF n.len > 0
      THEN LET a == TakeAdvance(NutTcpProcessAppData(s, n, more))
           IN  FinReceived(Post(a.s, "rx_tq"), n.flags \cup a.flags)
    ELSE FinReceived(s, n.flags)

EstablishedData_NoPost(s, n, more) ==   \* fault: the reader is not told
    IF SeqIsAfter(n.seq, s.rx_nxt) THEN InAdvance(s, n)
    ELSE IF n.seq # s.rx_nxt THEN FinReceived(AckNow(s), n.flags)
    ELSE IF n.len > 0
      THEN LET a == TakeAdvance(NutTcpProcessAppData(s, n, more))
           IN  FinReceived(a.s, n.flags \cup a.flags)
    ELSE FinReceived(s, n.flags)

EstablishedData(s, n, more) ==
    IF SeqIsAfter(n.seq, s.rx_nxt) THEN InAdvance(s, n)
    ELSE IF n.seq # s.rx_nxt THEN FinReceived(AckNow(s), n.flags)
    ELSE IF n.len > 0
      THEN LET a == TakeAdvance(NutTcpProcessAppData(s, n, more))
           IN  FinReceived(Post(a.s, "rx_tq"), n.flags \cup a.flags)
    ELSE FinReceived(s, n.flags)

(* Writers are woken when something they wait for may have happened.        *)
NutTcpStateEstablished(s, n, up, more) ==
    LET t == IF "RST" \in n.flags THEN NutTcpAbortSocket(s)
             ELSE IF "SYN" \in n.flags THEN IF n.seq # s.rx_isn THEN Reject(s, n) ELSE s
             ELSE IF "ACK" \notin n.flags THEN s
             ELSE EstablishedData(NutTcpProcessAck(s, n, up), n, more)
    IN  IF t.state # "ESTABLISHED" \/ t.tx_win > s.tx_win \/ t.tx_una # s.tx_una
          THEN Broadcast(t, "tx_tq") ELSE t

(* In the states after CLOSE_WAIT the application has closed the socket.    *)
LateSegment(s, n) ==
    IF "RST" \in n.flags
      THEN IF s.state = "CLOSE_WAIT" THEN NutTcpAbortSocket(s) ELSE NutTcpDestroySocket(s)
    ELSE IF "SYN" \in n.flags THEN Reject(s, n)
    ELSE s

Acked(s) == s.tx_nxt = s.tx_una

(* Data is taken in whatever order it comes, for nobody to read.            *)
FinWaitData(s, n, more) ==
    IF n.len > 0 THEN Post(NutTcpProcessAppData(s, n, more), "rx_tq") ELSE s

NutTcpStateFinWait1(s, n, up, more) ==
    LET t == NutTcpProcessAck(s, n, up)
        u == FinWaitData(IF Acked(t) THEN NutTcpStateChange(t, "FIN_WAIT_2") ELSE t, n, more)
        v == [u EXCEPT !.rx_nxt = SeqPlus(@, 1), !.time_wait = 0]
    IN  IF "FIN" \in n.flags
          THEN NutTcpStateChange(v, IF v.state = "FIN_WAIT_2" THEN "TIME_WAIT" ELSE "CLOSING")
          ELSE u

NutTcpStateFinWait2(s, n, up, more) ==
    LET t == FinWaitData(NutTcpProcessAck(s, n, up), n, more)
    IN  IF "FIN" \in n.flags
          THEN NutTcpStateChange([t EXCEPT !.rx_nxt = SeqPlus(@, 1), !.time_wait = 0], "TIME_WAIT")
          ELSE t

NutTcpStateClosing(s, n, up) ==
    LET t == NutTcpProcessAck(s, n, up)
    IN  IF Acked(t) THEN NutTcpStateChange([t EXCEPT !.time_wait = 0], "TIME_WAIT") ELSE t

NutTcpStateLastAck(s, n, up) ==
    LET t == NutTcpProcessAck(s, n, up)
    IN  IF Acked(t) THEN NutTcpDestroySocket(t) ELSE t

NutTcpStateProcess(s, n, isn, up, more) ==
    CASE s.state = "ESTABLISHED"  -> NutTcpStateEstablished(s, n, up, more)
      [] s.state = "LISTEN"       -> NutTcpStateListen(s, n)
      [] s.state = "SYN_SENT"     -> NutTcpStateSynSent(s, n, isn, up)
      [] s.state = "SYN_RECEIVED" -> NutTcpStateSynReceived(s, n, up, more)
      [] s.state = "TIME_WAIT"    -> s
      [] OTHER ->
           IF n.flags \cap {"RST", "SYN"} # {} THEN LateSegment(s, n)
           ELSE IF "ACK" \notin n.flags THEN s
           ELSE CASE s.state = "CLOSE_WAIT" -> NutTcpProcessAck(s, n, up)
                  [] s.state = "FIN_WAIT_1" -> NutTcpStateFinWait1(s, n, up, more)
                  [] s.state = "FIN_WAIT_2" -> NutTcpStateFinWait2(s, n, up, more)
                  [] s.state = "CLOSING"    -> NutTcpStateClosing(s, n, up)
                  [] s.state = "LAST_ACK"   -> NutTcpStateLastAck(s, n, up)

-----------------------------------------------------------------------------
(* Steps.                                                                   *)

(* Host h has socket s after the step; what it sent is on the network.      *)
Becomes(h, s) ==
    /\ sock' = [sock EXCEPT ![h] = [s EXCEPT !.out = {}]]
    /\ net' = [net EXCEPT ![Peer(h)] = @ \cup s.out]

Up == IF NetFails THEN BOOLEAN ELSE {TRUE}

(* The first SYN that no socket takes is kept for a later NutTcpAccept();   *)
(* one more removes it.                                                     *)
Backlog(h, n) ==
    LET keep == n.flags \cap {"SYN", "ACK", "RST"} = {"SYN"} /\ backlog[h].syn = <<>>
        kill == n.flags \cap {"SYN", "ACK", "RST"} = {"SYN"} /\ backlog[h].syn # <<>>
    IN  /\ backlog' = IF keep THEN [backlog EXCEPT ![h] = [syn |-> <<n>>, time |-> 0]]
                      ELSE IF kill THEN [backlog EXCEPT ![h] = NoSyn] ELSE backlog
        /\ Becomes(h, IF keep THEN sock[h] ELSE Reject(sock[h], n))

(* The state machine takes a segment from its queue.  Whether there are     *)
(* more behind it is looked at for data only.                               *)
SegmentArrives(h) ==
    /\ \E n \in net[h], up \in Up : \E more \in IF n.len > 0 THEN BOOLEAN ELSE {FALSE} :
         IF sock[h].state \in {"NONE", "CLOSED"} THEN Backlog(h, n)
         ELSE /\ sock[h].state = "LISTEN" => (sock[h].tx_nxt - Isn[h]) % SeqSpace < Syns
              /\ Becomes(h, NutTcpStateProcess(sock[h], n, Isn[h], up, more))
              /\ UNCHANGED backlog
    /\ UNCHANGED <<pc, sent, read>>

LateAck(s) == IF "ACK" \in s.tx_flags THEN AckNow(s) ELSE s

Retransmit(s, expired, up) ==
    IF s.tx_nbq # <<>> /\ s.retran /\ expired THEN NutTcpStateRetranTimeout(s, up) ELSE s

WaitTimers_NotFinWait2(s) ==   \* fault: FIN_WAIT_2 is not left by itself
    IF s.state = "TIME_WAIT"
      THEN IF s.time_wait >= TimeWaitMax THEN NutTcpDestroySocket(s)
                                         ELSE [s EXCEPT !.time_wait = @ + 1]
    ELSE IF s.state = "SYN_RECEIVED"
      THEN IF s.time_wait >= SynRcvdMax THEN [s EXCEPT !.state = "LISTEN", !.time_wait = 0]
                                        ELSE [s EXCEPT !.time_wait = @ + 1]
    ELSE s

WaitTimers(s) ==
    IF s.state \in {"TIME_WAIT", "FIN_WAIT_2"}
      THEN IF s.time_wait >= TimeWaitMax THEN NutTcpDestroySocket(s)
                                         ELSE [s EXCEPT !.time_wait = @ + 1]
    ELSE IF s.state = "SYN_RECEIVED"
      THEN IF s.time_wait >= SynRcvdMax THEN [s EXCEPT !.state = "LISTEN", !.time_wait = 0]
                                        ELSE [s EXCEPT !.time_wait = @ + 1]
    ELSE s

(* A round of the timers, at least every fourth time NutTcpSm() runs.       *)
Timers(h, expired) ==
    /\ LET old == backlog[h].syn # <<>> /\ backlog[h].time >= BacklogTime
           s   == IF old THEN Reject(sock[h], Head(backlog[h].syn)) ELSE sock[h]
       IN  /\ backlog' = IF old THEN [backlog EXCEPT ![h] = NoSyn]
                         ELSE IF backlog[h].syn # <<>> THEN [backlog EXCEPT ![h].time = @ + 1]
                         ELSE backlog
           /\ \E up \in Up : Becomes(h, WaitTimers(Retransmit(LateAck(s), expired, up)))
    /\ UNCHANGED <<pc, sent, read>>

-----------------------------------------------------------------------------
(* Calls of the applications.  In state "start" of pc the socket is new,    *)
(* between calls it is "run", in a call that may sleep the name of the call.*)

Awake(h, call) == pc[h] = call /\ sock[h].wait = "none"

Returns(h) == pc' = [pc EXCEPT ![h] = "run"]

(* A failing NutIpOutput() leaves an event for the wait, and the SYN queued.*)
NutTcpConnect(h) ==
    /\ pc[h] = "start" /\ h = Client
    /\ \E up \in Up :
         LET s == NutTcpStateChange(sock[h], "SYN_SENT")
         IN  Becomes(h, Wait(IF up THEN s ELSE Post([s EXCEPT !.out = {}], "ac_tq"), "ac_tq"))
    /\ pc' = [pc EXCEPT ![h] = "connect"]
    /\ UNCHANGED <<backlog, sent, read>>

(* A SYN of the backlog is answered, and the call returns at once.          *)
NutTcpAccept(h) ==
    /\ pc[h] = "start" /\ h = Server
    /\ LET s == NutTcpStateChange(sock[h], "LISTEN")
           early == backlog[h].syn
       IN  IF early # <<>>
             THEN /\ Becomes(h, NutTcpStateProcess(s, Head(early), Isn[h], TRUE, FALSE))
                  /\ backlog' = [backlog EXCEPT ![h] = NoSyn]
                  /\ Returns(h)
             ELSE /\ Becomes(h, Wait(s, "pc_tq"))
                  /\ pc' = [pc EXCEPT ![h] = "accept"]
                  /\ UNCHANGED backlog
    /\ UNCHANGED <<sent, read>>

OpenReturns(h) ==
    /\ \E call \in {"connect", "accept"} : Awake(h, call)
    /\ Returns(h)
    /\ UNCHANGED <<sock, backlog, net, sent, read>>

(* so_read_to has passed.                                                   *)
AcceptTimeout(h) ==
    /\ Timeouts /\ pc[h] = "accept" /\ sock[h].wait = "pc_tq"
    /\ Becomes(h, [sock[h] EXCEPT !.wait = "none", !.state = "CLOSED"])
    /\ Returns(h)
    /\ UNCHANGED <<backlog, sent, read>>

Unacked(s) == (s.tx_nxt - s.tx_una) % SeqSpace

(* so_tx_win - unacked, for the comparison with the int len.  The operands  *)
(* are uint16_t, and unacked, a few segments, fits.  A wider int holds the  *)
(* difference; otherwise it is unsigned, and so is the comparison.          *)
WindowLeft(s) ==
    LET left == s.tx_win - Unacked(s)
    IN  IF NarrowInt THEN left % WinSpace ELSE left

MaySend_Unsigned(s) ==   \* fault: the difference is unsigned in every int
    Unacked(s) \div 4 < Mss /\ 1 <= (s.tx_win - Unacked(s)) % WinSpace

(* The test for one more unit.                                              *)
MaySend(s) == Unacked(s) \div 4 < Mss /\ 1 <= WindowLeft(s)

(* Once round the loop of NutTcpSend().                                     *)
NutTcpSend(h) ==
    /\ \/ pc[h] = "run" /\ Len(sent[h]) < Data[h] /\ sock[h].state = "ESTABLISHED"
       \/ Awake(h, "send")
    /\ LET s == sock[h]
       IN  IF s.state # "ESTABLISHED" THEN Returns(h) /\ UNCHANGED <<sock, net, sent>>
           ELSE IF MaySend(s)
             THEN /\ Returns(h)
                  /\ Becomes(h, NutTcpOutput([s EXCEPT !.tx_flags = @ \cup {"ACK"}], 1))
                  /\ sent' = [sent EXCEPT ![h] = Append(@, s.tx_nxt)]
             ELSE /\ pc' = [pc EXCEPT ![h] = "send"]
                  /\ Becomes(h, Wait(s, "tx_tq"))
                  /\ UNCHANGED sent
    /\ UNCHANGED <<backlog, read>>

(* The application has taken n segments: the window opens.                  *)
Taken(s, n) ==
    LET win == IF s.rx_win + n > WinSize THEN WinSize ELSE s.rx_win + n
        t == [s EXCEPT !.rx_buf = SubSeq(@, n + 1, Len(@)), !.rx_cnt = @ - n,
                       !.rx_win = IF s.state = "ESTABLISHED" THEN win ELSE @]
    IN  IF s.state = "ESTABLISHED" /\ s.rx_win <= Mss /\ win > Mss THEN AckNow(t) ELSE t

(* Once round the loop of NutTcpReceive(), and the copying.  A count without*)
(* buffers makes it follow a null pointer: there is no step from there.     *)
NutTcpReceive(h) ==
    /\ \/ pc[h] = "run" /\ sock[h].state \in {"ESTABLISHED", "CLOSE_WAIT"}
       \/ Awake(h, "receive")
    /\ LET s == sock[h]
       IN  \/ /\ s.rx_cnt = 0 /\ s.state # "ESTABLISHED"
              /\ Returns(h)
              /\ UNCHANGED <<sock, net, read>>
           \/ /\ s.rx_cnt = 0 /\ s.state = "ESTABLISHED"
              /\ pc' = [pc EXCEPT ![h] = "receive"]
              /\ Becomes(h, Wait(s, "rx_tq"))
              /\ UNCHANGED read
           \/ \E n \in 1..Len(s.rx_buf) :
              /\ s.rx_cnt > 0
              /\ Returns(h)
              /\ Becomes(h, Taken(s, n))
              /\ read' = [read EXCEPT ![h] = @ \o [i \in 1..n |-> s.rx_buf[i].seq]]
    /\ UNCHANGED <<backlog, sent>>

(* so_write_to or so_read_to has passed: the call returns 0.                *)
WaitTimeout(h) ==
    /\ Timeouts /\ sock[h].wait \in {"tx_tq", "rx_tq"}
    /\ Becomes(h, [sock[h] EXCEPT !.wait = "none"])
    /\ Returns(h)
    /\ UNCHANGED <<backlog, sent, read>>

NutTcpCloseSocket(h) ==
    /\ pc[h] = "run" /\ h \in Closers
    /\ LET s == sock[h]
       IN  Becomes(h, CASE s.state \in {"LISTEN", "SYN_SENT", "CLOSED"} -> NutTcpDestroySocket(s)
                        [] s.state \in {"SYN_RECEIVED", "ESTABLISHED"} -> NutTcpStateChange(s, "FIN_WAIT_1")
                        [] s.state = "CLOSE_WAIT" -> NutTcpStateChange(s, "LAST_ACK")
                        [] OTHER -> s)
    /\ pc' = [pc EXCEPT ![h] = "closed"]
    /\ UNCHANGED <<backlog, sent, read>>

Application(h) ==
    \/ NutTcpConnect(h) \/ NutTcpAccept(h) \/ OpenReturns(h) \/ AcceptTimeout(h)
    \/ NutTcpSend(h) \/ NutTcpReceive(h) \/ WaitTimeout(h) \/ NutTcpCloseSocket(h)

Next ==
    \E h \in Host :
        \/ SegmentArrives(h)
        \/ \E expired \in BOOLEAN : Timers(h, expired)
        \/ Application(h)

Spec == Init /\ [][Next]_vars

(* NutTcpSm() runs a round of the timers at least every fourth time, and    *)
(* the retransmission timeout passes.  A woken application runs.            *)
FairSpec ==
    /\ Spec
    /\ \A h \in Host : /\ WF_vars(Timers(h, TRUE))
                       /\ WF_vars(OpenReturns(h))
                       /\ WF_vars(Awake(h, "send") /\ NutTcpSend(h))
                       /\ WF_vars(Awake(h, "receive") /\ NutTcpReceive(h))

-----------------------------------------------------------------------------
(* Properties.                                                              *)

Segments ==
    [seq: 0..(SeqSpace - 1), ack: 0..(SeqSpace - 1), flags: SUBSET {"SYN", "ACK", "FIN", "RST"},
     win: 0..WinSize, len: 0..1]

(* Type invariant.                                                          *)
TypeOK ==
    /\ \A h \in Host :
         LET s == sock[h]
         IN  /\ s.state \in {"NONE", "CLOSED", "LISTEN", "SYN_SENT", "SYN_RECEIVED", "ESTABLISHED",
                             "FIN_WAIT_1", "FIN_WAIT_2", "CLOSE_WAIT", "CLOSING", "LAST_ACK", "TIME_WAIT"}
             /\ s.tx_flags \subseteq {"SYN", "ACK", "FIN", "FORCE"}
             /\ {s.tx_una, s.tx_nxt, s.rx_isn, s.rx_nxt, s.tx_wl1, s.tx_wl2} \subseteq 0..(SeqSpace - 1)
             /\ s.rx_win \in 0..WinSize /\ s.tx_win \in 0..WinSize /\ s.tx_dup \in 0..2
             /\ \A q \in {s.tx_nbq, s.rx_buf, s.rx_nbq} : \A i \in DOMAIN q : q[i] \in Segments
             /\ s.rx_cnt \in Nat /\ s.retransmits \in Nat /\ s.time_wait \in Nat /\ s.adv \in Nat
             /\ s.wait \in {"none", "rx_tq", "tx_tq", "pc_tq", "ac_tq"}
             /\ s.out = {}
    /\ \A h \in Host : net[h] \subseteq Segments
    /\ pc \in [Host -> {"start", "connect", "accept", "run", "send", "receive", "closed"}]

Synchronized == {"ESTABLISHED", "FIN_WAIT_1", "FIN_WAIT_2", "CLOSE_WAIT", "CLOSING", "LAST_ACK"}

(* What an application receives is what its peer sent, from the first       *)
(* segment on, in order, with nothing missing and nothing twice             *)
(* (NutTcpStateEstablished() and the queue of segments in advance).         *)
StreamInOrder ==
    \A h \in Host : IsPrefix(read[h], sent[Peer(h)])

(* A host takes for acknowledged only what the other has received: while    *)
(* both are connected, so_tx_una is not ahead of the peer's so_rx_nxt.      *)
AckedReceived ==
    \A h \in Host :
        sock[h].state \in Synchronized /\ sock[Peer(h)].state \in Synchronized =>
            ~SeqIsAfter(sock[h].tx_una, sock[Peer(h)].rx_nxt)

(* The receive buffer keeps its limit: what waits for the reader and the    *)
(* window offered to the sender are never more than so_rx_bsz.              *)
WindowKept ==
    \A h \in Host : sock[h].state = "ESTABLISHED" => sock[h].rx_cnt + sock[h].rx_win <= WinSize

(* Whatever data a connected host has sent and is not acknowledged is in    *)
(* its transmission queue, in order, and so is its FIN; while something is  *)
(* there the timer that sends it again runs.                                *)
Retransmittable ==
    \A h \in Host :
        LET s == sock[h]
            q == s.tx_nbq
        IN  s.state \in Synchronized =>
              /\ {q[i].seq : i \in {j \in DOMAIN q : q[j].len > 0}}
                   = {x \in ToSet(sent[h]) : ~SeqIsAfter(s.tx_una, x)}
              /\ \A i, j \in DOMAIN q : i < j => SeqIsAfter(q[j].seq, q[i].seq)
              /\ s.state \in {"FIN_WAIT_1", "CLOSING", "LAST_ACK"} => s.tx_nbq # <<>>
              /\ s.tx_nbq # <<>> => s.retran

(* The peer's window has room for one more unit.                            *)
HasRoom(s) == Unacked(s) \div 4 < Mss /\ Unacked(s) < s.tx_win

(* No application sleeps for what has already happened: a reader with data, *)
(* a writer with room, or either when the connection is no longer there.    *)
NobodyForgotten ==
    \A h \in Host :
        /\ sock[h].wait = "rx_tq" => sock[h].state = "ESTABLISHED" /\ sock[h].rx_cnt = 0
        /\ sock[h].wait = "tx_tq" => sock[h].state = "ESTABLISHED" /\ ~HasRoom(sock[h])
        /\ sock[h].wait = "ac_tq" => sock[h].state \in {"SYN_SENT", "SYN_RECEIVED"}
        /\ sock[h].wait = "pc_tq" => sock[h].state \in {"LISTEN", "SYN_RECEIVED"}

(* so_rx_cnt, "Number of data bytes in the receive buffer": the reader that *)
(* finds it not zero finds a buffer.                                        *)
ReaderFindsData ==
    \A h \in Host : Awake(h, "receive") /\ sock[h].rx_cnt > 0 => sock[h].rx_buf # <<>>

(* tcp_adv_cnt keeps "track of the number of bytes used by packets received *)
(* in advance".                                                             *)
AdvCounted == \A h \in Host : sock[h].adv = Len(sock[h].rx_nbq)

(* A socket that the application has closed is destroyed in the end, be the *)
(* peer there or not.                                                       *)
ClosedDestroyed == \A h \in Host : pc[h] = "closed" ~> sock[h].state = "NONE"

(* NutTcpConnect() returns, be there an answer or not.                      *)
ConnectReturns == \A h \in Host : pc[h] = "connect" ~> pc[h] # "connect"
=============================================================================
