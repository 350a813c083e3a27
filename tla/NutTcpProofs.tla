---------------------------- MODULE NutTcpProofs ----------------------------
(***************************************************************************)
(* NutTcp for any sizes of the windows and any sequence space that the      *)
(* numbers in use do not fill by half.  First what one host keeps, whatever *)
(* segments the network may bring: types, the transmission queue with its   *)
(* timer, and the wake-ups of the application.  Then what the two hosts     *)
(* keep together: the stream in order, and the window.                      *)
(***************************************************************************)
EXTENDS NutTcp, NutListProofs

-----------------------------------------------------------------------------
(* Sockets by their fields.                                                 *)

Num == 0..(SeqSpace - 1)

Queues == {"rx_tq", "tx_tq", "pc_tq", "ac_tq"}

States(h) ==
    {"NONE", "CLOSED", "TIME_WAIT"} \cup Synchronized
        \cup (IF h = Client THEN {"SYN_SENT"} ELSE {"LISTEN", "SYN_RECEIVED"})

(* The queues the application of host h may sleep on.                       *)
Sleeps(h) == {"rx_tq", "tx_tq"} \cup (IF h = Client THEN {"ac_tq"} ELSE {"pc_tq"})

(* Segments host h may send: a server does not open with a SYN of its own.  *)
SegOf(h) == {n \in Segments : h = Server /\ "SYN" \in n.flags => "ACK" \in n.flags}

Sock(h) ==
    [state: States(h), tx_flags: SUBSET {"ACK", "FORCE"}, tx_una: Num, tx_nxt: Num,
     tx_win: 0..WinSize, tx_wl1: Num, tx_wl2: Num, tx_dup: 0..2, tx_nbq: Seq(SegOf(h)),
     rx_isn: Num, rx_nxt: Num, rx_win: 0..WinSize, rx_cnt: Nat, rx_buf: Seq(Segments),
     rx_nbq: Seq(Segments), retran: BOOLEAN, retransmits: Nat, time_wait: Nat,
     wait: Sleeps(h) \cup {"none"}, signaled: SUBSET Queues, adv: Nat, out: SUBSET SegOf(h)]

LEMMA SizeFacts ==
    /\ SeqSpace \in Nat /\ SeqSpace > 0 /\ WinSize \in Nat /\ Mss \in Nat /\ Mss > 0
    /\ WinSpace \in Nat /\ WinSize < WinSpace /\ NarrowInt \in BOOLEAN
    /\ \A h \in Host : Isn[h] \in Num
BY SeqAssumption, SizeAssumption DEF Host, Num

LEMMA NumFacts ==
    ASSUME NEW x \in Num, NEW k \in 0..1
    PROVE  /\ SeqPlus(x, k) \in Num /\ SeqPlus(x, 0) = x
           /\ SeqPlus(x, 1) = IF x + 1 = SeqSpace THEN 0 ELSE x + 1
<1>1. SeqSpace \in Nat /\ SeqSpace > 0 /\ x \in Nat /\ x < SeqSpace
  BY SizeFacts DEF Num
<1>2. x % SeqSpace = x
  BY <1>1
<1>3. (x + 1) % SeqSpace = IF x + 1 = SeqSpace THEN 0 ELSE x + 1
  BY <1>1
<1> QED BY <1>1, <1>2, <1>3 DEF SeqPlus, Num

(* Parts of a socket that a step leaves as they are.                        *)
SameTx(t, s) ==
    /\ t.tx_una = s.tx_una /\ t.tx_nxt = s.tx_nxt /\ t.tx_win = s.tx_win
    /\ t.tx_nbq = s.tx_nbq /\ t.retran = s.retran

SameRx(t, s) ==
    /\ t.rx_nxt = s.rx_nxt /\ t.rx_win = s.rx_win /\ t.rx_cnt = s.rx_cnt
    /\ t.rx_buf = s.rx_buf /\ t.rx_nbq = s.rx_nbq /\ t.adv = s.adv

SameWait(t, s) == t.wait = s.wait /\ t.signaled = s.signaled

(* Output without data, SYN or FIN: an acknowledgment, or nothing.          *)
LEMMA PlainOutput ==
    ASSUME NEW h \in Host, NEW s \in Sock(h), NEW t, t = NutTcpOutput(s, 0)
    PROVE  t \in Sock(h) /\ t.state = s.state /\ SameTx(t, s) /\ SameRx(t, s) /\ SameWait(t, s)
<1> DEFINE n == Segment(s, 0)
<1>1. CASE s.tx_flags \cap {"SYN", "FIN", "FORCE"} = {}
  BY <1>1 DEF NutTcpOutput, SameTx, SameRx, SameWait
<1>2. CASE s.tx_flags \cap {"SYN", "FIN", "FORCE"} # {}
  <2>1. /\ n.seq = s.tx_nxt /\ n.ack \in {0, s.rx_nxt} /\ n.flags = s.tx_flags \cap {"ACK"}
        /\ n.win \in {0, s.rx_win} /\ n.len = 0 /\ n \in Segments
    BY SizeFacts, SMTT(45) DEF Segment, Sock, Segments, Num
  <2>2. n \in SegOf(h)
    BY <2>1 DEF SegOf
  <2>3. SeqEnd(n) = s.tx_nxt
    BY <2>1, NumFacts DEF SeqEnd, Sock
  <2> DEFINE again == n.len > 0 \/ n.flags \cap {"SYN", "FIN"} # {}
  <2>4. t = [s EXCEPT !.tx_flags = @ \ ({"FORCE", "ACK"} \cup n.flags), !.tx_nxt = SeqEnd(n),
                       !.tx_nbq = IF again THEN Append(@, n) ELSE @,
                       !.retran = @ \/ (again /\ s.tx_nbq = <<>>), !.out = @ \cup {n}]
    BY <1>2 DEF NutTcpOutput
  <2>5. ~again
    BY <2>1
  <2> HIDE DEF n, again
  <2>6. /\ t.state = s.state /\ t.tx_una = s.tx_una /\ t.tx_nxt = SeqEnd(n)
    BY <2>4 DEF Sock
  <2>7. SameTx(t, s)
    BY <2>3, <2>4, <2>5, ZenonT(60) DEF Sock, SameTx
  <2>8. SameRx(t, s)
    BY <2>3, <2>4, <2>5, ZenonT(60) DEF Sock, SameRx
  <2>9. SameWait(t, s)
    BY <2>3, <2>4, <2>5 DEF Sock, SameWait
  <2>10. t \in Sock(h)
    <3>1. PICK F, O, R : F = s.tx_flags \ ({"FORCE", "ACK"} \cup n.flags) /\ O = s.out \cup {n}
                         /\ R = s.retran
      OBVIOUS
    <3>2. F \in SUBSET {"ACK", "FORCE"} /\ O \in SUBSET SegOf(h) /\ R \in BOOLEAN /\ SeqEnd(n) \in Num
      BY <2>2, <2>3, <3>1 DEF Sock
    <3>3. t = [s EXCEPT !.tx_flags = F, !.tx_nxt = SeqEnd(n), !.tx_nbq = s.tx_nbq,
                       !.retran = R, !.out = O]
      BY <2>4, <2>5, <3>1 DEF Sock
    <3> QED BY <3>2, <3>3, ZenonT(60) DEF Sock
  <2> QED
    BY <2>6, <2>7, <2>8, <2>9, <2>10
<1> QED BY <1>1, <1>2

(* What waits for the reader or for missing segments is counted.            *)
Counted(s) ==
    /\ Len(s.rx_buf) <= s.rx_cnt /\ Len(s.rx_nbq) <= s.adv
    /\ \A i \in 1..Len(s.rx_nbq) : s.rx_nbq[i].len = 1

(* A step that leaves the sending side and the sleeper alone.               *)
RxStep(h, t, s) ==
    /\ t \in Sock(h) /\ Counted(t)
    /\ t.state = s.state /\ SameTx(t, s) /\ SameWait(t, s)

LEMMA PlainStep ==
    ASSUME NEW h \in Host, NEW s \in Sock(h), Counted(s), NEW t, t = NutTcpOutput(s, 0)
    PROVE  RxStep(h, t, s) /\ SameRx(t, s)
BY PlainOutput DEF RxStep, SameRx, Counted

LEMMA RxStepTrans ==
    ASSUME NEW h, NEW s, NEW t, NEW u, RxStep(h, t, s), RxStep(h, u, t)
    PROVE  RxStep(h, u, s)
BY DEF RxStep, SameTx, SameWait

LEMMA AckNowStep ==
    ASSUME NEW h \in Host, NEW s \in Sock(h), Counted(s), NEW t, t = AckNow(s)
    PROVE  RxStep(h, t, s) /\ SameRx(t, s)
<1>1. PICK F : F = s.tx_flags \cup {"ACK", "FORCE"}
  OBVIOUS
<1>2. F \in SUBSET {"ACK", "FORCE"}
  BY <1>1 DEF Sock
<1>3. PICK u : u = [s EXCEPT !.tx_flags = F]
  OBVIOUS
<1>4. RxStep(h, u, s) /\ SameRx(u, s)
  BY <1>2, <1>3 DEF RxStep, Sock, SameTx, SameRx, SameWait, Counted
<1>5. t = NutTcpOutput(u, 0)
  BY <1>1, <1>3 DEF AckNow
<1>6. RxStep(h, t, u) /\ SameRx(t, u)
  BY <1>4, <1>5, PlainStep DEF RxStep
<1> QED BY <1>4, <1>6, RxStepTrans DEF SameRx

LEMMA AppDataStep ==
    ASSUME NEW h \in Host, NEW s \in Sock(h), Counted(s), NEW n \in Segments, n.len = 1,
           NEW more \in BOOLEAN, NEW t, t = NutTcpProcessAppData(s, n, more)
    PROVE  RxStep(h, t, s) /\ t.rx_nbq = s.rx_nbq /\ t.adv = s.adv
<1>1. PICK F, W, B, C, X : /\ F = s.tx_flags \cup (IF more THEN {"ACK"} ELSE {"ACK", "FORCE"})
                    /\ W = (IF n.len >= s.rx_win THEN 0 ELSE s.rx_win - n.len)
                    /\ B = Append(s.rx_buf, n) /\ C = s.rx_cnt + n.len /\ X = SeqPlus(s.rx_nxt, n.len)
  OBVIOUS
<1>2. /\ F \in SUBSET {"ACK", "FORCE"} /\ W \in 0..WinSize /\ B \in Seq(Segments)
      /\ Len(B) = Len(s.rx_buf) + 1 /\ C = s.rx_cnt + 1 /\ C \in Nat /\ X \in Num
  BY <1>1, SizeFacts, NumFacts, SMTT(45), ZenonT(60) DEF Sock
<1>3. PICK u : u = [s EXCEPT !.rx_buf = B, !.rx_cnt = C, !.rx_nxt = X, !.rx_win = W, !.tx_flags = F]
  OBVIOUS
<1>4. /\ u \in Sock(h) /\ u.rx_buf = B /\ u.rx_cnt = C /\ u.rx_nbq = s.rx_nbq /\ u.adv = s.adv
      /\ u.state = s.state /\ SameTx(u, s) /\ SameWait(u, s)
  BY <1>2, <1>3 DEF Sock, SameTx, SameWait
<1>5. Len(B) <= C
  <2>1. Len(s.rx_buf) <= s.rx_cnt /\ Len(s.rx_buf) \in Nat /\ s.rx_cnt \in Nat
    BY LenProperties DEF Counted, Sock
  <2> QED BY <1>2, <2>1
<1>6. RxStep(h, u, s)
  BY <1>4, <1>5 DEF RxStep, Counted
<1>7. t = NutTcpOutput(u, 0)
  BY <1>1, <1>3 DEF NutTcpProcessAppData
<1>8. RxStep(h, t, u) /\ SameRx(t, u)
  BY <1>6, <1>7, PlainStep DEF RxStep
<1> QED BY <1>4, <1>6, <1>8, RxStepTrans DEF SameRx

-----------------------------------------------------------------------------
(* Waking up, and the end of a connection.                                  *)

LEMMA PostStep ==
    ASSUME NEW h \in Host, NEW s \in Sock(h), Counted(s), NEW q \in Queues, NEW t, t = Post(s, q)
    PROVE  /\ t \in Sock(h) /\ Counted(t) /\ t.state = s.state /\ SameTx(t, s) /\ SameRx(t, s)
           /\ t.wait = IF s.wait = q THEN "none" ELSE s.wait
<1>1. CASE s.wait = q
  <2>1. t = [s EXCEPT !.wait = "none"]
    BY <1>1 DEF Post
  <2> QED BY <1>1, <2>1, SMTT(60), ZenonT(60) DEF Sock, SameTx, SameRx, Counted
<1>2. CASE s.wait # q
  <2>1. PICK S : S = s.signaled \cup {q}
    OBVIOUS
  <2>2. S \in SUBSET Queues /\ t = [s EXCEPT !.signaled = S]
    BY <1>2, <2>1 DEF Post, Sock
  <2> QED BY <1>2, <2>2, ZenonT(60) DEF Sock, SameTx, SameRx, Counted
<1> QED BY <1>1, <1>2

LEMMA BroadcastStep ==
    ASSUME NEW h \in Host, NEW s \in Sock(h), Counted(s), NEW q \in Queues, NEW t, t = Broadcast(s, q)
    PROVE  /\ t \in Sock(h) /\ Counted(t) /\ t.state = s.state /\ SameTx(t, s) /\ SameRx(t, s)
           /\ t.wait = IF s.wait = q THEN "none" ELSE s.wait
<1>1. CASE s.wait = q
  <2>1. t = [s EXCEPT !.wait = "none"]
    BY <1>1 DEF Broadcast
  <2> QED BY <1>1, <2>1, SMTT(45), ZenonT(60) DEF Sock, SameTx, SameRx, Counted
<1>2. CASE s.wait # q
  <2>1. PICK S : S = s.signaled \ {q}
    OBVIOUS
  <2>2. S \in SUBSET Queues /\ t = [s EXCEPT !.signaled = S]
    BY <1>2, <2>1 DEF Broadcast, Sock
  <2> QED BY <1>2, <2>2, ZenonT(60) DEF Sock, SameTx, SameRx, Counted
<1> QED BY <1>1, <1>2

LEMMA WaitStep ==
    ASSUME NEW h \in Host, NEW s \in Sock(h), Counted(s), NEW q \in Sleeps(h), NEW t, t = Wait(s, q)
    PROVE  /\ t \in Sock(h) /\ Counted(t) /\ t.state = s.state /\ SameTx(t, s) /\ SameRx(t, s)
           /\ t.wait \in {s.wait, q}
<1>1. CASE q \notin s.signaled
  <2>1. t = [s EXCEPT !.wait = q]
    BY <1>1 DEF Wait
  <2> QED BY <1>1, <2>1, ZenonT(60) DEF Sock, SameTx, SameRx, Counted
<1>2. CASE q \in s.signaled
  <2>1. PICK S : S = s.signaled \ {q}
    OBVIOUS
  <2>2. S \in SUBSET Queues /\ t = [s EXCEPT !.signaled = S]
    BY <1>2, <2>1 DEF Wait, Sock
  <2> QED BY <1>2, <2>2, ZenonT(60) DEF Sock, SameTx, SameRx, Counted
<1> QED BY <1>1, <1>2

(* A socket without a connection, on which nobody sleeps.                   *)
Dead(h, t) ==
    /\ t \in Sock(h) /\ Counted(t)
    /\ t.state \in {"NONE", "CLOSED", "TIME_WAIT"} /\ t.wait = "none"

LEMMA Discarded ==
    ASSUME NEW h \in Host, NEW s \in Sock(h), NEW t, t = NutTcpDiscardBuffers(s)
    PROVE  /\ t \in Sock(h) /\ Counted(t) /\ t.state = s.state /\ SameWait(t, s)
           /\ t.tx_una = s.tx_una /\ t.tx_nxt = s.tx_nxt /\ t.tx_nbq = <<>> /\ t.retran = s.retran
<1>1. <<>> \in Seq(SegOf(h)) /\ <<>> \in Seq(Segments) /\ Len(<<>>) = 0
  BY EmptySeq
<1>2. t = [s EXCEPT !.rx_buf = <<>>, !.tx_nbq = <<>>, !.rx_nbq = <<>>]
  BY DEF NutTcpDiscardBuffers
<1>3. /\ t \in Sock(h) /\ t.rx_buf = <<>> /\ t.rx_nbq = <<>> /\ t.rx_cnt \in Nat /\ t.adv \in Nat
      /\ t.state = s.state /\ t.wait = s.wait /\ t.signaled = s.signaled
      /\ t.tx_una = s.tx_una /\ t.tx_nxt = s.tx_nxt /\ t.tx_nbq = <<>> /\ t.retran = s.retran
  BY <1>1, <1>2, SMTT(45), ZenonT(60) DEF Sock
<1> QED BY <1>1, <1>3 DEF Counted, SameWait

LEMMA AbortDead ==
    ASSUME NEW h \in Host, NEW s \in Sock(h)
    PROVE  Dead(h, NutTcpAbortSocket(s))
<1>1. PICK X : X = (IF Closed(s) THEN "TIME_WAIT" ELSE "CLOSED")
  OBVIOUS
<1>2. PICK u : u = [s EXCEPT !.retran = FALSE, !.time_wait = 0, !.state = X]
  OBVIOUS
<1>3. u \in Sock(h) /\ u.state \in {"CLOSED", "TIME_WAIT"}
  <2>1. X \in States(h) /\ X \in {"CLOSED", "TIME_WAIT"}
    BY <1>1 DEF States
  <2> QED BY <1>2, <2>1 DEF Sock
<1>4. PICK t : t = NutTcpDiscardBuffers(u)
  OBVIOUS
<1>5. t \in Sock(h) /\ Counted(t) /\ t.state = u.state
  BY <1>3, <1>4, Discarded
<1>6. PICK b1 : b1 = Broadcast(t, "rx_tq")
  OBVIOUS
<1>7. b1 \in Sock(h) /\ Counted(b1) /\ b1.state = u.state /\ b1.wait # "rx_tq"
  BY <1>5, <1>6, BroadcastStep DEF Queues
<1>8. PICK b2 : b2 = Broadcast(b1, "tx_tq")
  OBVIOUS
<1>9. b2 \in Sock(h) /\ Counted(b2) /\ b2.state = u.state /\ b2.wait \notin {"rx_tq", "tx_tq"}
  BY <1>7, <1>8, BroadcastStep DEF Queues
<1>10. PICK b3 : b3 = Broadcast(b2, "pc_tq")
  OBVIOUS
<1>11. b3 \in Sock(h) /\ Counted(b3) /\ b3.state = u.state /\ b3.wait \notin {"rx_tq", "tx_tq", "pc_tq"}
  BY <1>9, <1>10, BroadcastStep DEF Queues
<1>12. PICK b4 : b4 = Broadcast(b3, "ac_tq")
  OBVIOUS
<1>13. b4 \in Sock(h) /\ Counted(b4) /\ b4.state = u.state /\ b4.wait \notin Queues
  BY <1>11, <1>12, BroadcastStep DEF Queues
<1>14. b4.wait = "none"
  BY <1>13 DEF Sock, Queues, Sleeps
<1>15. b4 = NutTcpAbortSocket(s)
  BY <1>1, <1>2, <1>4, <1>6, <1>8, <1>10, <1>12 DEF NutTcpAbortSocket
<1> QED BY <1>3, <1>13, <1>14, <1>15 DEF Dead

LEMMA DestroyDead ==
    ASSUME NEW h \in Host, NEW s \in Sock(h)
    PROVE  Dead(h, NutTcpDestroySocket(s)) /\ NutTcpDestroySocket(s).state = "NONE"
<1>1. PICK t : t = NutTcpDestroySocket(s)
  OBVIOUS
<1>2. /\ t \in Sock(h) /\ t.state = "NONE" /\ t.wait = "none"
      /\ t.rx_buf = <<>> /\ t.rx_nbq = <<>> /\ t.rx_cnt = 0
  <2>1. 0 \in Num /\ <<>> \in Seq(SegOf(h)) /\ <<>> \in Seq(Segments)
        /\ {} \in SUBSET {"ACK", "FORCE"} /\ {} \in SUBSET Queues
        /\ 0 \in 0..WinSize /\ 0 \in 0..2 /\ "NONE" \in States(h)
    BY SizeFacts, EmptySeq DEF Num, States
  <2>2. s.adv \in Nat /\ s.out \in SUBSET SegOf(h)
    BY DEF Sock
  <2> QED BY <1>1, <2>1, <2>2, SMTT(45), ZenonT(60) DEF NutTcpDestroySocket, NoSocket, Sock
<1>3. Counted(t)
  BY <1>2, EmptySeq DEF Counted, Sock
<1> QED BY <1>1, <1>2, <1>3 DEF Dead

LEMMA RejectStep ==
    ASSUME NEW h \in Host, NEW s \in Sock(h), Counted(s), NEW n \in Segments, NEW t, t = Reject(s, n)
    PROVE  RxStep(h, t, s) /\ SameRx(t, s)
<1>1. NutTcpReject(n) \subseteq SegOf(h)
  <2>1. n.seq \in Num /\ n.ack \in Num /\ SeqPlus(n.seq, 1) \in Num /\ 0 \in Num /\ 0 \in 0..WinSize
    BY NumFacts, SizeFacts DEF Segments, Num
  <2>2. CASE "RST" \in n.flags
    BY <2>2 DEF NutTcpReject
  <2>3. CASE "RST" \notin n.flags /\ "ACK" \in n.flags
    <3>1. PICK r : r = [seq |-> 0, ack |-> 0, flags |-> {"RST"}, win |-> 0, len |-> 0]
      OBVIOUS
    <3>2. r \in SegOf(h)
      BY <2>1, <3>1 DEF SegOf, Segments, Num
    <3> QED BY <2>3, <3>1, <3>2 DEF NutTcpReject
  <2>4. CASE "RST" \notin n.flags /\ "ACK" \notin n.flags
    <3>1. PICK A : A = (IF "SYN" \in n.flags THEN SeqPlus(n.seq, 1) ELSE n.seq)
      OBVIOUS
    <3>2. PICK r : r = [seq |-> 0, ack |-> A, flags |-> {"RST", "ACK"}, win |-> 0, len |-> 0]
      OBVIOUS
    <3>3. r \in SegOf(h)
      BY <2>1, <3>1, <3>2 DEF SegOf, Segments, Num
    <3> QED BY <2>4, <3>1, <3>2, <3>3 DEF NutTcpReject
  <2> QED BY <2>2, <2>3, <2>4
<1>2. PICK O : O = s.out \cup NutTcpReject(n)
  OBVIOUS
<1>3. O \in SUBSET SegOf(h)
  BY <1>1, <1>2 DEF Sock
<1>4. t = [s EXCEPT !.out = O]
  BY <1>2 DEF Reject
<1> QED BY <1>3, <1>4, ZenonT(60) DEF RxStep, Sock, Counted, SameTx, SameRx, SameWait

-----------------------------------------------------------------------------
(* Acknowledgments: the connection is given up, or the lists of segments    *)
(* that wait for the reader stay as they are, and so does the sleeper.      *)
AckStep(h, t, s) ==
    /\ t \in Sock(h) /\ Counted(t)
    /\ t.state = s.state /\ t.tx_nxt = s.tx_nxt /\ SameRx(t, s) /\ SameWait(t, s)

(* The fields that an acknowledgment leaves alone.                          *)
Kept(t, s) ==
    /\ t.state = s.state /\ t.tx_nxt = s.tx_nxt
    /\ t.rx_nxt = s.rx_nxt /\ t.rx_win = s.rx_win /\ t.rx_cnt = s.rx_cnt
    /\ t.rx_buf = s.rx_buf /\ t.rx_nbq = s.rx_nbq /\ t.adv = s.adv
    /\ t.wait = s.wait /\ t.signaled = s.signaled

LEMMA KeptStep ==
    ASSUME NEW h, NEW s, NEW t \in Sock(h), Counted(s), Kept(t, s)
    PROVE  AckStep(h, t, s)
BY DEF AckStep, Kept, Counted, SameRx, SameWait

LEMMA AckStepTrans ==
    ASSUME NEW h, NEW s, NEW t, NEW u, AckStep(h, t, s), AckStep(h, u, t)
    PROVE  AckStep(h, u, s)
BY DEF AckStep, SameRx, SameWait

LEMMA RetranStep ==
    ASSUME NEW h \in Host, NEW s \in Sock(h), Counted(s), s.tx_nbq # <<>>, NEW up \in BOOLEAN,
           NEW t, t = NutTcpStateRetranTimeout(s, up)
    PROVE  \/ Dead(h, t)
           \/ /\ AckStep(h, t, s)
              /\ t.tx_una = s.tx_una /\ t.tx_win = s.tx_win /\ t.tx_nbq = s.tx_nbq /\ t.retran = TRUE
<1>1. PICK u : u = [s EXCEPT !.retransmits = @ + 1]
  OBVIOUS
<1>2. /\ u \in Sock(h) /\ Counted(u)
      /\ AckStep(h, u, s)
      /\ u.tx_una = s.tx_una /\ u.tx_win = s.tx_win /\ u.tx_nbq = s.tx_nbq
  <2>1. PICK N : N = s.retransmits + 1
    OBVIOUS
  <2>2. N \in Nat /\ u = [s EXCEPT !.retransmits = N]
    BY <1>1, <2>1 DEF Sock
  <2>3. /\ u \in Sock(h) /\ Kept(u, s)
        /\ u.tx_una = s.tx_una /\ u.tx_win = s.tx_win /\ u.tx_nbq = s.tx_nbq
    BY <2>2 DEF Sock, Kept
  <2>4. AckStep(h, u, s)
    BY <2>3, KeptStep
  <2> QED BY <2>3, <2>4 DEF AckStep
<1>3. CASE s.retransmits > RetriesMax
  <2>1. t = NutTcpAbortSocket(u)
    BY <1>1, <1>3 DEF NutTcpStateRetranTimeout
  <2> QED BY <1>2, <2>1, AbortDead
<1>4. CASE ~(s.retransmits > RetriesMax) /\ ~up
  <2>1. PICK Q : Q = Tail(s.tx_nbq)
    OBVIOUS
  <2>2. Q \in Seq(SegOf(h))
    BY <2>1, HeadTailProperties DEF Sock
  <2>3. PICK v : v = [u EXCEPT !.tx_nbq = Q]
    OBVIOUS
  <2>4. v \in Sock(h)
    BY <1>2, <2>2, <2>3 DEF Sock
  <2>5. u.tx_nbq = s.tx_nbq
    BY <1>2
  <2>6. t = NutTcpAbortSocket(v)
    BY <1>1, <1>4, <2>1, <2>3, <2>5 DEF NutTcpStateRetranTimeout
  <2> QED BY <2>4, <2>6, AbortDead
<1>5. CASE ~(s.retransmits > RetriesMax) /\ up
  <2>1. PICK O : O = u.out \cup {Head(s.tx_nbq)}
    OBVIOUS
  <2>2. Head(s.tx_nbq) \in SegOf(h)
    BY HeadTailProperties DEF Sock
  <2>3. O \in SUBSET SegOf(h)
    BY <1>2, <2>1, <2>2 DEF Sock
  <2>4. t = [u EXCEPT !.out = O, !.retran = TRUE]
    BY <1>1, <1>5, <2>1 DEF NutTcpStateRetranTimeout
  <2>5. /\ t \in Sock(h) /\ Kept(t, u)
        /\ t.tx_una = u.tx_una /\ t.tx_win = u.tx_win /\ t.tx_nbq = u.tx_nbq /\ t.retran = TRUE
    <3>1. PICK v : v = [u EXCEPT !.out = O]
      OBVIOUS
    <3>2. v \in Sock(h)
      BY <1>2, <2>3, <3>1 DEF Sock
    <3>3. t = [v EXCEPT !.retran = TRUE]
      BY <2>4, <3>1
    <3>4. t \in Sock(h)
      BY <3>2, <3>3, ZenonT(60) DEF Sock
    <3>5. /\ Kept(t, u)
          /\ t.tx_una = u.tx_una /\ t.tx_win = u.tx_win /\ t.tx_nbq = u.tx_nbq /\ t.retran = TRUE
      BY <1>2, <2>4 DEF Sock, Kept
    <3> QED BY <3>4, <3>5
  <2>6. AckStep(h, t, u)
    BY <1>2, <2>5, KeptStep
  <2> QED BY <1>2, <2>5, <2>6, AckStepTrans
<1> QED BY <1>3, <1>4, <1>5

(* The first of the places where the walk along a list may stop.            *)
LEMMA FirstPlaceFacts ==
    ASSUME NEW T, NEW q \in Seq(T), NEW places \in SUBSET (1..Len(q))
    PROVE  /\ FirstPlace(q, places) \in places \cup {Len(q) + 1}
           /\ FirstPlace(q, places) \in 1..(Len(q) + 1)
           /\ \A j \in places : FirstPlace(q, places) <= j
<1>1. Len(q) \in Nat /\ Len(q) + 1 \in Nat
  BY LenProperties
<1>2. PICK B : B = places \cup {Len(q) + 1}
  OBVIOUS
<1>3. B \in SUBSET (1..(Len(q) + 1)) /\ B # {}
  <2>1. 1..Len(q) \subseteq 1..(Len(q) + 1) /\ Len(q) + 1 \in 1..(Len(q) + 1)
    BY <1>1
  <2> QED BY <1>2, <2>1
<1>4. \E m \in B : \A j \in B : m <= j
  BY <1>1, <1>3, FirstPosition
<1>5. FirstPlace(q, places) \in B /\ \A j \in B : FirstPlace(q, places) <= j
  BY <1>2, <1>4 DEF FirstPlace
<1> QED BY <1>2, <1>3, <1>5

(* The lists of the sending side stay too; the timer may be started.        *)
AckRepeated(h, t, s) ==
    /\ AckStep(h, t, s) /\ t.tx_una = s.tx_una /\ t.tx_nbq = s.tx_nbq
    /\ (t.retran = s.retran) \/ (t.retran = TRUE /\ s.tx_nbq # <<>>)

LEMMA DuplicateStep ==
    ASSUME NEW h \in Host, NEW s \in Sock(h), Counted(s), NEW n \in Segments, NEW up \in BOOLEAN,
           NEW t, t = DuplicateAck(WindowUpdate(s, n), n, up)
    PROVE  Dead(h, t) \/ AckRepeated(h, t, s)
<1>1. PICK u : u = WindowUpdate(s, n)
  OBVIOUS
<1>2. /\ u \in Sock(h) /\ Counted(u) /\ AckStep(h, u, s)
      /\ u.tx_una = s.tx_una /\ u.tx_nbq = s.tx_nbq /\ u.retran = s.retran
  <2>1. CASE u = s
    BY <2>1 DEF AckStep, SameRx, SameWait
  <2>2. CASE u = [s EXCEPT !.tx_win = n.win, !.tx_wl1 = n.seq, !.tx_wl2 = n.ack]
    <3>1. n.win \in 0..WinSize /\ n.seq \in Num /\ n.ack \in Num
      BY DEF Segments, Num
    <3>2. /\ u \in Sock(h) /\ Kept(u, s)
          /\ u.tx_una = s.tx_una /\ u.tx_nbq = s.tx_nbq /\ u.retran = s.retran
      BY <2>2, <3>1 DEF Sock, Kept
    <3> QED BY <3>2, KeptStep DEF AckStep
  <2> QED BY <1>1, <2>1, <2>2 DEF WindowUpdate
<1>3. t = DuplicateAck(u, n, up)
  BY <1>1
<1>4. CASE t = u
  BY <1>2, <1>4 DEF AckRepeated
<1>5. CASE u.tx_dup < 2 /\ t = [u EXCEPT !.tx_dup = @ + 1]
  <2>1. PICK D : D = u.tx_dup + 1
    OBVIOUS
  <2>2. D \in 0..2 /\ t = [u EXCEPT !.tx_dup = D]
    BY <1>2, <1>5, <2>1, SMTT(45), ZenonT(60) DEF Sock
  <2>3. /\ t \in Sock(h) /\ Kept(t, u)
        /\ t.tx_una = u.tx_una /\ t.tx_nbq = u.tx_nbq /\ t.retran = u.retran
    BY <1>2, <2>2, SMTT(60), ZenonT(60) DEF Sock, Kept
  <2>4. AckStep(h, t, u)
    BY <1>2, <2>3, KeptStep
  <2> QED BY <1>2, <2>3, <2>4, AckStepTrans DEF AckRepeated
<1>6. CASE u.tx_nbq # <<>> /\ t = NutTcpStateRetranTimeout([u EXCEPT !.tx_dup = 0], up)
  <2>1. PICK v : v = [u EXCEPT !.tx_dup = 0]
    OBVIOUS
  <2>2. /\ v \in Sock(h) /\ Counted(v) /\ AckStep(h, v, u)
        /\ v.tx_una = u.tx_una /\ v.tx_nbq = u.tx_nbq /\ v.retran = u.retran
    <3>0. PICK D \in 0..2 : D = 0
      OBVIOUS
    <3>1. /\ v \in Sock(h) /\ Kept(v, u)
          /\ v.tx_una = u.tx_una /\ v.tx_nbq = u.tx_nbq /\ v.retran = u.retran
      <4>1. v = [u EXCEPT !.tx_dup = D]
        BY <2>1, <3>0
      <4> QED BY <1>2, <4>1 DEF Sock, Kept
    <3>2. AckStep(h, v, u)
      BY <1>2, <3>1, KeptStep
    <3> QED BY <3>1, <3>2 DEF AckStep
  <2>3. \/ Dead(h, t)
        \/ /\ AckStep(h, t, v)
           /\ t.tx_una = v.tx_una /\ t.tx_win = v.tx_win /\ t.tx_nbq = v.tx_nbq /\ t.retran = TRUE
    <3>1. v.tx_nbq # <<>> /\ t = NutTcpStateRetranTimeout(v, up)
      BY <1>6, <2>1, <2>2
    <3> QED BY <2>2, <3>1, RetranStep
  <2>4. CASE Dead(h, t)
    BY <2>4
  <2>5. CASE AckStep(h, t, v) /\ t.tx_una = v.tx_una /\ t.tx_nbq = v.tx_nbq /\ t.retran = TRUE
    <3>1. AckStep(h, t, s)
      BY <1>2, <2>2, <2>5, AckStepTrans
    <3> QED BY <1>2, <1>6, <2>2, <2>5, <3>1 DEF AckRepeated
  <2> QED BY <2>3, <2>4, <2>5
<1>7. u.tx_dup \in 0..2
  BY <1>2 DEF Sock
<1>8. (t = u) \/ (u.tx_dup < 2 /\ t = [u EXCEPT !.tx_dup = @ + 1])
      \/ (u.tx_nbq # <<>> /\ t = NutTcpStateRetranTimeout([u EXCEPT !.tx_dup = 0], up))
  <2>1. u.tx_dup >= 2 \/ u.tx_dup < 2
    BY <1>7
  <2> QED BY <1>3, <2>1 DEF DuplicateAck
<1> QED BY <1>4, <1>5, <1>6, <1>8

LEMMA NewAckStep ==
    ASSUME NEW h \in Host, NEW s \in Sock(h), Counted(s), NEW n \in Segments,
           NEW t, t = NewAck(s, n)
    PROVE  \E i \in 1..(Len(s.tx_nbq) + 1) :
               /\ i = FirstPlace(s.tx_nbq, {j \in DOMAIN s.tx_nbq : SeqIsAfter(SeqEnd(s.tx_nbq[j]), n.ack)})
               /\ AckStep(h, t, s) /\ t.tx_una = n.ack
               /\ t.tx_nbq = SubSeq(s.tx_nbq, i, Len(s.tx_nbq)) /\ t.retran = (t.tx_nbq # <<>>)
<1>1. PICK B : B = {j \in DOMAIN s.tx_nbq : SeqIsAfter(SeqEnd(s.tx_nbq[j]), n.ack)}
  OBVIOUS
<1>2. PICK q : q = s.tx_nbq
  OBVIOUS
<1>3. q \in Seq(SegOf(h)) /\ B \in SUBSET (1..Len(q)) /\ Len(q) \in Nat
  BY <1>1, <1>2, LenProperties DEF Sock
<1>4. PICK i \in 1..(Len(q) + 1) : i = FirstPlace(q, B)
  BY <1>3, FirstPlaceFacts
<1>5. PICK Q : Q = SubSeq(q, i, Len(q))
  OBVIOUS
<1>6. Q \in Seq(SegOf(h))
  <2>1. Len(q) \in 0..Len(q)
    BY <1>3
  <2> QED BY <1>3, <1>4, <1>5, <2>1, SubSeqFacts
<1>7. n.win \in 0..WinSize /\ n.ack \in Num
  BY DEF Segments, Num
<1>8. PICK R \in BOOLEAN : R = (Q # <<>>)
  OBVIOUS
<1>9. t = [s EXCEPT !.tx_dup = 0, !.tx_una = n.ack, !.tx_win = n.win, !.tx_nbq = Q,
                    !.retran = R, !.retransmits = 0]
  BY <1>1, <1>2, <1>4, <1>5, <1>8 DEF NewAck
<1>10. AckStep(h, t, s) /\ t.tx_una = n.ack /\ t.tx_nbq = Q /\ t.retran = R
  <2>1. t \in Sock(h) /\ Kept(t, s) /\ t.tx_una = n.ack /\ t.tx_nbq = Q /\ t.retran = R
    <3>1. PICK D \in 0..2, A \in Num, V \in 0..WinSize, Z \in Nat :
              D = 0 /\ A = n.ack /\ V = n.win /\ Z = 0
      BY <1>7
    <3>2. t = [s EXCEPT !.tx_dup = D, !.tx_una = A, !.tx_win = V, !.tx_nbq = Q,
                        !.retran = R, !.retransmits = Z]
      BY <1>9, <3>1
    <3>3. t \in Sock(h)
      <4>1. PICK u : u = [s EXCEPT !.tx_dup = D, !.tx_una = A, !.tx_win = V]
        OBVIOUS
      <4>2. u \in Sock(h)
        BY <3>1, <4>1, ZenonT(60) DEF Sock
      <4>3. PICK v : v = [u EXCEPT !.tx_nbq = Q, !.retransmits = Z]
        OBVIOUS
      <4>4. v \in Sock(h)
        BY <1>2, <1>6, <3>1, <4>2, <4>3 DEF Sock
      <4>5. t = [v EXCEPT !.retran = R]
        BY <3>2, <4>1, <4>3
      <4>6. R \in BOOLEAN
        BY <1>8
      <4> QED BY <4>4, <4>5, <4>6, ZenonT(60) DEF Sock
    <3>4. Kept(t, s) /\ t.tx_una = A /\ t.tx_nbq = Q /\ t.retran = R
      BY <3>2 DEF Sock, Kept
    <3> QED BY <3>1, <3>3, <3>4
  <2> QED BY <2>1, KeptStep
<1> QED BY <1>1, <1>2, <1>4, <1>5, <1>8, <1>10

LEMMA ProcessAckStep ==
    ASSUME NEW h \in Host, NEW s \in Sock(h), Counted(s), NEW n \in Segments, NEW up \in BOOLEAN,
           NEW t, t = NutTcpProcessAck(s, n, up)
    PROVE  Dead(h, t) \/ AckStep(h, t, s)
<1>1. CASE t = s
  BY <1>1 DEF AckStep, SameRx, SameWait
<1>2. CASE t = [s EXCEPT !.tx_flags = @ \cup {"ACK", "FORCE"}]
  <2>1. PICK F : F = s.tx_flags \cup {"ACK", "FORCE"}
    OBVIOUS
  <2>2. F \in SUBSET {"ACK", "FORCE"} /\ t = [s EXCEPT !.tx_flags = F]
    BY <1>2, <2>1 DEF Sock
  <2> QED BY <2>2, SMTT(45) DEF AckStep, Sock, Counted, SameRx, SameWait
<1>3. CASE t = DuplicateAck(WindowUpdate(s, n), n, up)
  BY <1>3, DuplicateStep DEF AckRepeated
<1>4. CASE t = NewAck(s, n)
  BY <1>4, NewAckStep
<1> QED BY <1>1, <1>2, <1>3, <1>4 DEF NutTcpProcessAck

-----------------------------------------------------------------------------
(* Segments received in advance.                                            *)

(* List Q is q with element e somewhere.                                    *)
Put(T, q, e, Q) ==
    /\ Q \in Seq(T) /\ Len(Q) = Len(q) + 1
    /\ \A j \in 1..Len(Q) : Q[j] = e \/ \E k \in 1..Len(q) : Q[j] = q[k]

LEMMA Inserted ==
    ASSUME NEW T, NEW s \in Seq(T), NEW e \in T, NEW i \in 1..(Len(s) + 1)
    PROVE  Put(T, s, e, InsertAt(s, i, e))
<1>1. Len(s) \in Nat /\ i \in Nat /\ i <= Len(s) + 1 /\ i >= 1
  BY LenProperties
<1>2. /\ InsertAt(s, i, e) \in Seq(T)
      /\ Len(InsertAt(s, i, e)) = Len(s) + 1
      /\ \A j \in 1..(Len(s) + 1) : InsertAt(s, i, e)[j] =
            IF j < i THEN s[j] ELSE IF j = i THEN e ELSE s[j - 1]
  BY InsertAtFacts
<1>3. PICK Q : Q = InsertAt(s, i, e)
  OBVIOUS
<1>4. /\ Q \in Seq(T) /\ Len(Q) = Len(s) + 1
      /\ \A j \in 1..(Len(s) + 1) : Q[j] = IF j < i THEN s[j] ELSE IF j = i THEN e ELSE s[j - 1]
  BY <1>2, <1>3
<1>5. ASSUME NEW j \in 1..Len(Q)
      PROVE  Q[j] = e \/ \E k \in 1..Len(s) : Q[j] = s[k]
  <2>1. j \in 1..(Len(s) + 1)
    BY <1>4
  <2>2. Q[j] = IF j < i THEN s[j] ELSE IF j = i THEN e ELSE s[j - 1]
    BY <1>4, <2>1
  <2>3. CASE j < i
    <3>1. j \in 1..Len(s) /\ Q[j] = s[j]
      BY <1>1, <2>1, <2>2, <2>3
    <3> QED BY <3>1
  <2>4. CASE j = i
    BY <2>2, <2>4
  <2>5. CASE j > i
    <3>1. j - 1 \in 1..Len(s) /\ Q[j] = s[j - 1]
      BY <1>1, <2>1, <2>2, <2>5
    <3> QED BY <3>1
  <2> QED BY <1>1, <2>1, <2>3, <2>4, <2>5
<1>6. Put(T, s, e, Q)
  BY <1>4, <1>5 DEF Put
<1> QED BY <1>3, <1>6

LEMMA InAdvanceStep ==
    ASSUME NEW h \in Host, NEW s \in Sock(h), Counted(s), NEW n \in Segments, NEW t, t = InAdvance(s, n)
    PROVE  RxStep(h, t, s) /\ t.rx_cnt = s.rx_cnt
<1>1. PICK q : q = s.rx_nbq
  OBVIOUS
<1>2. q \in Seq(Segments) /\ Len(q) \in Nat /\ Len(q) <= s.adv /\ s.adv \in Nat
      /\ \A j \in 1..Len(q) : q[j].len = 1
  BY <1>1, LenProperties DEF Sock, Counted
<1>3. PICK B : B = {j \in DOMAIN q : q[j].seq = n.seq \/ SeqIsAfter(q[j].seq, n.seq)}
  OBVIOUS
<1>4. PICK i : i = FirstPlace(q, B)
  OBVIOUS
<1>5. i \in 1..(Len(q) + 1)
  <2>1. B \in SUBSET (1..Len(q))
    BY <1>2, <1>3
  <2> QED BY <1>2, <1>4, <2>1, FirstPlaceFacts
<1>6. CASE t = AckNow(s)
  BY <1>6, AckNowStep DEF SameRx
<1>7. PICK A : A = s.adv + n.len
  OBVIOUS
<1>8. CASE n.len # 0 /\ t = AckNow([s EXCEPT !.adv = A])
  <2>1. A \in Nat /\ A >= s.adv
    BY <1>2, <1>7 DEF Segments
  <2>2. PICK u : u = [s EXCEPT !.adv = A]
    OBVIOUS
  <2>3. /\ u \in Sock(h) /\ u.rx_nbq = q /\ u.rx_cnt = s.rx_cnt /\ u.rx_buf = s.rx_buf /\ u.adv = A
        /\ u.state = s.state /\ SameTx(u, s) /\ SameWait(u, s)
    BY <1>1, <2>1, <2>2 DEF Sock, SameTx, SameWait
  <2>4. Counted(u)
    <3>1. Len(q) <= A
      BY <1>2, <2>1
    <3> QED BY <1>2, <2>3, <3>1 DEF Counted
  <2>5. RxStep(h, u, s)
    BY <2>3, <2>4 DEF RxStep
  <2>6. RxStep(h, t, u) /\ t.rx_cnt = u.rx_cnt
    BY <1>8, <2>2, <2>3, <2>4, AckNowStep, ZenonT(60) DEF SameRx
  <2> QED BY <2>3, <2>5, <2>6, RxStepTrans
<1>9. CASE n.len # 0 /\ t = AckNow([s EXCEPT !.adv = A, !.rx_nbq = InsertAt(q, i, n)])
  <2>1. n.len = 1 /\ A = s.adv + 1 /\ A \in Nat
    BY <1>2, <1>7, <1>9 DEF Segments
  <2>2. PICK Q : Q = InsertAt(q, i, n)
    OBVIOUS
  <2>3. /\ Q \in Seq(Segments) /\ Len(Q) = Len(q) + 1
        /\ \A j \in 1..Len(Q) : Q[j] = n \/ \E k \in 1..Len(q) : Q[j] = q[k]
    <3>1. PICK T : T = Segments
      OBVIOUS
    <3>2. Put(T, q, n, Q)
      BY <1>2, <1>5, <2>2, <3>1, Inserted
    <3> QED BY <3>1, <3>2 DEF Put
  <2>4. PICK u : u = [s EXCEPT !.adv = A, !.rx_nbq = Q]
    OBVIOUS
  <2>5. /\ u \in Sock(h) /\ u.rx_nbq = Q /\ u.rx_cnt = s.rx_cnt /\ u.rx_buf = s.rx_buf /\ u.adv = A
        /\ u.state = s.state /\ SameTx(u, s) /\ SameWait(u, s)
    BY <2>1, <2>3, <2>4 DEF Sock, SameTx, SameWait
  <2>6. Counted(u)
    <3>1. Len(Q) <= A
      BY <1>2, <2>1, <2>3
    <3>2. \A j \in 1..Len(Q) : Q[j].len = 1
      BY <1>2, <2>1, <2>3
    <3>3. Len(s.rx_buf) <= s.rx_cnt
      BY DEF Counted
    <3> QED BY <2>5, <3>1, <3>2, <3>3 DEF Counted
  <2>7. RxStep(h, u, s)
    BY <2>5, <2>6 DEF RxStep
  <2>8. RxStep(h, t, u) /\ t.rx_cnt = u.rx_cnt
    <3>1. t = AckNow(u)
      BY <1>9, <2>2, <2>4
    <3> QED BY <2>5, <2>6, <3>1, AckNowStep DEF SameRx
  <2> QED BY <2>5, <2>7, <2>8, RxStepTrans
<1>10. (t = AckNow(s)) \/ (n.len # 0 /\ t = AckNow([s EXCEPT !.adv = A]))
       \/ (n.len # 0 /\ t = AckNow([s EXCEPT !.adv = A, !.rx_nbq = InsertAt(q, i, n)]))
  BY <1>1, <1>3, <1>4, <1>7 DEF InAdvance
<1> QED BY <1>6, <1>8, <1>9, <1>10

(* One segment is taken from those received in advance: k are left when the *)
(* walk has not stopped.                                                    *)
Takes(h, a, s, k) ==
    /\ DOMAIN a = {"s", "flags", "stop"} /\ a = [s |-> a.s, flags |-> a.flags, stop |-> a.stop]
    /\ RxStep(h, a.s, s) /\ (~a.stop => Len(a.s.rx_nbq) = k)

LEMMA TakeOneStep ==
    ASSUME NEW h \in Host, NEW s \in Sock(h), NEW k \in Nat, NEW a, Takes(h, a, s, k + 1),
           NEW q \in Segments, q.len = 1, NEW b, b = TakeOne(a, q)
    PROVE  Takes(h, b, s, k)
<1>1. PICK x : x = a.s
  OBVIOUS
<1>2. RxStep(h, x, s) /\ x \in Sock(h) /\ Counted(x)
  BY <1>1 DEF Takes, RxStep
<1>3. CASE a.stop \/ SeqIsAfter(q.seq, x.rx_nxt)
  <2>1. b = [a EXCEPT !.stop = TRUE]
    BY <1>1, <1>3 DEF TakeOne
  <2>2. b = [s |-> x, flags |-> a.flags, stop |-> TRUE]
    BY <1>1, <2>1 DEF Takes
  <2> QED BY <1>2, <2>2 DEF Takes
<1>4. CASE ~(a.stop \/ SeqIsAfter(q.seq, x.rx_nxt))
  <2>1. Len(x.rx_nbq) = k + 1 /\ x.rx_nbq \in Seq(Segments) /\ x.rx_nbq # <<>>
        /\ x.adv \in Nat /\ Len(x.rx_nbq) <= x.adv /\ \A j \in 1..Len(x.rx_nbq) : x.rx_nbq[j].len = 1
    <3>1. Len(x.rx_nbq) = k + 1 /\ x.rx_nbq \in Seq(Segments) /\ x.adv \in Nat
      BY <1>1, <1>2, <1>4 DEF Takes, Sock
    <3>2. x.rx_nbq # <<>>
      BY <3>1, EmptySeq
    <3> QED BY <1>2, <3>1, <3>2 DEF Counted
  <2>2. PICK Q, A : Q = Tail(x.rx_nbq) /\ A = x.adv - q.len
    OBVIOUS
  <2>3. /\ Q \in Seq(Segments) /\ Len(Q) = k /\ A \in Nat /\ Len(Q) <= A
        /\ \A j \in 1..Len(Q) : Q[j].len = 1
    <3>1. Q \in Seq(Segments) /\ Len(Q) = k /\ \A j \in 1..Len(Q) : Q[j] = x.rx_nbq[j + 1]
      BY <2>1, <2>2, HeadTailProperties
    <3>2. A \in Nat /\ Len(Q) <= A
      BY <2>1, <2>2, <3>1
    <3>3. \A j \in 1..Len(Q) : j + 1 \in 1..Len(x.rx_nbq)
      BY <2>1, <3>1
    <3> QED BY <2>1, <3>1, <3>2, <3>3
  <2>4. PICK u : u = [x EXCEPT !.rx_nbq = Q, !.adv = A]
    OBVIOUS
  <2>5. /\ u \in Sock(h) /\ u.rx_nbq = Q /\ u.rx_cnt = x.rx_cnt /\ u.rx_buf = x.rx_buf /\ u.adv = A
        /\ u.state = x.state /\ SameTx(u, x) /\ SameWait(u, x)
    BY <1>2, <2>3, <2>4 DEF Sock, SameTx, SameWait
  <2>6. RxStep(h, u, x)
    <3>1. Len(x.rx_buf) <= x.rx_cnt
      BY <1>2 DEF Counted
    <3>2. Counted(u)
      BY <2>3, <2>5, <3>1 DEF Counted
    <3> QED BY <2>5, <3>2 DEF RxStep
  <2>7. u = [a.s EXCEPT !.rx_nbq = Tail(@), !.adv = @ - q.len]
    BY <1>1, <2>2, <2>4
  <2>8. CASE q.seq # x.rx_nxt
    <3>1. b = [a EXCEPT !.s = u]
      BY <1>1, <1>4, <2>7, <2>8 DEF TakeOne
    <3>2. b = [s |-> u, flags |-> a.flags, stop |-> a.stop]
      BY <3>1 DEF Takes
    <3>3. RxStep(h, u, s)
      BY <1>2, <2>6, RxStepTrans
    <3> QED BY <2>3, <2>5, <3>2, <3>3 DEF Takes
  <2>9. CASE q.seq = x.rx_nxt
    <3>1. PICK v, F : v = NutTcpProcessAppData(u, q, u.rx_nbq # <<>>) /\ F = a.flags \cup q.flags
      OBVIOUS
    <3>2. b = [a EXCEPT !.s = v, !.flags = F]
      BY <1>1, <1>4, <2>7, <2>9, <3>1 DEF TakeOne
    <3>3. b = [s |-> v, flags |-> F, stop |-> a.stop]
      BY <3>2 DEF Takes
    <3>4. RxStep(h, v, u) /\ v.rx_nbq = u.rx_nbq
      <4>1. u \in Sock(h) /\ Counted(u)
        BY <2>6 DEF RxStep
      <4>2. PICK more \in BOOLEAN : more = (u.rx_nbq # <<>>)
        OBVIOUS
      <4>3. v = NutTcpProcessAppData(u, q, more)
        BY <3>1, <4>2
      <4> QED BY <4>1, <4>3, AppDataStep
    <3>5. RxStep(h, v, s)
      BY <1>2, <2>6, <3>4, RxStepTrans
    <3> QED BY <2>3, <2>5, <3>3, <3>4, <3>5 DEF Takes
  <2> QED BY <2>8, <2>9
<1> QED BY <1>3, <1>4

(* The walk defines its result for every length of the list.                *)
LEMMA TakeAdvanceWalk ==
    ASSUME NEW s, NEW T, s.rx_nbq \in Seq(T)
    PROVE  \E f : /\ \A i \in 0..Len(s.rx_nbq) : f[i] = IF i = 0 THEN [s |-> s, flags |-> {}, stop |-> FALSE]
                                                         ELSE TakeOne(f[i - 1], s.rx_nbq[i])
                  /\ TakeAdvance(s) = f[Len(s.rx_nbq)]
<1>1. PICK q, n : q = s.rx_nbq /\ n = Len(s.rx_nbq)
  OBVIOUS
<1>2. n \in Nat
  BY <1>1, LenProperties
<1>3. PICK e : e = [s |-> s, flags |-> {}, stop |-> FALSE]
  OBVIOUS
<1> DEFINE Walk(m, g) == g = [i \in 0..m |-> IF i = 0 THEN e ELSE TakeOne(g[i - 1], q[i])]
<1>4. ASSUME NEW m \in 0..n, m < n, NEW g, Walk(m, g)
      PROVE  \E f : Walk(m + 1, f)
  <2>1. PICK f : f = [i \in 0..(m + 1) |-> IF i <= m THEN g[i] ELSE TakeOne(g[m], q[m + 1])]
    OBVIOUS
  <2>2. m \in Nat /\ m + 1 \in Nat
    BY <1>2
  <2>3. ASSUME NEW i \in 0..(m + 1)
        PROVE  f[i] = IF i = 0 THEN e ELSE TakeOne(f[i - 1], q[i])
    <3>1. CASE i = 0
      <4>1. 0 \in 0..m /\ f[0] = g[0]
        BY <2>1, <2>2
      <4> QED BY <1>4, <3>1, <4>1
    <3>2. CASE i # 0 /\ i <= m
      <4>1. i \in 0..m /\ i - 1 \in 0..m /\ f[i] = g[i] /\ f[i - 1] = g[i - 1]
        BY <2>1, <2>2, <3>2
      <4> QED BY <1>4, <3>2, <4>1
    <3>3. CASE i = m + 1
      <4>1. f[m] = g[m] /\ f[i] = TakeOne(g[m], q[m + 1]) /\ i - 1 = m /\ i # 0
        BY <2>1, <2>2, <3>3
      <4> QED BY <3>3, <4>1
    <3> QED BY <2>2, <3>1, <3>2, <3>3
  <2>4. Walk(m + 1, f)
    BY <2>1, <2>3
  <2> QED BY <2>4
<1>5. \E g : Walk(n, g)
  <2> DEFINE B == {i \in 1..(n + 1) : ~ \E g : Walk(i - 1, g)}
  <2>1. SUFFICES ASSUME B # {} PROVE FALSE
    <3>1. n + 1 \in 1..(n + 1) /\ (n + 1) - 1 = n
      BY <1>2
    <3> QED BY <3>1
  <2>2. PICK i \in B : \A j \in B : i <= j
    <3>1. n + 1 \in Nat /\ B \in SUBSET (1..(n + 1))
      BY <1>2
    <3> HIDE DEF B
    <3> QED BY <2>1, <3>1, FirstPosition
  <2>3. i # 1
    <3>1. PICK g : g = [j \in 0..0 |-> e]
      OBVIOUS
    <3>2. g = [j \in 0..0 |-> IF j = 0 THEN e ELSE TakeOne(g[j - 1], q[j])]
      BY <3>1
    <3>3. Walk(0, g)
      BY <3>2
    <3>4. 1 - 1 = 0
      OBVIOUS
    <3> QED BY <3>3, <3>4
  <2>4. i - 1 \in 1..(n + 1) /\ i - 1 \notin B
    <3>1. i \in 1..(n + 1)
      OBVIOUS
    <3>2. i - 1 \in 1..(n + 1) /\ ~(i <= i - 1)
      BY <1>2, <2>3, <3>1
    <3> HIDE DEF B
    <3> QED BY <2>2, <3>2
  <2>5. PICK g : Walk((i - 1) - 1, g)
    BY <2>4
  <2>6. (i - 1) - 1 \in 0..n /\ (i - 1) - 1 < n /\ ((i - 1) - 1) + 1 = i - 1
    BY <1>2, <2>3, <2>4
  <2>7. \E f : Walk(i - 1, f)
    <3> HIDE DEF Walk
    <3>1. \E f : Walk(((i - 1) - 1) + 1, f)
      BY <1>4, <2>5, <2>6
    <3> QED BY <2>6, <3>1
  <2> QED BY <2>2, <2>7
<1>6. PICK f : Walk(n, f) /\ TakeAdvance(s) = f[n]
  <2>1. PICK f : f = CHOOSE g : Walk(n, g)
    OBVIOUS
  <2>2. Walk(n, f)
    <3> HIDE DEF Walk
    <3> QED BY <1>5, <2>1
  <2>3. TakeAdvance(s) = f[n]
    BY <1>1, <1>3, <2>1 DEF TakeAdvance
  <2> QED BY <2>2, <2>3
<1>7. \A i \in 0..n : f[i] = IF i = 0 THEN e ELSE TakeOne(f[i - 1], q[i])
  BY <1>6
<1> QED BY <1>1, <1>3, <1>6, <1>7

(* Taking what waits one by one is a step of the receiver.                   *)
LEMMA TakeAdvanceStep ==
    ASSUME NEW h \in Host, NEW s \in Sock(h), Counted(s)
    PROVE  RxStep(h, TakeAdvance(s).s, s)
<1>1. PICK q, n : q = s.rx_nbq /\ n = Len(s.rx_nbq)
  OBVIOUS
<1>2. q \in Seq(Segments) /\ n \in Nat /\ n = Len(q) /\ \A j \in 1..n : q[j] \in Segments /\ q[j].len = 1
  <2>1. q \in Seq(Segments) /\ n \in Nat /\ n = Len(q)
    BY <1>1, LenProperties DEF Sock
  <2>2. \A j \in 1..n : q[j] \in Segments
    BY <2>1, ElementOfSeq
  <2> QED BY <1>1, <2>1, <2>2 DEF Counted
<1>3. PICK e : e = [s |-> s, flags |-> {}, stop |-> FALSE]
  OBVIOUS
<1>4. PICK f : /\ \A i \in 0..n : f[i] = IF i = 0 THEN e ELSE TakeOne(f[i - 1], q[i])
               /\ TakeAdvance(s) = f[n]
  <2>1. PICK T : T = Segments
    OBVIOUS
  <2>2. s.rx_nbq \in Seq(T)
    BY <1>1, <1>2, <2>1
  <2> QED BY <1>1, <1>3, <2>2, TakeAdvanceWalk
<1>5. ASSUME NEW m \in 0..n, m < n, Takes(h, f[m], s, n - m)
      PROVE  Takes(h, f[m + 1], s, n - (m + 1))
  <2>1. m + 1 \in 1..n /\ n - (m + 1) \in Nat /\ (n - (m + 1)) + 1 = n - m
    BY <1>2, <1>5
  <2>2. f[m + 1] = TakeOne(f[m], q[m + 1])
    <3>1. m + 1 \in 0..n /\ m + 1 # 0 /\ (m + 1) - 1 = m
      BY <1>2, <1>5
    <3> QED BY <1>4, <3>1
  <2>3. q[m + 1] \in Segments /\ q[m + 1].len = 1
    BY <1>2, <2>1
  <2>4. Takes(h, f[m], s, (n - (m + 1)) + 1)
    BY <1>5, <2>1
  <2> QED BY <2>1, <2>2, <2>3, <2>4, TakeOneStep
<1>6. Takes(h, f[n], s, 0)
  <2> DEFINE B == {i \in 1..(n + 1) : ~Takes(h, f[i - 1], s, n - (i - 1))}
  <2>1. SUFFICES ASSUME B # {} PROVE FALSE
    <3>1. n + 1 \in 1..(n + 1) /\ (n + 1) - 1 = n /\ n - n = 0
      BY <1>2
    <3> QED BY <3>1
  <2>2. PICK i \in B : \A j \in B : i <= j
    <3>1. n + 1 \in Nat /\ B \in SUBSET (1..(n + 1))
      BY <1>2
    <3> HIDE DEF B
    <3> QED BY <2>1, <3>1, FirstPosition
  <2>3. i # 1
    <3>1. f[0] = e
      <4>1. 0 \in 0..n
        BY <1>2
      <4> QED BY <1>4, <4>1
    <3>2. RxStep(h, s, s)
      BY DEF RxStep, SameTx, SameWait
    <3>3. Takes(h, e, s, n)
      BY <1>1, <1>3, <3>2 DEF Takes
    <3>4. 1 - 1 = 0 /\ n - 0 = n
      BY <1>2
    <3> QED BY <3>1, <3>3, <3>4
  <2>4. i - 1 \in 1..(n + 1) /\ i - 1 \notin B
    <3>1. i \in 1..(n + 1)
      OBVIOUS
    <3>2. i - 1 \in 1..(n + 1) /\ ~(i <= i - 1)
      BY <1>2, <2>3, <3>1
    <3> HIDE DEF B
    <3> QED BY <2>2, <3>2
  <2>5. PICK m : m = (i - 1) - 1
    OBVIOUS
  <2>6. m \in 0..n /\ m < n /\ m + 1 = i - 1
    BY <1>2, <2>3, <2>4, <2>5
  <2>7. Takes(h, f[m], s, n - m)
    BY <2>4, <2>5
  <2>8. Takes(h, f[i - 1], s, n - (i - 1))
    BY <1>5, <2>6, <2>7
  <2> QED BY <2>2, <2>8
<1> QED BY <1>4, <1>6 DEF Takes

-----------------------------------------------------------------------------
(* Changes of state.                                                        *)

(* A segment without data, with SYN or FIN, is sent and kept.               *)
Queued(h, t, s) ==
    /\ t.tx_una = s.tx_una /\ t.tx_win = s.tx_win /\ t.tx_nxt = SeqPlus(s.tx_nxt, 1)
    /\ t.retran = (s.retran \/ s.tx_nbq = <<>>)
    /\ \E n \in SegOf(h) :
           /\ n.seq = s.tx_nxt /\ n.len = 0 /\ SeqEnd(n) = SeqPlus(s.tx_nxt, 1)
           /\ t.tx_nbq = Append(s.tx_nbq, n)

LEMMA QueuedOutput ==
    ASSUME NEW h \in Host, NEW s \in Sock(h), Counted(s),
           NEW F \in SUBSET {"SYN", "ACK", "FIN", "FORCE"}, ~({"SYN", "FIN"} \subseteq F),
           F \cap {"SYN", "FIN"} # {}, h = Server /\ "SYN" \in F => "ACK" \in F,
           NEW t, t = NutTcpOutput([s EXCEPT !.tx_flags = F], 0)
    PROVE  /\ t \in Sock(h) /\ Counted(t) /\ t.state = s.state
           /\ SameRx(t, s) /\ SameWait(t, s) /\ Queued(h, t, s)
<1>1. PICK u : u = [s EXCEPT !.tx_flags = F]
  OBVIOUS
<1>2. /\ u.tx_flags = F /\ u.tx_nxt = s.tx_nxt /\ u.tx_nbq = s.tx_nbq /\ u.retran = s.retran
      /\ u.rx_nxt = s.rx_nxt /\ u.rx_win = s.rx_win /\ u.out = s.out
  BY <1>1 DEF Sock
<1>3. PICK n : n = Segment(u, 0)
  OBVIOUS
<1>4. /\ n.seq = s.tx_nxt /\ n.len = 0 /\ n \in SegOf(h)
      /\ n.flags = F \cap {"ACK", "SYN", "FIN"} /\ n.flags \cap {"SYN", "FIN"} # {}
  <2>1. PICK A, G : A = (IF "ACK" \in F THEN s.rx_nxt ELSE 0) /\ G = F \cap {"ACK", "SYN", "FIN"}
    OBVIOUS
  <2>2. G = (F \cap {"ACK", "SYN"}) \cup (IF 0 = 0 /\ "SYN" \notin F THEN F \cap {"FIN"} ELSE {})
    BY <2>1
  <2>3. PICK W : W = IF s.rx_win < Mss THEN 0 ELSE s.rx_win
    OBVIOUS
  <2>4. n = [seq |-> s.tx_nxt, ack |-> A, flags |-> G, win |-> W, len |-> 0]
    BY <1>2, <1>3, <2>1, <2>2, <2>3 DEF Segment
  <2>5. A \in Num /\ s.tx_nxt \in Num /\ G \in SUBSET {"SYN", "ACK", "FIN", "RST"}
    BY <2>1, SizeFacts, SMTT(45), ZenonT(60) DEF Sock, Num
  <2>6. W \in {0, s.rx_win} /\ W \in 0..WinSize
    BY <2>3, SizeFacts DEF Sock
  <2>7. n \in Segments
    BY <2>4, <2>5, <2>6 DEF Segments, Num
  <2> QED BY <2>1, <2>4, <2>7 DEF SegOf
<1>5. SeqEnd(n) = SeqPlus(s.tx_nxt, 1)
  BY <1>4 DEF SeqEnd
<1>6. PICK X, Q, O, R : /\ X = SeqPlus(s.tx_nxt, 1) /\ Q = Append(s.tx_nbq, n) /\ O = s.out \cup {n}
                        /\ R = (s.retran \/ s.tx_nbq = <<>>)
  OBVIOUS
<1>7. X \in Num /\ Q \in Seq(SegOf(h)) /\ O \in SUBSET SegOf(h)
  <2>1. X \in Num
    BY <1>6, NumFacts DEF Sock
  <2> QED BY <1>4, <1>6, <2>1, AppendProperties DEF Sock
<1>8. R \in BOOLEAN
  BY <1>6
<1>9. F \ ({"FORCE", "ACK"} \cup n.flags) = {}
  BY <1>4
<1>10. t = [u EXCEPT !.tx_flags = {}, !.tx_nxt = X, !.tx_nbq = Q, !.retran = R, !.out = O]
  <2> DEFINE again == n.len > 0 \/ n.flags \cap {"SYN", "FIN"} # {}
  <2>1. t = [u EXCEPT !.tx_flags = @ \ ({"FORCE", "ACK"} \cup n.flags), !.tx_nxt = SeqEnd(n),
                      !.tx_nbq = IF again THEN Append(@, n) ELSE @,
                      !.retran = @ \/ (again /\ u.tx_nbq = <<>>), !.out = @ \cup {n}]
    BY <1>1, <1>2, <1>3 DEF NutTcpOutput
  <2>2. again
    BY <1>4
  <2> HIDE DEF again
  <2>3. /\ u.tx_flags \ ({"FORCE", "ACK"} \cup n.flags) = {} /\ SeqEnd(n) = X /\ Append(u.tx_nbq, n) = Q
        /\ (u.retran \/ (again /\ u.tx_nbq = <<>>)) = R /\ u.out \cup {n} = O
    BY <1>2, <1>5, <1>6, <1>9, <2>2
  <2> QED BY <2>1, <2>2, <2>3
<1>11. t = [s EXCEPT !.tx_flags = {}, !.tx_nxt = X, !.tx_nbq = Q, !.retran = R, !.out = O]
  BY <1>1, <1>10
<1>12. t \in Sock(h)
  <2>1. PICK v : v = [s EXCEPT !.tx_flags = {}, !.tx_nxt = X]
    OBVIOUS
  <2>2. v \in Sock(h)
    BY <1>7, <2>1 DEF Sock
  <2>3. PICK w : w = [v EXCEPT !.tx_nbq = Q, !.out = O]
    OBVIOUS
  <2>4. w \in Sock(h)
    BY <1>7, <2>2, <2>3 DEF Sock
  <2>5. t = [w EXCEPT !.retran = R]
    BY <1>11, <2>1, <2>3
  <2> QED BY <1>8, <2>4, <2>5, ZenonT(60) DEF Sock
<1>13. /\ t.state = s.state /\ t.tx_una = s.tx_una /\ t.tx_win = s.tx_win /\ t.tx_nxt = X
       /\ t.tx_nbq = Q /\ t.retran = R
       /\ t.rx_nxt = s.rx_nxt /\ t.rx_win = s.rx_win /\ t.rx_cnt = s.rx_cnt
       /\ t.rx_buf = s.rx_buf /\ t.rx_nbq = s.rx_nbq /\ t.adv = s.adv
       /\ t.wait = s.wait /\ t.signaled = s.signaled
  BY <1>11, ZenonT(60) DEF Sock
<1>14. Counted(t) /\ SameRx(t, s) /\ SameWait(t, s)
  BY <1>13 DEF Counted, SameRx, SameWait
<1>15. Queued(h, t, s)
  BY <1>4, <1>5, <1>6, <1>13 DEF Queued
<1> QED BY <1>12, <1>13, <1>14, <1>15

LEMMA ChangesFunction ==
    ASSUME NEW c \in Changes, NEW e \in Changes, c[1] = e[1], c[2] = e[2]
    PROVE  c = e
BY DEF Changes

LEMMA ChangesFlags ==
    ASSUME NEW c \in Changes
    PROVE  /\ c[3] \in SUBSET {"SYN", "ACK", "FIN", "FORCE"} /\ ~({"SYN", "FIN"} \subseteq c[3])
           /\ "SYN" \in c[3] => "ACK" \in c[3] \/ c[2] = "SYN_SENT"
BY DEF Changes

LEMMA ChangeStep ==
    ASSUME NEW h \in Host, NEW s \in Sock(h), Counted(s), NEW c \in Changes, c[1] = s.state,
           c[2] \in States(h), NEW t, t = NutTcpStateChange(s, c[2])
    PROVE  /\ t \in Sock(h) /\ Counted(t) /\ t.state = c[2] /\ SameRx(t, s)
           /\ t.wait = IF c[2] = "CLOSE_WAIT" /\ s.wait \in {"rx_tq", "pc_tq", "ac_tq"} THEN "none"
                                                                                   ELSE s.wait
           /\ IF c[3] \cap {"SYN", "FIN"} = {} THEN SameTx(t, s) ELSE Queued(h, t, s)
<1>1. PICK F : F = s.tx_flags \cup c[3]
  OBVIOUS
<1>2. s.tx_flags \in SUBSET {"ACK", "FORCE"}
  BY DEF Sock
<1>3. PICK v : v = [s EXCEPT !.state = c[2]]
  OBVIOUS
<1>4. /\ v \in Sock(h) /\ v.state = c[2] /\ v.tx_flags = s.tx_flags
      /\ Counted(v) /\ SameTx(v, s) /\ SameRx(v, s) /\ SameWait(v, s)
  <2>1. v \in Sock(h)
    BY <1>3 DEF Sock
  <2>2. /\ v.state = c[2] /\ v.tx_flags = s.tx_flags /\ SameTx(v, s) /\ SameRx(v, s) /\ SameWait(v, s)
    BY <1>3 DEF Sock, SameTx, SameRx, SameWait
  <2> QED BY <2>1, <2>2 DEF Counted, SameRx
<1>5. PICK w : w = [v EXCEPT !.tx_flags = F]
  OBVIOUS
<1>6. PICK u : u = IF c[3] # {} THEN NutTcpOutput(w, 0) ELSE w
  OBVIOUS
<1>7. /\ u \in Sock(h) /\ Counted(u) /\ u.state = c[2] /\ SameRx(u, s) /\ SameWait(u, s)
      /\ IF c[3] \cap {"SYN", "FIN"} = {} THEN SameTx(u, s) ELSE Queued(h, u, s)
  <2>1. CASE c[3] \cap {"SYN", "FIN"} = {}
    <3>1. F \in SUBSET {"ACK", "FORCE"}
      BY <1>1, <1>2, <2>1, ChangesFlags
    <3>2. w \in Sock(h) /\ w.state = c[2] /\ SameTx(w, v) /\ SameRx(w, v) /\ SameWait(w, v)
      BY <1>4, <1>5, <3>1 DEF Sock, SameTx, SameRx, SameWait
    <3>3. Counted(w)
      BY <1>4, <3>2 DEF Counted, SameRx
    <3>4. u \in Sock(h) /\ Counted(u) /\ u.state = c[2] /\ SameTx(u, w) /\ SameRx(u, w) /\ SameWait(u, w)
      <4>1. CASE u = NutTcpOutput(w, 0)
        BY <3>2, <3>3, <4>1, PlainStep DEF RxStep
      <4>2. CASE u = w
        BY <3>2, <3>3, <4>2 DEF SameTx, SameRx, SameWait
      <4> QED BY <1>6, <4>1, <4>2
    <3> QED BY <1>4, <2>1, <3>2, <3>4 DEF SameTx, SameRx, SameWait
  <2>2. CASE c[3] \cap {"SYN", "FIN"} # {}
    <3>1. /\ F \in SUBSET {"SYN", "ACK", "FIN", "FORCE"} /\ ~({"SYN", "FIN"} \subseteq F)
          /\ F \cap {"SYN", "FIN"} # {} /\ ("SYN" \in F => "ACK" \in F \/ c[2] = "SYN_SENT")
      BY <1>1, <1>2, <2>2, ChangesFlags
    <3>2. h = Server /\ "SYN" \in F => "ACK" \in F
      <4>1. h = Server => c[2] # "SYN_SENT"
        BY HostAssumption DEF States, Synchronized
      <4> QED BY <3>1, <4>1
    <3>3. u = NutTcpOutput([v EXCEPT !.tx_flags = F], 0)
      BY <1>5, <1>6, <2>2
    <3>4. u \in Sock(h) /\ Counted(u) /\ u.state = c[2] /\ SameRx(u, v) /\ SameWait(u, v) /\ Queued(h, u, v)
      BY <1>4, <3>1, <3>2, <3>3, QueuedOutput
    <3>5. SameRx(u, s) /\ SameWait(u, s)
      BY <1>4, <3>4 DEF SameRx, SameWait
    <3>6. Queued(h, u, s)
      BY <1>4, <3>4 DEF SameTx, Queued
    <3> QED BY <2>2, <3>4, <3>5, <3>6
  <2> QED BY <2>1, <2>2
<1>8. t = IF c[2] = "CLOSE_WAIT" THEN Broadcast(Broadcast(Broadcast(u, "rx_tq"), "pc_tq"), "ac_tq") ELSE u
  <2>1. PICK change : change = {e \in Changes : e[1] = s.state /\ e[2] = c[2]}
    OBVIOUS
  <2>2. change = {c}
    BY <2>1, ChangesFunction
  <2>3. UNION {e[3] : e \in change} = c[3]
    BY <2>2
  <2>4. w = [s EXCEPT !.state = c[2], !.tx_flags = @ \cup UNION {e[3] : e \in change}]
    BY <1>1, <1>3, <1>5, <2>3
  <2> QED BY <1>6, <2>1, <2>2, <2>3, <2>4 DEF NutTcpStateChange
<1>9. CASE c[2] # "CLOSE_WAIT"
  BY <1>7, <1>8, <1>9 DEF SameWait
<1>10. CASE c[2] = "CLOSE_WAIT"
  <2>1. PICK b1 : b1 = Broadcast(u, "rx_tq")
    OBVIOUS
  <2>2. /\ b1 \in Sock(h) /\ Counted(b1) /\ b1.state = u.state /\ SameTx(b1, u) /\ SameRx(b1, u)
        /\ b1.wait = IF u.wait = "rx_tq" THEN "none" ELSE u.wait
    BY <1>7, <2>1, BroadcastStep DEF Queues
  <2>3. PICK b2 : b2 = Broadcast(b1, "pc_tq")
    OBVIOUS
  <2>4. /\ b2 \in Sock(h) /\ Counted(b2) /\ b2.state = b1.state /\ SameTx(b2, b1) /\ SameRx(b2, b1)
        /\ b2.wait = IF b1.wait = "pc_tq" THEN "none" ELSE b1.wait
    BY <2>2, <2>3, BroadcastStep DEF Queues
  <2>5. t = Broadcast(b2, "ac_tq")
    BY <1>8, <1>10, <2>1, <2>3
  <2>6. /\ t \in Sock(h) /\ Counted(t) /\ t.state = b2.state /\ SameTx(t, b2) /\ SameRx(t, b2)
        /\ t.wait = IF b2.wait = "ac_tq" THEN "none" ELSE b2.wait
    BY <2>4, <2>5, BroadcastStep DEF Queues
  <2>7. SameTx(t, u) /\ SameRx(t, u)
    BY <2>2, <2>4, <2>6 DEF SameTx, SameRx
  <2>8. t.wait = IF s.wait \in {"rx_tq", "pc_tq", "ac_tq"} THEN "none" ELSE s.wait
    BY <1>7, <2>2, <2>4, <2>6 DEF SameWait
  <2>9. SameRx(t, s)
    BY <1>7, <2>7 DEF SameRx
  <2>10. IF c[3] \cap {"SYN", "FIN"} = {} THEN SameTx(t, s) ELSE Queued(h, t, s)
    BY <1>7, <2>7 DEF SameTx, Queued
  <2> QED BY <1>7, <1>10, <2>2, <2>4, <2>6, <2>8, <2>9, <2>10
<1> QED BY <1>9, <1>10

(* A change that is not in the table leaves the socket alone.               *)
LEMMA ChangeRefused ==
    ASSUME NEW s, NEW state, \A c \in Changes : ~(c[1] = s.state /\ c[2] = state)
    PROVE  NutTcpStateChange(s, state) = s
BY DEF NutTcpStateChange

-----------------------------------------------------------------------------
(* Sequence numbers by their distance from the initial one.                 *)

Pos(h, x) == (x - Isn[h]) % SeqSpace

LEMMA ModDiff ==
    ASSUME NEW x \in Num, NEW y \in Num
    PROVE  (x - y) % SeqSpace = IF x >= y THEN x - y ELSE x - y + SeqSpace
<1>1. SeqSpace \in Nat /\ SeqSpace > 0 /\ x \in Nat /\ y \in Nat /\ x < SeqSpace /\ y < SeqSpace
  BY SizeFacts DEF Num
<1>2. CASE x >= y
  <2>1. PICK d \in Nat : d = x - y /\ d < SeqSpace
    BY <1>1, <1>2
  <2>2. d % SeqSpace = d
    BY <1>1, <2>1
  <2> QED BY <1>2, <2>1, <2>2
<1>3. CASE ~(x >= y)
  <2>1. PICK d \in Nat : d = x - y + SeqSpace /\ d < SeqSpace /\ x - y = d - SeqSpace
    <3>1. x - y + SeqSpace \in Nat /\ x - y + SeqSpace < SeqSpace /\ x - y = (x - y + SeqSpace) - SeqSpace
      BY <1>1, <1>3
    <3> QED BY <3>1
  <2>2. (d - SeqSpace) % SeqSpace = d
    BY <1>1, <2>1
  <2> QED BY <1>3, <2>1, <2>2
<1> QED BY <1>2, <1>3

LEMMA PosFacts ==
    ASSUME NEW h \in Host, NEW x \in Num
    PROVE  /\ Pos(h, x) \in Num
           /\ Pos(h, x) + 1 < SeqSpace => Pos(h, SeqPlus(x, 1)) = Pos(h, x) + 1
           /\ \A y \in Num : Pos(h, x) = Pos(h, y) => x = y
           /\ \A y \in Num : (x - y) % SeqSpace = IF Pos(h, x) >= Pos(h, y) THEN Pos(h, x) - Pos(h, y)
                                                   ELSE Pos(h, x) - Pos(h, y) + SeqSpace
<1>1. PICK b \in Num : b = Isn[h]
  BY SizeFacts
<1>2. \A y \in Num : Pos(h, y) = IF y >= b THEN y - b ELSE y - b + SeqSpace
  BY <1>1, ModDiff DEF Pos
<1>3. SeqSpace \in Nat /\ SeqSpace > 0 /\ \A y \in Num : y \in Nat /\ y < SeqSpace
  BY SizeFacts DEF Num
<1>4. \A y \in Num : (x - y) % SeqSpace = IF x >= y THEN x - y ELSE x - y + SeqSpace
  BY ModDiff
<1>5. \A y \in Num : Pos(h, y) \in Num
  BY <1>2, <1>3 DEF Num
<1>6. \A y \in Num : Pos(h, x) = Pos(h, y) => x = y
  BY <1>2, <1>3
<1>7. SeqPlus(x, 1) \in Num /\ SeqPlus(x, 1) = IF x + 1 = SeqSpace THEN 0 ELSE x + 1
  BY NumFacts
<1>8. Pos(h, x) + 1 < SeqSpace => Pos(h, SeqPlus(x, 1)) = Pos(h, x) + 1
  BY <1>2, <1>3, <1>7
<1>9. \A y \in Num : (x - y) % SeqSpace = IF Pos(h, x) >= Pos(h, y) THEN Pos(h, x) - Pos(h, y)
                                                   ELSE Pos(h, x) - Pos(h, y) + SeqSpace
  BY <1>2, <1>3, <1>4
<1> QED BY <1>5, <1>6, <1>8, <1>9

LEMMA PosNat ==
    ASSUME NEW h \in Host, NEW x \in Num
    PROVE  Pos(h, x) \in Nat
BY PosFacts DEF Num

Half == SeqSpace \div 2

LEMMA HalfFacts == Half \in Nat /\ Half + Half <= SeqSpace /\ Half < SeqSpace
BY SizeFacts DEF Half

(* Of two sequence numbers that are less than half the space from the       *)
(* initial one, the later is the one further away.                          *)
LEMMA AfterFacts ==
    ASSUME NEW h \in Host, NEW x \in Num, NEW y \in Num, Pos(h, x) < Half, Pos(h, y) < Half
    PROVE  SeqIsAfter(x, y) <=> Pos(h, x) > Pos(h, y)
<1>1. (y - x) % SeqSpace = IF Pos(h, y) >= Pos(h, x) THEN Pos(h, y) - Pos(h, x)
                           ELSE Pos(h, y) - Pos(h, x) + SeqSpace
  BY PosFacts
<1>2. Pos(h, x) \in Nat /\ Pos(h, y) \in Nat /\ SeqSpace \in Nat
  BY PosFacts, SizeFacts DEF Num
<1>3. SeqIsAfter(x, y) <=> (y - x) % SeqSpace >= Half
  BY DEF SeqIsAfter, Half
<1> QED BY <1>1, <1>2, <1>3, HalfFacts

(* An acknowledgment that is neither too late nor too early.                *)
LEMMA NewAckPlace ==
    ASSUME NEW h \in Host, NEW una \in Num, NEW nxt \in Num, NEW a \in Num,
           Pos(h, una) <= Pos(h, nxt), Pos(h, nxt) < Half,
           ~SeqIsAfter(a, nxt), ~SeqIsAfter(una, a), a # una
    PROVE  Pos(h, una) < Pos(h, a) /\ Pos(h, a) <= Pos(h, nxt)
<1>1. /\ (nxt - a) % SeqSpace = IF Pos(h, nxt) >= Pos(h, a) THEN Pos(h, nxt) - Pos(h, a)
                                 ELSE Pos(h, nxt) - Pos(h, a) + SeqSpace
      /\ (a - una) % SeqSpace = IF Pos(h, a) >= Pos(h, una) THEN Pos(h, a) - Pos(h, una)
                                 ELSE Pos(h, a) - Pos(h, una) + SeqSpace
      /\ Pos(h, a) # Pos(h, una)
  BY PosFacts
<1>2. Pos(h, a) \in Nat /\ Pos(h, a) < SeqSpace /\ Pos(h, una) \in Nat /\ Pos(h, nxt) \in Nat /\ SeqSpace \in Nat
  BY PosFacts, SizeFacts DEF Num
<1>3. (nxt - a) % SeqSpace < Half /\ (a - una) % SeqSpace < Half
  <2>1. ~((nxt - a) % SeqSpace >= Half) /\ ~((a - una) % SeqSpace >= Half)
    BY DEF SeqIsAfter, Half
  <2>2. (nxt - a) % SeqSpace \in Int /\ (a - una) % SeqSpace \in Int
    BY <1>1, <1>2
  <2> QED BY <2>1, <2>2, HalfFacts
<1> QED BY <1>1, <1>2, <1>3, HalfFacts

-----------------------------------------------------------------------------
(* What is sent and not acknowledged.                                       *)

(* Queue q holds the last segments before nxt, one for each number.         *)
Ordered(h, una, nxt, q) ==
    /\ Pos(h, una) + Len(q) <= Pos(h, nxt)
    /\ \A i \in 1..Len(q) : /\ Pos(h, q[i].seq) = Pos(h, nxt) - Len(q) + i - 1
                            /\ SeqEnd(q[i]) = SeqPlus(q[i].seq, 1)

(* Its segments with data have the numbers of d from una on.                *)
Holds(h, una, q, d) ==
    \A x \in Num : (\E i \in 1..Len(q) : q[i].seq = x /\ q[i].len = 1)
                      <=> (\E j \in 1..Len(d) : d[j] = x /\ Pos(h, x) >= Pos(h, una))

(* The queue of a sender of data d, none of which is numbered nxt or later.  *)
Line(h, una, nxt, q, d) ==
    /\ Ordered(h, una, nxt, q) /\ Holds(h, una, q, d)
    /\ \A j \in 1..Len(d) : Pos(h, d[j]) < Pos(h, nxt)

(* A segment is added, with or without data.                                *)
LEMMA LineAppend ==
    ASSUME NEW h \in Host, NEW una \in Num, NEW nxt \in Num, NEW q \in Seq(Segments), NEW d \in Seq(Num),
           Line(h, una, nxt, q, d), Pos(h, nxt) + 1 < SeqSpace,
           NEW n \in Segments, n.seq = nxt, SeqEnd(n) = SeqPlus(nxt, 1),
           NEW e, e = IF n.len = 0 THEN d ELSE Append(d, nxt)
    PROVE  Line(h, una, SeqPlus(nxt, 1), Append(q, n), e)
<1>1. PICK Q, m, k, X : Q = Append(q, n) /\ m = Len(q) /\ k = Len(d) /\ X = SeqPlus(nxt, 1)
  OBVIOUS
<1>2. /\ m \in Nat /\ k \in Nat /\ Len(Q) = m + 1 /\ Q[m + 1] = n /\ \A i \in 1..m : Q[i] = q[i]
      /\ 1..(m + 1) = (1..m) \cup {m + 1} /\ m + 1 \notin 1..m
  <2>1. m \in Nat /\ k \in Nat
    BY <1>1, LenProperties
  <2>2. Len(Q) = m + 1 /\ Q[m + 1] = n /\ \A i \in 1..m : Q[i] = q[i]
    BY <1>1, <2>1, AppendProperties
  <2> QED BY <2>1, <2>2
<1>3. /\ Pos(h, X) = Pos(h, nxt) + 1 /\ Pos(h, nxt) \in Nat /\ Pos(h, una) \in Nat
  BY <1>1, PosFacts DEF Num
<1>4. Pos(h, una) <= Pos(h, nxt)
  BY <1>1, <1>2, <1>3 DEF Line, Ordered
<1>9. ASSUME NEW x \in Num PROVE Pos(h, x) \in Nat
  BY PosFacts DEF Num
<1>5. Ordered(h, una, X, Q)
  <2>1. Pos(h, una) + Len(Q) <= Pos(h, X)
    BY <1>1, <1>2, <1>3 DEF Line, Ordered
  <2>2. ASSUME NEW i \in 1..Len(Q)
        PROVE  Pos(h, Q[i].seq) = Pos(h, X) - Len(Q) + i - 1 /\ SeqEnd(Q[i]) = SeqPlus(Q[i].seq, 1)
    <3>1. CASE i \in 1..m
      <4>1. Pos(h, q[i].seq) = Pos(h, nxt) - m + i - 1 /\ SeqEnd(q[i]) = SeqPlus(q[i].seq, 1)
        BY <1>1, <3>1 DEF Line, Ordered
      <4>2. Q[i] = q[i]
        BY <1>2, <3>1
      <4>3. Pos(h, nxt) - m + i - 1 = (Pos(h, nxt) + 1) - (m + 1) + i - 1
        BY <1>2, <1>3, <3>1
      <4> QED BY <1>2, <1>3, <4>1, <4>2, <4>3
    <3>2. CASE i = m + 1
      BY <1>1, <1>2, <1>3, <3>2
    <3> QED BY <1>2, <3>1, <3>2
  <2> QED BY <2>1, <2>2 DEF Ordered
<1>6. CASE n.len = 0
  <2>1. e = d
    BY <1>6
  <2>2. Holds(h, una, Q, e)
    <3>1. \A x : (\E i \in 1..Len(Q) : Q[i].seq = x /\ Q[i].len = 1)
                   <=> (\E i \in 1..Len(q) : q[i].seq = x /\ q[i].len = 1)
      BY <1>1, <1>2, <1>6
    <3>2. Holds(h, una, q, d)
      BY DEF Line
    <3>3. ASSUME NEW x \in Num
          PROVE  (\E i \in 1..Len(Q) : Q[i].seq = x /\ Q[i].len = 1)
                   <=> (\E j \in 1..Len(d) : d[j] = x /\ Pos(h, x) >= Pos(h, una))
      BY <3>1, <3>2 DEF Holds
    <3> QED BY <2>1, <3>3 DEF Holds
  <2>3. \A j \in 1..Len(e) : Pos(h, e[j]) < Pos(h, X)
    <3>1. \A j \in 1..Len(d) : d[j] \in Num /\ Pos(h, d[j]) < Pos(h, nxt)
      BY ElementOfSeq DEF Line
    <3>2. \A j \in 1..Len(d) : Pos(h, d[j]) \in Nat
      BY <1>9, <3>1
    <3> QED BY <1>3, <2>1, <3>1, <3>2
  <2> QED BY <1>1, <1>5, <2>2, <2>3 DEF Line
<1>7. CASE n.len = 1
  <2>1. /\ e = Append(d, nxt) /\ Len(e) = k + 1 /\ e[k + 1] = nxt /\ \A j \in 1..k : e[j] = d[j]
        /\ 1..(k + 1) = (1..k) \cup {k + 1} /\ k + 1 \notin 1..k
    <3>1. e = Append(d, nxt)
      BY <1>7
    <3> QED BY <1>1, <1>2, <3>1, AppendProperties
  <2>2. Holds(h, una, Q, e)
    <3>1. \A x : (\E i \in 1..Len(Q) : Q[i].seq = x /\ Q[i].len = 1)
                   <=> x = nxt \/ (\E i \in 1..Len(q) : q[i].seq = x /\ q[i].len = 1)
      BY <1>1, <1>2, <1>7
    <3>2. \A x : (\E j \in 1..Len(e) : e[j] = x /\ Pos(h, x) >= Pos(h, una))
                   <=> x = nxt \/ (\E j \in 1..Len(d) : d[j] = x /\ Pos(h, x) >= Pos(h, una))
      BY <1>1, <1>3, <1>4, <2>1
    <3> QED BY <3>1, <3>2 DEF Line, Holds
  <2>3. \A j \in 1..Len(e) : Pos(h, e[j]) < Pos(h, X)
    <3>1. \A j \in 1..Len(d) : d[j] \in Num /\ Pos(h, d[j]) < Pos(h, nxt)
      BY ElementOfSeq DEF Line
    <3>2. \A j \in 1..Len(d) : Pos(h, d[j]) \in Nat
      BY <1>9, <3>1
    <3> QED BY <1>1, <1>3, <2>1, <3>1, <3>2
  <2> QED BY <1>1, <1>5, <2>2, <2>3 DEF Line
<1>8. n.len \in {0, 1}
  BY DEF Segments
<1> QED BY <1>6, <1>7, <1>8

(* Segment a of the line acknowledges what is before it: B are the others.  *)
AckIn(h, una, nxt, q, d, a, B) ==
    /\ una \in Num /\ nxt \in Num /\ q \in Seq(Segments) /\ d \in Seq(Num)
    /\ Line(h, una, nxt, q, d) /\ (q = <<>> => una = nxt) /\ Pos(h, nxt) < Half
    /\ a \in Num /\ Pos(h, una) < Pos(h, a) /\ Pos(h, a) <= Pos(h, nxt)
    /\ B \in SUBSET (1..Len(q)) /\ \A j \in 1..Len(q) : j \in B <=> SeqIsAfter(SeqEnd(q[j]), a)

Left(q, B) == SubSeq(q, FirstPlace(q, B), Len(q))

(* The acknowledged segments are the first ones.                            *)
LEMMA LineAcked ==
    ASSUME NEW h \in Host, NEW una, NEW nxt, NEW q, NEW d, NEW a, NEW B, AckIn(h, una, nxt, q, d, a, B),
           NEW Q, Q = Left(q, B)
    PROVE  Line(h, a, nxt, Q, d) /\ (Q = <<>> => a = nxt)
<1>a. /\ una \in Num /\ nxt \in Num /\ q \in Seq(Segments) /\ d \in Seq(Num)
      /\ Line(h, una, nxt, q, d) /\ (q = <<>> => una = nxt) /\ Pos(h, nxt) < Half
      /\ a \in Num /\ Pos(h, una) < Pos(h, a) /\ Pos(h, a) <= Pos(h, nxt)
      /\ B \in SUBSET (1..Len(q)) /\ \A j \in 1..Len(q) : j \in B <=> SeqIsAfter(SeqEnd(q[j]), a)
  BY DEF AckIn
<1>0. PICK i : i = FirstPlace(q, B) /\ Q = SubSeq(q, i, Len(q))
  BY DEF Left
<1>1. PICK m, U, N, A : m = Len(q) /\ U = Pos(h, una) /\ N = Pos(h, nxt) /\ A = Pos(h, a)
  OBVIOUS
<1>2. /\ m \in Nat /\ U \in Nat /\ N \in Nat /\ A \in Nat /\ U < A /\ A <= N /\ N < Half /\ U + m <= N
      /\ SeqSpace \in Nat /\ Half \in Nat /\ Half < SeqSpace
  BY <1>a, <1>1, PosNat, LenProperties, HalfFacts, SizeFacts DEF Line, Ordered
<1>3. \A x \in Num : Pos(h, x) \in Nat
  BY PosNat
<1>4. ASSUME NEW j \in 1..m
      PROVE  /\ q[j] \in Segments /\ q[j].seq \in Num /\ q[j].len \in {0, 1}
             /\ Pos(h, q[j].seq) = N - m + j - 1 /\ SeqEnd(q[j]) \in Num /\ Pos(h, SeqEnd(q[j])) = N - m + j
  <2>1. q[j] \in Segments
    BY <1>a, <1>1, ElementOfSeq
  <2>2. q[j].seq \in Num /\ q[j].len \in {0, 1}
    BY <2>1 DEF Segments, Num
  <2>3. Pos(h, q[j].seq) = N - m + j - 1 /\ SeqEnd(q[j]) = SeqPlus(q[j].seq, 1)
    BY <1>a, <1>1 DEF Line, Ordered
  <2>4. SeqPlus(q[j].seq, 1) \in Num
    BY <2>2, NumFacts
  <2>5. Pos(h, q[j].seq) + 1 < SeqSpace
    BY <1>2, <2>3
  <2>6. Pos(h, SeqPlus(q[j].seq, 1)) = Pos(h, q[j].seq) + 1
    BY <2>2, <2>5, PosFacts
  <2> QED BY <1>2, <2>1, <2>2, <2>3, <2>4, <2>6
<1>6. DOMAIN q = 1..m
  BY <1>a, <1>1, LenProperties
<1>7. ASSUME NEW j \in 1..m
      PROVE  j \in B <=> N - m + j > A
  <2>1. Pos(h, SeqEnd(q[j])) < Half /\ Pos(h, a) < Half /\ SeqEnd(q[j]) \in Num
    BY <1>1, <1>2, <1>4
  <2>2. SeqIsAfter(SeqEnd(q[j]), a) <=> Pos(h, SeqEnd(q[j])) > Pos(h, a)
    BY <1>a, <2>1, AfterFacts
  <2> QED BY <1>a, <1>1, <1>4, <1>6, <2>2
<1>8. i \in B \cup {m + 1} /\ i \in 1..(m + 1) /\ \A j \in B : i <= j
  <2>1. B \in SUBSET (1..Len(q)) /\ i = FirstPlace(q, B)
    BY <1>a, <1>0, <1>1, <1>6
  <2>2. i \in B \cup {Len(q) + 1} /\ i \in 1..(Len(q) + 1) /\ \A j \in B : i <= j
    <3>1. /\ FirstPlace(q, B) \in B \cup {Len(q) + 1} /\ FirstPlace(q, B) \in 1..(Len(q) + 1)
          /\ \A j \in B : FirstPlace(q, B) <= j
      BY <1>a, <2>1, FirstPlaceFacts
    <3> QED BY <2>1, <3>1
  <2> QED BY <1>1, <2>2
<1>9. \A j \in 1..m : N - m + j > A <=> j >= i
  BY <1>2, <1>7, <1>8
<1>10. /\ Q \in Seq(Segments) /\ Len(Q) = m - i + 1
       /\ \A j \in 1..(m - i + 1) : Q[j] = q[i + j - 1]
  <2>1. Len(q) \in 0..Len(q) /\ i \in 1..(Len(q) + 1)
    BY <1>1, <1>2, <1>8
  <2>2. /\ Q \in Seq(Segments) /\ Len(Q) = (IF i <= Len(q) THEN Len(q) - i + 1 ELSE 0)
        /\ \A j \in 1..(Len(q) - i + 1) : Q[j] = q[i + j - 1]
    <3>1. PICK T : T = Segments
      OBVIOUS
    <3>2. q \in Seq(T)
      BY <1>a, <3>1
    <3>3. /\ SubSeq(q, i, Len(q)) \in Seq(T)
          /\ Len(SubSeq(q, i, Len(q))) = (IF i <= Len(q) THEN Len(q) - i + 1 ELSE 0)
          /\ \A j \in 1..(Len(q) - i + 1) : SubSeq(q, i, Len(q))[j] = q[i + j - 1]
      BY <2>1, <3>2, SubSeqFacts
    <3> QED BY <1>0, <3>1, <3>3
  <2>3. Len(Q) = (IF i <= m THEN m - i + 1 ELSE 0)
    BY <1>1, <2>2
  <2>4. Len(Q) = m - i + 1
    <3>1. m \in Nat /\ i \in Int /\ i <= m + 1
      BY <1>2, <1>8
    <3> QED BY <2>3, <3>1
  <2> QED BY <1>1, <2>2, <2>4
<1>11. Ordered(h, a, nxt, Q)
  <2>1. A + Len(Q) <= N
    <3>1. CASE i = m + 1
      BY <1>2, <1>10, <3>1
    <3>2. CASE i \in 1..m
      <4>1. N - m + i > A
        <5>1. i >= i
          BY <3>2
        <5> QED BY <1>9, <3>2, <5>1
      <4>2. Len(Q) = m - i + 1
        BY <1>10
      <4> QED BY <1>2, <3>2, <4>1, <4>2
    <3>3. i = m + 1 \/ i \in 1..m
      BY <1>2, <1>8
    <3> QED BY <3>1, <3>2, <3>3
  <2>2. ASSUME NEW j \in 1..Len(Q)
        PROVE  Pos(h, Q[j].seq) = N - Len(Q) + j - 1 /\ SeqEnd(Q[j]) = SeqPlus(Q[j].seq, 1)
    <3>1. i + j - 1 \in 1..m /\ Q[j] = q[i + j - 1]
      BY <1>2, <1>8, <1>10
    <3>2. Pos(h, Q[j].seq) = N - m + (i + j - 1) - 1 /\ SeqEnd(Q[j]) = SeqPlus(Q[j].seq, 1)
      BY <1>a, <1>1, <1>4, <3>1 DEF Line, Ordered
    <3>3. N - m + (i + j - 1) - 1 = N - (m - i + 1) + j - 1
      BY <1>2, <1>8, <1>10
    <3> QED BY <1>10, <3>2, <3>3
  <2> QED BY <1>1, <2>1, <2>2 DEF Ordered
<1>12. Holds(h, a, Q, d)
  <2>1. ASSUME NEW x \in Num
        PROVE  (\E j \in 1..Len(Q) : Q[j].seq = x /\ Q[j].len = 1)
                 <=> Pos(h, x) >= A /\ (\E j \in 1..m : q[j].seq = x /\ q[j].len = 1)
    <3>1. ASSUME NEW j \in 1..Len(Q), Q[j].seq = x, Q[j].len = 1
          PROVE  Pos(h, x) >= A /\ (\E k \in 1..m : q[k].seq = x /\ q[k].len = 1)
      <4>1. i + j - 1 \in 1..m /\ i + j - 1 >= i /\ Q[j] = q[i + j - 1]
        BY <1>2, <1>8, <1>10
      <4>2. N - m + (i + j - 1) > A /\ Pos(h, x) = N - m + (i + j - 1) - 1
        BY <1>4, <1>9, <3>1, <4>1
      <4>3. Pos(h, x) >= A
        BY <1>2, <1>3, <4>1, <4>2
      <4> QED BY <3>1, <4>1, <4>3
    <3>2. ASSUME Pos(h, x) >= A, NEW k \in 1..m, q[k].seq = x, q[k].len = 1
          PROVE  \E j \in 1..Len(Q) : Q[j].seq = x /\ Q[j].len = 1
      <4>1. Pos(h, x) = N - m + k - 1
        BY <1>4, <3>2
      <4>2. k >= i
        BY <1>2, <1>9, <3>2, <4>1
      <4>3. k - i + 1 \in 1..(m - i + 1) /\ i + (k - i + 1) - 1 = k
        BY <1>2, <1>8, <4>2
      <4>4. Q[k - i + 1] = q[k]
        BY <1>10, <4>3
      <4> QED BY <1>10, <3>2, <4>3, <4>4
    <3> QED BY <3>1, <3>2
  <2>2. ASSUME NEW x \in Num
        PROVE  (\E j \in 1..m : q[j].seq = x /\ q[j].len = 1)
                 <=> (\E j \in 1..Len(d) : d[j] = x /\ Pos(h, x) >= U)
    BY <1>a, <1>1 DEF Line, Holds
  <2>3. \A x \in Num : Pos(h, x) >= A => Pos(h, x) >= U
    BY <1>2, <1>3
  <2>4. ASSUME NEW x \in Num
        PROVE  (\E j \in 1..Len(Q) : Q[j].seq = x /\ Q[j].len = 1)
                 <=> (\E j \in 1..Len(d) : d[j] = x /\ Pos(h, x) >= A)
    BY <2>1, <2>2, <2>3
  <2> QED BY <1>1, <2>4 DEF Holds
<1>13. Q = <<>> => a = nxt
  <2>1. SUFFICES ASSUME Q = <<>> PROVE a = nxt
    OBVIOUS
  <2>2. i = m + 1
    <3>1. Len(Q) = 0
      BY <2>1, EmptySeq
    <3>2. 0 = m - i + 1
      BY <1>10, <3>1
    <3> QED BY <1>2, <1>8, <3>2
  <2>3. m # 0
    <3>1. m = 0 => q = <<>>
      BY <1>a, <1>1, EmptySeq
    <3> QED BY <1>a, <1>1, <1>2, <3>1
  <2>4. m \in 1..m /\ ~(m >= i)
    BY <1>2, <2>2, <2>3
  <2>5. N <= A
    BY <1>2, <1>9, <2>4
  <2> QED BY <1>a, <1>1, <1>2, <2>5, PosFacts
<1>14. \A j \in 1..Len(d) : Pos(h, d[j]) < Pos(h, nxt)
  BY <1>a DEF Line
<1> QED BY <1>11, <1>12, <1>13, <1>14 DEF Line

-----------------------------------------------------------------------------
(* The sending side of a socket whose application has sent data d.          *)

Open == {"LISTEN", "SYN_SENT", "SYN_RECEIVED"}

Live == Open \cup Synchronized

(* How many numbers have been used: for SYN, data and FIN, of which the     *)
(* change from SYN_RECEIVED to CLOSE_WAIT sends one more.                   *)
Limit(state, k) ==
    Syns + (IF state \in Open THEN 0 ELSE IF state = "ESTABLISHED" THEN k
            ELSE IF state = "LAST_ACK" THEN k + 2 ELSE k + 1)

(* In a connection the queue has what is not acknowledged, and the timer    *)
(* runs while there is something in it.                                     *)
Tx(h, s, d) ==
    s.state \in Live =>
        /\ Line(h, s.tx_una, s.tx_nxt, s.tx_nbq, d)
        /\ Pos(h, s.tx_nxt) <= Limit(s.state, Len(d))
        /\ s.tx_nbq # <<>> => s.retran
        /\ s.state # "LISTEN" /\ s.tx_nbq = <<>> => s.tx_una = s.tx_nxt
        /\ s.state \in Open => d = <<>>

(* The FIN these states wait for the acknowledgment of.                     *)
Unfinished(s) == s.state \in {"FIN_WAIT_1", "CLOSING", "LAST_ACK"} => s.tx_una # s.tx_nxt

(* What an application may have sent.                                       *)
DataOf(h) == {d \in Seq(Num) : Len(d) <= Data[h]}

LEMMA LimitFacts ==
    ASSUME NEW h \in Host, NEW d \in DataOf(h), NEW state
    PROVE  /\ Len(d) \in Nat /\ Syns \in Nat /\ Syns > 0
           /\ Limit(state, Len(d)) \in Nat /\ Limit(state, Len(d)) < Half
<1>1. /\ Syns \in Nat /\ Syns > 0 /\ Data[h] \in Nat /\ Data[h] + Syns + 2 < Half
      /\ Len(d) \in Nat /\ Len(d) <= Data[h] /\ Half \in Nat
  BY SeqAssumption, HalfFacts, LenProperties DEF Half, DataOf
<1> QED BY <1>1 DEF Limit

LEMMA TxSame ==
    ASSUME NEW h, NEW s, NEW d, NEW t, Tx(h, s, d), t.state = s.state, SameTx(t, s)
    PROVE  Tx(h, t, d)
BY DEF Tx, SameTx

(* The state changes, and nothing is sent.                                  *)
LEMMA TxMoved ==
    ASSUME NEW h, NEW s, NEW d, NEW t, Tx(h, s, d), SameTx(t, s), s.state \in Live \ {"LISTEN"},
           Limit(s.state, Len(d)) <= Limit(t.state, Len(d)), t.state \in Open => s.state \in Open,
           h \in Host, s \in Sock(h), d \in DataOf(h)
    PROVE  Tx(h, t, d)
<1>1. Pos(h, s.tx_nxt) \in Nat
  BY PosFacts DEF Sock, Num
<1>2. Limit(s.state, Len(d)) \in Nat /\ Limit(t.state, Len(d)) \in Nat
  BY LimitFacts
<1> QED BY <1>1, <1>2 DEF Tx, SameTx

(* SYN or FIN is sent.                                                      *)
LEMMA TxQueued ==
    ASSUME NEW h \in Host, NEW s \in Sock(h), NEW d \in DataOf(h), NEW t, Queued(h, t, s),
           Line(h, s.tx_una, s.tx_nxt, s.tx_nbq, d), s.tx_nbq # <<>> => s.retran,
           Pos(h, s.tx_nxt) + 1 <= Limit(t.state, Len(d)), t.state \in Open => d = <<>>
    PROVE  Tx(h, t, d) /\ t.tx_una # t.tx_nxt
<1>1. /\ Pos(h, s.tx_nxt) \in Nat /\ Pos(h, s.tx_una) \in Nat
      /\ s.tx_una \in Num /\ s.tx_nxt \in Num /\ d \in Seq(Num)
      /\ s.tx_nbq \in Seq(SegOf(h)) /\ s.tx_nbq \in Seq(Segments)
  <2>1. s.tx_una \in Num /\ s.tx_nxt \in Num /\ d \in Seq(Num) /\ s.tx_nbq \in Seq(SegOf(h))
    BY DEF Sock, DataOf
  <2>2. SegOf(h) \subseteq Segments
    BY DEF SegOf
  <2>3. s.tx_nbq \in Seq(Segments)
    BY <2>1, <2>2, SeqMonotonic
  <2> QED BY <2>1, <2>3, PosNat
<1>2. Pos(h, s.tx_nxt) + 1 < SeqSpace
  <2>1. Limit(t.state, Len(d)) \in Nat /\ Limit(t.state, Len(d)) < Half
    BY LimitFacts
  <2> QED BY <1>1, <2>1, HalfFacts, SizeFacts
<1>3. PICK n \in SegOf(h) : /\ n.seq = s.tx_nxt /\ n.len = 0 /\ SeqEnd(n) = SeqPlus(s.tx_nxt, 1)
                           /\ t.tx_nbq = Append(s.tx_nbq, n)
  BY DEF Queued
<1>4. Line(h, s.tx_una, SeqPlus(s.tx_nxt, 1), Append(s.tx_nbq, n), d)
  <2>1. n \in Segments
    BY DEF SegOf
  <2> QED BY <1>1, <1>2, <1>3, <2>1, LineAppend
<1>5. Pos(h, SeqPlus(s.tx_nxt, 1)) = Pos(h, s.tx_nxt) + 1
  BY <1>1, <1>2, PosFacts
<1>6. t.tx_una # t.tx_nxt
  <2>1. Pos(h, s.tx_una) <= Pos(h, s.tx_nxt)
    BY <1>1, LenProperties DEF Line, Ordered
  <2>2. Pos(h, s.tx_una) # Pos(h, SeqPlus(s.tx_nxt, 1))
    BY <1>1, <1>5, <2>1
  <2> QED BY <2>2 DEF Queued
<1>7. t.tx_nbq # <<>>
  BY <1>1, <1>3, AppendProperties
<1>8. t.retran
  BY DEF Queued
<1>9. t.tx_una = s.tx_una /\ t.tx_nxt = SeqPlus(s.tx_nxt, 1)
  BY DEF Queued
<1> QED BY <1>3, <1>4, <1>5, <1>6, <1>7, <1>8, <1>9 DEF Tx

LEMMA TxAck ==
    ASSUME NEW h \in Host, NEW s \in Sock(h), Counted(s), NEW d \in DataOf(h), Tx(h, s, d),
           s.state \in Live \ {"LISTEN"}, NEW n \in Segments, NEW up \in BOOLEAN,
           NEW t, t = NutTcpProcessAck(s, n, up)
    PROVE  Dead(h, t) \/ (AckStep(h, t, s) /\ Tx(h, t, d))
<1>1. CASE t = s
  BY <1>1 DEF AckStep, SameRx, SameWait
<1>2. CASE t = [s EXCEPT !.tx_flags = @ \cup {"ACK", "FORCE"}]
  <2>1. Dead(h, t) \/ AckStep(h, t, s)
    BY ProcessAckStep
  <2>2. t.state = s.state /\ SameTx(t, s)
    BY <1>2 DEF Sock, SameTx
  <2> QED BY <2>1, <2>2, TxSame
<1>3. CASE t = DuplicateAck(WindowUpdate(s, n), n, up)
  <2>1. Dead(h, t) \/ AckRepeated(h, t, s)
    BY <1>3, DuplicateStep
  <2> QED BY <2>1 DEF AckRepeated, AckStep, Tx
<1>4. CASE /\ ~SeqIsAfter(n.ack, s.tx_nxt) /\ n.ack # s.tx_una /\ ~SeqIsAfter(s.tx_una, n.ack)
           /\ t = NewAck(s, n)
  <2>1. PICK i \in 1..(Len(s.tx_nbq) + 1) :
               /\ i = FirstPlace(s.tx_nbq, {j \in DOMAIN s.tx_nbq : SeqIsAfter(SeqEnd(s.tx_nbq[j]), n.ack)})
               /\ AckStep(h, t, s) /\ t.tx_una = n.ack
               /\ t.tx_nbq = SubSeq(s.tx_nbq, i, Len(s.tx_nbq)) /\ t.retran = (t.tx_nbq # <<>>)
    BY <1>4, NewAckStep, ZenonT(60)
  <2>2. /\ s.tx_una \in Num /\ s.tx_nxt \in Num /\ d \in Seq(Num) /\ n.ack \in Num
        /\ s.tx_nbq \in Seq(Segments)
    <3>1. s.tx_una \in Num /\ s.tx_nxt \in Num /\ d \in Seq(Num) /\ s.tx_nbq \in Seq(SegOf(h))
      BY DEF Sock, DataOf
    <3>2. SegOf(h) \subseteq Segments /\ n.ack \in Num
      BY DEF SegOf, Segments, Num
    <3> QED BY <3>1, <3>2, SeqMonotonic
  <2>3. Line(h, s.tx_una, s.tx_nxt, s.tx_nbq, d) /\ (s.tx_nbq = <<>> => s.tx_una = s.tx_nxt)
    BY DEF Tx
  <2>4. Pos(h, s.tx_nxt) < Half /\ Pos(h, s.tx_una) <= Pos(h, s.tx_nxt)
    <3>1. Pos(h, s.tx_nxt) \in Nat /\ Pos(h, s.tx_una) \in Nat /\ Len(s.tx_nbq) \in Nat
      BY <2>2, PosNat, LenProperties
    <3>2. Limit(s.state, Len(d)) \in Nat /\ Limit(s.state, Len(d)) < Half
      BY LimitFacts
    <3>3. Pos(h, s.tx_nxt) <= Limit(s.state, Len(d))
      BY DEF Tx
    <3> QED BY <2>3, <3>1, <3>2, <3>3, HalfFacts DEF Line, Ordered
  <2>5. Pos(h, s.tx_una) < Pos(h, n.ack) /\ Pos(h, n.ack) <= Pos(h, s.tx_nxt)
    BY <1>4, <2>2, <2>4, NewAckPlace
  <2>6. Line(h, n.ack, s.tx_nxt, t.tx_nbq, d) /\ (t.tx_nbq = <<>> => n.ack = s.tx_nxt)
    <3>1. PICK q, Q, B : /\ q = s.tx_nbq /\ Q = t.tx_nbq
                         /\ B = {j \in DOMAIN q : SeqIsAfter(SeqEnd(q[j]), n.ack)}
      OBVIOUS
    <3>2. PICK una, nxt, a : una = s.tx_una /\ nxt = s.tx_nxt /\ a = n.ack
      OBVIOUS
    <3>3. AckIn(h, una, nxt, q, d, a, B) /\ Q = Left(q, B)
      <4>1. DOMAIN q = 1..Len(q)
        BY <2>2, <3>1, LenProperties
      <4>2. B \in SUBSET (1..Len(q)) /\ (\A j \in 1..Len(q) : j \in B <=> SeqIsAfter(SeqEnd(q[j]), a))
        BY <3>1, <3>2, <4>1
      <4>3. Q = SubSeq(q, FirstPlace(q, B), Len(q))
        BY <2>1, <3>1
      <4> QED BY <2>2, <2>3, <2>4, <2>5, <3>1, <3>2, <4>2, <4>3 DEF AckIn, Left
    <3>4. Line(h, a, nxt, Q, d) /\ (Q = <<>> => a = nxt)
      BY <3>3, LineAcked
    <3> QED BY <3>1, <3>2, <3>4
  <2>7. Tx(h, t, d)
    BY <2>1, <2>6 DEF AckStep, Tx
  <2> QED BY <2>1, <2>7
<1> QED BY <1>1, <1>2, <1>3, <1>4 DEF NutTcpProcessAck

(* A change of state by its row in the table.                               *)
LEMMA MoveStep ==
    ASSUME NEW h \in Host, NEW s \in Sock(h), Counted(s), NEW x \in States(h), NEW F,
           <<s.state, x, F>> \in Changes, NEW t, t = NutTcpStateChange(s, x)
    PROVE  /\ t \in Sock(h) /\ Counted(t) /\ t.state = x /\ SameRx(t, s)
           /\ t.wait = IF x = "CLOSE_WAIT" /\ s.wait \in {"rx_tq", "pc_tq", "ac_tq"} THEN "none" ELSE s.wait
           /\ IF F \cap {"SYN", "FIN"} = {} THEN SameTx(t, s) ELSE Queued(h, t, s)
<1>1. PICK c \in Changes : c = <<s.state, x, F>>
  OBVIOUS
<1>2. c[1] = s.state /\ c[2] = x /\ c[3] = F
  BY <1>1
<1> QED BY <1>2, ChangeStep

DeadStates == {"NONE", "CLOSED", "TIME_WAIT"}

(* The only changes from a state without a connection open one.             *)
LEMMA DeadRefused ==
    ASSUME NEW s, s.state \in DeadStates, NEW x, x \notin {"LISTEN", "SYN_SENT"}
    PROVE  NutTcpStateChange(s, x) = s
<1>1. \A c \in Changes : c[1] \in DeadStates => c[2] \in {"LISTEN", "SYN_SENT"}
  BY DEF Changes, DeadStates
<1> QED BY <1>1, ChangeRefused

-----------------------------------------------------------------------------
(* Sockets between the steps.                                               *)

(* Nobody sleeps for what has already happened.                             *)
Told(s) ==
    /\ s.wait = "rx_tq" => s.state = "ESTABLISHED" /\ s.rx_cnt = 0
    /\ s.wait = "tx_tq" => s.state = "ESTABLISHED" /\ ~HasRoom(s)
    /\ s.wait = "ac_tq" => s.state \in {"SYN_SENT", "SYN_RECEIVED"}
    /\ s.wait = "pc_tq" => s.state \in {"LISTEN", "SYN_RECEIVED"}

(* The socket of host h, whose application has sent data d.                 *)
Good(h, s, d) ==
    /\ s \in Sock(h) /\ Counted(s) /\ Tx(h, s, d)
    /\ Unfinished(s) /\ Told(s)

(* What a step of the state machine makes of it: it may wake the sleeper.   *)
Handled(h, t, s, d) == Good(h, t, d) /\ t.wait \in {s.wait, "none"}

LEMMA DeadHandled ==
    ASSUME NEW h, NEW s, NEW d, NEW t, Dead(h, t)
    PROVE  Handled(h, t, s, d)
BY DEF Dead, Handled, Good, Tx, Live, Open, Synchronized, Unfinished, Told

LEMMA DeadRx ==
    ASSUME NEW h, NEW s, NEW t, Dead(h, s), RxStep(h, t, s)
    PROVE  Dead(h, t)
BY DEF Dead, RxStep, SameWait

LEMMA DeadPost ==
    ASSUME NEW h \in Host, NEW s, Dead(h, s), NEW q \in Queues, NEW t, t = Post(s, q) \/ t = Broadcast(s, q)
    PROVE  Dead(h, t)
<1>1. s \in Sock(h) /\ Counted(s) /\ s.wait = "none" /\ s.state \in {"NONE", "CLOSED", "TIME_WAIT"}
  BY DEF Dead
<1>2. q # "none"
  BY DEF Queues
<1>3. t \in Sock(h) /\ Counted(t) /\ t.state = s.state /\ t.wait = IF s.wait = q THEN "none" ELSE s.wait
  BY <1>1, PostStep, BroadcastStep
<1> QED BY <1>1, <1>3 DEF Dead

(* A step that leaves the sending side alone, and the count that a reader   *)
(* sleeps for.                                                              *)
LEMMA PlainHandled ==
    ASSUME NEW h, NEW s, NEW d, Good(h, s, d), NEW t, RxStep(h, t, s), s.wait = "rx_tq" => t.rx_cnt = s.rx_cnt
    PROVE  Handled(h, t, s, d)
<1>1. t \in Sock(h) /\ Counted(t) /\ t.state = s.state /\ SameTx(t, s) /\ t.wait = s.wait
  BY DEF RxStep, SameWait
<1>2. Tx(h, t, d)
  BY <1>1, TxSame DEF Good
<1>3. Unfinished(t)
  BY <1>1 DEF Good, Unfinished, SameTx
<1>4. Told(t)
  BY <1>1 DEF Good, Told, SameTx, HasRoom, Unacked
<1> QED BY <1>1, <1>2, <1>3, <1>4 DEF Handled, Good

LEMMA RejectHandled ==
    ASSUME NEW h \in Host, NEW s, NEW d, Good(h, s, d), NEW n \in Segments
    PROVE  Handled(h, Reject(s, n), s, d)
<1>1. s \in Sock(h) /\ Counted(s)
  BY DEF Good
<1>2. RxStep(h, Reject(s, n), s) /\ SameRx(Reject(s, n), s)
  BY <1>1, RejectStep
<1> QED BY <1>2, PlainHandled DEF SameRx

LEMMA SameHandled ==
    ASSUME NEW h, NEW s, NEW d, Good(h, s, d)
    PROVE  Handled(h, s, s, d)
BY DEF Handled

(* Who sleeps where.                                                        *)
LEMMA SleeperFacts ==
    ASSUME NEW h \in Host, NEW s, NEW d, Good(h, s, d)
    PROVE  /\ s.state \notin Open \cup {"ESTABLISHED"} => s.wait = "none"
           /\ s.state = "ESTABLISHED" => s.wait \in {"none", "rx_tq", "tx_tq"}
           /\ s.state \in {"LISTEN", "SYN_RECEIVED"} => h = Server /\ s.wait \in {"none", "pc_tq"}
           /\ s.state = "SYN_SENT" => h = Client /\ s.wait \in {"none", "ac_tq"}
<1>1. s.wait \in Sleeps(h) \cup {"none"} /\ s.state \in States(h) /\ Told(s)
  BY DEF Good, Sock
<1>2. s.state \in {"LISTEN", "SYN_RECEIVED"} => h = Server
  BY <1>1 DEF States, Synchronized, Host
<1>3. s.state = "SYN_SENT" => h = Client
  BY <1>1 DEF States, Synchronized, Host
<1>4. h = Server => s.wait # "ac_tq"
  BY <1>1, HostAssumption DEF Sleeps
<1>5. h = Client => s.wait # "pc_tq"
  BY <1>1, HostAssumption DEF Sleeps
<1>6. s.wait \in {"none", "rx_tq", "tx_tq", "ac_tq", "pc_tq"}
  BY <1>1 DEF Sleeps
<1> QED BY <1>1, <1>2, <1>3, <1>4, <1>5, <1>6 DEF Told, Open

-----------------------------------------------------------------------------
(* A segment arrives before the connection is established.                  *)

LEMMA SynStep ==
    ASSUME NEW h \in Host, NEW s \in Sock(h), Counted(s), NEW n \in Segments, NEW t, t = NutTcpProcessSyn(s, n)
    PROVE  /\ t \in Sock(h) /\ Counted(t) /\ t.state = s.state /\ t.wait = s.wait
           /\ t.tx_una = s.tx_una /\ t.tx_nxt = s.tx_nxt /\ t.tx_nbq = s.tx_nbq /\ t.retran = s.retran
<1>1. PICK Q, R, W : Q = n.seq /\ R = SeqPlus(n.seq, 1) /\ W = n.win
  OBVIOUS
<1>2. Q \in Num /\ R \in Num /\ W \in 0..WinSize
  <2>1. n.seq \in Num /\ n.win \in 0..WinSize
    BY DEF Segments, Num
  <2> QED BY <1>1, <2>1, NumFacts
<1>3. t = [s EXCEPT !.rx_isn = Q, !.tx_wl1 = Q, !.rx_nxt = R, !.tx_win = W]
  BY <1>1 DEF NutTcpProcessSyn
<1>4. t \in Sock(h)
  BY <1>2, <1>3, ZenonT(60) DEF Sock
<1>5. /\ t.state = s.state /\ t.wait = s.wait
      /\ t.tx_una = s.tx_una /\ t.tx_nxt = s.tx_nxt /\ t.tx_nbq = s.tx_nbq /\ t.retran = s.retran
      /\ t.rx_buf = s.rx_buf /\ t.rx_cnt = s.rx_cnt /\ t.rx_nbq = s.rx_nbq /\ t.adv = s.adv
  BY <1>3 DEF Sock
<1> QED BY <1>4, <1>5 DEF Counted

LEMMA ListenHandled ==
    ASSUME NEW h \in Host, NEW s, NEW d \in DataOf(h), Good(h, s, d), s.state = "LISTEN",
           Pos(h, s.tx_nxt) < Syns, NEW n \in Segments, NEW t, t = NutTcpStateListen(s, n)
    PROVE  Handled(h, t, s, d)
<1>1. CASE t = Reject(s, n)
  BY <1>1, RejectHandled
<1>2. CASE t = NutTcpStateChange(NutTcpProcessSyn(s, n), "SYN_RECEIVED")
  <2>1. PICK u : u = NutTcpProcessSyn(s, n)
    OBVIOUS
  <2>2. s \in Sock(h) /\ Counted(s) /\ Tx(h, s, d)
    BY DEF Good
  <2>3. /\ u \in Sock(h) /\ Counted(u) /\ u.state = s.state /\ u.wait = s.wait
        /\ u.tx_una = s.tx_una /\ u.tx_nxt = s.tx_nxt /\ u.tx_nbq = s.tx_nbq /\ u.retran = s.retran
    BY <2>1, <2>2, SynStep
  <2>4. h = Server /\ s.wait \in {"none", "pc_tq"}
    BY SleeperFacts
  <2>5. "SYN_RECEIVED" \in States(h) /\ <<u.state, "SYN_RECEIVED", {"SYN", "ACK"}>> \in Changes
    BY <2>3, <2>4, HostAssumption DEF States, Changes
  <2>6. /\ t \in Sock(h) /\ Counted(t) /\ t.state = "SYN_RECEIVED" /\ t.wait = u.wait /\ Queued(h, t, u)
    BY <1>2, <2>1, <2>3, <2>5, MoveStep
  <2>7. Line(h, u.tx_una, u.tx_nxt, u.tx_nbq, d) /\ (u.tx_nbq # <<>> => u.retran) /\ d = <<>>
    BY <2>2, <2>3 DEF Tx, Live, Open
  <2>8. Pos(h, u.tx_nxt) + 1 <= Limit(t.state, Len(d))
    <3>1. Pos(h, s.tx_nxt) \in Nat /\ Syns \in Nat
      BY <2>2, PosNat, LimitFacts DEF Sock
    <3> QED BY <2>3, <2>6, <3>1 DEF Limit, Open
  <2>9. Tx(h, t, d)
    BY <2>3, <2>6, <2>7, <2>8, TxQueued
  <2> QED BY <2>3, <2>4, <2>6, <2>9 DEF Handled, Good, Unfinished, Told
<1> QED BY <1>1, <1>2 DEF NutTcpStateListen

LEMMA SynSentHandled ==
    ASSUME NEW h \in Host, NEW s, NEW d \in DataOf(h), Good(h, s, d), s.state = "SYN_SENT",
           NEW n \in SegOf(Peer(h)), NEW up \in BOOLEAN, NEW t, t = NutTcpStateSynSent(s, n, Isn[h], up)
    PROVE  Handled(h, t, s, d)
<1>1. /\ s \in Sock(h) /\ Counted(s) /\ Tx(h, s, d) /\ n \in Segments
      /\ h = Client /\ s.wait \in {"none", "ac_tq"}
  BY SleeperFacts DEF Good, SegOf
<1>2. "SYN" \in n.flags => "ACK" \in n.flags
  BY <1>1, HostAssumption DEF SegOf, Peer
<1>3. CASE t = Reject(s, n)
  BY <1>1, <1>3, RejectHandled
<1>4. CASE t = NutTcpAbortSocket(s)
  BY <1>1, <1>4, AbortDead, DeadHandled
<1>5. CASE t = s
  BY <1>5, SameHandled
<1>6. CASE t = Post(NutTcpStateChange(NutTcpProcessAck(NutTcpProcessSyn(s, n), n, up), "ESTABLISHED"), "ac_tq")
  <2>1. PICK u : u = NutTcpProcessSyn(s, n)
    OBVIOUS
  <2>2. /\ u \in Sock(h) /\ Counted(u) /\ u.state = s.state /\ u.wait = s.wait
        /\ u.tx_una = s.tx_una /\ u.tx_nxt = s.tx_nxt /\ u.tx_nbq = s.tx_nbq /\ u.retran = s.retran
    BY <1>1, <2>1, SynStep
  <2>3. Tx(h, u, d)
    BY <1>1, <2>2 DEF Tx
  <2>4. PICK v : v = NutTcpProcessAck(u, n, up)
    OBVIOUS
  <2>5. Dead(h, v) \/ (AckStep(h, v, u) /\ Tx(h, v, d))
    BY <1>1, <2>2, <2>3, <2>4, TxAck DEF Live, Open
  <2>6. PICK w : w = NutTcpStateChange(v, "ESTABLISHED")
    OBVIOUS
  <2>7. t = Post(w, "ac_tq")
    BY <1>6, <2>1, <2>4, <2>6
  <2>8. CASE Dead(h, v)
    <3>1. w = v
      BY <2>6, <2>8, DeadRefused DEF Dead, DeadStates
    <3>2. Dead(h, t)
      BY <2>7, <2>8, <3>1, DeadPost DEF Queues
    <3> QED BY <3>2, DeadHandled
  <2>9. CASE AckStep(h, v, u) /\ Tx(h, v, d)
    <3>1. v \in Sock(h) /\ Counted(v) /\ v.state = "SYN_SENT" /\ v.wait = s.wait
      BY <2>2, <2>9 DEF AckStep, SameWait
    <3>2. "ESTABLISHED" \in States(h) /\ <<v.state, "ESTABLISHED", {"ACK", "FORCE"}>> \in Changes
      BY <3>1 DEF States, Synchronized, Changes
    <3>3. w \in Sock(h) /\ Counted(w) /\ w.state = "ESTABLISHED" /\ SameTx(w, v) /\ w.wait = v.wait
      BY <2>6, <3>1, <3>2, MoveStep
    <3>4. Tx(h, w, d)
      <4>1. Limit(v.state, Len(d)) <= Limit(w.state, Len(d)) /\ v.state \in Live \ {"LISTEN"} /\ w.state \notin Open
        <5>1. Len(d) \in Nat /\ Syns \in Nat
          BY LimitFacts
        <5> QED BY <3>1, <3>3, <5>1 DEF Limit, Open, Live
      <4> QED BY <2>9, <3>1, <3>3, <4>1, TxMoved
    <3>5. /\ t \in Sock(h) /\ Counted(t) /\ t.state = w.state /\ SameTx(t, w)
          /\ t.wait = IF w.wait = "ac_tq" THEN "none" ELSE w.wait
      BY <2>7, <3>3, PostStep DEF Queues
    <3>6. Tx(h, t, d)
      BY <3>4, <3>5, TxSame
    <3>7. t.wait = "none"
      BY <1>1, <3>1, <3>3, <3>5
    <3> QED BY <3>3, <3>5, <3>6, <3>7 DEF Handled, Good, Unfinished, Told
  <2> QED BY <2>5, <2>8, <2>9
<1> QED BY <1>2, <1>3, <1>4, <1>5, <1>6 DEF NutTcpStateSynSent

(* The number that FIN takes, and the time a state is kept.                 *)
LEMMA FinStep ==
    ASSUME NEW h \in Host, NEW s \in Sock(h), Counted(s),
           NEW t, \/ t = [s EXCEPT !.rx_nxt = SeqPlus(@, 1)]
                  \/ t = [s EXCEPT !.rx_nxt = SeqPlus(@, 1), !.time_wait = 0]
                  \/ t = [s EXCEPT !.time_wait = 0]
                  \/ t = [s EXCEPT !.time_wait = @ + 1]
    PROVE  RxStep(h, t, s) /\ t.rx_cnt = s.rx_cnt
<1>1. PICK X \in Num, Y \in Nat, Z \in Nat : X = SeqPlus(s.rx_nxt, 1) /\ Y = s.time_wait + 1 /\ Z = 0
  BY NumFacts DEF Sock
<1>2. \/ t = [s EXCEPT !.rx_nxt = X] \/ t = [s EXCEPT !.rx_nxt = X, !.time_wait = Z]
      \/ t = [s EXCEPT !.time_wait = Z] \/ t = [s EXCEPT !.time_wait = Y]
  BY <1>1
<1>3. t \in Sock(h)
  <2>1. CASE t = [s EXCEPT !.rx_nxt = X]
    BY <1>1, <2>1 DEF Sock
  <2>2. CASE t = [s EXCEPT !.rx_nxt = X, !.time_wait = Z]
    BY <1>1, <2>2 DEF Sock
  <2>3. CASE t = [s EXCEPT !.time_wait = Z] \/ t = [s EXCEPT !.time_wait = Y]
    BY <1>1, <2>3, SMTT(45) DEF Sock
  <2> QED BY <1>2, <2>1, <2>2, <2>3
<1>4. /\ t.state = s.state /\ SameTx(t, s) /\ SameWait(t, s)
      /\ t.rx_buf = s.rx_buf /\ t.rx_cnt = s.rx_cnt /\ t.rx_nbq = s.rx_nbq /\ t.adv = s.adv
  BY <1>2, ZenonT(90) DEF Sock, SameTx, SameWait
<1> QED BY <1>3, <1>4 DEF RxStep, Counted

(* The connection is refused: the socket listens again, or is closed.       *)
LEMMA RefusedHandled ==
    ASSUME NEW h \in Host, NEW s, NEW d \in DataOf(h), Good(h, s, d), s.state = "SYN_RECEIVED", NEW r, NEW t,
           r = IF Handle(s, "pc_tq") THEN NutTcpStateChange(s, "LISTEN") ELSE NutTcpAbortSocket(s),
           t = NutTcpDiscardBuffers([r EXCEPT !.retran = FALSE])
    PROVE  Handled(h, t, s, d)
<1>1. /\ s \in Sock(h) /\ Counted(s) /\ Tx(h, s, d)
      /\ h = Server /\ s.wait \in {"none", "pc_tq"}
  BY SleeperFacts DEF Good
<1>2. r \in Sock(h) /\ (Dead(h, r) \/ (r.state = "LISTEN" /\ SameTx(r, s) /\ r.wait = s.wait))
  <2>1. CASE r = NutTcpAbortSocket(s)
    BY <1>1, <2>1, AbortDead DEF Dead
  <2>2. CASE r = NutTcpStateChange(s, "LISTEN")
    <3>1. "LISTEN" \in States(h) /\ <<s.state, "LISTEN", {}>> \in Changes
      BY <1>1, HostAssumption DEF States, Changes
    <3> QED BY <1>1, <2>2, <3>1, MoveStep
  <2> QED BY <2>1, <2>2
<1>3. PICK u : u = [r EXCEPT !.retran = FALSE]
  OBVIOUS
<1>4. /\ u \in Sock(h) /\ u.state = r.state /\ u.wait = r.wait
      /\ u.tx_una = r.tx_una /\ u.tx_nxt = r.tx_nxt
  BY <1>2, <1>3 DEF Sock
<1>5. /\ t \in Sock(h) /\ Counted(t) /\ t.state = r.state /\ t.wait = r.wait
      /\ t.tx_una = r.tx_una /\ t.tx_nxt = r.tx_nxt /\ t.tx_nbq = <<>>
  <2>1. t = NutTcpDiscardBuffers(u)
    BY <1>3
  <2>2. /\ t \in Sock(h) /\ Counted(t) /\ t.state = u.state /\ SameWait(t, u)
        /\ t.tx_una = u.tx_una /\ t.tx_nxt = u.tx_nxt /\ t.tx_nbq = <<>>
    BY <1>4, <2>1, Discarded
  <2> QED BY <1>4, <2>2 DEF SameWait
<1>6. CASE Dead(h, r)
  <2>1. Dead(h, t)
    BY <1>5, <1>6 DEF Dead
  <2> QED BY <2>1, DeadHandled
<1>7. CASE r.state = "LISTEN" /\ SameTx(r, s) /\ r.wait = s.wait
  <2>1. /\ t.tx_una = s.tx_una /\ t.tx_nxt = s.tx_nxt /\ d = <<>>
        /\ Line(h, s.tx_una, s.tx_nxt, s.tx_nbq, d) /\ Pos(h, s.tx_nxt) <= Limit("LISTEN", Len(d))
    BY <1>1, <1>5, <1>7 DEF SameTx, Tx, Live, Open, Limit
  <2>2. Pos(h, s.tx_una) <= Pos(h, s.tx_nxt)
    <3>1. Pos(h, s.tx_una) \in Nat /\ Pos(h, s.tx_nxt) \in Nat /\ Len(s.tx_nbq) \in Nat
      BY <1>1, PosNat, LenProperties DEF Sock
    <3> QED BY <2>1, <3>1 DEF Line, Ordered
  <2>3. Line(h, t.tx_una, t.tx_nxt, t.tx_nbq, d)
    <3>1. Len(<<>>) = 0 /\ 1..0 = {}
      BY EmptySeq
    <3>2. Pos(h, s.tx_una) + 0 = Pos(h, s.tx_una)
      BY <1>1, PosNat DEF Sock
    <3>3. Ordered(h, t.tx_una, t.tx_nxt, <<>>)
      BY <2>1, <2>2, <3>1, <3>2 DEF Ordered
    <3>4. Holds(h, t.tx_una, <<>>, <<>>)
      BY <3>1 DEF Holds
    <3> QED BY <1>5, <2>1, <3>1, <3>3, <3>4 DEF Line
  <2>4. Tx(h, t, d)
    BY <1>5, <1>7, <2>1, <2>3 DEF Tx
  <2> QED BY <1>1, <1>5, <1>7, <2>4 DEF Handled, Good, Unfinished, Told
<1> QED BY <1>2, <1>6, <1>7

LEMMA SynReceivedHandled ==
    ASSUME NEW h \in Host, NEW s, NEW d \in DataOf(h), Good(h, s, d), s.state = "SYN_RECEIVED",
           NEW n \in Segments, NEW up \in BOOLEAN, NEW more \in BOOLEAN,
           NEW t, t = NutTcpStateSynReceived(s, n, up, more)
    PROVE  Handled(h, t, s, d)
<1>1. /\ s \in Sock(h) /\ Counted(s) /\ Tx(h, s, d)
      /\ h = Server /\ s.wait \in {"none", "pc_tq"}
  BY SleeperFacts DEF Good
<1>2. CASE "RST" \in n.flags
  <2>1. PICK r : r = IF Handle(s, "pc_tq") THEN NutTcpStateChange(s, "LISTEN") ELSE NutTcpAbortSocket(s)
    OBVIOUS
  <2>2. t = NutTcpDiscardBuffers([r EXCEPT !.retran = FALSE])
    BY <1>2, <2>1 DEF NutTcpStateSynReceived
  <2> QED BY <2>1, <2>2, RefusedHandled
<1>3. CASE t = Reject(s, n)
  BY <1>1, <1>3, RejectHandled
<1>4. CASE t = s
  BY <1>4, SameHandled
<1>5. PICK a : a = NutTcpProcessAck(s, n, up)
  OBVIOUS
<1>6. PICK u : u = IF n.len > 0 THEN NutTcpProcessAppData(a, n, more) ELSE a
  OBVIOUS
<1>7. PICK v : v = [u EXCEPT !.rx_nxt = SeqPlus(@, 1)]
  OBVIOUS
<1>8. CASE \/ t = NutTcpStateChange(v, "CLOSE_WAIT")
           \/ t = Post(Post(NutTcpStateChange(u, "ESTABLISHED"), "pc_tq"), "ac_tq")
  <2>1. Dead(h, a) \/ (AckStep(h, a, s) /\ Tx(h, a, d))
    BY <1>1, <1>5, TxAck DEF Live, Open
  <2>2. a \in Sock(h) /\ Counted(a)
    BY <2>1 DEF Dead, AckStep
  <2>3. RxStep(h, u, a)
    <3>1. n.len > 0 => n.len = 1
      BY DEF Segments
    <3>2. RxStep(h, a, a)
      BY <2>2 DEF RxStep, SameTx, SameWait
    <3> QED BY <1>6, <2>2, <3>1, <3>2, AppDataStep
  <2>4. u \in Sock(h) /\ Counted(u)
    BY <2>3 DEF RxStep
  <2>5. RxStep(h, v, a)
    <3>1. RxStep(h, v, u)
      BY <1>7, <2>4, FinStep
    <3> QED BY <2>3, <3>1, RxStepTrans
  <2>6. CASE Dead(h, a)
    <3>1. Dead(h, u) /\ Dead(h, v)
      BY <2>3, <2>5, <2>6, DeadRx
    <3>2. NutTcpStateChange(v, "CLOSE_WAIT") = v /\ NutTcpStateChange(u, "ESTABLISHED") = u
      BY <3>1, DeadRefused DEF Dead, DeadStates
    <3>3. Dead(h, Post(u, "pc_tq"))
      BY <3>1, DeadPost DEF Queues
    <3>4. Dead(h, Post(Post(u, "pc_tq"), "ac_tq"))
      BY <3>3, DeadPost DEF Queues
    <3>5. Dead(h, t)
      BY <1>8, <3>1, <3>2, <3>4
    <3> QED BY <3>5, DeadHandled
  <2>7. CASE AckStep(h, a, s) /\ Tx(h, a, d)
    <3>1. /\ u.state = "SYN_RECEIVED" /\ v.state = "SYN_RECEIVED" /\ v \in Sock(h) /\ Counted(v)
          /\ u.wait = s.wait /\ v.wait = s.wait /\ Tx(h, u, d) /\ Tx(h, v, d)
      <4>1. a.state = "SYN_RECEIVED" /\ a.wait = s.wait
        BY <2>7 DEF AckStep, SameWait
      <4> QED BY <2>3, <2>5, <2>7, <4>1, TxSame DEF RxStep, SameWait
    <3>2. d = <<>> /\ Len(d) \in Nat /\ Syns \in Nat
      BY <3>1, LimitFacts DEF Tx, Live, Open
    <3>3. CASE t = NutTcpStateChange(v, "CLOSE_WAIT")
      <4>1. "CLOSE_WAIT" \in States(h) /\ <<v.state, "CLOSE_WAIT", {"FIN", "ACK"}>> \in Changes
        BY <3>1 DEF States, Synchronized, Changes
      <4>2. /\ t \in Sock(h) /\ Counted(t) /\ t.state = "CLOSE_WAIT" /\ Queued(h, t, v)
            /\ t.wait = IF v.wait \in {"rx_tq", "pc_tq", "ac_tq"} THEN "none" ELSE v.wait
        BY <3>1, <3>3, <4>1, MoveStep
      <4>3. Line(h, v.tx_una, v.tx_nxt, v.tx_nbq, d) /\ (v.tx_nbq # <<>> => v.retran)
            /\ Pos(h, v.tx_nxt) <= Limit(v.state, Len(d))
        BY <3>1 DEF Tx, Live, Open
      <4>4. Pos(h, v.tx_nxt) + 1 <= Limit(t.state, Len(d))
        <5>1. Pos(h, v.tx_nxt) \in Nat
          BY <3>1, PosNat DEF Sock
        <5>2. Limit(v.state, Len(d)) = Syns + 0 /\ Limit(t.state, Len(d)) = Syns + (Len(d) + 1)
          BY <3>1, <4>2 DEF Limit, Open
        <5> QED BY <3>2, <4>3, <5>1, <5>2
      <4>5. Tx(h, t, d)
        BY <3>1, <3>2, <4>2, <4>3, <4>4, TxQueued
      <4>6. t.wait = "none"
        BY <1>1, <3>1, <4>2
      <4> QED BY <4>2, <4>5, <4>6 DEF Handled, Good, Unfinished, Told
    <3>4. CASE t = Post(Post(NutTcpStateChange(u, "ESTABLISHED"), "pc_tq"), "ac_tq")
      <4>1. "ESTABLISHED" \in States(h) /\ <<u.state, "ESTABLISHED", {}>> \in Changes
        BY <3>1 DEF States, Synchronized, Changes
      <4>2. PICK w : w = NutTcpStateChange(u, "ESTABLISHED")
        OBVIOUS
      <4>3. w \in Sock(h) /\ Counted(w) /\ w.state = "ESTABLISHED" /\ SameTx(w, u) /\ w.wait = u.wait
        BY <2>4, <4>1, <4>2, MoveStep
      <4>4. Tx(h, w, d)
        <5>1. Limit(u.state, Len(d)) <= Limit(w.state, Len(d)) /\ u.state \in Live \ {"LISTEN"} /\ w.state \notin Open
          BY <3>1, <3>2, <4>3 DEF Limit, Open, Live
        <5> QED BY <2>4, <3>1, <4>3, <5>1, TxMoved
      <4>5. PICK x : x = Post(w, "pc_tq")
        OBVIOUS
      <4>6. /\ x \in Sock(h) /\ Counted(x) /\ x.state = w.state /\ SameTx(x, w)
            /\ x.wait = IF w.wait = "pc_tq" THEN "none" ELSE w.wait
        BY <4>3, <4>5, PostStep DEF Queues
      <4>7. t = Post(x, "ac_tq")
        BY <3>4, <4>2, <4>5
      <4>8. /\ t \in Sock(h) /\ Counted(t) /\ t.state = x.state /\ SameTx(t, x)
            /\ t.wait = IF x.wait = "ac_tq" THEN "none" ELSE x.wait
        BY <4>6, <4>7, PostStep DEF Queues
      <4>9. Tx(h, t, d)
        BY <4>4, <4>6, <4>8, TxSame
      <4>10. t.wait = "none"
        BY <1>1, <3>1, <4>3, <4>6, <4>8
      <4> QED BY <4>3, <4>6, <4>8, <4>9, <4>10 DEF Handled, Good, Unfinished, Told
    <3> QED BY <1>8, <3>3, <3>4
  <2> QED BY <2>1, <2>6, <2>7
<1> QED BY <1>2, <1>3, <1>4, <1>5, <1>6, <1>7, <1>8 DEF NutTcpStateSynReceived

-----------------------------------------------------------------------------
(* A segment arrives on an established connection.                          *)

(* The segment is taken, with those in advance that follow it: the reader   *)
(* is awake, or the count it sleeps for has not changed; with the peer's    *)
(* FIN the state changes and the reader is awake.                           *)
DataTaken(h, t, s) ==
    /\ t \in Sock(h) /\ Counted(t) /\ SameTx(t, s) /\ t.wait \in {s.wait, "none"}
    /\ \/ t.state = s.state /\ (t.wait = "rx_tq" => t.rx_cnt = s.rx_cnt)
       \/ s.state = "ESTABLISHED" /\ t.state = "CLOSE_WAIT" /\ t.wait \notin {"rx_tq", "pc_tq", "ac_tq"}

LEMMA FinReceivedStep ==
    ASSUME NEW h \in Host, NEW s \in Sock(h), NEW u, u \in Sock(h), Counted(u), u.state = s.state, SameTx(u, s),
           s.state \in DeadStates \cup {"ESTABLISHED"},
           u.wait \in {s.wait, "none"}, u.wait = "rx_tq" => u.rx_cnt = s.rx_cnt,
           NEW flags, NEW t, t = FinReceived(u, flags)
    PROVE  DataTaken(h, t, s)
<1>1. CASE t = u
  BY <1>1 DEF DataTaken
<1>2. PICK v : v = [u EXCEPT !.rx_nxt = SeqPlus(@, 1)]
  OBVIOUS
<1>3. RxStep(h, v, u) /\ v.rx_cnt = u.rx_cnt
  BY <1>2, FinStep
<1>4. /\ v \in Sock(h) /\ Counted(v) /\ v.state = s.state /\ SameTx(v, s) /\ v.wait = u.wait
  BY <1>3 DEF RxStep, SameTx, SameWait
<1>5. CASE t = NutTcpStateChange(v, "CLOSE_WAIT")
  <2>1. CASE s.state \in DeadStates
    <3>1. t = v
      BY <1>4, <1>5, <2>1, DeadRefused
    <3> QED BY <1>3, <1>4, <3>1 DEF DataTaken
  <2>2. CASE s.state = "ESTABLISHED"
    <3>1. "CLOSE_WAIT" \in States(h) /\ <<v.state, "CLOSE_WAIT", {"ACK", "FORCE"}>> \in Changes
      BY <1>4, <2>2 DEF States, Synchronized, Changes
    <3>2. /\ t \in Sock(h) /\ Counted(t) /\ t.state = "CLOSE_WAIT" /\ SameTx(t, v)
          /\ t.wait = IF v.wait \in {"rx_tq", "pc_tq", "ac_tq"} THEN "none" ELSE v.wait
      BY <1>4, <1>5, <3>1, MoveStep
    <3>3. SameTx(t, s)
      BY <1>4, <3>2 DEF SameTx
    <3>4. t.wait \in {s.wait, "none"} /\ t.wait \notin {"rx_tq", "pc_tq", "ac_tq"}
      BY <1>4, <3>2
    <3> QED BY <2>2, <3>2, <3>3, <3>4 DEF DataTaken
  <2> QED BY <2>1, <2>2
<1> QED BY <1>1, <1>2, <1>5 DEF FinReceived

LEMMA EstablishedDataStep ==
    ASSUME NEW h \in Host, NEW s \in Sock(h), Counted(s), s.state \in DeadStates \cup {"ESTABLISHED"},
           NEW n \in Segments, NEW more \in BOOLEAN, NEW t, t = EstablishedData(s, n, more)
    PROVE  DataTaken(h, t, s)
<1>1. CASE t = InAdvance(s, n)
  <2>1. RxStep(h, t, s) /\ t.rx_cnt = s.rx_cnt
    BY <1>1, InAdvanceStep
  <2> QED BY <2>1 DEF RxStep, SameWait, DataTaken
<1>2. CASE t = FinReceived(AckNow(s), n.flags)
  <2>1. PICK u : u = AckNow(s)
    OBVIOUS
  <2>2. RxStep(h, u, s) /\ u.rx_cnt = s.rx_cnt
    BY <2>1, AckNowStep DEF SameRx
  <2>3. u \in Sock(h) /\ Counted(u) /\ u.state = s.state /\ SameTx(u, s) /\ u.wait = s.wait
    BY <2>2 DEF RxStep, SameWait
  <2> QED BY <1>2, <2>1, <2>2, <2>3, FinReceivedStep
<1>3. CASE /\ n.len > 0
           /\ t = LET a == TakeAdvance(NutTcpProcessAppData(s, n, more))
                  IN  FinReceived(Post(a.s, "rx_tq"), n.flags \cup a.flags)
  <2>1. PICK p : p = NutTcpProcessAppData(s, n, more)
    OBVIOUS
  <2>2. n.len = 1
    BY <1>3 DEF Segments
  <2>3. RxStep(h, p, s)
    BY <2>1, <2>2, AppDataStep
  <2>4. PICK a, F : a = TakeAdvance(p) /\ F = n.flags \cup a.flags
    OBVIOUS
  <2>5. RxStep(h, a.s, p)
    BY <2>3, <2>4, TakeAdvanceStep DEF RxStep
  <2>6. RxStep(h, a.s, s)
    BY <2>3, <2>5, RxStepTrans
  <2>7. PICK x : x = a.s
    OBVIOUS
  <2>8. x \in Sock(h) /\ Counted(x) /\ x.state = s.state /\ SameTx(x, s) /\ x.wait = s.wait
    BY <2>6, <2>7 DEF RxStep, SameWait
  <2>9. PICK u : u = Post(x, "rx_tq")
    OBVIOUS
  <2>10. /\ u \in Sock(h) /\ Counted(u) /\ u.state = x.state /\ SameTx(u, x)
         /\ u.wait = IF x.wait = "rx_tq" THEN "none" ELSE x.wait
    BY <2>8, <2>9, PostStep DEF Queues
  <2>11. SameTx(u, s) /\ u.wait \in {s.wait, "none"} /\ u.wait # "rx_tq"
    BY <2>8, <2>10 DEF SameTx
  <2>12. t = FinReceived(u, F)
    BY <1>3, <2>1, <2>4, <2>7, <2>9
  <2> QED BY <2>8, <2>10, <2>11, <2>12, FinReceivedStep
<1>4. CASE t = FinReceived(s, n.flags)
  <2>1. SameTx(s, s)
    BY DEF SameTx
  <2> QED BY <1>4, <2>1, FinReceivedStep
<1> QED BY <1>1, <1>2, <1>3, <1>4 DEF EstablishedData

LEMMA WriterStays ==
    ASSUME NEW h \in Host, NEW s \in Sock(h), NEW t \in Sock(h), ~HasRoom(s), t.tx_una = s.tx_una, t.tx_nxt = s.tx_nxt,
           ~(t.tx_win > s.tx_win)
    PROVE  ~HasRoom(t)
<1>1. s.tx_win \in Nat /\ t.tx_win \in Nat /\ s.tx_una \in Num /\ s.tx_nxt \in Num
  BY DEF Sock
<1>2. Unacked(t) = Unacked(s)
  BY DEF Unacked
<1>3. Unacked(s) \in Int
  <2>1. Unacked(s) = IF s.tx_nxt >= s.tx_una THEN s.tx_nxt - s.tx_una ELSE s.tx_nxt - s.tx_una + SeqSpace
    BY <1>1, ModDiff DEF Unacked
  <2> QED BY <1>1, <2>1, SizeFacts DEF Num
<1> QED BY <1>1, <1>2, <1>3 DEF HasRoom

(* A writer that may not send has no room, whatever the width of an int.    *)
LEMMA RoomFacts ==
    ASSUME NEW h \in Host, NEW s \in Sock(h)
    PROVE  /\ HasRoom(s) => MaySend(s)
           /\ MaySend(s) /\ ~NarrowInt => HasRoom(s)
<1>1. s.tx_win \in Nat /\ s.tx_win <= WinSize /\ s.tx_una \in Num /\ s.tx_nxt \in Num
  BY SizeFacts DEF Sock
<1>2. PICK u, w : u = Unacked(s) /\ w = s.tx_win
  OBVIOUS
<1>3. u \in Nat
  <2>1. u = IF s.tx_nxt >= s.tx_una THEN s.tx_nxt - s.tx_una ELSE s.tx_nxt - s.tx_una + SeqSpace
    BY <1>1, <1>2, ModDiff DEF Unacked
  <2> QED BY <1>1, <2>1, SizeFacts DEF Num
<1>4. u < w => (w - u) % WinSpace = w - u /\ 1 <= w - u
  <2>1. w \in Nat /\ WinSpace \in Nat /\ w < WinSpace
    BY <1>1, <1>2, SizeFacts
  <2> QED BY <1>3, <2>1
<1>5. 1 <= w - u => u < w
  BY <1>1, <1>2, <1>3
<1> QED BY <1>2, <1>4, <1>5 DEF HasRoom, MaySend, WindowLeft

LEMMA EstablishedHandled ==
    ASSUME NEW h \in Host, NEW s, NEW d \in DataOf(h), Good(h, s, d), s.state = "ESTABLISHED",
           NEW n \in Segments, NEW up \in BOOLEAN, NEW more \in BOOLEAN,
           NEW t, t = NutTcpStateEstablished(s, n, up, more)
    PROVE  Handled(h, t, s, d)
<1>1. /\ s \in Sock(h) /\ Counted(s) /\ Tx(h, s, d) /\ Told(s)
      /\ s.wait \in {"none", "rx_tq", "tx_tq"}
  BY SleeperFacts DEF Good
<1>2. PICK u : u = IF "RST" \in n.flags THEN NutTcpAbortSocket(s)
                   ELSE IF "SYN" \in n.flags THEN IF n.seq # s.rx_isn THEN Reject(s, n) ELSE s
                   ELSE IF "ACK" \notin n.flags THEN s
                   ELSE EstablishedData(NutTcpProcessAck(s, n, up), n, more)
  OBVIOUS
<1>3. t = IF u.state # "ESTABLISHED" \/ u.tx_win > s.tx_win \/ u.tx_una # s.tx_una THEN Broadcast(u, "tx_tq") ELSE u
  BY <1>2 DEF NutTcpStateEstablished
<1>4. \/ Dead(h, u)
      \/ /\ u \in Sock(h) /\ Counted(u) /\ u.tx_nxt = s.tx_nxt /\ u.wait \in {s.wait, "none"} /\ Tx(h, u, d)
         /\ \/ u.state = "ESTABLISHED" /\ (u.wait = "rx_tq" => u.rx_cnt = s.rx_cnt)
            \/ u.state = "CLOSE_WAIT" /\ u.wait # "rx_tq"
  <2>1. CASE u = NutTcpAbortSocket(s)
    BY <1>1, <2>1, AbortDead
  <2>2. CASE u = Reject(s, n)
    <3>1. RxStep(h, u, s) /\ SameRx(u, s)
      BY <1>1, <2>2, RejectStep
    <3>2. u \in Sock(h) /\ Counted(u) /\ u.state = s.state /\ SameTx(u, s) /\ u.wait = s.wait
      BY <3>1 DEF RxStep, SameWait
    <3>3. Tx(h, u, d)
      BY <1>1, <3>2, TxSame
    <3> QED BY <3>1, <3>2, <3>3 DEF SameTx, SameRx
  <2>3. CASE u = s
    BY <1>1, <2>3
  <2>4. CASE u = EstablishedData(NutTcpProcessAck(s, n, up), n, more)
    <3>1. PICK a : a = NutTcpProcessAck(s, n, up)
      OBVIOUS
    <3>2. Dead(h, a) \/ (AckStep(h, a, s) /\ Tx(h, a, d))
      BY <1>1, <3>1, TxAck DEF Live, Open, Synchronized
    <3>3. a \in Sock(h) /\ Counted(a) /\ a.state \in DeadStates \cup {"ESTABLISHED"}
      BY <3>2 DEF Dead, DeadStates, AckStep
    <3>4. DataTaken(h, u, a)
      BY <2>4, <3>1, <3>3, EstablishedDataStep
    <3>5. CASE Dead(h, a)
      BY <3>4, <3>5 DEF Dead, DataTaken
    <3>6. CASE AckStep(h, a, s) /\ Tx(h, a, d)
      <4>1. a.state = "ESTABLISHED" /\ a.tx_nxt = s.tx_nxt /\ a.rx_cnt = s.rx_cnt /\ a.wait = s.wait
        BY <3>6 DEF AckStep, SameRx, SameWait
      <4>2. u \in Sock(h) /\ Counted(u) /\ SameTx(u, a) /\ u.wait \in {s.wait, "none"} /\ u.tx_nxt = s.tx_nxt
        BY <3>4, <4>1 DEF DataTaken, SameTx
      <4>3. CASE u.state = "ESTABLISHED" /\ (u.wait = "rx_tq" => u.rx_cnt = s.rx_cnt)
        <5>1. Tx(h, u, d)
          BY <3>6, <4>1, <4>2, <4>3, TxSame
        <5> QED BY <4>2, <4>3, <5>1
      <4>4. CASE u.state = "CLOSE_WAIT" /\ u.wait # "rx_tq"
        <5>1. Limit(a.state, Len(d)) <= Limit(u.state, Len(d)) /\ a.state \in Live \ {"LISTEN"} /\ u.state \notin Open
          <6>1. Len(d) \in Nat /\ Syns \in Nat
            BY LimitFacts
          <6> QED BY <4>1, <4>4, <6>1 DEF Limit, Open, Live, Synchronized
        <5>2. Tx(h, u, d)
          BY <3>3, <3>6, <4>2, <5>1, TxMoved
        <5> QED BY <4>2, <4>4, <5>2
      <4> QED BY <3>4, <4>1, <4>3, <4>4 DEF DataTaken
    <3> QED BY <3>2, <3>5, <3>6
  <2> QED BY <1>2, <2>1, <2>2, <2>3, <2>4
<1>5. CASE Dead(h, u)
  <2>1. t = Broadcast(u, "tx_tq")
    BY <1>3, <1>5 DEF Dead
  <2>2. Dead(h, t)
    BY <1>5, <2>1, DeadPost DEF Queues
  <2> QED BY <2>2, DeadHandled
<1>6. CASE /\ u \in Sock(h) /\ Counted(u) /\ u.tx_nxt = s.tx_nxt /\ u.wait \in {s.wait, "none"} /\ Tx(h, u, d)
           /\ \/ u.state = "ESTABLISHED" /\ (u.wait = "rx_tq" => u.rx_cnt = s.rx_cnt)
              \/ u.state = "CLOSE_WAIT" /\ u.wait # "rx_tq"
  <2>1. CASE t = Broadcast(u, "tx_tq")
    <3>1. /\ t \in Sock(h) /\ Counted(t) /\ t.state = u.state /\ SameTx(t, u) /\ SameRx(t, u)
          /\ t.wait = IF u.wait = "tx_tq" THEN "none" ELSE u.wait
      BY <1>6, <2>1, BroadcastStep DEF Queues
    <3>2. Tx(h, t, d)
      BY <1>6, <3>1, TxSame
    <3>3. t.wait \in {s.wait, "none"} /\ t.wait \in {"none", "rx_tq"}
      BY <1>1, <1>6, <3>1
    <3>4. t.wait = "rx_tq" => t.state = "ESTABLISHED" /\ t.rx_cnt = 0
      BY <1>1, <1>6, <3>1 DEF Told, SameRx
    <3>5. Told(t)
      BY <3>3, <3>4 DEF Told
    <3> QED BY <1>6, <3>1, <3>2, <3>3, <3>5 DEF Handled, Good, Unfinished
  <2>2. CASE u.state = "ESTABLISHED" /\ ~(u.tx_win > s.tx_win) /\ u.tx_una = s.tx_una /\ t = u
    <3>1. t.wait = "rx_tq" => t.rx_cnt = 0
      BY <1>1, <1>6, <2>2 DEF Told
    <3>2. t.wait = "tx_tq" => ~HasRoom(t)
      BY <1>1, <1>6, <2>2, WriterStays DEF Told
    <3>3. t.wait \in {"none", "rx_tq", "tx_tq"}
      BY <1>1, <1>6, <2>2
    <3>4. Told(t)
      BY <2>2, <3>1, <3>2, <3>3 DEF Told
    <3> QED BY <1>6, <2>2, <3>4 DEF Handled, Good, Unfinished
  <2> QED BY <1>3, <2>1, <2>2
<1> QED BY <1>4, <1>5, <1>6

-----------------------------------------------------------------------------
(* A segment arrives when the application reads and writes no more, or has  *)
(* closed the socket: nobody sleeps.                                        *)

Calm(h, t, d) == t \in Sock(h) /\ Counted(t) /\ Tx(h, t, d) /\ t.wait = "none"

LEMMA CalmHandled ==
    ASSUME NEW h, NEW s, NEW d, NEW t, Calm(h, t, d), Unfinished(t)
    PROVE  Handled(h, t, s, d)
BY DEF Calm, Handled, Good, Told

LEMMA CalmAck ==
    ASSUME NEW h \in Host, NEW s, NEW d \in DataOf(h), Calm(h, s, d), s.state \in Synchronized,
           NEW n \in Segments, NEW up \in BOOLEAN, NEW t, t = NutTcpProcessAck(s, n, up)
    PROVE  Dead(h, t) \/ (Calm(h, t, d) /\ t.state = s.state)
<1>1. s \in Sock(h) /\ Counted(s) /\ Tx(h, s, d) /\ s.wait = "none" /\ s.state \in Live \ {"LISTEN"}
  BY DEF Calm, Live, Synchronized
<1>2. Dead(h, t) \/ (AckStep(h, t, s) /\ Tx(h, t, d))
  BY <1>1, TxAck
<1> QED BY <1>1, <1>2 DEF Calm, AckStep, SameWait

(* Only the receiving side has changed.                                     *)
Alike(h, t, s) ==
    /\ t \in Sock(h) /\ Counted(t) /\ t.state = s.state /\ SameTx(t, s) /\ t.wait = "none"

LEMMA AlikeTrans ==
    ASSUME NEW h, NEW s, NEW t, NEW u, Alike(h, t, s), RxStep(h, u, t)
    PROVE  Alike(h, u, s)
BY DEF Alike, RxStep, SameTx, SameWait

LEMMA AlikeDead ==
    ASSUME NEW h, NEW s, NEW t, Alike(h, t, s), Dead(h, s)
    PROVE  Dead(h, t)
BY DEF Alike, Dead

LEMMA AlikeCalm ==
    ASSUME NEW h, NEW s, NEW t, NEW d, Alike(h, t, s), Calm(h, s, d)
    PROVE  Calm(h, t, d) /\ t.state = s.state /\ t.tx_una = s.tx_una /\ t.tx_nxt = s.tx_nxt
BY TxSame DEF Alike, Calm, SameTx

LEMMA FinWaitDataStep ==
    ASSUME NEW h \in Host, NEW s \in Sock(h), Counted(s), s.wait = "none",
           NEW n \in Segments, NEW more \in BOOLEAN, NEW t, t = FinWaitData(s, n, more)
    PROVE  Alike(h, t, s)
<1>1. CASE t = s
  BY <1>1 DEF Alike, SameTx
<1>2. CASE n.len > 0 /\ t = Post(NutTcpProcessAppData(s, n, more), "rx_tq")
  <2>1. PICK u : u = NutTcpProcessAppData(s, n, more)
    OBVIOUS
  <2>2. n.len = 1
    BY <1>2 DEF Segments
  <2>3. RxStep(h, u, s)
    BY <2>1, <2>2, AppDataStep
  <2>4. u \in Sock(h) /\ Counted(u) /\ u.state = s.state /\ SameTx(u, s) /\ u.wait = "none"
    BY <2>3 DEF RxStep, SameWait
  <2>5. t = Post(u, "rx_tq")
    BY <1>2, <2>1
  <2>6. t \in Sock(h) /\ Counted(t) /\ t.state = u.state /\ SameTx(t, u) /\ t.wait = "none"
    BY <2>4, <2>5, PostStep DEF Queues
  <2> QED BY <2>4, <2>6 DEF Alike, SameTx
<1> QED BY <1>1, <1>2 DEF FinWaitData

(* The peer's FIN ends the connection.                                      *)
LEMMA TimeWaitDead ==
    ASSUME NEW h \in Host, NEW s, NEW d, Dead(h, s) \/ (Calm(h, s, d) /\ s.state \in {"FIN_WAIT_2", "CLOSING"}),
           NEW t, t = NutTcpStateChange(s, "TIME_WAIT")
    PROVE  Dead(h, t)
<1>1. CASE Dead(h, s)
  BY <1>1, DeadRefused DEF Dead, DeadStates
<1>2. CASE Calm(h, s, d) /\ s.state \in {"FIN_WAIT_2", "CLOSING"}
  <2>1. s \in Sock(h) /\ Counted(s) /\ s.wait = "none" /\ "TIME_WAIT" \in States(h)
    BY <1>2 DEF Calm, States
  <2>2. \E F : <<s.state, "TIME_WAIT", F>> \in Changes
    <3>1. <<"FIN_WAIT_2", "TIME_WAIT", {"ACK", "FORCE"}>> \in Changes /\ <<"CLOSING", "TIME_WAIT", {}>> \in Changes
      BY DEF Changes
    <3> QED BY <1>2, <3>1
  <2>3. t \in Sock(h) /\ Counted(t) /\ t.state = "TIME_WAIT" /\ t.wait = "none"
    BY <2>1, <2>2, MoveStep
  <2> QED BY <2>3 DEF Dead
<1> QED BY <1>1, <1>2

LEMMA FinWait1Handled ==
    ASSUME NEW h \in Host, NEW s, NEW d \in DataOf(h), Calm(h, s, d), s.state = "FIN_WAIT_1",
           NEW n \in Segments, NEW up \in BOOLEAN, NEW more \in BOOLEAN,
           NEW t, t = NutTcpStateFinWait1(s, n, up, more)
    PROVE  Handled(h, t, s, d)
<1> DEFINE Waits(x) == \/ Dead(h, x)
                       \/ /\ Calm(h, x, d)
                          /\ x.state = "FIN_WAIT_2" \/ (x.state = "FIN_WAIT_1" /\ x.tx_una # x.tx_nxt)
<1>1. PICK a : a = NutTcpProcessAck(s, n, up)
  OBVIOUS
<1>2. Dead(h, a) \/ (Calm(h, a, d) /\ a.state = "FIN_WAIT_1")
  BY <1>1, CalmAck DEF Synchronized
<1>3. PICK b : b = IF Acked(a) THEN NutTcpStateChange(a, "FIN_WAIT_2") ELSE a
  OBVIOUS
<1>4. Waits(b)
  <2>1. CASE Dead(h, a)
    BY <1>3, <2>1, DeadRefused DEF Dead, DeadStates
  <2>2. CASE Calm(h, a, d) /\ a.state = "FIN_WAIT_1" /\ ~Acked(a)
    BY <1>3, <2>2 DEF Acked
  <2>3. CASE Calm(h, a, d) /\ a.state = "FIN_WAIT_1" /\ Acked(a)
    <3>1. a \in Sock(h) /\ Counted(a) /\ Tx(h, a, d) /\ a.wait = "none"
      BY <2>3 DEF Calm
    <3>2. "FIN_WAIT_2" \in States(h) /\ <<a.state, "FIN_WAIT_2", {}>> \in Changes
      BY <2>3 DEF States, Synchronized, Changes
    <3>3. b \in Sock(h) /\ Counted(b) /\ b.state = "FIN_WAIT_2" /\ SameTx(b, a) /\ b.wait = "none"
      BY <1>3, <2>3, <3>1, <3>2, MoveStep
    <3>4. Limit(a.state, Len(d)) <= Limit(b.state, Len(d)) /\ a.state \in Live \ {"LISTEN"} /\ b.state \notin Open
      <4>1. Len(d) \in Nat /\ Syns \in Nat
        BY LimitFacts
      <4> QED BY <2>3, <3>3, <4>1 DEF Limit, Open, Live, Synchronized
    <3>5. Tx(h, b, d)
      BY <3>1, <3>3, <3>4, TxMoved
    <3> QED BY <3>3, <3>5 DEF Calm
  <2> QED BY <1>2, <2>1, <2>2, <2>3
<1>5. PICK u : u = FinWaitData(b, n, more)
  OBVIOUS
<1>6. Alike(h, u, b)
  <2>1. b \in Sock(h) /\ Counted(b) /\ b.wait = "none"
    BY <1>4 DEF Dead, Calm
  <2> QED BY <1>5, <2>1, FinWaitDataStep
<1>7. PICK v : v = [u EXCEPT !.rx_nxt = SeqPlus(@, 1), !.time_wait = 0]
  OBVIOUS
<1>8. Alike(h, v, b)
  <2>1. u \in Sock(h) /\ Counted(u)
    BY <1>6 DEF Alike
  <2>2. RxStep(h, v, u)
    BY <1>7, <2>1, FinStep
  <2> QED BY <1>6, <2>2, AlikeTrans
<1>9. Waits(u) /\ Waits(v)
  BY <1>4, <1>6, <1>8, AlikeDead, AlikeCalm
<1>10. CASE t = u
  <2>1. CASE Dead(h, u)
    BY <1>10, <2>1, DeadHandled
  <2>2. CASE Calm(h, u, d) /\ (u.state = "FIN_WAIT_2" \/ (u.state = "FIN_WAIT_1" /\ u.tx_una # u.tx_nxt))
    BY <1>10, <2>2, CalmHandled DEF Unfinished
  <2> QED BY <1>9, <2>1, <2>2
<1>11. CASE t = NutTcpStateChange(v, IF v.state = "FIN_WAIT_2" THEN "TIME_WAIT" ELSE "CLOSING")
  <2>1. CASE Dead(h, v)
    <3>1. t = v
      BY <1>11, <2>1, DeadRefused DEF Dead, DeadStates
    <3> QED BY <2>1, <3>1, DeadHandled
  <2>2. CASE Calm(h, v, d) /\ v.state = "FIN_WAIT_2"
    <3>1. t = NutTcpStateChange(v, "TIME_WAIT")
      BY <1>11, <2>2
    <3> QED BY <2>2, <3>1, TimeWaitDead, DeadHandled
  <2>3. CASE Calm(h, v, d) /\ v.state = "FIN_WAIT_1" /\ v.tx_una # v.tx_nxt
    <3>1. v \in Sock(h) /\ Counted(v) /\ Tx(h, v, d) /\ v.wait = "none"
      BY <2>3 DEF Calm
    <3>2. "CLOSING" \in States(h) /\ <<v.state, "CLOSING", {"ACK", "FORCE"}>> \in Changes
      BY <2>3 DEF States, Synchronized, Changes
    <3>3. t \in Sock(h) /\ Counted(t) /\ t.state = "CLOSING" /\ SameTx(t, v) /\ t.wait = "none"
      BY <1>11, <2>3, <3>1, <3>2, MoveStep
    <3>4. Limit(v.state, Len(d)) <= Limit(t.state, Len(d)) /\ v.state \in Live \ {"LISTEN"} /\ t.state \notin Open
      <4>1. Len(d) \in Nat /\ Syns \in Nat
        BY LimitFacts
      <4> QED BY <2>3, <3>3, <4>1 DEF Limit, Open, Live, Synchronized
    <3>5. Tx(h, t, d)
      BY <3>1, <3>3, <3>4, TxMoved
    <3>6. t.tx_una # t.tx_nxt
      BY <2>3, <3>3 DEF SameTx
    <3> QED BY <3>3, <3>5, <3>6, CalmHandled DEF Calm, Unfinished
  <2> QED BY <1>9, <2>1, <2>2, <2>3
<1> QED BY <1>1, <1>3, <1>5, <1>7, <1>10, <1>11 DEF NutTcpStateFinWait1

LEMMA FinWait2Handled ==
    ASSUME NEW h \in Host, NEW s, NEW d \in DataOf(h), Calm(h, s, d), s.state = "FIN_WAIT_2",
           NEW n \in Segments, NEW up \in BOOLEAN, NEW more \in BOOLEAN,
           NEW t, t = NutTcpStateFinWait2(s, n, up, more)
    PROVE  Handled(h, t, s, d)
<1>1. PICK a : a = NutTcpProcessAck(s, n, up)
  OBVIOUS
<1>2. Dead(h, a) \/ (Calm(h, a, d) /\ a.state = "FIN_WAIT_2")
  BY <1>1, CalmAck DEF Synchronized
<1>3. PICK u : u = FinWaitData(a, n, more)
  OBVIOUS
<1>4. Alike(h, u, a)
  <2>1. a \in Sock(h) /\ Counted(a) /\ a.wait = "none"
    BY <1>2 DEF Dead, Calm
  <2> QED BY <1>3, <2>1, FinWaitDataStep
<1>5. PICK v : v = [u EXCEPT !.rx_nxt = SeqPlus(@, 1), !.time_wait = 0]
  OBVIOUS
<1>6. Alike(h, v, a)
  <2>1. u \in Sock(h) /\ Counted(u)
    BY <1>4 DEF Alike
  <2>2. RxStep(h, v, u)
    BY <1>5, <2>1, FinStep
  <2> QED BY <1>4, <2>2, AlikeTrans
<1>7. /\ Dead(h, u) \/ (Calm(h, u, d) /\ u.state = "FIN_WAIT_2")
      /\ Dead(h, v) \/ (Calm(h, v, d) /\ v.state = "FIN_WAIT_2")
  BY <1>2, <1>4, <1>6, AlikeDead, AlikeCalm
<1>8. CASE t = u
  BY <1>7, <1>8, DeadHandled, CalmHandled DEF Unfinished
<1>9. CASE t = NutTcpStateChange(v, "TIME_WAIT")
  <2>1. Dead(h, t)
    BY <1>7, <1>9, TimeWaitDead
  <2> QED BY <2>1, DeadHandled
<1> QED BY <1>1, <1>3, <1>5, <1>8, <1>9 DEF NutTcpStateFinWait2

LEMMA LastStatesHandled ==
    ASSUME NEW h \in Host, NEW s, NEW d \in DataOf(h), Calm(h, s, d), s.state \in {"CLOSING", "LAST_ACK"},
           NEW n \in Segments, NEW up \in BOOLEAN,
           NEW t, t = IF s.state = "CLOSING" THEN NutTcpStateClosing(s, n, up) ELSE NutTcpStateLastAck(s, n, up)
    PROVE  Handled(h, t, s, d)
<1>1. PICK a : a = NutTcpProcessAck(s, n, up)
  OBVIOUS
<1>2. Dead(h, a) \/ (Calm(h, a, d) /\ a.state = s.state)
  BY <1>1, CalmAck DEF Synchronized
<1>3. CASE ~Acked(a) /\ t = a
  BY <1>2, <1>3, DeadHandled, CalmHandled DEF Acked, Unfinished
<1>4. CASE t = NutTcpDestroySocket(a)
  <2>1. a \in Sock(h)
    BY <1>2 DEF Dead, Calm
  <2> QED BY <1>4, <2>1, DestroyDead, DeadHandled
<1>5. CASE s.state = "CLOSING" /\ t = NutTcpStateChange([a EXCEPT !.time_wait = 0], "TIME_WAIT")
  <2>1. PICK v : v = [a EXCEPT !.time_wait = 0]
    OBVIOUS
  <2>2. a \in Sock(h) /\ Counted(a) /\ a.wait = "none"
    BY <1>2 DEF Dead, Calm
  <2>3. RxStep(h, v, a)
    BY <2>1, <2>2, FinStep
  <2>4. Alike(h, v, a)
    BY <2>2, <2>3 DEF Alike, RxStep, SameWait
  <2>5. Dead(h, v) \/ (Calm(h, v, d) /\ v.state = "CLOSING")
    BY <1>2, <1>5, <2>4, AlikeDead, AlikeCalm
  <2>6. Dead(h, t)
    BY <1>5, <2>1, <2>5, TimeWaitDead
  <2> QED BY <2>6, DeadHandled
<1> QED BY <1>1, <1>3, <1>4, <1>5 DEF NutTcpStateClosing, NutTcpStateLastAck

LEMMA LateHandled ==
    ASSUME NEW h \in Host, NEW s, NEW d, Good(h, s, d), NEW n \in Segments, NEW t, t = LateSegment(s, n)
    PROVE  Handled(h, t, s, d)
<1>1. s \in Sock(h)
  BY DEF Good
<1>2. CASE t = NutTcpAbortSocket(s) \/ t = NutTcpDestroySocket(s)
  BY <1>1, <1>2, AbortDead, DestroyDead, DeadHandled
<1>3. CASE t = Reject(s, n)
  BY <1>3, RejectHandled
<1>4. CASE t = s
  BY <1>4, SameHandled
<1> QED BY <1>2, <1>3, <1>4 DEF LateSegment

(* A segment arrives, in whatever state.                                    *)
LEMMA ProcessHandled ==
    ASSUME NEW h \in Host, NEW s, NEW d \in DataOf(h), Good(h, s, d), s.state \notin {"NONE", "CLOSED"},
           s.state = "LISTEN" => Pos(h, s.tx_nxt) < Syns,
           NEW n \in SegOf(Peer(h)), NEW up \in BOOLEAN, NEW more \in BOOLEAN,
           NEW t, t = NutTcpStateProcess(s, n, Isn[h], up, more)
    PROVE  Handled(h, t, s, d)
<1>1. n \in Segments
  BY DEF SegOf
<1>2. CASE s.state = "ESTABLISHED"
  <2>1. t = NutTcpStateEstablished(s, n, up, more)
    BY <1>2 DEF NutTcpStateProcess
  <2> QED BY <1>1, <1>2, <2>1, EstablishedHandled
<1>3. CASE s.state = "LISTEN"
  <2>1. t = NutTcpStateListen(s, n)
    BY <1>3 DEF NutTcpStateProcess
  <2> QED BY <1>1, <1>3, <2>1, ListenHandled
<1>4. CASE s.state = "SYN_SENT"
  <2>1. t = NutTcpStateSynSent(s, n, Isn[h], up)
    BY <1>4 DEF NutTcpStateProcess
  <2> QED BY <1>4, <2>1, SynSentHandled
<1>5. CASE s.state = "SYN_RECEIVED"
  <2>1. t = NutTcpStateSynReceived(s, n, up, more)
    BY <1>5 DEF NutTcpStateProcess
  <2> QED BY <1>1, <1>5, <2>1, SynReceivedHandled
<1>6. CASE t = s
  BY <1>6, SameHandled
<1>7. CASE t = LateSegment(s, n)
  BY <1>1, <1>7, LateHandled
<1>8. CASE s.state \in {"CLOSE_WAIT", "FIN_WAIT_1", "FIN_WAIT_2", "CLOSING", "LAST_ACK"}
  <2>1. s.wait = "none"
    BY <1>8, SleeperFacts DEF Open
  <2>2. Calm(h, s, d)
    BY <2>1 DEF Calm, Good
  <2>3. CASE s.state = "CLOSE_WAIT" /\ t = NutTcpProcessAck(s, n, up)
    <3>1. Dead(h, t) \/ (Calm(h, t, d) /\ t.state = s.state)
      BY <1>1, <2>2, <2>3, CalmAck DEF Synchronized
    <3> QED BY <2>3, <3>1, DeadHandled, CalmHandled DEF Unfinished
  <2>4. CASE s.state = "FIN_WAIT_1" /\ t = NutTcpStateFinWait1(s, n, up, more)
    BY <1>1, <2>2, <2>4, FinWait1Handled
  <2>5. CASE s.state = "FIN_WAIT_2" /\ t = NutTcpStateFinWait2(s, n, up, more)
    BY <1>1, <2>2, <2>5, FinWait2Handled
  <2>6. CASE s.state = "CLOSING" /\ t = NutTcpStateClosing(s, n, up)
    BY <1>1, <2>2, <2>6, LastStatesHandled
  <2>7. CASE s.state = "LAST_ACK" /\ t = NutTcpStateLastAck(s, n, up)
    BY <1>1, <2>2, <2>7, LastStatesHandled
  <2>8. CASE s.state = "CLOSE_WAIT"
    BY <1>6, <1>7, <2>3, <2>8 DEF NutTcpStateProcess
  <2>9. CASE s.state = "FIN_WAIT_1"
    BY <1>6, <1>7, <2>4, <2>9 DEF NutTcpStateProcess
  <2>10. CASE s.state = "FIN_WAIT_2"
    BY <1>6, <1>7, <2>5, <2>10 DEF NutTcpStateProcess
  <2>11. CASE s.state = "CLOSING"
    BY <1>6, <1>7, <2>6, <2>11 DEF NutTcpStateProcess
  <2>12. CASE s.state = "LAST_ACK"
    BY <1>6, <1>7, <2>7, <2>12 DEF NutTcpStateProcess
  <2> QED BY <1>8, <2>8, <2>9, <2>10, <2>11, <2>12
<1>9. CASE s.state = "TIME_WAIT"
  <2>1. t = s
    BY <1>9 DEF NutTcpStateProcess
  <2> QED BY <1>6, <2>1
<1>10. s.state \in {"ESTABLISHED", "LISTEN", "SYN_SENT", "SYN_RECEIVED", "TIME_WAIT", "CLOSE_WAIT",
                    "FIN_WAIT_1", "FIN_WAIT_2", "CLOSING", "LAST_ACK"}
  <2>1. s.state \in States(h)
    BY DEF Good, Sock
  <2> QED BY <2>1 DEF States, Synchronized
<1> QED BY <1>2, <1>3, <1>4, <1>5, <1>8, <1>9, <1>10

-----------------------------------------------------------------------------
(* A round of the timers.                                                   *)

LEMMA HandledTrans ==
    ASSUME NEW h, NEW s, NEW t, NEW u, NEW d, Handled(h, t, s, d), Handled(h, u, t, d)
    PROVE  Handled(h, u, s, d)
BY DEF Handled

LEMMA LateAckHandled ==
    ASSUME NEW h \in Host, NEW s, NEW d, Good(h, s, d), NEW t, t = LateAck(s)
    PROVE  Handled(h, t, s, d)
<1>1. CASE t = s
  BY <1>1, SameHandled
<1>2. CASE t = AckNow(s)
  <2>1. s \in Sock(h) /\ Counted(s)
    BY DEF Good
  <2>2. RxStep(h, t, s) /\ t.rx_cnt = s.rx_cnt
    BY <1>2, <2>1, AckNowStep DEF SameRx
  <2> QED BY <2>2, PlainHandled
<1> QED BY <1>1, <1>2 DEF LateAck

LEMMA RetransmitHandled ==
    ASSUME NEW h \in Host, NEW s, NEW d, Good(h, s, d), NEW expired \in BOOLEAN, NEW up \in BOOLEAN,
           NEW t, t = Retransmit(s, expired, up)
    PROVE  Handled(h, t, s, d)
<1>1. CASE t = s
  BY <1>1, SameHandled
<1>2. CASE s.tx_nbq # <<>> /\ s.retran /\ t = NutTcpStateRetranTimeout(s, up)
  <2>1. s \in Sock(h) /\ Counted(s) /\ Tx(h, s, d) /\ Unfinished(s) /\ Told(s)
    BY DEF Good
  <2>2. \/ Dead(h, t)
        \/ /\ AckStep(h, t, s)
           /\ t.tx_una = s.tx_una /\ t.tx_win = s.tx_win /\ t.tx_nbq = s.tx_nbq /\ t.retran = TRUE
    BY <1>2, <2>1, RetranStep
  <2>3. CASE Dead(h, t)
    BY <2>3, DeadHandled
  <2>4. CASE /\ AckStep(h, t, s)
             /\ t.tx_una = s.tx_una /\ t.tx_win = s.tx_win /\ t.tx_nbq = s.tx_nbq /\ t.retran = TRUE
    <3>1. /\ t \in Sock(h) /\ Counted(t) /\ t.state = s.state /\ t.tx_nxt = s.tx_nxt
          /\ t.rx_cnt = s.rx_cnt /\ t.wait = s.wait
      BY <2>4 DEF AckStep, SameRx, SameWait
    <3>2. Tx(h, t, d)
      BY <2>1, <2>4, <3>1 DEF Tx
    <3>3. Unfinished(t)
      BY <2>1, <2>4, <3>1 DEF Unfinished
    <3>4. Told(t)
      BY <2>1, <2>4, <3>1 DEF Told, HasRoom, Unacked
    <3> QED BY <3>1, <3>2, <3>3, <3>4 DEF Handled, Good
  <2> QED BY <2>2, <2>3, <2>4
<1> QED BY <1>1, <1>2 DEF Retransmit

LEMMA WaitTimersHandled ==
    ASSUME NEW h \in Host, NEW s, NEW d \in DataOf(h), Good(h, s, d), NEW t, t = WaitTimers(s)
    PROVE  Handled(h, t, s, d)
<1>1. s \in Sock(h) /\ Counted(s) /\ Tx(h, s, d)
  BY DEF Good
<1>2. CASE t = s
  BY <1>2, SameHandled
<1>3. CASE t = NutTcpDestroySocket(s)
  BY <1>1, <1>3, DestroyDead, DeadHandled
<1>4. CASE t = [s EXCEPT !.time_wait = @ + 1]
  <2>1. RxStep(h, t, s) /\ t.rx_cnt = s.rx_cnt
    BY <1>1, <1>4, FinStep
  <2> QED BY <2>1, PlainHandled
<1>5. CASE s.state = "SYN_RECEIVED" /\ t = [s EXCEPT !.state = "LISTEN", !.time_wait = 0]
  <2>1. h = Server /\ s.wait \in {"none", "pc_tq"}
    BY <1>5, SleeperFacts
  <2>2. "LISTEN" \in States(h)
    BY <2>1, HostAssumption DEF States
  <2>3. t \in Sock(h)
    <3>1. PICK X \in States(h), Z \in Nat : X = "LISTEN" /\ Z = 0
      BY <2>2
    <3>2. t = [s EXCEPT !.state = X, !.time_wait = Z]
      BY <1>5, <3>1
    <3> QED BY <1>1, <3>1, <3>2, ZenonT(60) DEF Sock
  <2>4. /\ t.state = "LISTEN" /\ SameTx(t, s) /\ t.wait = s.wait
        /\ t.rx_buf = s.rx_buf /\ t.rx_cnt = s.rx_cnt /\ t.rx_nbq = s.rx_nbq /\ t.adv = s.adv
    BY <1>1, <1>5 DEF Sock, SameTx
  <2>5. Counted(t)
    BY <1>1, <2>4 DEF Counted
  <2>6. Limit(s.state, Len(d)) <= Limit(t.state, Len(d)) /\ s.state \in Live \ {"LISTEN"} /\ s.state \in Open
    <3>1. Syns \in Nat
      BY LimitFacts
    <3> QED BY <1>5, <2>4, <3>1 DEF Limit, Open, Live
  <2>7. Tx(h, t, d)
    BY <1>1, <2>4, <2>6, TxMoved
  <2> QED BY <2>1, <2>3, <2>4, <2>5, <2>7 DEF Handled, Good, Unfinished, Told
<1> QED BY <1>2, <1>3, <1>4, <1>5 DEF WaitTimers

LEMMA RoundHandled ==
    ASSUME NEW h \in Host, NEW s, NEW d \in DataOf(h), Good(h, s, d), NEW expired \in BOOLEAN, NEW up \in BOOLEAN,
           NEW t, t = WaitTimers(Retransmit(LateAck(s), expired, up))
    PROVE  Handled(h, t, s, d)
<1>1. PICK u : u = LateAck(s)
  OBVIOUS
<1>2. Handled(h, u, s, d)
  BY <1>1, LateAckHandled
<1>3. PICK v : v = Retransmit(u, expired, up)
  OBVIOUS
<1>4. Handled(h, v, u, d)
  BY <1>2, <1>3, RetransmitHandled DEF Handled
<1>5. Handled(h, t, v, d)
  BY <1>1, <1>3, <1>4, WaitTimersHandled DEF Handled
<1> QED BY <1>2, <1>4, <1>5, HandledTrans

-----------------------------------------------------------------------------
(* The calls of the application.                                            *)

(* A new socket.                                                            *)
LEMMA NewSocket ==
    ASSUME NEW h \in Host, NEW s, s = NutTcpCreateSocket(h)
    PROVE  /\ s \in Sock(h) /\ Counted(s) /\ s.state = "CLOSED" /\ s.wait = "none"
           /\ s.tx_una = Isn[h] /\ s.tx_nxt = Isn[h] /\ s.tx_nbq = <<>> /\ s.tx_flags = {} /\ s.out = {}
           /\ Line(h, s.tx_una, s.tx_nxt, s.tx_nbq, <<>>) /\ Pos(h, s.tx_nxt) = 0
<1>1. /\ 0 \in Num /\ Isn[h] \in Num /\ <<>> \in Seq(SegOf(h)) /\ <<>> \in Seq(Segments)
      /\ {} \in SUBSET {"ACK", "FORCE"} /\ {} \in SUBSET Queues /\ {} \in SUBSET SegOf(h)
      /\ 0 \in 0..WinSize /\ WinSize \in 0..WinSize /\ 0 \in 0..2 /\ "CLOSED" \in States(h) /\ 0 \in Nat
  BY SizeFacts, EmptySeq DEF Num, States
<1>2. /\ s \in Sock(h) /\ s.state = "CLOSED" /\ s.wait = "none" /\ s.tx_una = Isn[h] /\ s.tx_nxt = Isn[h]
      /\ s.tx_nbq = <<>> /\ s.tx_flags = {} /\ s.out = {} /\ s.rx_buf = <<>> /\ s.rx_nbq = <<>> /\ s.rx_cnt = 0 /\ s.adv = 0
  BY <1>1 DEF NutTcpCreateSocket, NoSocket, Sock
<1>3. Len(<<>>) = 0 /\ 1..0 = {}
  BY EmptySeq
<1>4. Counted(s)
  BY <1>2, <1>3 DEF Counted
<1>5. Pos(h, Isn[h]) = 0
  <2>1. Isn[h] - Isn[h] = 0
    BY <1>1 DEF Num
  <2>2. 0 % SeqSpace = 0
    BY SizeFacts
  <2> QED BY <2>1, <2>2 DEF Pos
<1>6. Ordered(h, s.tx_una, s.tx_nxt, <<>>)
  BY <1>2, <1>3, <1>5 DEF Ordered
<1>7. Holds(h, s.tx_una, <<>>, <<>>)
  BY <1>3 DEF Holds
<1> QED BY <1>2, <1>3, <1>4, <1>5, <1>6, <1>7 DEF Line

LEMMA ConnectGood ==
    ASSUME NEW h \in Host, h = Client, NEW up \in BOOLEAN,
           NEW s, s = NutTcpStateChange(NutTcpCreateSocket(h), "SYN_SENT"),
           NEW t, t = Wait(IF up THEN s ELSE Post([s EXCEPT !.out = {}], "ac_tq"), "ac_tq")
    PROVE  Good(h, t, <<>>)
<1>1. PICK r : r = NutTcpCreateSocket(h)
  OBVIOUS
<1>2. /\ r \in Sock(h) /\ Counted(r) /\ r.state = "CLOSED" /\ r.wait = "none"
      /\ r.tx_nbq = <<>> /\ Line(h, r.tx_una, r.tx_nxt, r.tx_nbq, <<>>) /\ Pos(h, r.tx_nxt) = 0
  BY <1>1, NewSocket
<1>3. "SYN_SENT" \in States(h) /\ <<r.state, "SYN_SENT", {"SYN"}>> \in Changes
  BY <1>2 DEF States, Changes
<1>4. s \in Sock(h) /\ Counted(s) /\ s.state = "SYN_SENT" /\ s.wait = "none" /\ Queued(h, s, r)
  BY <1>1, <1>2, <1>3, MoveStep
<1>5. <<>> \in DataOf(h) /\ Len(<<>>) = 0
  BY SeqAssumption, EmptySeq DEF DataOf
<1>6. Tx(h, s, <<>>)
  <2>1. Pos(h, r.tx_nxt) + 1 <= Limit(s.state, Len(<<>>))
    <3>1. Syns \in Nat /\ Syns > 0
      BY SeqAssumption
    <3> QED BY <1>2, <1>4, <3>1 DEF Limit, Open
  <2> QED BY <1>2, <1>4, <1>5, <2>1, TxQueued
<1>7. PICK o : o = [s EXCEPT !.out = {}]
  OBVIOUS
<1>8. o \in Sock(h) /\ Counted(o) /\ o.state = s.state /\ SameTx(o, s) /\ o.wait = s.wait
  <2>1. {} \in SUBSET SegOf(h)
    OBVIOUS
  <2>2. o \in Sock(h)
    BY <1>4, <1>7, <2>1, ZenonT(90) DEF Sock
  <2>3. /\ o.state = s.state /\ SameTx(o, s) /\ o.wait = s.wait
        /\ o.rx_buf = s.rx_buf /\ o.rx_cnt = s.rx_cnt /\ o.rx_nbq = s.rx_nbq /\ o.adv = s.adv
    BY <1>4, <1>7 DEF Sock, SameTx
  <2> QED BY <1>4, <2>2, <2>3 DEF Counted
<1>9. PICK u : u = IF up THEN s ELSE Post(o, "ac_tq")
  OBVIOUS
<1>10. u \in Sock(h) /\ Counted(u) /\ u.state = "SYN_SENT" /\ SameTx(u, s) /\ u.wait = "none"
  <2>1. CASE u = s
    BY <1>4, <2>1 DEF SameTx
  <2>2. CASE u = Post(o, "ac_tq")
    <3>1. u \in Sock(h) /\ Counted(u) /\ u.state = o.state /\ SameTx(u, o) /\ u.wait = "none"
      BY <1>4, <1>8, <2>2, PostStep DEF Queues
    <3> QED BY <1>4, <1>8, <3>1 DEF SameTx
  <2> QED BY <1>9, <2>1, <2>2
<1>11. t = Wait(u, "ac_tq")
  BY <1>7, <1>9
<1>12. t \in Sock(h) /\ Counted(t) /\ t.state = "SYN_SENT" /\ SameTx(t, u) /\ t.wait \in {"none", "ac_tq"}
  BY <1>10, <1>11, WaitStep DEF Sleeps
<1>13. Tx(h, t, <<>>)
  <2>1. SameTx(t, s)
    BY <1>10, <1>12 DEF SameTx
  <2> QED BY <1>4, <1>6, <1>12, <2>1, TxSame
<1> QED BY <1>12, <1>13 DEF Good, Unfinished, Told

LEMMA ListenGood ==
    ASSUME NEW h \in Host, h = Server, NEW s, s = NutTcpStateChange(NutTcpCreateSocket(h), "LISTEN")
    PROVE  Good(h, s, <<>>) /\ s.state = "LISTEN" /\ s.wait = "none" /\ Pos(h, s.tx_nxt) < Syns
<1>1. PICK r : r = NutTcpCreateSocket(h)
  OBVIOUS
<1>2. /\ r \in Sock(h) /\ Counted(r) /\ r.state = "CLOSED" /\ r.wait = "none"
      /\ r.tx_nbq = <<>> /\ Line(h, r.tx_una, r.tx_nxt, r.tx_nbq, <<>>) /\ Pos(h, r.tx_nxt) = 0
  BY <1>1, NewSocket
<1>3. "LISTEN" \in States(h) /\ <<r.state, "LISTEN", {}>> \in Changes
  BY <1>2, HostAssumption DEF States, Changes
<1>4. s \in Sock(h) /\ Counted(s) /\ s.state = "LISTEN" /\ s.wait = "none" /\ SameTx(s, r)
  BY <1>1, <1>2, <1>3, MoveStep
<1>5. Syns \in Nat /\ Syns > 0 /\ Len(<<>>) = 0
  BY SeqAssumption, EmptySeq
<1>6. Tx(h, s, <<>>)
  BY <1>2, <1>4, <1>5 DEF Tx, SameTx, Limit, Open
<1>7. Pos(h, s.tx_nxt) < Syns
  BY <1>2, <1>4, <1>5 DEF SameTx
<1> QED BY <1>4, <1>6, <1>7 DEF Good, Unfinished, Told

(* A thread begins to sleep.                                                *)
LEMMA WaitGood ==
    ASSUME NEW h \in Host, NEW s, NEW d, Good(h, s, d), s.wait = "none", NEW q \in Sleeps(h),
           \/ q = "rx_tq" /\ s.state = "ESTABLISHED" /\ s.rx_cnt = 0
           \/ q = "tx_tq" /\ s.state = "ESTABLISHED" /\ ~HasRoom(s)
           \/ q = "pc_tq" /\ s.state = "LISTEN",
           NEW t, t = Wait(s, q)
    PROVE  Good(h, t, d)
<1>1. s \in Sock(h) /\ Counted(s) /\ Tx(h, s, d) /\ Unfinished(s)
  BY DEF Good
<1>2. t \in Sock(h) /\ Counted(t) /\ t.state = s.state /\ SameTx(t, s) /\ SameRx(t, s) /\ t.wait \in {"none", q}
  BY <1>1, WaitStep
<1>3. Tx(h, t, d)
  BY <1>1, <1>2, TxSame
<1>4. Unfinished(t)
  BY <1>1, <1>2 DEF Unfinished, SameTx
<1>5. Told(t)
  BY <1>2 DEF Told, SameTx, SameRx, HasRoom, Unacked
<1> QED BY <1>2, <1>3, <1>4, <1>5 DEF Good

(* Segment n of data is sent, and kept.                                     *)
DataSent(h, t, s, n) ==
    /\ n \in SegOf(h) /\ n.seq = s.tx_nxt /\ n.len = 1 /\ n.flags = {"ACK"}
    /\ n.ack = s.rx_nxt /\ n.win \in {0, s.rx_win} /\ SeqEnd(n) = SeqPlus(s.tx_nxt, 1)
    /\ t.tx_nbq = Append(s.tx_nbq, n) /\ t.out = s.out \cup {n}

LEMMA DataOutput ==
    ASSUME NEW h \in Host, NEW s \in Sock(h), Counted(s), NEW t,
           t = NutTcpOutput([s EXCEPT !.tx_flags = @ \cup {"ACK"}], 1)
    PROVE  /\ t \in Sock(h) /\ Counted(t) /\ t.state = s.state /\ t.wait = s.wait
           /\ t.tx_una = s.tx_una /\ t.tx_nxt = SeqPlus(s.tx_nxt, 1) /\ t.tx_win = s.tx_win
           /\ t.retran = (s.retran \/ s.tx_nbq = <<>>) /\ SameRx(t, s)
           /\ \E n : DataSent(h, t, s, n)
<1>1. PICK F : F = s.tx_flags \cup {"ACK"}
  OBVIOUS
<1>2. F \in SUBSET {"ACK", "FORCE"} /\ "ACK" \in F
  BY <1>1 DEF Sock
<1>3. PICK u : u = [s EXCEPT !.tx_flags = F]
  OBVIOUS
<1>4. /\ u.tx_flags = F /\ u.tx_nxt = s.tx_nxt /\ u.tx_nbq = s.tx_nbq /\ u.retran = s.retran
      /\ u.rx_nxt = s.rx_nxt /\ u.rx_win = s.rx_win /\ u.out = s.out
  BY <1>3 DEF Sock
<1>5. PICK n : n = Segment(u, 1)
  OBVIOUS
<1>6. /\ n.seq = s.tx_nxt /\ n.len = 1 /\ n \in SegOf(h) /\ n.flags = {"ACK"}
      /\ n.ack = s.rx_nxt /\ n.win \in {0, s.rx_win}
  <2>1. (F \cap {"ACK", "SYN"}) \cup (IF 1 = 0 /\ "SYN" \notin F THEN F \cap {"FIN"} ELSE {}) = {"ACK"} /\ "SYN" \notin F
    BY <1>2
  <2>2. PICK W : W = IF s.rx_win < Mss THEN 0 ELSE s.rx_win
    OBVIOUS
  <2>3. n = [seq |-> s.tx_nxt, ack |-> s.rx_nxt, flags |-> {"ACK"}, win |-> W, len |-> 1]
    BY <1>2, <1>4, <1>5, <2>1, <2>2 DEF Segment
  <2>4. s.rx_nxt \in Num /\ s.tx_nxt \in Num
        /\ {"ACK"} \in SUBSET {"SYN", "ACK", "FIN", "RST"} /\ 1 \in 0..1
    BY DEF Sock
  <2>5. W \in {0, s.rx_win} /\ W \in 0..WinSize
    BY <2>2, SizeFacts DEF Sock
  <2>6. n \in Segments
    BY <2>3, <2>4, <2>5 DEF Segments, Num
  <2> QED BY <2>3, <2>5, <2>6 DEF SegOf
<1>7. SeqEnd(n) = SeqPlus(s.tx_nxt, 1)
  BY <1>6 DEF SeqEnd
<1>8. PICK X, Q, O, R : /\ X = SeqPlus(s.tx_nxt, 1) /\ Q = Append(s.tx_nbq, n) /\ O = s.out \cup {n}
                        /\ R = (s.retran \/ s.tx_nbq = <<>>)
  OBVIOUS
<1>9. X \in Num /\ Q \in Seq(SegOf(h)) /\ O \in SUBSET SegOf(h)
  <2>1. X \in Num
    BY <1>8, NumFacts DEF Sock
  <2> QED BY <1>6, <1>8, <2>1, AppendProperties DEF Sock
<1>10. R \in BOOLEAN
  BY <1>8
<1>11. F \ ({"FORCE", "ACK"} \cup n.flags) = {}
  BY <1>2
<1>12. t = [u EXCEPT !.tx_flags = {}, !.tx_nxt = X, !.tx_nbq = Q, !.retran = R, !.out = O]
  <2> DEFINE again == n.len > 0 \/ n.flags \cap {"SYN", "FIN"} # {}
  <2>1. t = [u EXCEPT !.tx_flags = @ \ ({"FORCE", "ACK"} \cup n.flags), !.tx_nxt = SeqEnd(n),
                      !.tx_nbq = IF again THEN Append(@, n) ELSE @,
                      !.retran = @ \/ (again /\ u.tx_nbq = <<>>), !.out = @ \cup {n}]
    BY <1>1, <1>3, <1>4, <1>5 DEF NutTcpOutput
  <2>2. again
    BY <1>6
  <2> HIDE DEF again
  <2>3. /\ u.tx_flags \ ({"FORCE", "ACK"} \cup n.flags) = {} /\ SeqEnd(n) = X /\ Append(u.tx_nbq, n) = Q
        /\ (u.retran \/ (again /\ u.tx_nbq = <<>>)) = R /\ u.out \cup {n} = O
    BY <1>4, <1>7, <1>8, <1>11, <2>2
  <2> QED BY <2>1, <2>2, <2>3
<1>13. t = [s EXCEPT !.tx_flags = {}, !.tx_nxt = X, !.tx_nbq = Q, !.retran = R, !.out = O]
  BY <1>3, <1>12
<1>14. t \in Sock(h)
  <2>1. PICK v : v = [s EXCEPT !.tx_flags = {}, !.tx_nxt = X]
    OBVIOUS
  <2>2. v \in Sock(h)
    BY <1>9, <2>1 DEF Sock
  <2>3. PICK w : w = [v EXCEPT !.tx_nbq = Q, !.out = O]
    OBVIOUS
  <2>4. w \in Sock(h)
    BY <1>9, <2>2, <2>3 DEF Sock
  <2>5. t = [w EXCEPT !.retran = R]
    BY <1>13, <2>1, <2>3
  <2> QED BY <1>10, <2>4, <2>5, ZenonT(60) DEF Sock
<1>15. /\ t.state = s.state /\ t.tx_una = s.tx_una /\ t.tx_nxt = X /\ t.tx_nbq = Q /\ t.retran = R
       /\ t.tx_win = s.tx_win /\ t.wait = s.wait /\ t.out = O
  BY <1>13 DEF Sock
<1>16. SameRx(t, s)
  BY <1>13 DEF Sock, SameRx
<1>17. Counted(t)
  BY <1>16 DEF Counted, SameRx
<1>18. DataSent(h, t, s, n)
  BY <1>6, <1>7, <1>8, <1>15 DEF DataSent
<1> QED BY <1>8, <1>14, <1>15, <1>16, <1>17, <1>18

(* A segment of data is sent.                                               *)
LEMMA SendGood ==
    ASSUME NEW h \in Host, NEW s, NEW d \in DataOf(h), Good(h, s, d), s.state = "ESTABLISHED", s.wait = "none",
           Len(d) < Data[h], NEW t, t = NutTcpOutput([s EXCEPT !.tx_flags = @ \cup {"ACK"}], 1)
    PROVE  Good(h, t, Append(d, s.tx_nxt)) /\ t.wait = "none" /\ Append(d, s.tx_nxt) \in DataOf(h)
<1>1. s \in Sock(h) /\ Counted(s) /\ Tx(h, s, d)
  BY DEF Good
<1>2. PICK e : e = Append(d, s.tx_nxt)
  OBVIOUS
<1>3. /\ s.tx_una \in Num /\ s.tx_nxt \in Num /\ d \in Seq(Num) /\ s.tx_nbq \in Seq(Segments)
      /\ Pos(h, s.tx_nxt) \in Nat
  <2>1. s.tx_una \in Num /\ s.tx_nxt \in Num /\ d \in Seq(Num) /\ s.tx_nbq \in Seq(SegOf(h))
    BY <1>1 DEF Sock, DataOf
  <2>2. SegOf(h) \subseteq Segments
    BY DEF SegOf
  <2>3. s.tx_nbq \in Seq(Segments)
    BY <2>1, <2>2, SeqMonotonic
  <2> QED BY <2>1, <2>3, PosNat
<1>4. Len(e) = Len(d) + 1 /\ e \in DataOf(h)
  <2>1. e \in Seq(Num) /\ Len(e) = Len(d) + 1 /\ Len(d) \in Nat /\ Data[h] \in Nat
    BY <1>2, <1>3, AppendProperties, LenProperties, SeqAssumption
  <2> QED BY <2>1 DEF DataOf
<1>5. /\ t \in Sock(h) /\ Counted(t) /\ t.state = s.state /\ t.wait = s.wait
      /\ t.tx_una = s.tx_una /\ t.tx_nxt = SeqPlus(s.tx_nxt, 1)
      /\ t.retran = (s.retran \/ s.tx_nbq = <<>>) /\ \E n : DataSent(h, t, s, n)
  BY <1>1, DataOutput
<1>6. PICK n \in SegOf(h) : /\ n.seq = s.tx_nxt /\ n.len = 1 /\ SeqEnd(n) = SeqPlus(s.tx_nxt, 1)
                            /\ t.tx_nbq = Append(s.tx_nbq, n)
  BY <1>5 DEF DataSent
<1>7. /\ Line(h, s.tx_una, s.tx_nxt, s.tx_nbq, d) /\ Pos(h, s.tx_nxt) <= Limit(s.state, Len(d))
      /\ (s.tx_nbq # <<>> => s.retran)
  BY <1>1 DEF Tx, Live, Synchronized
<1>8. /\ Limit(s.state, Len(d)) + 1 = Limit(t.state, Len(e)) /\ Limit(t.state, Len(e)) < Half
      /\ Limit(s.state, Len(d)) \in Nat /\ Limit(t.state, Len(e)) \in Nat
  <2>1. Len(d) \in Nat /\ Syns \in Nat /\ Limit(s.state, Len(d)) \in Nat
    BY LimitFacts
  <2>2. Limit(t.state, Len(e)) \in Nat /\ Limit(t.state, Len(e)) < Half
    BY <1>4, LimitFacts
  <2>3. Limit(s.state, Len(d)) = Syns + Len(d) /\ Limit(t.state, Len(e)) = Syns + Len(e)
    BY <1>5 DEF Limit, Open
  <2> QED BY <1>4, <2>1, <2>2, <2>3
<1>9. Pos(h, s.tx_nxt) + 1 < SeqSpace
  BY <1>3, <1>7, <1>8, HalfFacts, SizeFacts
<1>10. Line(h, s.tx_una, SeqPlus(s.tx_nxt, 1), Append(s.tx_nbq, n), e)
  <2>1. n \in Segments /\ e = IF n.len = 0 THEN d ELSE Append(d, s.tx_nxt)
    BY <1>2, <1>6 DEF SegOf
  <2> QED BY <1>3, <1>6, <1>7, <1>9, <2>1, LineAppend
<1>11. Pos(h, t.tx_nxt) <= Limit(t.state, Len(e))
  <2>1. Pos(h, SeqPlus(s.tx_nxt, 1)) = Pos(h, s.tx_nxt) + 1
    BY <1>3, <1>9, PosFacts
  <2> QED BY <1>3, <1>5, <1>7, <1>8, <2>1
<1>12. t.tx_nbq # <<>> /\ t.retran
  <2>1. s.tx_nbq \in Seq(Segments) /\ n \in Segments
    BY <1>3 DEF SegOf
  <2>2. Append(s.tx_nbq, n) # <<>>
    BY <2>1, AppendProperties
  <2> QED BY <1>5, <1>6, <1>7, <2>2
<1>13. Tx(h, t, e)
  BY <1>5, <1>6, <1>10, <1>11, <1>12 DEF Tx, Open
<1> QED BY <1>2, <1>4, <1>5, <1>13 DEF Good, Unfinished, Told

(* The application takes the first n segments.                              *)
LEMMA TakenStep ==
    ASSUME NEW h \in Host, NEW s \in Sock(h), Counted(s), NEW n \in 1..Len(s.rx_buf), NEW t, t = Taken(s, n)
    PROVE  RxStep(h, t, s)
<1>1. /\ s.rx_buf \in Seq(Segments) /\ Len(s.rx_buf) \in Nat /\ n \in Nat /\ n >= 1 /\ n <= Len(s.rx_buf)
      /\ s.rx_cnt \in Nat /\ Len(s.rx_buf) <= s.rx_cnt /\ s.rx_win \in 0..WinSize /\ WinSize \in Nat
  BY LenProperties, SizeFacts DEF Sock, Counted
<1>2. PICK win : win = IF s.rx_win + n > WinSize THEN WinSize ELSE s.rx_win + n
  OBVIOUS
<1>3. PICK B, C, W : /\ B = SubSeq(s.rx_buf, n + 1, Len(s.rx_buf)) /\ C = s.rx_cnt - n
                     /\ W = IF s.state = "ESTABLISHED" THEN win ELSE s.rx_win
  OBVIOUS
<1>4. W \in 0..WinSize /\ C \in Nat
  BY <1>1, <1>2, <1>3
<1>5. B \in Seq(Segments) /\ Len(B) = Len(s.rx_buf) - n
  <2>1. n + 1 \in 1..(Len(s.rx_buf) + 1) /\ Len(s.rx_buf) \in 0..Len(s.rx_buf)
    BY <1>1
  <2>2. /\ B \in Seq(Segments)
        /\ Len(B) = IF n + 1 <= Len(s.rx_buf) THEN Len(s.rx_buf) - (n + 1) + 1 ELSE 0
    BY <1>1, <1>3, <2>1, SubSeqFacts
  <2> QED BY <1>1, <2>2
<1>6. PICK u : u = [s EXCEPT !.rx_buf = B, !.rx_cnt = C, !.rx_win = W]
  OBVIOUS
<1>7. /\ u \in Sock(h) /\ u.rx_buf = B /\ u.rx_cnt = C /\ u.rx_nbq = s.rx_nbq /\ u.adv = s.adv
      /\ u.state = s.state /\ SameTx(u, s) /\ SameWait(u, s)
  BY <1>4, <1>5, <1>6 DEF Sock, SameTx, SameWait
<1>8. RxStep(h, u, s)
  <2>1. Len(B) <= C
    BY <1>1, <1>3, <1>5
  <2> QED BY <1>7, <2>1 DEF RxStep, Counted
<1>9. t = IF s.state = "ESTABLISHED" /\ s.rx_win <= Mss /\ win > Mss THEN AckNow(u) ELSE u
  BY <1>2, <1>3, <1>6 DEF Taken
<1>10. CASE t = u
  BY <1>8, <1>10
<1>11. CASE t = AckNow(u)
  <2>1. RxStep(h, t, u)
    BY <1>8, <1>11, AckNowStep DEF RxStep
  <2> QED BY <1>8, <2>1, RxStepTrans
<1> QED BY <1>9, <1>10, <1>11

(* The application closes the socket.                                       *)
LEMMA CloseGood ==
    ASSUME NEW h \in Host, NEW s, NEW d \in DataOf(h), Good(h, s, d), s.wait = "none", NEW t,
           t = CASE s.state \in {"LISTEN", "SYN_SENT", "CLOSED"} -> NutTcpDestroySocket(s)
                 [] s.state \in {"SYN_RECEIVED", "ESTABLISHED"} -> NutTcpStateChange(s, "FIN_WAIT_1")
                 [] s.state = "CLOSE_WAIT" -> NutTcpStateChange(s, "LAST_ACK")
                 [] OTHER -> s
    PROVE  Good(h, t, d)
<1>1. s \in Sock(h) /\ Counted(s) /\ Tx(h, s, d)
  BY DEF Good
<1>2. CASE s.state \in {"LISTEN", "SYN_SENT", "CLOSED"}
  <2>1. t = NutTcpDestroySocket(s)
    BY <1>2
  <2> QED BY <1>1, <2>1, DestroyDead, DeadHandled DEF Handled
<1>3. CASE s.state \in {"SYN_RECEIVED", "ESTABLISHED", "CLOSE_WAIT"}
  <2>1. PICK x : x = IF s.state = "CLOSE_WAIT" THEN "LAST_ACK" ELSE "FIN_WAIT_1"
    OBVIOUS
  <2>2. t = NutTcpStateChange(s, x)
    BY <1>3, <2>1
  <2>3. PICK F : <<s.state, x, F>> \in Changes /\ F \cap {"SYN", "FIN"} # {}
    <3>1. /\ <<"SYN_RECEIVED", "FIN_WAIT_1", {"FIN"}>> \in Changes
          /\ <<"ESTABLISHED", "FIN_WAIT_1", {"FIN", "ACK"}>> \in Changes
          /\ <<"CLOSE_WAIT", "LAST_ACK", {"FIN", "ACK"}>> \in Changes
      BY DEF Changes
    <3> QED BY <1>3, <2>1, <3>1
  <2>4. x \in States(h) /\ x \in {"FIN_WAIT_1", "LAST_ACK"}
    BY <2>1 DEF States, Synchronized
  <2>5. t \in Sock(h) /\ Counted(t) /\ t.state = x /\ t.wait = "none" /\ Queued(h, t, s)
    BY <1>1, <2>2, <2>3, <2>4, MoveStep
  <2>6. /\ Line(h, s.tx_una, s.tx_nxt, s.tx_nbq, d) /\ (s.tx_nbq # <<>> => s.retran)
        /\ Pos(h, s.tx_nxt) <= Limit(s.state, Len(d))
    BY <1>1, <1>3 DEF Tx, Live, Open, Synchronized
  <2>7. Pos(h, s.tx_nxt) + 1 <= Limit(t.state, Len(d))
    <3>1. Pos(h, s.tx_nxt) \in Nat /\ Len(d) \in Nat /\ Syns \in Nat
      BY <1>1, PosNat, LimitFacts DEF Sock
    <3>2. Limit(s.state, Len(d)) + 1 <= Limit(t.state, Len(d)) /\ Limit(s.state, Len(d)) \in Nat
      BY <1>3, <2>1, <2>5, <3>1 DEF Limit, Open
    <3>3. Limit(t.state, Len(d)) \in Nat
      BY LimitFacts
    <3> QED BY <2>6, <3>1, <3>2, <3>3
  <2>8. t.state \notin Open
    BY <2>4, <2>5 DEF Open
  <2>9. Tx(h, t, d) /\ t.tx_una # t.tx_nxt
    BY <1>1, <2>5, <2>6, <2>7, <2>8, TxQueued
  <2> QED BY <2>5, <2>9 DEF Good, Unfinished, Told
<1>4. CASE t = s
  BY <1>4
<1> QED BY <1>2, <1>3, <1>4

-----------------------------------------------------------------------------
(* The inductive invariant.                                                 *)

(* What the application's progress p says about the socket and the data.    *)
Call(h, s, d, p) ==
    /\ p = "start" => s = NutTcpCreateSocket(h) /\ d = <<>>
    /\ p = "run" => s.wait = "none"
    /\ p = "send" => Len(d) < Data[h]

(* A host between two steps: nothing is left to send.                       *)
HostInv(h, s, d, p) == Good(h, s, d) /\ d \in DataOf(h) /\ s.out = {} /\ Call(h, s, d, p)

Backlogs == [Host -> [syn: Seq(Segments), time: Nat]]

Progress == {"start", "connect", "accept", "run", "send", "receive", "closed"}

(* No host relies on what the other has sent: the network may hold any      *)
(* segments that its peer could send.                                       *)
TcpInv ==
    /\ DOMAIN sock = Host
    /\ backlog \in Backlogs
    /\ net \in [Host -> SUBSET Segments]
    /\ pc \in [Host -> Progress]
    /\ sent \in [Host -> Seq(Num)]
    /\ \A h \in Host : HostInv(h, sock[h], sent[h], pc[h]) /\ net[h] \subseteq SegOf(Peer(h))

LEMMA PeerFacts == \A h \in Host : Peer(h) \in Host /\ Peer(Peer(h)) = h
BY HostAssumption DEF Host, Peer

LEMMA InitInv == Init => TcpInv
<1>1. SUFFICES ASSUME Init PROVE TcpInv
  OBVIOUS
<1>2. \A h \in Host : sock[h] = NutTcpCreateSocket(h) /\ sent[h] = <<>> /\ net[h] = {} /\ pc[h] = "start"
  BY <1>1 DEF Init
<1>3. DOMAIN sock = Host
  BY <1>1 DEF Init
<1>4. backlog \in Backlogs
  <2>1. NoSyn \in [syn: Seq(Segments), time: Nat]
    BY EmptySeq DEF NoSyn
  <2> QED BY <1>1, <2>1 DEF Init, Backlogs
<1>5. net \in [Host -> SUBSET Segments] /\ pc \in [Host -> Progress] /\ sent \in [Host -> Seq(Num)]
  BY <1>1, EmptySeq DEF Init, Progress
<1>6. ASSUME NEW h \in Host
      PROVE  HostInv(h, sock[h], sent[h], pc[h]) /\ net[h] \subseteq SegOf(Peer(h))
  <2>1. PICK s : s = sock[h]
    OBVIOUS
  <2>2. s \in Sock(h) /\ Counted(s) /\ s.state = "CLOSED" /\ s.wait = "none" /\ s.out = {}
    BY <1>2, <2>1, NewSocket
  <2>3. Good(h, s, <<>>)
    BY <2>2 DEF Good, Tx, Live, Open, Synchronized, Unfinished, Told
  <2>4. <<>> \in DataOf(h)
    BY SeqAssumption, EmptySeq DEF DataOf
  <2>5. Call(h, s, <<>>, "start")
    BY <1>2, <2>1 DEF Call
  <2> QED BY <1>2, <2>1, <2>2, <2>3, <2>4, <2>5 DEF HostInv
<1> QED BY <1>3, <1>4, <1>5, <1>6 DEF TcpInv

(* What a step sends leaves the socket when the step ends.                  *)
LEMMA Emptied ==
    ASSUME NEW h \in Host, NEW s, NEW d, Good(h, s, d), NEW t, t = [s EXCEPT !.out = {}]
    PROVE  Good(h, t, d) /\ t.wait = s.wait /\ t.out = {} /\ s.out \subseteq SegOf(h)
<1>1. s \in Sock(h) /\ Counted(s) /\ Tx(h, s, d) /\ Unfinished(s) /\ Told(s)
  BY DEF Good
<1>2. t \in Sock(h)
  BY <1>1 DEF Sock
<1>3. /\ t.state = s.state /\ SameTx(t, s) /\ SameWait(t, s) /\ SameRx(t, s) /\ t.out = {}
  BY <1>1 DEF Sock, SameTx, SameWait, SameRx
<1>4. Tx(h, t, d)
  BY <1>1, <1>3, TxSame
<1>5. Unfinished(t) /\ Counted(t)
  BY <1>1, <1>3 DEF Unfinished, Counted, SameTx, SameRx
<1>6. Told(t)
  BY <1>1, <1>3 DEF Told, HasRoom, Unacked, SameTx, SameRx, SameWait
<1>7. s.out \subseteq SegOf(h)
  BY <1>1 DEF Sock
<1> QED BY <1>2, <1>3, <1>4, <1>5, <1>6, <1>7 DEF Good, SameWait

LEMMA StepKeeps ==
    ASSUME TcpInv, NEW h \in Host, NEW t, NEW e \in DataOf(h), NEW p \in Progress, Good(h, t, e), Becomes(h, t),
           sent' = [sent EXCEPT ![h] = e], pc' = [pc EXCEPT ![h] = p], backlog' \in Backlogs,
           Call(h, [t EXCEPT !.out = {}], e, p)
    PROVE  TcpInv'
<1>1. PICK u : u = [t EXCEPT !.out = {}]
  OBVIOUS
<1>2. Good(h, u, e) /\ u.out = {} /\ t.out \subseteq SegOf(h)
  BY <1>1, Emptied
<1>3. /\ sock' = [sock EXCEPT ![h] = u] /\ net' = [net EXCEPT ![Peer(h)] = @ \cup t.out]
  BY <1>1 DEF Becomes
<1>4. DOMAIN sock' = Host /\ sock'[h] = u /\ \A g \in Host \ {h} : sock'[g] = sock[g]
  BY <1>3 DEF TcpInv
<1>5. /\ net' \in [Host -> SUBSET Segments] /\ \A g \in Host : net'[g] \subseteq SegOf(Peer(g))
  <2>1. Peer(h) \in Host /\ Peer(Peer(h)) = h /\ SegOf(h) \subseteq Segments
    BY PeerFacts DEF SegOf
  <2>2. net'[Peer(h)] = net[Peer(h)] \cup t.out /\ \A g \in Host \ {Peer(h)} : net'[g] = net[g]
    BY <1>3, <2>1 DEF TcpInv
  <2>3. net' \in [Host -> SUBSET Segments]
    BY <1>2, <1>3, <2>1 DEF TcpInv
  <2> QED BY <1>2, <2>1, <2>2, <2>3 DEF TcpInv
<1>6. sent' \in [Host -> Seq(Num)] /\ sent'[h] = e /\ \A g \in Host \ {h} : sent'[g] = sent[g]
  BY DEF TcpInv, DataOf
<1>7. pc' \in [Host -> Progress] /\ pc'[h] = p /\ \A g \in Host \ {h} : pc'[g] = pc[g]
  BY DEF TcpInv
<1>8. ASSUME NEW g \in Host
      PROVE  HostInv(g, sock'[g], sent'[g], pc'[g])
  <2>1. CASE g = h
    BY <1>1, <1>2, <1>4, <1>6, <1>7, <2>1 DEF HostInv
  <2>2. CASE g # h
    BY <1>4, <1>6, <1>7, <2>2 DEF TcpInv
  <2> QED BY <2>1, <2>2
<1> QED BY <1>4, <1>5, <1>6, <1>7, <1>8 DEF TcpInv

(* A step of the state machine.                                             *)
LEMMA MachineKeeps ==
    ASSUME TcpInv, NEW h \in Host, NEW t, Handled(h, t, sock[h], sent[h]), Becomes(h, t),
           UNCHANGED <<pc, sent>>, backlog' \in Backlogs,
           pc[h] = "start" => [t EXCEPT !.out = {}] = sock[h]
    PROVE  TcpInv'
<1>1. PICK s, d, p : s = sock[h] /\ d = sent[h] /\ p = pc[h]
  OBVIOUS
<1>2. HostInv(h, s, d, p) /\ p \in Progress
  BY <1>1 DEF TcpInv
<1>3. Good(h, t, d) /\ t.wait \in {s.wait, "none"} /\ d \in DataOf(h)
  BY <1>1, <1>2 DEF Handled, HostInv
<1>4. PICK u : u = [t EXCEPT !.out = {}]
  OBVIOUS
<1>5. u.wait = t.wait
  BY <1>3, <1>4, Emptied
<1>6. Call(h, u, d, p)
  BY <1>1, <1>2, <1>3, <1>4, <1>5 DEF HostInv, Call
<1>7. sent' = [sent EXCEPT ![h] = d] /\ pc' = [pc EXCEPT ![h] = p]
  BY <1>1 DEF TcpInv
<1> QED BY <1>2, <1>3, <1>4, <1>6, <1>7, StepKeeps

(* The socket is as before but for what it sends.                           *)
LEMMA OnlyOut ==
    ASSUME NEW h \in Host, NEW s \in Sock(h), s.out = {}, NEW n \in Segments, NEW t, t = s \/ t = Reject(s, n)
    PROVE  /\ [t EXCEPT !.out = {}] = s
           /\ t.state = s.state /\ t.tx_flags = s.tx_flags /\ t.tx_nbq = s.tx_nbq
<1>1. CASE t = s
  BY <1>1 DEF Sock
<1>2. CASE t = Reject(s, n)
  <2>1. PICK O : O = s.out \cup NutTcpReject(n)
    OBVIOUS
  <2>2. t = [s EXCEPT !.out = O]
    BY <1>2, <2>1 DEF Reject
  <2> QED BY <2>2, ZenonT(60) DEF Sock
<1> QED BY <1>1, <1>2

LEMMA SegmentKeeps ==
    ASSUME TcpInv, NEW h \in Host, SegmentArrives(h)
    PROVE  TcpInv'
<1>1. PICK s, d : s = sock[h] /\ d = sent[h]
  OBVIOUS
<1>2. /\ HostInv(h, s, d, pc[h]) /\ net[h] \subseteq SegOf(Peer(h)) /\ backlog \in Backlogs
  BY <1>1 DEF TcpInv
<1>3. /\ Good(h, s, d) /\ d \in DataOf(h) /\ s.out = {} /\ s \in Sock(h) /\ Call(h, s, d, pc[h])
  BY <1>2 DEF HostInv, Good
<1>4. PICK n \in net[h], up \in Up, more \in BOOLEAN :
         IF s.state \in {"NONE", "CLOSED"} THEN Backlog(h, n)
         ELSE /\ s.state = "LISTEN" => (s.tx_nxt - Isn[h]) % SeqSpace < Syns
              /\ Becomes(h, NutTcpStateProcess(s, n, Isn[h], up, more))
              /\ UNCHANGED backlog
  BY <1>1 DEF SegmentArrives
<1>5. n \in SegOf(Peer(h)) /\ n \in Segments /\ up \in BOOLEAN
  BY <1>2 DEF SegOf, Up
<1>6. UNCHANGED <<pc, sent>>
  BY DEF SegmentArrives
<1>7. CASE s.state \in {"NONE", "CLOSED"}
  <2>1. Backlog(h, n)
    BY <1>4, <1>7
  <2>2. backlog' \in Backlogs
    <3>1. PICK b1, b2 : b1 = [syn |-> <<n>>, time |-> 0] /\ b2 = NoSyn
      OBVIOUS
    <3>2. b1 \in [syn: Seq(Segments), time: Nat] /\ b2 \in [syn: Seq(Segments), time: Nat]
      <4>1. <<n>> \in Seq(Segments) /\ <<>> \in Seq(Segments)
        BY <1>5
      <4> QED BY <3>1, <4>1 DEF NoSyn
    <3>3. backlog' \in {[backlog EXCEPT ![h] = b1], [backlog EXCEPT ![h] = b2], backlog}
      BY <2>1, <3>1 DEF Backlog
    <3> QED BY <1>2, <3>2, <3>3 DEF Backlogs
  <2>3. PICK t : Becomes(h, t) /\ (t = s \/ t = Reject(s, n))
    BY <1>1, <2>1 DEF Backlog
  <2>4. Handled(h, t, s, d)
    BY <1>3, <1>5, <2>3, SameHandled, RejectHandled
  <2>5. [t EXCEPT !.out = {}] = s
    BY <1>3, <1>5, <2>3, OnlyOut
  <2> QED BY <1>1, <1>6, <2>2, <2>3, <2>4, <2>5, MachineKeeps
<1>8. CASE s.state \notin {"NONE", "CLOSED"}
  <2>1. PICK t : t = NutTcpStateProcess(s, n, Isn[h], up, more)
    OBVIOUS
  <2>2. Becomes(h, t) /\ (s.state = "LISTEN" => Pos(h, s.tx_nxt) < Syns) /\ UNCHANGED backlog
    BY <1>4, <1>8, <2>1 DEF Pos
  <2>3. Handled(h, t, s, d)
    BY <1>3, <1>5, <1>8, <2>1, <2>2, ProcessHandled
  <2>4. pc[h] # "start"
    <3>1. s = NutTcpCreateSocket(h) => s.state = "CLOSED"
      BY NewSocket
    <3> QED BY <1>3, <1>8, <3>1 DEF Call
  <2>5. backlog' \in Backlogs
    BY <1>2, <2>2
  <2> QED BY <1>1, <1>6, <2>2, <2>3, <2>4, <2>5, MachineKeeps
<1> QED BY <1>7, <1>8

LEMMA TimersKeeps ==
    ASSUME TcpInv, NEW h \in Host, NEW expired \in BOOLEAN, Timers(h, expired)
    PROVE  TcpInv'
<1>1. PICK s, d, b : s = sock[h] /\ d = sent[h] /\ b = backlog[h]
  OBVIOUS
<1>2. /\ HostInv(h, s, d, pc[h]) /\ backlog \in Backlogs /\ b \in [syn: Seq(Segments), time: Nat]
  BY <1>1 DEF TcpInv, Backlogs
<1>3. /\ Good(h, s, d) /\ d \in DataOf(h) /\ s.out = {} /\ s \in Sock(h) /\ Call(h, s, d, pc[h])
  BY <1>2 DEF HostInv, Good
<1>4. PICK old : old = (b.syn # <<>> /\ b.time >= BacklogTime)
  OBVIOUS
<1>5. PICK r : r = IF old THEN Reject(s, Head(b.syn)) ELSE s
  OBVIOUS
<1>6. PICK up \in Up : Becomes(h, WaitTimers(Retransmit(LateAck(r), expired, up)))
  BY <1>1, <1>4, <1>5 DEF Timers
<1>7. PICK t : t = WaitTimers(Retransmit(LateAck(r), expired, up))
  OBVIOUS
<1>8. UNCHANGED <<pc, sent>>
  BY DEF Timers
<1>9. backlog' \in Backlogs
  <2>1. backlog' = IF old THEN [backlog EXCEPT ![h] = NoSyn]
                   ELSE IF b.syn # <<>> THEN [backlog EXCEPT ![h].time = @ + 1] ELSE backlog
    BY <1>1, <1>4 DEF Timers
  <2>2. PICK b1, b2 : b1 = NoSyn /\ b2 = [b EXCEPT !.time = @ + 1]
    OBVIOUS
  <2>3. b1 \in [syn: Seq(Segments), time: Nat] /\ b2 \in [syn: Seq(Segments), time: Nat]
    <3>1. <<>> \in Seq(Segments)
      BY EmptySeq
    <3> QED BY <1>2, <2>2, <3>1 DEF NoSyn
  <2>4. backlog' \in {[backlog EXCEPT ![h] = b1], [backlog EXCEPT ![h] = b2], backlog}
    BY <1>1, <2>1, <2>2
  <2> QED BY <1>2, <2>3, <2>4 DEF Backlogs
<1>10. r = s \/ \E n \in Segments : r = Reject(s, n)
  <2>1. b.syn # <<>> => Head(b.syn) \in Segments
    BY <1>2, HeadTailProperties
  <2> QED BY <1>4, <1>5, <2>1
<1>11. Handled(h, r, s, d)
  BY <1>3, <1>10, SameHandled, RejectHandled
<1>12. Handled(h, t, r, d)
  <2>1. up \in BOOLEAN /\ Good(h, r, d)
    BY <1>11 DEF Up, Handled
  <2> QED BY <1>3, <1>7, <2>1, RoundHandled
<1>13. Handled(h, t, s, d)
  BY <1>11, <1>12, HandledTrans
<1>14. pc[h] = "start" => [t EXCEPT !.out = {}] = s
  <2>1. SUFFICES ASSUME pc[h] = "start" PROVE [t EXCEPT !.out = {}] = s
    OBVIOUS
  <2>2. s = NutTcpCreateSocket(h)
    BY <1>3, <2>1 DEF Call
  <2>3. s.state = "CLOSED" /\ s.tx_flags = {} /\ s.tx_nbq = <<>>
    BY <2>2, NewSocket
  <2>4. [r EXCEPT !.out = {}] = s /\ r.state = "CLOSED" /\ r.tx_flags = {} /\ r.tx_nbq = <<>>
    <3>1. PICK n \in Segments : r = s \/ r = Reject(s, n)
      <4>1. CASE r = s
        <5>1. [seq |-> 0, ack |-> 0, flags |-> {}, win |-> 0, len |-> 0] \in Segments
          BY SizeFacts DEF Segments
        <5> QED BY <4>1, <5>1
      <4> QED BY <1>10, <4>1
    <3> QED BY <1>3, <2>3, <3>1, OnlyOut
  <2>5. LateAck(r) = r
    BY <2>4 DEF LateAck
  <2>6. Retransmit(r, expired, up) = r
    BY <2>4 DEF Retransmit
  <2>7. WaitTimers(r) = r
    BY <2>4 DEF WaitTimers
  <2> QED BY <1>7, <2>4, <2>5, <2>6, <2>7
<1> QED BY <1>1, <1>6, <1>7, <1>8, <1>9, <1>13, <1>14, MachineKeeps

(* A call goes on or returns, and nothing else changes.                     *)
LEMMA CallKeeps ==
    ASSUME TcpInv, NEW h \in Host, UNCHANGED <<sock, backlog, net, sent>>,
           sock[h].wait = "none", pc' = [pc EXCEPT ![h] = "run"]
    PROVE  TcpInv'
<1>1. pc' \in [Host -> Progress] /\ pc'[h] = "run" /\ \A g \in Host \ {h} : pc'[g] = pc[g]
  BY DEF TcpInv, Progress
<1>2. ASSUME NEW g \in Host
      PROVE  HostInv(g, sock[g], sent[g], pc'[g])
  <2>1. HostInv(g, sock[g], sent[g], pc[g])
    BY DEF TcpInv
  <2>2. CASE g = h
    BY <1>1, <2>1, <2>2 DEF HostInv, Call
  <2>3. CASE g # h
    BY <1>1, <2>1, <2>3
  <2> QED BY <2>2, <2>3
<1> QED BY <1>1, <1>2 DEF TcpInv

LEMMA ConnectKeeps ==
    ASSUME TcpInv, NEW h \in Host, NutTcpConnect(h)
    PROVE  TcpInv'
<1>1. /\ sock[h] = NutTcpCreateSocket(h) /\ sent[h] = <<>> /\ h = Client /\ backlog \in Backlogs
      /\ sent \in [Host -> Seq(Num)]
  BY DEF NutTcpConnect, TcpInv, HostInv, Call
<1>2. PICK s : s = NutTcpStateChange(NutTcpCreateSocket(h), "SYN_SENT")
  OBVIOUS
<1>3. PICK up \in Up : Becomes(h, Wait(IF up THEN s ELSE Post([s EXCEPT !.out = {}], "ac_tq"), "ac_tq"))
  BY <1>1, <1>2 DEF NutTcpConnect
<1>4. PICK t : t = Wait(IF up THEN s ELSE Post([s EXCEPT !.out = {}], "ac_tq"), "ac_tq")
  OBVIOUS
<1>5. Good(h, t, <<>>)
  <2>1. up \in BOOLEAN
    BY DEF Up
  <2> QED BY <1>1, <1>2, <1>4, <2>1, ConnectGood
<1>6. <<>> \in DataOf(h) /\ "connect" \in Progress /\ Call(h, [t EXCEPT !.out = {}], <<>>, "connect")
  BY SeqAssumption, EmptySeq DEF DataOf, Progress, Call
<1>7. sent' = [sent EXCEPT ![h] = <<>>] /\ pc' = [pc EXCEPT ![h] = "connect"] /\ backlog' \in Backlogs
  BY <1>1 DEF NutTcpConnect
<1> QED BY <1>3, <1>4, <1>5, <1>6, <1>7, StepKeeps

LEMMA AcceptKeeps ==
    ASSUME TcpInv, NEW h \in Host, NutTcpAccept(h)
    PROVE  TcpInv'
<1>1. /\ sock[h] = NutTcpCreateSocket(h) /\ sent[h] = <<>> /\ h = Server /\ backlog \in Backlogs
      /\ sent \in [Host -> Seq(Num)]
  BY DEF NutTcpAccept, TcpInv, HostInv, Call
<1>2. PICK s : s = NutTcpStateChange(NutTcpCreateSocket(h), "LISTEN")
  OBVIOUS
<1>3. Good(h, s, <<>>) /\ s.state = "LISTEN" /\ s.wait = "none" /\ Pos(h, s.tx_nxt) < Syns
  BY <1>1, <1>2, ListenGood
<1>4. <<>> \in DataOf(h) /\ {"accept", "run"} \subseteq Progress
  BY SeqAssumption, EmptySeq DEF DataOf, Progress
<1>5. sent' = [sent EXCEPT ![h] = <<>>]
  BY <1>1 DEF NutTcpAccept
<1>6. CASE backlog[h].syn # <<>>
  <2>1. PICK n : n = Head(backlog[h].syn)
    OBVIOUS
  <2>2. n \in Segments
    <3>1. backlog[h].syn \in Seq(Segments)
      BY <1>1 DEF Backlogs
    <3> QED BY <1>6, <2>1, <3>1, HeadTailProperties
  <2>3. PICK t : t = NutTcpStateProcess(s, n, Isn[h], TRUE, FALSE)
    OBVIOUS
  <2>4. Becomes(h, t) /\ backlog' = [backlog EXCEPT ![h] = NoSyn] /\ pc' = [pc EXCEPT ![h] = "run"]
    BY <1>1, <1>2, <1>6, <2>1, <2>3 DEF NutTcpAccept, Returns
  <2>5. t = NutTcpStateListen(s, n)
    BY <1>3, <2>3 DEF NutTcpStateProcess
  <2>6. Handled(h, t, s, <<>>)
    BY <1>3, <1>4, <2>2, <2>5, ListenHandled
  <2>7. Good(h, t, <<>>) /\ t.wait = "none"
    BY <1>3, <2>6 DEF Handled
  <2>8. Call(h, [t EXCEPT !.out = {}], <<>>, "run")
    BY <2>7, Emptied DEF Call
  <2>9. backlog' \in Backlogs
    <3>1. NoSyn \in [syn: Seq(Segments), time: Nat]
      BY EmptySeq DEF NoSyn
    <3> QED BY <1>1, <2>4, <3>1 DEF Backlogs
  <2> QED BY <1>4, <1>5, <2>4, <2>7, <2>8, <2>9, StepKeeps
<1>7. CASE backlog[h].syn = <<>>
  <2>1. PICK t : t = Wait(s, "pc_tq")
    OBVIOUS
  <2>2. Becomes(h, t) /\ UNCHANGED backlog /\ pc' = [pc EXCEPT ![h] = "accept"]
    BY <1>1, <1>2, <1>7, <2>1 DEF NutTcpAccept
  <2>3. Good(h, t, <<>>)
    <3>1. "pc_tq" \in Sleeps(h)
      BY <1>1, HostAssumption DEF Sleeps
    <3> QED BY <1>3, <2>1, <3>1, WaitGood
  <2>4. Call(h, [t EXCEPT !.out = {}], <<>>, "accept") /\ backlog' \in Backlogs
    BY <1>1, <2>2 DEF Call
  <2> QED BY <1>4, <1>5, <2>2, <2>3, <2>4, StepKeeps
<1> QED BY <1>6, <1>7

(* The wait ends with its timeout.                                          *)
LEMMA SleepEnds ==
    ASSUME NEW h \in Host, NEW s, NEW d, Good(h, s, d), NEW t, t = [s EXCEPT !.wait = "none"]
    PROVE  Good(h, t, d) /\ t.wait = "none"
<1>1. s \in Sock(h) /\ Counted(s) /\ Tx(h, s, d) /\ Unfinished(s)
  BY DEF Good
<1>2. t \in Sock(h)
  BY <1>1 DEF Sock
<1>3. t.state = s.state /\ SameTx(t, s) /\ SameRx(t, s) /\ t.wait = "none"
  BY <1>1 DEF Sock, SameTx, SameRx
<1>4. Tx(h, t, d)
  BY <1>1, <1>3, TxSame
<1>5. Unfinished(t) /\ Counted(t)
  BY <1>1, <1>3 DEF Unfinished, Counted, SameTx, SameRx
<1> QED BY <1>2, <1>3, <1>4, <1>5 DEF Good, Told

(* The socket changes, the application's data does not.                     *)
LEMMA SocketKeeps ==
    ASSUME TcpInv, NEW h \in Host, NEW t, Good(h, t, sent[h]), Becomes(h, t), NEW p \in Progress \ {"start", "send"},
           p = "run" => t.wait = "none", pc' = [pc EXCEPT ![h] = p], UNCHANGED <<backlog, sent>>
    PROVE  TcpInv'
<1>1. PICK d : d = sent[h]
  OBVIOUS
<1>2. d \in DataOf(h) /\ backlog' \in Backlogs /\ sent' = [sent EXCEPT ![h] = d]
  BY <1>1 DEF TcpInv, HostInv
<1>3. Call(h, [t EXCEPT !.out = {}], d, p)
  BY <1>1, Emptied DEF Call
<1> QED BY <1>1, <1>2, <1>3, StepKeeps

LEMMA TimeoutsKeep ==
    ASSUME TcpInv, NEW h \in Host, AcceptTimeout(h) \/ WaitTimeout(h)
    PROVE  TcpInv'
<1>1. PICK s : s = sock[h]
  OBVIOUS
<1>2. Good(h, s, sent[h])
  BY <1>1 DEF TcpInv, HostInv
<1>3. "run" \in Progress \ {"start", "send"} /\ pc' = [pc EXCEPT ![h] = "run"] /\ UNCHANGED <<backlog, sent>>
  BY DEF AcceptTimeout, WaitTimeout, Returns, Progress
<1>4. CASE AcceptTimeout(h)
  <2>1. PICK t : t = [s EXCEPT !.wait = "none", !.state = "CLOSED"]
    OBVIOUS
  <2>2. Becomes(h, t)
    BY <1>1, <1>4, <2>1 DEF AcceptTimeout
  <2>3. s \in Sock(h) /\ Counted(s) /\ "CLOSED" \in States(h)
    BY <1>2 DEF Good, States
  <2>4. t \in Sock(h)
    <3>1. PICK X \in States(h) : X = "CLOSED"
      BY <2>3
    <3>2. t = [s EXCEPT !.wait = "none", !.state = X]
      BY <2>1, <3>1
    <3> QED BY <2>3, <3>2 DEF Sock
  <2>5. /\ t.state = "CLOSED" /\ t.wait = "none"
        /\ t.rx_buf = s.rx_buf /\ t.rx_cnt = s.rx_cnt /\ t.rx_nbq = s.rx_nbq /\ t.adv = s.adv
    BY <2>1, <2>3 DEF Sock
  <2>6. Dead(h, t)
    BY <2>3, <2>4, <2>5 DEF Dead, Counted
  <2>7. Good(h, t, sent[h])
    BY <2>6, DeadHandled DEF Handled
  <2> QED BY <1>3, <2>2, <2>5, <2>7, SocketKeeps
<1>5. CASE WaitTimeout(h)
  <2>1. PICK t : t = [s EXCEPT !.wait = "none"]
    OBVIOUS
  <2>2. Becomes(h, t)
    BY <1>1, <1>5, <2>1 DEF WaitTimeout
  <2>3. Good(h, t, sent[h]) /\ t.wait = "none"
    BY <1>2, <2>1, SleepEnds
  <2> QED BY <1>3, <2>2, <2>3, SocketKeeps
<1> QED BY <1>4, <1>5

LEMMA SendKeeps ==
    ASSUME TcpInv, NEW h \in Host, NutTcpSend(h)
    PROVE  TcpInv'
<1>1. PICK s, d : s = sock[h] /\ d = sent[h]
  OBVIOUS
<1>2. /\ Good(h, s, d) /\ d \in DataOf(h) /\ Call(h, s, d, pc[h]) /\ backlog \in Backlogs
      /\ sent \in [Host -> Seq(Num)]
  BY <1>1 DEF TcpInv, HostInv
<1>3. s.wait = "none" /\ Len(d) < Data[h]
  BY <1>1, <1>2 DEF NutTcpSend, Awake, Call
<1>4. UNCHANGED backlog
  BY DEF NutTcpSend
<1>5. CASE s.state # "ESTABLISHED"
  <2>1. UNCHANGED <<sock, backlog, net, sent>> /\ pc' = [pc EXCEPT ![h] = "run"]
    BY <1>1, <1>4, <1>5 DEF NutTcpSend, Returns
  <2> QED BY <1>1, <1>3, <2>1, CallKeeps
<1>6. CASE s.state = "ESTABLISHED" /\ MaySend(s)
  <2>1. PICK t, e : t = NutTcpOutput([s EXCEPT !.tx_flags = @ \cup {"ACK"}], 1) /\ e = Append(d, s.tx_nxt)
    OBVIOUS
  <2>2. Becomes(h, t) /\ sent' = [sent EXCEPT ![h] = e] /\ pc' = [pc EXCEPT ![h] = "run"]
    BY <1>1, <1>6, <2>1 DEF NutTcpSend, Returns
  <2>3. Good(h, t, e) /\ t.wait = "none" /\ e \in DataOf(h)
    BY <1>2, <1>3, <1>6, <2>1, SendGood
  <2>4. Call(h, [t EXCEPT !.out = {}], e, "run") /\ "run" \in Progress /\ backlog' \in Backlogs
    BY <1>2, <1>4, <2>3, Emptied DEF Call, Progress
  <2> QED BY <2>2, <2>3, <2>4, StepKeeps
<1>7. CASE s.state = "ESTABLISHED" /\ ~MaySend(s)
  <2>1. PICK t : t = Wait(s, "tx_tq")
    OBVIOUS
  <2>2. Becomes(h, t) /\ UNCHANGED sent /\ pc' = [pc EXCEPT ![h] = "send"]
    BY <1>1, <1>7, <2>1 DEF NutTcpSend
  <2>3. Good(h, t, d)
    <3>1. "tx_tq" \in Sleeps(h) /\ ~HasRoom(s)
      BY <1>2, <1>7, RoomFacts DEF Sleeps, Good
    <3> QED BY <1>2, <1>3, <1>7, <2>1, <3>1, WaitGood
  <2>4. Call(h, [t EXCEPT !.out = {}], d, "send") /\ "send" \in Progress /\ backlog' \in Backlogs
    BY <1>2, <1>3, <1>4 DEF Call, Progress
  <2>5. sent' = [sent EXCEPT ![h] = d]
    BY <1>1, <1>2, <2>2
  <2> QED BY <1>2, <2>2, <2>3, <2>4, <2>5, StepKeeps
<1> QED BY <1>5, <1>6, <1>7

LEMMA ReceiveKeeps ==
    ASSUME TcpInv, NEW h \in Host, NutTcpReceive(h)
    PROVE  TcpInv'
<1>1. PICK s, d : s = sock[h] /\ d = sent[h]
  OBVIOUS
<1>2. Good(h, s, d) /\ s \in Sock(h) /\ Counted(s) /\ Call(h, s, d, pc[h])
  BY <1>1 DEF TcpInv, HostInv, Good
<1>3. s.wait = "none"
  BY <1>1, <1>2 DEF NutTcpReceive, Awake, Call
<1>4. UNCHANGED <<backlog, sent>> /\ {"run", "receive"} \subseteq Progress \ {"start", "send"}
  BY DEF NutTcpReceive, Progress
<1>5. CASE UNCHANGED <<sock, net>> /\ Returns(h)
  BY <1>1, <1>3, <1>4, <1>5, CallKeeps DEF Returns
<1>6. CASE /\ s.rx_cnt = 0 /\ s.state = "ESTABLISHED"
           /\ pc' = [pc EXCEPT ![h] = "receive"] /\ Becomes(h, Wait(s, "rx_tq"))
  <2>1. Good(h, Wait(s, "rx_tq"), d)
    BY <1>2, <1>3, <1>6, WaitGood DEF Sleeps
  <2> QED BY <1>1, <1>4, <1>6, <2>1, SocketKeeps
<1>7. CASE \E n \in 1..Len(s.rx_buf) : Becomes(h, Taken(s, n)) /\ Returns(h)
  <2>1. PICK n \in 1..Len(s.rx_buf) : Becomes(h, Taken(s, n)) /\ Returns(h)
    BY <1>7
  <2>2. PICK t : t = Taken(s, n)
    OBVIOUS
  <2>3. RxStep(h, t, s)
    BY <1>2, <2>2, TakenStep
  <2>4. Good(h, t, d) /\ t.wait = "none"
    BY <1>2, <1>3, <2>3, PlainHandled DEF Handled
  <2>5. Becomes(h, t) /\ pc' = [pc EXCEPT ![h] = "run"]
    BY <2>1, <2>2 DEF Returns
  <2> QED BY <1>1, <1>4, <2>4, <2>5, SocketKeeps
<1> QED BY <1>1, <1>5, <1>6, <1>7 DEF NutTcpReceive

LEMMA CloseKeeps ==
    ASSUME TcpInv, NEW h \in Host, NutTcpCloseSocket(h)
    PROVE  TcpInv'
<1>1. PICK s, d : s = sock[h] /\ d = sent[h]
  OBVIOUS
<1>2. Good(h, s, d) /\ d \in DataOf(h) /\ s.wait = "none"
  BY <1>1 DEF TcpInv, HostInv, Call, NutTcpCloseSocket
<1>3. PICK t : t = CASE s.state \in {"LISTEN", "SYN_SENT", "CLOSED"} -> NutTcpDestroySocket(s)
                     [] s.state \in {"SYN_RECEIVED", "ESTABLISHED"} -> NutTcpStateChange(s, "FIN_WAIT_1")
                     [] s.state = "CLOSE_WAIT" -> NutTcpStateChange(s, "LAST_ACK")
                     [] OTHER -> s
  OBVIOUS
<1>4. Becomes(h, t) /\ pc' = [pc EXCEPT ![h] = "closed"] /\ UNCHANGED <<backlog, sent>>
  BY <1>1, <1>3 DEF NutTcpCloseSocket
<1>5. Good(h, t, d)
  BY <1>2, <1>3, CloseGood
<1>6. "closed" \in Progress \ {"start", "send"}
  BY DEF Progress
<1> QED BY <1>1, <1>4, <1>5, <1>6, SocketKeeps

LEMMA TcpStep == TcpInv /\ [Next]_vars => TcpInv'
<1>1. SUFFICES ASSUME TcpInv, [Next]_vars PROVE TcpInv'
  OBVIOUS
<1>2. CASE UNCHANGED vars
  BY <1>1, <1>2 DEF vars, TcpInv
<1>3. ASSUME NEW h \in Host, SegmentArrives(h) PROVE TcpInv'
  BY <1>1, <1>3, SegmentKeeps
<1>4. ASSUME NEW h \in Host, NEW expired \in BOOLEAN, Timers(h, expired) PROVE TcpInv'
  BY <1>1, <1>4, TimersKeeps
<1>5. ASSUME NEW h \in Host, NutTcpConnect(h) PROVE TcpInv'
  BY <1>1, <1>5, ConnectKeeps
<1>6. ASSUME NEW h \in Host, NutTcpAccept(h) PROVE TcpInv'
  BY <1>1, <1>6, AcceptKeeps
<1>7. ASSUME NEW h \in Host, OpenReturns(h) PROVE TcpInv'
  <2>1. UNCHANGED <<sock, backlog, net, sent>> /\ sock[h].wait = "none" /\ pc' = [pc EXCEPT ![h] = "run"]
    BY <1>7 DEF OpenReturns, Awake, Returns
  <2> QED BY <1>1, <2>1, CallKeeps
<1>8. ASSUME NEW h \in Host, AcceptTimeout(h) \/ WaitTimeout(h) PROVE TcpInv'
  BY <1>1, <1>8, TimeoutsKeep
<1>9. ASSUME NEW h \in Host, NutTcpSend(h) PROVE TcpInv'
  BY <1>1, <1>9, SendKeeps
<1>10. ASSUME NEW h \in Host, NutTcpReceive(h) PROVE TcpInv'
  BY <1>1, <1>10, ReceiveKeeps
<1>11. ASSUME NEW h \in Host, NutTcpCloseSocket(h) PROVE TcpInv'
  BY <1>1, <1>11, CloseKeeps
<1> QED BY <1>1, <1>2, <1>3, <1>4, <1>5, <1>6, <1>7, <1>8, <1>9, <1>10, <1>11 DEF Next, Application

-----------------------------------------------------------------------------
(* Theorems.                                                                *)

(* TcpInv holds in every state that the two hosts can reach.                *)
THEOREM TcpInvariant == Spec => []TcpInv
<1>1. Init => TcpInv
  BY InitInv
<1>2. TcpInv /\ [Next]_vars => TcpInv'
  BY TcpStep
<1> QED BY <1>1, <1>2, PTL DEF Spec

LEMMA InvTyped == TcpInv => TypeOK
<1>1. SUFFICES ASSUME TcpInv PROVE TypeOK
  OBVIOUS
<1>2. ASSUME NEW h \in Host
      PROVE  LET s == sock[h]
             IN  /\ s.state \in {"NONE", "CLOSED", "LISTEN", "SYN_SENT", "SYN_RECEIVED", "ESTABLISHED",
                                 "FIN_WAIT_1", "FIN_WAIT_2", "CLOSE_WAIT", "CLOSING", "LAST_ACK", "TIME_WAIT"}
                 /\ s.tx_flags \subseteq {"SYN", "ACK", "FIN", "FORCE"}
                 /\ {s.tx_una, s.tx_nxt, s.rx_isn, s.rx_nxt, s.tx_wl1, s.tx_wl2} \subseteq 0..(SeqSpace - 1)
                 /\ s.rx_win \in 0..WinSize /\ s.tx_win \in 0..WinSize /\ s.tx_dup \in 0..2
                 /\ \A q \in {s.tx_nbq, s.rx_buf, s.rx_nbq} : \A i \in DOMAIN q : q[i] \in Segments
                 /\ s.rx_cnt \in Nat /\ s.retransmits \in Nat /\ s.time_wait \in Nat /\ s.adv \in Nat
                 /\ s.wait \in {"none", "rx_tq", "tx_tq", "pc_tq", "ac_tq"}
                 /\ s.out = {}
  <2>1. PICK s : s = sock[h]
    OBVIOUS
  <2>2. s \in Sock(h) /\ s.out = {}
    BY <1>1, <2>1 DEF TcpInv, HostInv, Good
  <2>3. s.state \in {"NONE", "CLOSED", "LISTEN", "SYN_SENT", "SYN_RECEIVED", "ESTABLISHED",
                     "FIN_WAIT_1", "FIN_WAIT_2", "CLOSE_WAIT", "CLOSING", "LAST_ACK", "TIME_WAIT"}
    BY <2>2 DEF Sock, States, Synchronized
  <2>4. s.wait \in {"none", "rx_tq", "tx_tq", "pc_tq", "ac_tq"}
    BY <2>2 DEF Sock, Sleeps
  <2>5. \A q \in {s.tx_nbq, s.rx_buf, s.rx_nbq} : \A i \in DOMAIN q : q[i] \in Segments
    <3>1. s.tx_nbq \in Seq(Segments) /\ s.rx_buf \in Seq(Segments) /\ s.rx_nbq \in Seq(Segments)
      <4>1. s.tx_nbq \in Seq(SegOf(h)) /\ s.rx_buf \in Seq(Segments) /\ s.rx_nbq \in Seq(Segments)
        BY <2>2 DEF Sock
      <4>2. SegOf(h) \subseteq Segments
        BY DEF SegOf
      <4> QED BY <4>1, <4>2, SeqMonotonic
    <3> QED BY <3>1, ElementOfSeq, LenProperties
  <2>6. /\ s.tx_flags \subseteq {"SYN", "ACK", "FIN", "FORCE"}
        /\ {s.tx_una, s.tx_nxt, s.rx_isn, s.rx_nxt, s.tx_wl1, s.tx_wl2} \subseteq 0..(SeqSpace - 1)
        /\ s.rx_win \in 0..WinSize /\ s.tx_win \in 0..WinSize /\ s.tx_dup \in 0..2
        /\ s.rx_cnt \in Nat /\ s.retransmits \in Nat /\ s.time_wait \in Nat /\ s.adv \in Nat
    BY <2>2 DEF Sock, Num
  <2> QED BY <2>1, <2>2, <2>3, <2>4, <2>5, <2>6
<1>3. /\ \A h \in Host : net[h] \subseteq Segments
      /\ pc \in [Host -> {"start", "connect", "accept", "run", "send", "receive", "closed"}]
  BY <1>1 DEF TcpInv, Progress
<1> QED BY <1>2, <1>3 DEF TypeOK

LEMMA InvTold == TcpInv => NobodyForgotten
BY DEF TcpInv, HostInv, Good, Told, NobodyForgotten

(* What the invariant says of the sending side is what Retransmittable asks.*)
LEMMA TxRetransmits ==
    ASSUME NEW h \in Host, NEW s \in Sock(h), NEW d \in DataOf(h), Tx(h, s, d), Unfinished(s), s.state \in Synchronized
    PROVE  LET q == s.tx_nbq
           IN  /\ {q[i].seq : i \in {j \in DOMAIN q : q[j].len > 0}}
                    = {x \in ToSet(d) : ~SeqIsAfter(s.tx_una, x)}
               /\ \A i, j \in DOMAIN q : i < j => SeqIsAfter(q[j].seq, q[i].seq)
               /\ s.state \in {"FIN_WAIT_1", "CLOSING", "LAST_ACK"} => s.tx_nbq # <<>>
               /\ s.tx_nbq # <<>> => s.retran
<1>1. PICK q, m, U, N : q = s.tx_nbq /\ m = Len(q) /\ U = Pos(h, s.tx_una) /\ N = Pos(h, s.tx_nxt)
  OBVIOUS
<1>2. /\ s.tx_una \in Num /\ s.tx_nxt \in Num /\ d \in Seq(Num) /\ q \in Seq(Segments)
      /\ m \in Nat /\ DOMAIN q = 1..m /\ DOMAIN d = 1..Len(d) /\ Len(d) \in Nat
  <2>1. s.tx_una \in Num /\ s.tx_nxt \in Num /\ d \in Seq(Num) /\ s.tx_nbq \in Seq(SegOf(h))
    BY DEF Sock, DataOf
  <2>2. SegOf(h) \subseteq Segments
    BY DEF SegOf
  <2>3. q \in Seq(Segments)
    BY <1>1, <2>1, <2>2, SeqMonotonic
  <2> QED BY <1>1, <2>1, <2>3, LenProperties
<1>3. /\ Line(h, s.tx_una, s.tx_nxt, q, d) /\ Pos(h, s.tx_nxt) <= Limit(s.state, Len(d))
      /\ (q # <<>> => s.retran) /\ (q = <<>> => s.tx_una = s.tx_nxt)
  BY <1>1 DEF Tx, Live, Synchronized
<1>4. U \in Nat /\ N \in Nat /\ U + m <= N /\ N < Half
  <2>1. Limit(s.state, Len(d)) \in Nat /\ Limit(s.state, Len(d)) < Half
    BY LimitFacts
  <2>2. U \in Nat /\ N \in Nat /\ U + m <= N
    BY <1>1, <1>2, <1>3, PosNat DEF Line, Ordered
  <2> QED BY <1>1, <1>3, <2>1, <2>2, HalfFacts
<1>5. ASSUME NEW j \in 1..m
      PROVE  q[j].seq \in Num /\ q[j].len \in {0, 1} /\ Pos(h, q[j].seq) = N - m + j - 1
  <2>1. q[j] \in Segments
    BY <1>1, <1>2, ElementOfSeq
  <2> QED BY <1>1, <1>3, <2>1, SMTT(45) DEF Segments, Num, Line, Ordered
<1>6. \A i, j \in DOMAIN q : i < j => SeqIsAfter(q[j].seq, q[i].seq)
  <2>1. SUFFICES ASSUME NEW i \in 1..m, NEW j \in 1..m, i < j PROVE SeqIsAfter(q[j].seq, q[i].seq)
    BY <1>2
  <2>2. /\ q[i].seq \in Num /\ q[j].seq \in Num /\ Pos(h, q[i].seq) = N - m + i - 1 /\ Pos(h, q[j].seq) = N - m + j - 1
    BY <1>5
  <2>3. Pos(h, q[i].seq) < Half /\ Pos(h, q[j].seq) < Half /\ Pos(h, q[j].seq) > Pos(h, q[i].seq)
    BY <1>2, <1>4, <2>1, <2>2, HalfFacts
  <2> QED BY <2>2, <2>3, AfterFacts
<1>7. ASSUME NEW x \in Num, NEW k \in 1..Len(d), d[k] = x
      PROVE  ~SeqIsAfter(s.tx_una, x) <=> Pos(h, x) >= U
  <2>1. Pos(h, x) < N /\ Pos(h, x) \in Nat
    BY <1>1, <1>3, <1>7, PosNat DEF Line
  <2>2. Pos(h, s.tx_una) < Half /\ Pos(h, x) < Half
    BY <1>1, <1>2, <1>4, <2>1, HalfFacts
  <2>3. SeqIsAfter(s.tx_una, x) <=> Pos(h, s.tx_una) > Pos(h, x)
    BY <1>2, <2>2, AfterFacts
  <2> QED BY <1>1, <1>4, <2>1, <2>3
<1>8. ASSUME NEW x
      PROVE  (\E i \in DOMAIN q : q[i].len > 0 /\ q[i].seq = x) <=> (x \in ToSet(d) /\ ~SeqIsAfter(s.tx_una, x))
  <2>1. (\E i \in DOMAIN q : q[i].len > 0 /\ q[i].seq = x) <=> (x \in Num /\ \E i \in 1..m : q[i].seq = x /\ q[i].len = 1)
    <3>1. DOMAIN q = 1..m
      BY <1>2
    <3>2. \A j \in 1..m : q[j].seq \in Num /\ (q[j].len > 0 <=> q[j].len = 1)
      <4>1. SUFFICES ASSUME NEW j \in 1..m PROVE q[j].seq \in Num /\ (q[j].len > 0 <=> q[j].len = 1)
        OBVIOUS
      <4>2. q[j].seq \in Num /\ q[j].len \in {0, 1}
        BY <1>5
      <4> QED BY <4>2
    <3> QED BY <3>1, <3>2, SMTT(45), ZenonT(60)
  <2>2. x \in ToSet(d) <=> (x \in Num /\ \E k \in 1..Len(d) : d[k] = x)
    BY <1>2, ElementOfSeq DEF ToSet
  <2>3. CASE x \in Num
    <3>1. (\E i \in 1..m : q[i].seq = x /\ q[i].len = 1) <=> (\E k \in 1..Len(d) : d[k] = x /\ Pos(h, x) >= U)
      BY <1>1, <1>3, <2>3 DEF Line, Holds
    <3> QED BY <1>7, <2>1, <2>2, <2>3, <3>1
  <2>4. CASE x \notin Num
    BY <2>1, <2>2, <2>4
  <2> QED BY <2>3, <2>4
<1>9. {q[i].seq : i \in {j \in DOMAIN q : q[j].len > 0}} = {x \in ToSet(d) : ~SeqIsAfter(s.tx_una, x)}
  BY <1>8
<1>10. s.state \in {"FIN_WAIT_1", "CLOSING", "LAST_ACK"} => q # <<>>
  BY <1>3 DEF Unfinished
<1> QED BY <1>1, <1>3, <1>6, <1>9, <1>10

LEMMA InvRetransmits == TcpInv => Retransmittable
<1>1. SUFFICES ASSUME TcpInv, NEW h \in Host, sock[h].state \in Synchronized
               PROVE  LET q == sock[h].tx_nbq
                      IN  /\ {q[i].seq : i \in {j \in DOMAIN q : q[j].len > 0}}
                               = {x \in ToSet(sent[h]) : ~SeqIsAfter(sock[h].tx_una, x)}
                          /\ \A i, j \in DOMAIN q : i < j => SeqIsAfter(q[j].seq, q[i].seq)
                          /\ sock[h].state \in {"FIN_WAIT_1", "CLOSING", "LAST_ACK"} => sock[h].tx_nbq # <<>>
                          /\ sock[h].tx_nbq # <<>> => sock[h].retran
  BY DEF Retransmittable
<1>2. /\ sock[h] \in Sock(h) /\ sent[h] \in DataOf(h) /\ Tx(h, sock[h], sent[h]) /\ Unfinished(sock[h])
  BY <1>1 DEF TcpInv, HostInv, Good
<1> QED BY <1>1, <1>2, TxRetransmits

(* Types, for every number of segments and any size of the window.          *)
THEOREM TcpTyped == Spec => []TypeOK
<1> QED BY TcpInvariant, InvTyped, PTL

(* NutTcpStateChange(), NutTcpAbortSocket() and NutTcpStateEstablished()    *)
(* wake whoever sleeps for what they bring about.                           *)
THEOREM NobodyIsForgotten == Spec => []NobodyForgotten
<1> QED BY TcpInvariant, InvTold, PTL

(* NutTcpOutput() queues whatever uses up sequence numbers, and             *)
(* NutTcpProcessAck() takes off what is acknowledged, no more.              *)
THEOREM UnackedIsKept == Spec => []Retransmittable
<1> QED BY TcpInvariant, InvRetransmits, PTL

-----------------------------------------------------------------------------
(* The two hosts.  First, what each step of a host says to the other and    *)
(* hears from it, layer by layer; then the steps for both hosts together.   *)

(* What a host says: the segments of a step and those kept to be sent again.*)

Outgoing(s) == s.out \cup {s.tx_nbq[i] : i \in 1..Len(s.tx_nbq)}

IsAck(n) == "ACK" \in n.flags /\ "RST" \notin n.flags

(* Up to where a segment that host h sends lets its peer go.                *)
Window(h, n) == Pos(Peer(h), n.ack) + n.win

Top == SeqSpace + WinSize

(* With an int of 16 bits a peer may send past any window: up to anywhere.  *)
Reach(h, s) == IF NarrowInt THEN Top ELSE Pos(Peer(h), s.rx_nxt) + s.rx_win

(* Up to where the first window goes, behind the SYN.                       *)
Opening == IF NarrowInt THEN Top ELSE 1 + WinSize

(* A segment of host h without data or SYN, with a window up to e.          *)
Plain(h, n, e) ==
    /\ n \in Segments /\ n.len = 0 /\ "SYN" \notin n.flags
    /\ IsAck(n) => Window(h, n) <= e

Sends(h, t, s, e) == \A n \in Outgoing(t) : n \in Outgoing(s) \/ Plain(h, n, e)

LEMMA TopFacts ==
    ASSUME NEW h \in Host
    PROVE  /\ Top \in Nat /\ Opening \in Nat /\ Opening <= Top /\ SeqSpace <= Top
           /\ \A n \in Segments : Window(h, n) \in Nat /\ Window(h, n) <= Top
           /\ \A s \in Sock(h) : Reach(h, s) \in Nat /\ Reach(h, s) <= Top
           /\ \A x \in Num : Pos(h, x) \in Nat /\ Pos(h, x) < SeqSpace
<1>1. SeqSpace \in Nat /\ SeqSpace > 0 /\ WinSize \in Nat /\ Peer(h) \in Host
  BY SizeFacts, PeerFacts
<1>2. \A g \in Host, x \in Num : Pos(g, x) \in Nat /\ Pos(g, x) < SeqSpace
  BY <1>1, PosFacts DEF Num
<1>3. ASSUME NEW x \in Num, NEW w \in 0..WinSize, NEW k, k = Pos(Peer(h), x) + w
      PROVE  k \in Nat /\ k <= Top
  <2>1. PICK y : y = Pos(Peer(h), x)
    OBVIOUS
  <2>2. y \in Nat /\ y < SeqSpace
    BY <1>1, <1>2, <2>1
  <2> QED BY <1>1, <1>3, <2>1, <2>2 DEF Top
<1>4. \A n \in Segments : Window(h, n) \in Nat /\ Window(h, n) <= Top
  <2>1. \A n \in Segments : n.ack \in Num /\ n.win \in 0..WinSize
    BY DEF Segments, Num
  <2> QED BY <1>3, <2>1 DEF Window
<1>5. \A s \in Sock(h) : Reach(h, s) \in Nat /\ Reach(h, s) <= Top
  <2>1. \A s \in Sock(h) : s.rx_nxt \in Num /\ s.rx_win \in 0..WinSize
    BY DEF Sock
  <2>2. Top \in Nat
    BY <1>1 DEF Top
  <2> QED BY <1>3, <2>1, <2>2 DEF Reach
<1>6. Top \in Nat /\ Opening \in Nat /\ Opening <= Top /\ SeqSpace <= Top
  BY <1>1 DEF Top, Opening
<1> QED BY <1>2, <1>4, <1>5, <1>6

(* The window of a segment is the receiver's, or is closed.                 *)
LEMMA WindowReach ==
    ASSUME NEW h \in Host, NEW s \in Sock(h), NEW n \in Segments, n.ack = s.rx_nxt, n.win \in {0, s.rx_win}
    PROVE  Window(h, n) <= Reach(h, s)
<1>1. PICK x : x = Pos(Peer(h), s.rx_nxt)
  OBVIOUS
<1>2. s.rx_nxt \in Num /\ s.rx_win \in Nat /\ Peer(h) \in Host
  BY PeerFacts, SizeFacts DEF Sock
<1>3. x \in Nat
  BY <1>1, <1>2, PosNat
<1>4. CASE NarrowInt
  BY <1>4, TopFacts DEF Reach
<1>5. CASE ~NarrowInt
  BY <1>1, <1>2, <1>3, <1>5 DEF Window, Reach
<1> QED BY <1>4, <1>5

LEMMA SendsFewer ==
    ASSUME NEW h, NEW s, NEW t, NEW e, Outgoing(t) \subseteq Outgoing(s)
    PROVE  Sends(h, t, s, e)
BY DEF Sends

LEMMA SendsTrans ==
    ASSUME NEW h, NEW s, NEW t, NEW u, NEW e, Sends(h, t, s, e), Sends(h, u, t, e)
    PROVE  Sends(h, u, s, e)
BY DEF Sends

LEMMA SendsMore ==
    ASSUME NEW h \in Host, NEW s, NEW t, NEW e \in Nat, NEW f \in Nat, e <= f, Sends(h, t, s, e)
    PROVE  Sends(h, t, s, f)
<1>1. \A n : Plain(h, n, e) => Plain(h, n, f)
  BY TopFacts DEF Plain
<1> QED BY <1>1 DEF Sends

(* The lists of segments are the same but for one that is sent.             *)
LEMMA SendsOne ==
    ASSUME NEW h, NEW s, NEW t, NEW e, NEW n, t.tx_nbq = s.tx_nbq, t.out = s.out \cup {n},
           n \in Outgoing(s) \/ Plain(h, n, e)
    PROVE  Sends(h, t, s, e)
BY DEF Sends, Outgoing

LEMMA SameOutgoing ==
    ASSUME NEW s, NEW t, t.tx_nbq = s.tx_nbq, t.out = s.out
    PROVE  Outgoing(t) = Outgoing(s)
BY DEF Outgoing

LEMMA PlainSends ==
    ASSUME NEW h \in Host, NEW s \in Sock(h), NEW t, t = NutTcpOutput(s, 0)
    PROVE  /\ Sends(h, t, s, Reach(h, s))
           /\ "ACK" \in t.tx_flags => "ACK" \in s.tx_flags
<1> DEFINE n == Segment(s, 0)
<1>1. CASE s.tx_flags \cap {"SYN", "FIN", "FORCE"} = {}
  BY <1>1, SendsFewer DEF NutTcpOutput
<1>2. CASE s.tx_flags \cap {"SYN", "FIN", "FORCE"} # {}
  <2>1. /\ n.ack \in {0, s.rx_nxt} /\ ("ACK" \in n.flags => n.ack = s.rx_nxt)
        /\ n.flags = s.tx_flags \cap {"ACK"}
        /\ n.win \in {0, s.rx_win} /\ n.len = 0 /\ n \in Segments
    BY SizeFacts, SMTT(45) DEF Segment, Sock, Segments, Num
  <2> DEFINE again == n.len > 0 \/ n.flags \cap {"SYN", "FIN"} # {}
  <2>2. t = [s EXCEPT !.tx_flags = @ \ ({"FORCE", "ACK"} \cup n.flags), !.tx_nxt = SeqEnd(n),
                       !.tx_nbq = IF again THEN Append(@, n) ELSE @,
                       !.retran = @ \/ (again /\ s.tx_nbq = <<>>), !.out = @ \cup {n}]
    BY <1>2 DEF NutTcpOutput
  <2>3. ~again
    BY <2>1
  <2> HIDE DEF n, again
  <2>4. t.out = s.out \cup {n} /\ t.tx_nbq = s.tx_nbq /\ "ACK" \notin t.tx_flags
    <3>1. /\ t.tx_flags = s.tx_flags \ ({"FORCE", "ACK"} \cup n.flags) /\ t.out = s.out \cup {n}
      <4>1. {"tx_flags", "out"} \subseteq DOMAIN s
        BY DEF Sock
      <4> QED BY <2>2, <4>1
    <3>2. t.tx_nbq = s.tx_nbq
      BY PlainOutput DEF SameTx
    <3> QED BY <3>1, <3>2
  <2>5. Plain(h, n, Reach(h, s))
    <3>1. IsAck(n) => Window(h, n) <= Reach(h, s)
      BY <2>1, WindowReach DEF IsAck
    <3> QED BY <2>1, <3>1 DEF Plain
  <2> QED BY <2>4, <2>5, SendsOne
<1> QED BY <1>1, <1>2

LEMMA AckNowSends ==
    ASSUME NEW h \in Host, NEW s \in Sock(h), NEW t, t = AckNow(s)
    PROVE  Sends(h, t, s, Reach(h, s))
<1>1. PICK F : F = s.tx_flags \cup {"ACK", "FORCE"}
  OBVIOUS
<1>2. F \in SUBSET {"ACK", "FORCE"}
  BY <1>1 DEF Sock
<1>3. PICK u : u = [s EXCEPT !.tx_flags = F]
  OBVIOUS
<1>4. u \in Sock(h) /\ u.out = s.out /\ u.tx_nbq = s.tx_nbq /\ u.rx_nxt = s.rx_nxt /\ u.rx_win = s.rx_win
  BY <1>2, <1>3 DEF Sock
<1>5. t = NutTcpOutput(u, 0)
  BY <1>1, <1>3 DEF AckNow
<1>6. Sends(h, t, u, Reach(h, u)) /\ Reach(h, u) = Reach(h, s) /\ Outgoing(u) = Outgoing(s)
  BY <1>4, <1>5, PlainSends, SameOutgoing DEF Reach
<1> QED BY <1>6 DEF Sends

(* Data that is taken leaves the window where it ends, while there is one.  *)
LEMMA AppDataSends ==
    ASSUME NEW h \in Host, NEW s \in Sock(h), NEW n \in Segments, n.len = 1,
           NEW more \in BOOLEAN, NEW t, t = NutTcpProcessAppData(s, n, more)
    PROVE  /\ t.rx_buf = Append(s.rx_buf, n) /\ t.rx_cnt = s.rx_cnt + 1 /\ t.rx_nxt = SeqPlus(s.rx_nxt, 1)
           /\ t.rx_win = IF 1 >= s.rx_win THEN 0 ELSE s.rx_win - 1
           /\ Sends(h, t, s, Reach(h, t))
<1>1. PICK F, W, B, C, X : /\ F = s.tx_flags \cup (IF more THEN {"ACK"} ELSE {"ACK", "FORCE"})
                    /\ W = (IF n.len >= s.rx_win THEN 0 ELSE s.rx_win - n.len)
                    /\ B = Append(s.rx_buf, n) /\ C = s.rx_cnt + n.len /\ X = SeqPlus(s.rx_nxt, n.len)
  OBVIOUS
<1>2. /\ F \in SUBSET {"ACK", "FORCE"} /\ W \in 0..WinSize /\ B \in Seq(Segments)
      /\ C = s.rx_cnt + 1 /\ C \in Nat /\ X \in Num /\ X = SeqPlus(s.rx_nxt, 1)
      /\ W = IF 1 >= s.rx_win THEN 0 ELSE s.rx_win - 1
  BY <1>1, SizeFacts, NumFacts DEF Sock
<1>3. PICK u : u = [s EXCEPT !.rx_buf = B, !.rx_cnt = C, !.rx_nxt = X, !.rx_win = W, !.tx_flags = F]
  OBVIOUS
<1>4. /\ u \in Sock(h) /\ u.rx_buf = B /\ u.rx_cnt = C /\ u.rx_nxt = X /\ u.rx_win = W
      /\ u.out = s.out /\ u.tx_nbq = s.tx_nbq
  BY <1>2, <1>3, SMTT(45), ZenonT(60) DEF Sock
<1>5. t = NutTcpOutput(u, 0)
  BY <1>1, <1>3 DEF NutTcpProcessAppData
<1>6. SameRx(t, u) /\ Sends(h, t, u, Reach(h, u)) /\ Outgoing(u) = Outgoing(s)
  BY <1>4, <1>5, PlainOutput, PlainSends, SameOutgoing
<1>7. Reach(h, t) = Reach(h, u)
  BY <1>6 DEF SameRx, Reach
<1> QED BY <1>1, <1>2, <1>4, <1>6, <1>7 DEF Sends, SameRx

-----------------------------------------------------------------------------
(* Waking up sends nothing, nor does the end of a connection.               *)

LEMMA WakeSends ==
    ASSUME NEW h, NEW s \in Sock(h), NEW q, NEW t, t = Post(s, q) \/ t = Broadcast(s, q) \/ t = Wait(s, q)
    PROVE  Outgoing(t) = Outgoing(s) /\ t.tx_flags = s.tx_flags
<1>1. PICK X, Y, Z : X = s.signaled \cup {q} /\ Y = s.signaled \ {q} /\ Z = "none"
  OBVIOUS
<1>2. \/ t = [s EXCEPT !.wait = Z] \/ t = [s EXCEPT !.wait = q]
      \/ t = [s EXCEPT !.signaled = X] \/ t = [s EXCEPT !.signaled = Y]
  BY <1>1 DEF Post, Broadcast, Wait
<1>3. t.out = s.out /\ t.tx_nbq = s.tx_nbq /\ t.tx_flags = s.tx_flags
  BY <1>2 DEF Sock
<1> QED BY <1>3, SameOutgoing

(* States in which the application has closed the socket.                   *)
Late == {"FIN_WAIT_1", "FIN_WAIT_2", "CLOSING", "LAST_ACK", "TIME_WAIT"}

(* The connection ends: nothing new is sent or to be read.                  *)
Ended(h, t, s) ==
    /\ Dead(h, t) /\ Outgoing(t) \subseteq Outgoing(s) /\ t.rx_buf = <<>>
    /\ t.state = "TIME_WAIT" => s.state \in Late

LEMMA AbortSends ==
    ASSUME NEW h \in Host, NEW s \in Sock(h), NEW t, t = NutTcpAbortSocket(s)
    PROVE  Ended(h, t, s)
<1>1. PICK X : X = (IF Closed(s) THEN "TIME_WAIT" ELSE "CLOSED")
  OBVIOUS
<1>2. PICK u : u = [s EXCEPT !.retran = FALSE, !.time_wait = 0, !.state = X]
  OBVIOUS
<1>3. u \in Sock(h) /\ u.state = X /\ u.out = s.out
  <2>1. X \in States(h)
    BY <1>1 DEF States
  <2> QED BY <1>2, <2>1 DEF Sock
<1>4. PICK v : v = NutTcpDiscardBuffers(u)
  OBVIOUS
<1>5. v \in Sock(h) /\ Counted(v) /\ v.state = X /\ v.tx_nbq = <<>>
  BY <1>3, <1>4, Discarded
<1>6. v.out = s.out /\ v.rx_buf = <<>>
  BY <1>3, <1>4 DEF NutTcpDiscardBuffers, Sock
<1>7. PICK b1 : b1 = Broadcast(v, "rx_tq")
  OBVIOUS
<1>8. b1 \in Sock(h) /\ Counted(b1) /\ b1.state = X /\ SameTx(b1, v) /\ SameRx(b1, v) /\ Outgoing(b1) = Outgoing(v)
  BY <1>5, <1>7, BroadcastStep, WakeSends, SMTT(45), ZenonT(60) DEF Queues
<1>9. PICK b2 : b2 = Broadcast(b1, "tx_tq")
  OBVIOUS
<1>10. b2 \in Sock(h) /\ Counted(b2) /\ b2.state = X /\ SameRx(b2, b1) /\ Outgoing(b2) = Outgoing(b1)
  BY <1>8, <1>9, BroadcastStep, WakeSends DEF Queues
<1>11. PICK b3 : b3 = Broadcast(b2, "pc_tq")
  OBVIOUS
<1>12. b3 \in Sock(h) /\ Counted(b3) /\ b3.state = X /\ SameRx(b3, b2) /\ Outgoing(b3) = Outgoing(b2)
  BY <1>10, <1>11, BroadcastStep, WakeSends DEF Queues
<1>13. t = Broadcast(b3, "ac_tq")
  BY <1>1, <1>2, <1>4, <1>7, <1>9, <1>11 DEF NutTcpAbortSocket
<1>14. t.state = X /\ SameRx(t, b3) /\ Outgoing(t) = Outgoing(b3)
  BY <1>12, <1>13, BroadcastStep, WakeSends DEF Queues
<1>15. t.rx_buf = <<>> /\ Outgoing(t) = Outgoing(v)
  BY <1>6, <1>8, <1>10, <1>12, <1>14 DEF SameRx
<1>16. Outgoing(v) \subseteq Outgoing(s)
  BY <1>5, <1>6, EmptySeq DEF Outgoing
<1>17. t.state = "TIME_WAIT" => s.state \in Late
  BY <1>1, <1>14 DEF Closed, Late
<1> QED BY <1>15, <1>16, <1>17, AbortDead DEF Ended

LEMMA DestroySends ==
    ASSUME NEW h \in Host, NEW s \in Sock(h), NEW t, t = NutTcpDestroySocket(s)
    PROVE  Ended(h, t, s) /\ t.state = "NONE"
<1>1. t.rx_buf = <<>> /\ t.tx_nbq = <<>> /\ t.out = s.out
  BY DEF NutTcpDestroySocket, NoSocket
<1>2. Outgoing(t) \subseteq Outgoing(s)
  BY <1>1, EmptySeq DEF Outgoing
<1> QED BY <1>1, <1>2, DestroyDead DEF Ended

LEMMA RejectSends ==
    ASSUME NEW h \in Host, NEW s \in Sock(h), NEW n \in Segments, NEW e, NEW t, t = Reject(s, n)
    PROVE  /\ Sends(h, t, s, e) /\ t.tx_flags = s.tx_flags
<1>1. t.out = s.out \cup NutTcpReject(n) /\ t.tx_nbq = s.tx_nbq /\ t.tx_flags = s.tx_flags
  BY DEF Reject, Sock
<1>2. \A r \in NutTcpReject(n) : r.len = 0 /\ r.flags \subseteq {"RST", "ACK"} /\ "RST" \in r.flags
  BY DEF NutTcpReject
<1>3. NutTcpReject(n) \subseteq Segments
  <2>1. n.seq \in Num /\ n.ack \in Num /\ SeqPlus(n.seq, 1) \in Num /\ 0 \in Num /\ 0 \in 0..WinSize
    BY NumFacts, SizeFacts DEF Segments, Num
  <2> QED BY <2>1 DEF NutTcpReject, Segments, Num
<1>4. \A r \in NutTcpReject(n) : Plain(h, r, e)
  BY <1>2, <1>3 DEF Plain, IsAck
<1> QED BY <1>1, <1>4 DEF Sends, Outgoing

-----------------------------------------------------------------------------
(* Acknowledgments and what is sent again.                                  *)

LEMMA RetranSends ==
    ASSUME NEW h \in Host, NEW s \in Sock(h), Counted(s), s.tx_nbq # <<>>, NEW up \in BOOLEAN,
           NEW t, t = NutTcpStateRetranTimeout(s, up)
    PROVE  \/ Ended(h, t, s)
           \/ /\ AckStep(h, t, s) /\ Outgoing(t) \subseteq Outgoing(s)
              /\ t.tx_una = s.tx_una /\ t.tx_win = s.tx_win /\ t.tx_flags = s.tx_flags
<1>1. PICK N, u : N = s.retransmits + 1 /\ u = [s EXCEPT !.retransmits = N]
  OBVIOUS
<1>2. N \in Nat
  BY <1>1 DEF Sock
<1>3. u \in Sock(h) /\ Kept(u, s) /\ u.tx_una = s.tx_una /\ u.tx_win = s.tx_win /\ u.tx_nbq = s.tx_nbq
  BY <1>1, <1>2 DEF Sock, Kept
<1>4. u.out = s.out /\ u.tx_flags = s.tx_flags /\ Outgoing(u) = Outgoing(s)
  <2>1. u.out = s.out /\ u.tx_flags = s.tx_flags
    BY <1>1 DEF Sock
  <2> QED BY <1>3, <2>1, SameOutgoing
<1>5. u = [s EXCEPT !.retransmits = @ + 1]
  BY <1>1
<1>6. CASE s.retransmits > RetriesMax
  <2>1. t = NutTcpAbortSocket(u)
    BY <1>5, <1>6 DEF NutTcpStateRetranTimeout
  <2> QED BY <1>3, <1>4, <2>1, AbortSends DEF Ended, Kept
<1>7. CASE ~(s.retransmits > RetriesMax) /\ ~up
  <2>1. PICK Q, v : Q = Tail(s.tx_nbq) /\ v = [u EXCEPT !.tx_nbq = Q]
    OBVIOUS
  <2>2. Q \in Seq(SegOf(h)) /\ Len(Q) = Len(s.tx_nbq) - 1 /\ Len(s.tx_nbq) \in Nat
        /\ \A i \in 1..Len(Q) : Q[i] = s.tx_nbq[i + 1]
    BY <2>1, HeadTailProperties, LenProperties DEF Sock
  <2>3. v \in Sock(h) /\ v.out = u.out /\ v.tx_nbq = Q /\ v.state = u.state
    BY <1>3, <2>1, <2>2 DEF Sock
  <2>4. t = NutTcpAbortSocket(v)
    BY <1>3, <1>5, <1>7, <2>1 DEF NutTcpStateRetranTimeout
  <2>5. Ended(h, t, v)
    BY <2>3, <2>4, AbortSends
  <2>6. Outgoing(v) \subseteq Outgoing(s)
    <3>1. \A i \in 1..Len(Q) : i + 1 \in 1..Len(s.tx_nbq) /\ Q[i] = s.tx_nbq[i + 1]
      BY <2>2
    <3> QED BY <1>4, <2>3, <3>1 DEF Outgoing
  <2> QED BY <1>3, <2>3, <2>5, <2>6 DEF Ended, Kept
<1>8. CASE ~(s.retransmits > RetriesMax) /\ up
  <2>1. t = [u EXCEPT !.out = @ \cup {Head(s.tx_nbq)}, !.retran = TRUE]
    BY <1>5, <1>8 DEF NutTcpStateRetranTimeout
  <2>2. t.out = s.out \cup {Head(s.tx_nbq)} /\ t.tx_nbq = s.tx_nbq
    <3>1. {"out", "tx_nbq"} \subseteq DOMAIN u
      BY <1>3 DEF Sock
    <3> QED BY <1>3, <1>4, <2>1, <3>1
  <2>3. Outgoing(t) \subseteq Outgoing(s)
    <3>1. s.tx_nbq \in Seq(SegOf(h)) /\ 1 \in 1..Len(s.tx_nbq) /\ Head(s.tx_nbq) = s.tx_nbq[1]
      <4>1. s.tx_nbq \in Seq(SegOf(h))
        BY DEF Sock
      <4>2. Len(s.tx_nbq) # 0
        BY <4>1, EmptySeq
      <4> QED BY <4>1, <4>2, HeadTailProperties, LenProperties
    <3> QED BY <2>2, <3>1 DEF Outgoing
  <2>4. t \in Sock(h) /\ Counted(t)
    BY RetranStep DEF Dead, AckStep
  <2>5. /\ Kept(t, u) /\ t.tx_una = u.tx_una /\ t.tx_win = u.tx_win /\ t.tx_flags = u.tx_flags
    BY <1>3, <2>1 DEF Sock, Kept
  <2>6. Kept(t, s)
    BY <1>3, <2>5 DEF Kept
  <2>7. AckStep(h, t, s)
    BY <2>4, <2>6, KeptStep
  <2> QED BY <1>3, <1>4, <2>3, <2>5, <2>7
<1> QED BY <1>6, <1>7, <1>8

(* What an acknowledgment with segment n does to the sending side.          *)
Acks(h, t, s, n) ==
    /\ AckStep(h, t, s) /\ Outgoing(t) \subseteq Outgoing(s)
    /\ \/ t.tx_una = s.tx_una /\ t.tx_win = s.tx_win
       \/ t.tx_una = n.ack /\ t.tx_win = n.win

LEMMA DuplicateSends ==
    ASSUME NEW h \in Host, NEW s \in Sock(h), Counted(s), NEW n \in Segments, NEW up \in BOOLEAN,
           n.ack = s.tx_una, NEW t, t = DuplicateAck(WindowUpdate(s, n), n, up)
    PROVE  (Ended(h, t, s) /\ n.len = 0) \/ Acks(h, t, s, n)
<1>1. PICK u : u = WindowUpdate(s, n)
  OBVIOUS
<1>2. /\ u \in Sock(h) /\ Counted(u) /\ Acks(h, u, s, n) /\ u.tx_una = s.tx_una
      /\ Outgoing(u) = Outgoing(s) /\ u.state = s.state
  <2>1. CASE u = s
    BY <2>1 DEF Acks, AckStep, SameRx, SameWait
  <2>2. CASE u = [s EXCEPT !.tx_win = n.win, !.tx_wl1 = n.seq, !.tx_wl2 = n.ack]
    <3>1. n.win \in 0..WinSize /\ n.seq \in Num /\ n.ack \in Num
      BY DEF Segments, Num
    <3>2. /\ u \in Sock(h) /\ Kept(u, s) /\ u.tx_una = s.tx_una /\ u.tx_win = n.win
          /\ u.tx_nbq = s.tx_nbq /\ u.out = s.out
      BY <2>2, <3>1 DEF Sock, Kept
    <3>3. AckStep(h, u, s)
      BY <3>2, KeptStep
    <3> QED BY <3>2, <3>3, SameOutgoing DEF AckStep, Acks
  <2> QED BY <1>1, <2>1, <2>2 DEF WindowUpdate
<1>3. t = DuplicateAck(u, n, up)
  BY <1>1
<1>4. CASE t = u
  BY <1>2, <1>4
<1>5. CASE t = [u EXCEPT !.tx_dup = @ + 1] /\ u.tx_dup < 2
  <2>1. PICK D : D = u.tx_dup + 1
    OBVIOUS
  <2>2. D \in 0..2 /\ t = [u EXCEPT !.tx_dup = D]
    BY <1>2, <1>5, <2>1, SMTT(45), ZenonT(60) DEF Sock
  <2>3. /\ t \in Sock(h) /\ Kept(t, u) /\ t.tx_una = u.tx_una /\ t.tx_win = u.tx_win
        /\ t.tx_nbq = u.tx_nbq /\ t.out = u.out
    BY <1>2, <2>2, SMTT(60), ZenonT(60) DEF Sock, Kept
  <2>4. AckStep(h, t, u)
    BY <1>2, <2>3, KeptStep
  <2>5. AckStep(h, t, s)
    BY <1>2, <2>4, AckStepTrans DEF Acks
  <2> QED BY <1>2, <2>3, <2>5, SameOutgoing DEF Acks
<1>6. CASE u.tx_nbq # <<>> /\ n.len = 0 /\ t = NutTcpStateRetranTimeout([u EXCEPT !.tx_dup = 0], up)
  <2>1. PICK D \in 0..2 : D = 0
    OBVIOUS
  <2>2. PICK v : v = [u EXCEPT !.tx_dup = D]
    OBVIOUS
  <2>3. /\ v \in Sock(h) /\ Kept(v, u) /\ v.tx_una = u.tx_una /\ v.tx_win = u.tx_win
        /\ v.tx_nbq = u.tx_nbq /\ v.out = u.out
    BY <1>2, <2>2 DEF Sock, Kept
  <2>4. AckStep(h, v, u) /\ Outgoing(v) = Outgoing(u) /\ Counted(v) /\ v.state = u.state
    BY <1>2, <2>3, KeptStep, SameOutgoing DEF AckStep
  <2>5. \/ Ended(h, t, v)
        \/ /\ AckStep(h, t, v) /\ Outgoing(t) \subseteq Outgoing(v)
           /\ t.tx_una = v.tx_una /\ t.tx_win = v.tx_win
    <3>1. v.tx_nbq # <<>> /\ t = NutTcpStateRetranTimeout(v, up)
      BY <1>6, <2>1, <2>2, <2>3
    <3> QED BY <2>3, <2>4, <3>1, RetranSends
  <2>6. CASE Ended(h, t, v)
    BY <1>2, <1>6, <2>4, <2>6 DEF Ended
  <2>7. CASE /\ AckStep(h, t, v) /\ Outgoing(t) \subseteq Outgoing(v)
             /\ t.tx_una = v.tx_una /\ t.tx_win = v.tx_win
    <3>1. AckStep(h, t, s)
      BY <1>2, <2>4, <2>7, AckStepTrans DEF Acks
    <3> QED BY <1>2, <2>3, <2>4, <2>7, <3>1 DEF Acks
  <2> QED BY <2>5, <2>6, <2>7
<1>7. (t = u) \/ (u.tx_dup < 2 /\ t = [u EXCEPT !.tx_dup = @ + 1])
      \/ (u.tx_nbq # <<>> /\ n.len = 0 /\ t = NutTcpStateRetranTimeout([u EXCEPT !.tx_dup = 0], up))
  <2>1. u.tx_dup >= 2 \/ u.tx_dup < 2
    BY <1>2, SMTT(45), ZenonT(60) DEF Sock
  <2> QED BY <1>3, <2>1 DEF DuplicateAck
<1> QED BY <1>4, <1>5, <1>6, <1>7

LEMMA NewAckSends ==
    ASSUME NEW h \in Host, NEW s \in Sock(h), Counted(s), NEW n \in Segments, NEW t, t = NewAck(s, n)
    PROVE  Acks(h, t, s, n) /\ t.tx_una = n.ack /\ t.tx_win = n.win
<1>2. PICK i \in 1..(Len(s.tx_nbq) + 1) :
               /\ i = FirstPlace(s.tx_nbq, {j \in DOMAIN s.tx_nbq : SeqIsAfter(SeqEnd(s.tx_nbq[j]), n.ack)})
               /\ AckStep(h, t, s) /\ t.tx_una = n.ack
               /\ t.tx_nbq = SubSeq(s.tx_nbq, i, Len(s.tx_nbq)) /\ t.retran = (t.tx_nbq # <<>>)
  <2>1. t = NewAck(s, n)
    OBVIOUS
  <2> QED BY <2>1, NewAckStep
<1>3. t.out = s.out /\ t.tx_win = n.win
  <2>1. {"out", "tx_win"} \subseteq DOMAIN s
    BY DEF Sock
  <2> QED BY <2>1 DEF NewAck
<1>4. PICK q : q = s.tx_nbq
  OBVIOUS
<1>5. q \in Seq(SegOf(h)) /\ Len(q) \in Nat /\ i \in Nat /\ i >= 1 /\ i <= Len(q) + 1
  BY <1>2, <1>4, LenProperties DEF Sock
<1>6. \A k \in 1..Len(t.tx_nbq) : \E j \in 1..Len(q) : t.tx_nbq[k] = q[j]
  <2>1. PICK T : T = SegOf(h)
    OBVIOUS
  <2>2. q \in Seq(T) /\ i \in 1..(Len(q) + 1) /\ Len(q) \in 0..Len(q)
    BY <1>5, <2>1
  <2>3. /\ Len(SubSeq(q, i, Len(q))) = IF i <= Len(q) THEN Len(q) - i + 1 ELSE 0
        /\ \A k \in 1..(Len(q) - i + 1) : SubSeq(q, i, Len(q))[k] = q[i + k - 1]
    BY <2>2, SubSeqFacts
  <2>4. ASSUME NEW k \in 1..Len(t.tx_nbq)
        PROVE  \E j \in 1..Len(q) : t.tx_nbq[k] = q[j]
    <3>1. i <= Len(q) /\ k \in 1..(Len(q) - i + 1) /\ i + k - 1 \in 1..Len(q)
      BY <1>2, <1>4, <1>5, <2>3, <2>4
    <3> QED BY <1>2, <1>4, <2>3, <3>1
  <2> QED BY <2>4
<1>7. Outgoing(t) \subseteq Outgoing(s)
  BY <1>3, <1>4, <1>6 DEF Outgoing
<1> QED BY <1>2, <1>3, <1>7 DEF Acks

LEMMA ProcessAckSends ==
    ASSUME NEW h \in Host, NEW s \in Sock(h), Counted(s), NEW n \in Segments, NEW up \in BOOLEAN,
           NEW t, t = NutTcpProcessAck(s, n, up)
    PROVE  (Ended(h, t, s) /\ n.len = 0) \/ Acks(h, t, s, n)
<1>1. CASE t = s
  BY <1>1 DEF Acks, AckStep, SameRx, SameWait
<1>2. CASE t = [s EXCEPT !.tx_flags = @ \cup {"ACK", "FORCE"}]
  <2>1. PICK F : F = s.tx_flags \cup {"ACK", "FORCE"}
    OBVIOUS
  <2>2. F \in SUBSET {"ACK", "FORCE"} /\ t = [s EXCEPT !.tx_flags = F]
    BY <1>2, <2>1 DEF Sock
  <2>3. /\ t \in Sock(h) /\ Kept(t, s) /\ t.tx_una = s.tx_una /\ t.tx_win = s.tx_win
        /\ t.tx_nbq = s.tx_nbq /\ t.out = s.out
    BY <2>2, SMTT(45), ZenonT(60) DEF Sock, Kept
  <2>4. AckStep(h, t, s)
    BY <2>3, KeptStep
  <2> QED BY <2>3, <2>4, SameOutgoing DEF Acks
<1>3. CASE n.ack = s.tx_una /\ t = DuplicateAck(WindowUpdate(s, n), n, up)
  BY <1>3, DuplicateSends
<1>4. CASE t = NewAck(s, n)
  BY <1>4, NewAckSends
<1> QED BY <1>1, <1>2, <1>3, <1>4 DEF NutTcpProcessAck

(* One that lies between what is acknowledged and what is sent is taken.    *)
LEMMA FirstAck ==
    ASSUME NEW h \in Host, NEW s \in Sock(h), Counted(s), NEW n \in Segments, NEW up \in BOOLEAN,
           Pos(h, s.tx_una) < Pos(h, s.tx_nxt), Pos(h, s.tx_nxt) < Half,
           SeqIsBetween(n.ack, SeqPlus(s.tx_una, 1), s.tx_nxt),
           NEW t, t = NutTcpProcessAck(s, n, up)
    PROVE  Acks(h, t, s, n) /\ t.tx_una = n.ack /\ t.tx_win = n.win
<1>1. PICK u, x, a : u = s.tx_una /\ x = s.tx_nxt /\ a = n.ack
  OBVIOUS
<1>2. u \in Num /\ x \in Num /\ a \in Num /\ SeqPlus(u, 1) \in Num
  <2>1. u \in Num /\ x \in Num /\ a \in Num
    BY <1>1 DEF Sock, Segments, Num
  <2> QED BY <2>1, NumFacts
<1>3. /\ Pos(h, u) \in Nat /\ Pos(h, x) \in Nat /\ Pos(h, a) \in Nat /\ Pos(h, a) < SeqSpace
      /\ SeqSpace \in Nat /\ Half \in Nat /\ Half < SeqSpace /\ Pos(h, u) < Pos(h, x) /\ Pos(h, x) < Half
  BY <1>1, <1>2, TopFacts, HalfFacts, SizeFacts
<1>4. Pos(h, SeqPlus(u, 1)) = Pos(h, u) + 1
  BY <1>2, <1>3, PosFacts
<1>5. (a - SeqPlus(u, 1)) % SeqSpace <= (x - SeqPlus(u, 1)) % SeqSpace
  BY <1>1 DEF SeqIsBetween
<1>6. /\ (a - SeqPlus(u, 1)) % SeqSpace = IF Pos(h, a) >= Pos(h, SeqPlus(u, 1))
              THEN Pos(h, a) - Pos(h, SeqPlus(u, 1)) ELSE Pos(h, a) - Pos(h, SeqPlus(u, 1)) + SeqSpace
      /\ (x - SeqPlus(u, 1)) % SeqSpace = IF Pos(h, x) >= Pos(h, SeqPlus(u, 1))
              THEN Pos(h, x) - Pos(h, SeqPlus(u, 1)) ELSE Pos(h, x) - Pos(h, SeqPlus(u, 1)) + SeqSpace
  BY <1>2, PosFacts
<1>7. Pos(h, u) < Pos(h, a) /\ Pos(h, a) <= Pos(h, x)
  BY <1>3, <1>4, <1>5, <1>6
<1>8. ~SeqIsAfter(a, x) /\ a # u /\ ~SeqIsAfter(u, a)
  <2>1. Pos(h, a) < Half /\ Pos(h, u) < Half
    BY <1>3, <1>7
  <2>2. (SeqIsAfter(a, x) <=> Pos(h, a) > Pos(h, x)) /\ (SeqIsAfter(u, a) <=> Pos(h, u) > Pos(h, a))
    BY <1>2, <1>3, <2>1, AfterFacts
  <2> QED BY <1>3, <1>7, <2>2
<1>9. t = NewAck(s, n)
  BY <1>1, <1>8 DEF NutTcpProcessAck
<1> QED BY <1>9, NewAckSends

-----------------------------------------------------------------------------
(* What a host hears: data D of its peer, of which r has been read.         *)

Begins(r, D) == Len(r) <= Len(D) /\ \A i \in 1..Len(r) : r[i] = D[i]

(* After what has been read, the buffer has the data that comes next.       *)
InOrd(r, b, D) ==
    /\ Len(r) + Len(b) <= Len(D)
    /\ \A i \in 1..Len(b) : b[i].seq = D[Len(r) + i]

(* Number x stands behind the first k of data D, and before the others.     *)
Cut(p, x, D, k) == \A j \in 1..Len(D) : j <= k <=> Pos(p, D[j]) < Pos(p, x)

Stored(q, D) == \A i \in 1..Len(q) : \E j \in 1..Len(D) : D[j] = q[i].seq

(* Data D is sent in the order of its numbers, all below B.                 *)
Rising(p, D, B) ==
    /\ \A i, j \in 1..Len(D) : i < j => Pos(p, D[i]) < Pos(p, D[j])
    /\ \A j \in 1..Len(D) : Pos(p, D[j]) < B

(* The stream to host h is known to be in order when its peer takes no data *)
(* before the connection is established.                                    *)
Fair(h) == h = Client \/ Data[Client] = 0

Est(h, s, r, D, B) ==
    /\ ~NarrowInt => s.rx_cnt + s.rx_win <= WinSize
    /\ Stored(s.rx_nbq, D)
    /\ \A j \in 1..Len(D) : Pos(Peer(h), D[j]) < Reach(h, s)
    /\ Fair(h) => /\ InOrd(r, s.rx_buf, D) /\ Cut(Peer(h), s.rx_nxt, D, Len(r) + Len(s.rx_buf))
                  /\ Pos(Peer(h), s.rx_nxt) <= B

LEMMA EstSame ==
    ASSUME NEW h, NEW s, NEW r, NEW D, NEW B, Est(h, s, r, D, B), NEW t, SameRx(t, s)
    PROVE  Est(h, t, r, D, B) /\ Reach(h, t) = Reach(h, s)
BY DEF Est, SameRx, Reach

LEMMA InAdvanceSends ==
    ASSUME NEW h \in Host, NEW s \in Sock(h), Counted(s), NEW n \in Segments, NEW t, t = InAdvance(s, n)
    PROVE  /\ t.rx_nxt = s.rx_nxt /\ t.rx_win = s.rx_win /\ t.rx_cnt = s.rx_cnt /\ t.rx_buf = s.rx_buf
           /\ \A i \in 1..Len(t.rx_nbq) : \/ \E j \in 1..Len(s.rx_nbq) : t.rx_nbq[i] = s.rx_nbq[j]
                                          \/ n.len = 1 /\ t.rx_nbq[i] = n
           /\ Sends(h, t, s, Reach(h, s))
<1>1. PICK q : q = s.rx_nbq
  OBVIOUS
<1>2. q \in Seq(Segments) /\ Len(q) \in Nat /\ s.adv \in Nat
  BY <1>1, LenProperties DEF Sock
<1>3. PICK B : B = {j \in DOMAIN q : q[j].seq = n.seq \/ SeqIsAfter(q[j].seq, n.seq)}
  OBVIOUS
<1>4. PICK i : i = FirstPlace(q, B)
  OBVIOUS
<1>5. i \in 1..(Len(q) + 1)
  <2>1. B \in SUBSET (1..Len(q))
    BY <1>2, <1>3
  <2> QED BY <1>2, <1>4, <2>1, FirstPlaceFacts
<1>6. PICK A : A = s.adv + n.len
  OBVIOUS
<1>7. ASSUME NEW Q, Q = q \/ (n.len = 1 /\ Q = InsertAt(q, i, n)), NEW C \in Nat,
             t = AckNow([s EXCEPT !.adv = C, !.rx_nbq = Q])
      PROVE  /\ t.rx_nxt = s.rx_nxt /\ t.rx_win = s.rx_win /\ t.rx_cnt = s.rx_cnt /\ t.rx_buf = s.rx_buf
             /\ t.rx_nbq = Q /\ Sends(h, t, s, Reach(h, s))
  <2>1. Q \in Seq(Segments)
    <3>1. PICK T : T = Segments
      OBVIOUS
    <3>2. Put(T, q, n, InsertAt(q, i, n))
      BY <1>2, <1>5, <3>1, Inserted
    <3> QED BY <1>2, <1>7, <3>1, <3>2 DEF Put
  <2>2. PICK u : u = [s EXCEPT !.adv = C, !.rx_nbq = Q]
    OBVIOUS
  <2>3. /\ u \in Sock(h) /\ u.rx_nbq = Q /\ u.rx_nxt = s.rx_nxt /\ u.rx_win = s.rx_win /\ u.rx_cnt = s.rx_cnt
        /\ u.rx_buf = s.rx_buf /\ u.tx_nbq = s.tx_nbq /\ u.out = s.out
    BY <1>7, <2>1, <2>2 DEF Sock
  <2>4. PICK F, w : F = u.tx_flags \cup {"ACK", "FORCE"} /\ w = [u EXCEPT !.tx_flags = F]
    OBVIOUS
  <2>5. t = NutTcpOutput(w, 0)
    BY <1>7, <2>2, <2>4 DEF AckNow
  <2>6. w \in Sock(h) /\ SameRx(w, u)
    <3>1. F \in SUBSET {"ACK", "FORCE"}
      BY <2>3, <2>4 DEF Sock
    <3> QED BY <2>3, <2>4, <3>1 DEF Sock, SameRx
  <2>7. SameRx(t, w)
    BY <2>5, <2>6, PlainOutput
  <2>8. Sends(h, t, u, Reach(h, u))
    BY <1>7, <2>2, <2>3, AckNowSends
  <2>9. Outgoing(u) = Outgoing(s) /\ Reach(h, u) = Reach(h, s)
    BY <2>3, SameOutgoing DEF Reach
  <2> QED BY <2>3, <2>6, <2>7, <2>8, <2>9 DEF SameRx, Sends
<1>8. CASE t = AckNow(s)
  BY <1>8, AckNowStep, AckNowSends DEF SameRx
<1>9. CASE n.len # 0 /\ t = AckNow([s EXCEPT !.adv = A])
  <2>1. A \in Nat /\ s = [s EXCEPT !.rx_nbq = q]
    BY <1>1, <1>2, <1>6 DEF Segments, Sock
  <2>2. t = AckNow([s EXCEPT !.adv = A, !.rx_nbq = q])
    BY <1>9, <2>1
  <2> QED BY <1>1, <1>7, <2>1, <2>2
<1>10. CASE n.len # 0 /\ t = AckNow([s EXCEPT !.adv = A, !.rx_nbq = InsertAt(q, i, n)])
  <2>1. n.len = 1 /\ A \in Nat
    BY <1>2, <1>6, <1>10 DEF Segments
  <2>2. PICK Q : Q = InsertAt(q, i, n)
    OBVIOUS
  <2>3. \A j \in 1..Len(Q) : Q[j] = n \/ \E k \in 1..Len(q) : Q[j] = q[k]
    <3>1. PICK T : T = Segments
      OBVIOUS
    <3>2. Put(T, q, n, Q)
      BY <1>2, <1>5, <2>2, <3>1, Inserted
    <3> QED BY <3>2 DEF Put
  <2>4. /\ t.rx_nxt = s.rx_nxt /\ t.rx_win = s.rx_win /\ t.rx_cnt = s.rx_cnt /\ t.rx_buf = s.rx_buf
        /\ t.rx_nbq = Q /\ Sends(h, t, s, Reach(h, s))
    BY <1>7, <1>10, <2>1, <2>2
  <2> QED BY <1>1, <2>1, <2>3, <2>4
<1>11. (t = AckNow(s)) \/ (n.len # 0 /\ t = AckNow([s EXCEPT !.adv = A]))
       \/ (n.len # 0 /\ t = AckNow([s EXCEPT !.adv = A, !.rx_nbq = InsertAt(q, i, n)]))
  BY <1>1, <1>3, <1>4, <1>6 DEF InAdvance
<1> QED BY <1>8, <1>9, <1>10, <1>11

(* Data that follows is taken: what is left of the window goes with it.     *)
LEMMA EstData ==
    ASSUME NEW h \in Host, NEW s \in Sock(h), Counted(s), NEW r \in Seq(Num), NEW D \in Seq(Num), NEW B \in Nat,
           B <= Half, Est(h, s, r, D, B), Rising(Peer(h), D, B), NEW n \in Segments, n.len = 1, n.seq = s.rx_nxt,
           NEW g \in 1..Len(D), D[g] = n.seq, NEW more \in BOOLEAN, NEW t, t = NutTcpProcessAppData(s, n, more)
    PROVE  /\ Est(h, t, r, D, B) /\ Reach(h, t) = Reach(h, s) /\ Sends(h, t, s, Reach(h, s))
           /\ RxStep(h, t, s) /\ t.rx_nbq = s.rx_nbq
<1>1. /\ t.rx_buf = Append(s.rx_buf, n) /\ t.rx_cnt = s.rx_cnt + 1 /\ t.rx_nxt = SeqPlus(s.rx_nxt, 1)
      /\ t.rx_win = IF 1 >= s.rx_win THEN 0 ELSE s.rx_win - 1
      /\ Sends(h, t, s, Reach(h, t)) /\ RxStep(h, t, s) /\ t.rx_nbq = s.rx_nbq
  BY AppDataSends, AppDataStep
<1>2. PICK p, x, a, b : p = Peer(h) /\ x = Pos(Peer(h), s.rx_nxt) /\ a = s.rx_cnt /\ b = s.rx_win
  OBVIOUS
<1>3. /\ p \in Host /\ s.rx_nxt \in Num /\ x \in Nat /\ a \in Nat /\ b \in Nat /\ WinSize \in Nat
      /\ s.rx_buf \in Seq(Segments) /\ \A j \in 1..Len(D) : D[j] \in Num
  <2>1. p \in Host /\ s.rx_nxt \in Num /\ WinSize \in Nat
    BY <1>2, PeerFacts, SizeFacts DEF Sock
  <2>2. x \in Nat /\ a \in Nat /\ b \in Nat /\ s.rx_buf \in Seq(Segments)
    BY <1>2, <2>1, PosNat DEF Sock
  <2>3. \A j \in 1..Len(D) : D[j] \in Num
    BY ElementOfSeq
  <2> QED BY <2>1, <2>2, <2>3
<1>4. x < B /\ (~NarrowInt => x < x + b)
  <2>1. Pos(p, D[g]) = x /\ Pos(p, D[g]) < B /\ Pos(p, D[g]) < Reach(h, s)
    BY <1>2 DEF Est, Rising
  <2> QED BY <1>2, <2>1 DEF Reach
<1>5. Pos(p, t.rx_nxt) = x + 1
  <2>1. SeqSpace \in Nat /\ Half \in Nat /\ Half < SeqSpace
    BY SizeFacts, HalfFacts
  <2>2. x + 1 < SeqSpace
    BY <1>3, <1>4, <2>1
  <2> QED BY <1>1, <1>2, <1>3, <2>2, PosFacts
<1>6. Reach(h, t) = Reach(h, s) /\ (~NarrowInt => t.rx_cnt + t.rx_win <= WinSize)
  <2>1. CASE NarrowInt
    BY <2>1 DEF Reach
  <2>2. CASE ~NarrowInt
    <3>1. t.rx_win = b - 1 /\ b >= 1 /\ t.rx_cnt = a + 1
      BY <1>1, <1>2, <1>3, <1>4, <2>2
    <3>2. Reach(h, t) = (x + 1) + (b - 1) /\ Reach(h, s) = x + b
      BY <1>2, <1>5, <2>2, <3>1 DEF Reach
    <3>3. a + b <= WinSize
      BY <1>2, <2>2 DEF Est
    <3>4. (x + 1) + (b - 1) = x + b /\ (a + 1) + (b - 1) <= WinSize
      BY <1>3, <3>1, <3>3
    <3> QED BY <3>1, <3>2, <3>4
  <2> QED BY <2>1, <2>2
<1>7. ASSUME Fair(h)
      PROVE  /\ InOrd(r, t.rx_buf, D) /\ Cut(p, t.rx_nxt, D, Len(r) + Len(t.rx_buf)) /\ Pos(p, t.rx_nxt) <= B
  <2>1. PICK l, m, k : l = Len(r) /\ m = Len(s.rx_buf) /\ k = l + m
    OBVIOUS
  <2>2. l \in Nat /\ m \in Nat /\ k \in Nat /\ Len(D) \in Nat
    BY <1>3, <2>1, LenProperties
  <2>3. /\ k <= Len(D) /\ (\A i \in 1..m : s.rx_buf[i].seq = D[l + i])
        /\ \A j \in 1..Len(D) : j <= k <=> Pos(p, D[j]) < x
    BY <1>2, <1>7, <2>1 DEF Est, InOrd, Cut
  <2>4. \A j \in 1..Len(D) : Pos(p, D[j]) \in Nat
    BY <1>3, PosNat
  <2>5. Pos(p, D[g]) = x
    BY <1>2
  <2>6. \A i, j \in 1..Len(D) : i < j => Pos(p, D[i]) < Pos(p, D[j])
    BY <1>2 DEF Rising
  <2>7. g = k + 1
    <3>1. ~(g <= k)
      BY <1>3, <2>3, <2>5
    <3>2. g \in Nat /\ k + 1 <= g /\ k + 1 \in 1..Len(D)
      BY <2>2, <3>1
    <3>3. k + 1 < g => Pos(p, D[k + 1]) < x
      BY <2>5, <2>6, <3>2
    <3>4. k + 1 < g => k + 1 <= k
      BY <2>3, <3>2, <3>3
    <3> QED BY <2>2, <3>2, <3>4
  <2>8. \A j \in 1..Len(D) : j <= k + 1 <=> Pos(p, D[j]) < x + 1
    <3> SUFFICES ASSUME NEW j \in 1..Len(D) PROVE j <= k + 1 <=> Pos(p, D[j]) < x + 1
      OBVIOUS
    <3>1. j \in Nat /\ Pos(p, D[j]) \in Nat
      BY <2>4
    <3>2. CASE j <= k
      BY <1>3, <2>2, <2>3, <3>1, <3>2
    <3>3. CASE j = g
      BY <1>3, <2>5, <2>7, <3>3
    <3>4. CASE j > g
      BY <1>3, <2>2, <2>5, <2>6, <2>7, <3>1, <3>4
    <3> QED BY <2>2, <2>7, <3>1, <3>2, <3>3, <3>4
  <2>9. PICK c : c = Append(s.rx_buf, n)
    OBVIOUS
  <2>10. Len(c) = m + 1 /\ (\A i \in 1..m : c[i] = s.rx_buf[i]) /\ c[m + 1] = n
    <3>1. PICK T : T = Segments
      OBVIOUS
    <3>2. s.rx_buf \in Seq(T) /\ n \in T
      BY <1>3, <3>1
    <3> QED BY <2>1, <2>9, <3>2, AppendProperties
  <2>11. l + (m + 1) <= Len(D) /\ \A i \in 1..(m + 1) : c[i].seq = D[l + i]
    <3>1. l + (m + 1) = k + 1
      BY <2>1, <2>2
    <3>2. ASSUME NEW i \in 1..(m + 1)
          PROVE  c[i].seq = D[l + i]
      <4>1. CASE i \in 1..m
        BY <2>3, <2>10, <4>1
      <4>2. CASE i = m + 1
        BY <2>7, <2>10, <3>1, <4>2
      <4> QED BY <2>2, <4>1, <4>2
    <3> QED BY <2>7, <3>1, <3>2
  <2>12. InOrd(r, t.rx_buf, D)
    BY <1>1, <2>1, <2>9, <2>10, <2>11 DEF InOrd
  <2>13. Cut(p, t.rx_nxt, D, Len(r) + Len(t.rx_buf))
    <3>1. Len(r) + Len(t.rx_buf) = k + 1
      BY <1>1, <2>1, <2>2, <2>9, <2>10
    <3> QED BY <1>5, <2>8, <3>1 DEF Cut
  <2>14. Pos(p, t.rx_nxt) <= B
    BY <1>3, <1>4, <1>5
  <2> QED BY <2>12, <2>13, <2>14
<1>8. Stored(t.rx_nbq, D) /\ \A j \in 1..Len(D) : Pos(p, D[j]) < Reach(h, t)
  BY <1>1, <1>2, <1>6 DEF Est
<1>9. Est(h, t, r, D, B)
  BY <1>2, <1>6, <1>7, <1>8 DEF Est
<1> QED BY <1>1, <1>6, <1>9

TakesData(h, a, s, k, r, D, B) ==
    /\ Takes(h, a, s, k) /\ Est(h, a.s, r, D, B)
    /\ Reach(h, a.s) = Reach(h, s) /\ Sends(h, a.s, s, Reach(h, s))

LEMMA TakeOneSends ==
    ASSUME NEW h \in Host, NEW s \in Sock(h), NEW r \in Seq(Num), NEW D \in Seq(Num), NEW B \in Nat, B <= Half,
           Rising(Peer(h), D, B), NEW k \in Nat, NEW a, TakesData(h, a, s, k + 1, r, D, B),
           NEW q \in Segments, q.len = 1, NEW g \in 1..Len(D), D[g] = q.seq, NEW b, b = TakeOne(a, q)
    PROVE  TakesData(h, b, s, k, r, D, B)
<1>1. PICK x : x = a.s
  OBVIOUS
<1>2. /\ x \in Sock(h) /\ Counted(x) /\ Est(h, x, r, D, B) /\ Reach(h, x) = Reach(h, s) /\ Sends(h, x, s, Reach(h, s))
      /\ Takes(h, a, s, k + 1)
  BY <1>1 DEF TakesData, Takes, RxStep
<1>3. Takes(h, b, s, k)
  BY <1>2, TakeOneStep
<1>4. CASE a.stop \/ SeqIsAfter(q.seq, x.rx_nxt)
  <2>1. b = [a EXCEPT !.stop = TRUE]
    BY <1>1, <1>4 DEF TakeOne
  <2>2. b = [s |-> x, flags |-> a.flags, stop |-> TRUE]
    BY <1>1, <1>2, <2>1 DEF Takes
  <2>3. b.s = x
    BY <2>2
  <2> QED BY <1>2, <1>3, <2>3 DEF TakesData
<1>5. CASE ~(a.stop \/ SeqIsAfter(q.seq, x.rx_nxt))
  <2>1. /\ Len(x.rx_nbq) = k + 1 /\ x.rx_nbq \in Seq(Segments) /\ x.rx_nbq # <<>>
        /\ x.adv \in Nat /\ Len(x.rx_nbq) <= x.adv /\ \A j \in 1..Len(x.rx_nbq) : x.rx_nbq[j].len = 1
    <3>1. Len(x.rx_nbq) = k + 1 /\ x.rx_nbq \in Seq(Segments) /\ x.adv \in Nat
      BY <1>1, <1>2, <1>5 DEF Takes, Sock
    <3>2. x.rx_nbq # <<>>
      BY <3>1, EmptySeq
    <3> QED BY <1>2, <3>1, <3>2 DEF Counted
  <2>2. PICK Q, A : Q = Tail(x.rx_nbq) /\ A = x.adv - q.len
    OBVIOUS
  <2>3. /\ Q \in Seq(Segments) /\ Len(Q) = k /\ A \in Nat /\ Len(Q) <= A
        /\ \A j \in 1..Len(Q) : j + 1 \in 1..Len(x.rx_nbq) /\ Q[j] = x.rx_nbq[j + 1]
    <3>1. Q \in Seq(Segments) /\ Len(Q) = k /\ \A j \in 1..Len(Q) : Q[j] = x.rx_nbq[j + 1]
      BY <2>1, <2>2, HeadTailProperties
    <3>2. A \in Nat /\ Len(Q) <= A
      BY <2>1, <2>2, <3>1
    <3>3. \A j \in 1..Len(Q) : j + 1 \in 1..Len(x.rx_nbq)
      BY <2>1, <3>1
    <3> QED BY <3>1, <3>2, <3>3
  <2>4. PICK u : u = [x EXCEPT !.rx_nbq = Q, !.adv = A]
    OBVIOUS
  <2>5. /\ u \in Sock(h) /\ u.rx_nbq = Q /\ u.rx_cnt = x.rx_cnt /\ u.rx_buf = x.rx_buf /\ u.adv = A
        /\ u.rx_nxt = x.rx_nxt /\ u.rx_win = x.rx_win /\ u.tx_nbq = x.tx_nbq /\ u.out = x.out
    BY <1>2, <2>3, <2>4 DEF Sock
  <2>6. Counted(u)
    BY <1>2, <2>1, <2>3, <2>5 DEF Counted
  <2>7. Stored(u.rx_nbq, D)
    BY <1>2, <2>3, <2>5 DEF Est, Stored
  <2>8. Reach(h, u) = Reach(h, x) /\ Outgoing(u) = Outgoing(x)
    BY <2>5, SameOutgoing DEF Reach
  <2>9. Est(h, u, r, D, B)
    BY <1>2, <2>5, <2>7, <2>8 DEF Est
  <2>10. Sends(h, u, s, Reach(h, s))
    BY <1>2, <2>8 DEF Sends
  <2>11. u = [a.s EXCEPT !.rx_nbq = Tail(@), !.adv = @ - q.len]
    BY <1>1, <2>2, <2>4
  <2>12. CASE q.seq # x.rx_nxt
    <3>1. b = [a EXCEPT !.s = u]
      BY <1>1, <1>5, <2>11, <2>12 DEF TakeOne
    <3>2. b = [s |-> u, flags |-> a.flags, stop |-> a.stop]
      BY <1>2, <3>1 DEF Takes
    <3>3. b.s = u
      BY <3>2
    <3> QED BY <1>2, <1>3, <2>8, <2>9, <2>10, <3>3 DEF TakesData
  <2>13. CASE q.seq = x.rx_nxt
    <3>1. PICK more \in BOOLEAN : more = (u.rx_nbq # <<>>)
      OBVIOUS
    <3>2. PICK v, F : v = NutTcpProcessAppData(u, q, more) /\ F = a.flags \cup q.flags
      OBVIOUS
    <3>3. b = [a EXCEPT !.s = v, !.flags = F]
      BY <1>1, <1>5, <2>11, <2>13, <3>1, <3>2 DEF TakeOne
    <3>4. b = [s |-> v, flags |-> F, stop |-> a.stop]
      BY <1>2, <3>3 DEF Takes
    <3>5. b.s = v
      BY <3>4
    <3>6. Est(h, v, r, D, B) /\ Reach(h, v) = Reach(h, u) /\ Sends(h, v, u, Reach(h, u))
      <4>1. q.seq = u.rx_nxt
        BY <2>5, <2>13
      <4> QED BY <2>5, <2>6, <2>9, <3>2, <4>1, EstData
    <3>7. Sends(h, v, s, Reach(h, s))
      BY <1>2, <2>8, <2>10, <3>6, SendsTrans
    <3> QED BY <1>2, <1>3, <2>8, <3>5, <3>6, <3>7 DEF TakesData
  <2> QED BY <2>12, <2>13
<1> QED BY <1>4, <1>5

LEMMA TakeAdvanceSends ==
    ASSUME NEW h \in Host, NEW s \in Sock(h), Counted(s), NEW r \in Seq(Num), NEW D \in Seq(Num), NEW B \in Nat,
           B <= Half, Rising(Peer(h), D, B), Est(h, s, r, D, B), NEW t, t = TakeAdvance(s).s
    PROVE  /\ RxStep(h, t, s) /\ Est(h, t, r, D, B)
           /\ Reach(h, t) = Reach(h, s) /\ Sends(h, t, s, Reach(h, s))
<1>1. PICK q, n : q = s.rx_nbq /\ n = Len(s.rx_nbq)
  OBVIOUS
<1>2. /\ q \in Seq(Segments) /\ n \in Nat /\ n = Len(q)
      /\ \A j \in 1..n : q[j] \in Segments /\ q[j].len = 1 /\ \E g \in 1..Len(D) : D[g] = q[j].seq
  <2>1. q \in Seq(Segments) /\ n \in Nat /\ n = Len(q)
    BY <1>1, LenProperties DEF Sock
  <2>2. \A j \in 1..n : q[j] \in Segments
    BY <2>1, ElementOfSeq
  <2>3. \A j \in 1..n : \E g \in 1..Len(D) : D[g] = q[j].seq
    BY <1>1 DEF Est, Stored
  <2> QED BY <1>1, <2>1, <2>2, <2>3 DEF Counted
<1>3. PICK e : e = [s |-> s, flags |-> {}, stop |-> FALSE]
  OBVIOUS
<1>4. PICK f : /\ \A i \in 0..n : f[i] = IF i = 0 THEN e ELSE TakeOne(f[i - 1], q[i])
               /\ TakeAdvance(s) = f[n]
  <2>1. PICK T : T = Segments
    OBVIOUS
  <2>2. s.rx_nbq \in Seq(T)
    BY <1>1, <1>2, <2>1
  <2> QED BY <1>1, <1>3, <2>2, TakeAdvanceWalk
<1>5. ASSUME NEW m \in 0..n, m < n, TakesData(h, f[m], s, n - m, r, D, B)
      PROVE  TakesData(h, f[m + 1], s, n - (m + 1), r, D, B)
  <2>1. m + 1 \in 1..n /\ n - (m + 1) \in Nat /\ (n - (m + 1)) + 1 = n - m
    BY <1>2, <1>5
  <2>2. f[m + 1] = TakeOne(f[m], q[m + 1])
    <3>1. m + 1 \in 0..n /\ m + 1 # 0 /\ (m + 1) - 1 = m
      BY <1>2, <1>5
    <3> QED BY <1>4, <3>1
  <2>3. q[m + 1] \in Segments /\ q[m + 1].len = 1
    BY <1>2, <2>1
  <2>4. PICK g \in 1..Len(D) : D[g] = q[m + 1].seq
    BY <1>2, <2>1
  <2>5. TakesData(h, f[m], s, (n - (m + 1)) + 1, r, D, B)
    BY <1>5, <2>1
  <2> QED BY <2>1, <2>2, <2>3, <2>4, <2>5, TakeOneSends
<1>6. TakesData(h, f[n], s, 0, r, D, B)
  <2> DEFINE C == {i \in 1..(n + 1) : ~TakesData(h, f[i - 1], s, n - (i - 1), r, D, B)}
  <2>1. SUFFICES ASSUME C # {} PROVE FALSE
    <3>1. n + 1 \in 1..(n + 1) /\ (n + 1) - 1 = n /\ n - n = 0
      BY <1>2
    <3> QED BY <3>1
  <2>2. PICK i \in C : \A j \in C : i <= j
    <3>1. n + 1 \in Nat /\ C \in SUBSET (1..(n + 1))
      BY <1>2
    <3> HIDE DEF C
    <3> QED BY <2>1, <3>1, FirstPosition
  <2>3. i # 1
    <3>1. f[0] = e
      <4>1. 0 \in 0..n
        BY <1>2
      <4> QED BY <1>4, <4>1
    <3>2. RxStep(h, s, s)
      BY DEF RxStep, SameTx, SameWait
    <3>3. Takes(h, e, s, n) /\ e.s = s
      BY <1>1, <1>3, <3>2 DEF Takes
    <3>4. Sends(h, s, s, Reach(h, s))
      BY DEF Sends
    <3>5. TakesData(h, e, s, n, r, D, B)
      BY <3>3, <3>4 DEF TakesData
    <3>6. 1 - 1 = 0 /\ n - 0 = n
      BY <1>2
    <3> QED BY <3>1, <3>5, <3>6
  <2>4. i - 1 \in 1..(n + 1) /\ i - 1 \notin C
    <3>1. i \in 1..(n + 1)
      OBVIOUS
    <3>2. i - 1 \in 1..(n + 1) /\ ~(i <= i - 1)
      BY <1>2, <2>3, <3>1
    <3> HIDE DEF C
    <3> QED BY <2>2, <3>2
  <2>5. PICK m : m = (i - 1) - 1
    OBVIOUS
  <2>6. m \in 0..n /\ m < n /\ m + 1 = i - 1
    BY <1>2, <2>3, <2>4, <2>5
  <2>7. TakesData(h, f[m], s, n - m, r, D, B)
    BY <2>4, <2>5
  <2>8. TakesData(h, f[i - 1], s, n - (i - 1), r, D, B)
    BY <1>5, <2>6, <2>7
  <2> QED BY <2>2, <2>8
<1>7. TakesData(h, TakeAdvance(s), s, 0, r, D, B)
  BY <1>4, <1>6
<1> QED BY <1>7 DEF TakesData, Takes

-----------------------------------------------------------------------------
(* A change of state may send SYN, FIN or an acknowledgment.                *)

(* Segment n is sent, and kept to be sent again.                            *)
SendsNew(h, t, s, n, F) ==
    /\ n \in Segments /\ n.seq = s.tx_nxt /\ n.len = 0 /\ n.flags = F \cap {"ACK", "SYN", "FIN"}
    /\ IsAck(n) => Window(h, n) <= Reach(h, s)
    /\ Outgoing(t) = Outgoing(s) \cup {n} /\ t.tx_flags = {}

LEMMA QueuedSends ==
    ASSUME NEW h \in Host, NEW s \in Sock(h), NEW F \in SUBSET {"SYN", "ACK", "FIN", "FORCE"},
           ~({"SYN", "FIN"} \subseteq F), F \cap {"SYN", "FIN"} # {},
           NEW t, t = NutTcpOutput([s EXCEPT !.tx_flags = F], 0)
    PROVE  \E n : SendsNew(h, t, s, n, F)
<1>1. PICK u : u = [s EXCEPT !.tx_flags = F]
  OBVIOUS
<1>2. /\ u.tx_flags = F /\ u.tx_nxt = s.tx_nxt /\ u.tx_nbq = s.tx_nbq /\ u.retran = s.retran
      /\ u.rx_nxt = s.rx_nxt /\ u.rx_win = s.rx_win /\ u.out = s.out
  BY <1>1 DEF Sock
<1>3. PICK n : n = Segment(u, 0)
  OBVIOUS
<1>4. /\ n \in Segments /\ n.seq = s.tx_nxt /\ n.len = 0 /\ n.flags = F \cap {"ACK", "SYN", "FIN"}
      /\ n.flags \cap {"SYN", "FIN"} # {} /\ n.win \in {0, s.rx_win} /\ ("ACK" \in n.flags => n.ack = s.rx_nxt)
  <2>1. PICK A, G : A = (IF "ACK" \in F THEN s.rx_nxt ELSE 0) /\ G = F \cap {"ACK", "SYN", "FIN"}
    OBVIOUS
  <2>2. G = (F \cap {"ACK", "SYN"}) \cup (IF 0 = 0 /\ "SYN" \notin F THEN F \cap {"FIN"} ELSE {})
    BY <2>1
  <2>3. PICK W : W = IF s.rx_win < Mss THEN 0 ELSE s.rx_win
    OBVIOUS
  <2>4. n = [seq |-> s.tx_nxt, ack |-> A, flags |-> G, win |-> W, len |-> 0]
    BY <1>2, <1>3, <2>1, <2>2, <2>3 DEF Segment
  <2>5. A \in Num /\ s.tx_nxt \in Num /\ G \in SUBSET {"SYN", "ACK", "FIN", "RST"}
    BY <2>1, SizeFacts, SMTT(45), ZenonT(60) DEF Sock, Num
  <2>6. W \in {0, s.rx_win} /\ W \in 0..WinSize
    BY <2>3, SizeFacts DEF Sock
  <2>7. n \in Segments
    BY <2>4, <2>5, <2>6 DEF Segments, Num
  <2> QED BY <2>1, <2>4, <2>6, <2>7
<1>5. IsAck(n) => Window(h, n) <= Reach(h, s)
  BY <1>4, WindowReach DEF IsAck
<1> DEFINE again == n.len > 0 \/ n.flags \cap {"SYN", "FIN"} # {}
<1>6. t = [u EXCEPT !.tx_flags = @ \ ({"FORCE", "ACK"} \cup n.flags), !.tx_nxt = SeqEnd(n),
                      !.tx_nbq = IF again THEN Append(@, n) ELSE @,
                      !.retran = @ \/ (again /\ u.tx_nbq = <<>>), !.out = @ \cup {n}]
  BY <1>1, <1>2, <1>3 DEF NutTcpOutput
<1>7. again
  BY <1>4
<1> HIDE DEF again
<1>8. PICK Q : Q = Append(s.tx_nbq, n)
  OBVIOUS
<1>9. t.out = s.out \cup {n} /\ t.tx_nbq = Q /\ t.tx_flags = {}
  <2>1. {"out", "tx_nbq", "tx_flags"} \subseteq DOMAIN u
    BY <1>1 DEF Sock
  <2>2. F \ ({"FORCE", "ACK"} \cup n.flags) = {}
    BY <1>4
  <2>3. /\ t.out = u.out \cup {n} /\ t.tx_nbq = Append(u.tx_nbq, n)
        /\ t.tx_flags = u.tx_flags \ ({"FORCE", "ACK"} \cup n.flags)
    BY <1>6, <1>7, <2>1
  <2> QED BY <1>2, <1>8, <2>2, <2>3
<1>10. PICK q, T : q = s.tx_nbq /\ T = Segments
  OBVIOUS
<1>11. q \in Seq(T) /\ n \in T /\ Len(q) \in Nat
  <2>1. s.tx_nbq \in Seq(SegOf(h)) /\ SegOf(h) \subseteq Segments
    BY DEF Sock, SegOf
  <2> QED BY <1>4, <1>10, <2>1, SeqMonotonic, LenProperties
<1>12. Len(Q) = Len(q) + 1 /\ Q[Len(q) + 1] = n /\ \A i \in 1..Len(q) : Q[i] = q[i]
  BY <1>8, <1>10, <1>11, AppendProperties
<1>13. {Q[i] : i \in 1..Len(Q)} = {q[i] : i \in 1..Len(q)} \cup {n}
  <2>1. \A i \in 1..Len(Q) : i \in 1..Len(q) \/ i = Len(q) + 1
    BY <1>11, <1>12
  <2>2. Len(q) + 1 \in 1..Len(Q) /\ \A i \in 1..Len(q) : i \in 1..Len(Q)
    BY <1>11, <1>12
  <2> QED BY <1>12, <2>1, <2>2
<1>14. Outgoing(t) = Outgoing(s) \cup {n}
  <2>1. PICK X, Y : X = {Q[i] : i \in 1..Len(Q)} /\ Y = {q[i] : i \in 1..Len(q)}
    OBVIOUS
  <2>2. Outgoing(t) = t.out \cup X
    BY <1>9, <2>1 DEF Outgoing
  <2>3. Outgoing(s) = s.out \cup Y
    BY <1>10, <2>1 DEF Outgoing
  <2> QED BY <1>9, <1>13, <2>1, <2>2, <2>3
<1>15. SendsNew(h, t, s, n, F)
  BY <1>4, <1>5, <1>9, <1>14 DEF SendsNew
<1> QED BY <1>15

LEMMA ChangeSends ==
    ASSUME NEW h \in Host, NEW s \in Sock(h), Counted(s), NEW x \in States(h), NEW F,
           <<s.state, x, F>> \in Changes, NEW t, t = NutTcpStateChange(s, x)
    PROVE  /\ "SYN" \notin F => Sends(h, t, s, Reach(h, s))
           /\ F = {} => Outgoing(t) = Outgoing(s) /\ t.tx_flags = s.tx_flags
           /\ "SYN" \in F => \E n : SendsNew(h, t, s, n, s.tx_flags \cup F)
<1>1. PICK c \in Changes : c = <<s.state, x, F>>
  OBVIOUS
<1>2. /\ c[1] = s.state /\ c[2] = x /\ c[3] = F
      /\ F \in SUBSET {"SYN", "ACK", "FIN", "FORCE"} /\ ~({"SYN", "FIN"} \subseteq F)
  <2>1. c[1] = s.state /\ c[2] = x /\ c[3] = F
    BY <1>1
  <2> QED BY <2>1, ChangesFlags
<1>3. s.tx_flags \in SUBSET {"ACK", "FORCE"}
  BY DEF Sock
<1>4. PICK G : G = s.tx_flags \cup F
  OBVIOUS
<1>5. G \in SUBSET {"SYN", "ACK", "FIN", "FORCE"} /\ G \cap {"SYN", "FIN"} = F \cap {"SYN", "FIN"}
  BY <1>2, <1>3, <1>4
<1>6. PICK v : v = [s EXCEPT !.state = x]
  OBVIOUS
<1>7. /\ v \in Sock(h) /\ v.tx_flags = s.tx_flags /\ v.tx_nbq = s.tx_nbq /\ v.out = s.out
      /\ v.rx_nxt = s.rx_nxt /\ v.rx_win = s.rx_win /\ v.tx_nxt = s.tx_nxt
      /\ Counted(v)
  <2>1. /\ v \in Sock(h) /\ v.tx_flags = s.tx_flags /\ v.tx_nbq = s.tx_nbq /\ v.out = s.out
      /\ v.rx_nxt = s.rx_nxt /\ v.rx_win = s.rx_win /\ v.tx_nxt = s.tx_nxt
    BY <1>6 DEF Sock
  <2>2. v.rx_buf = s.rx_buf /\ v.rx_cnt = s.rx_cnt /\ v.rx_nbq = s.rx_nbq /\ v.adv = s.adv
    BY <1>6 DEF Sock
  <2> QED BY <2>1, <2>2 DEF Counted
<1>8. Outgoing(v) = Outgoing(s) /\ Reach(h, v) = Reach(h, s)
  BY <1>7, SameOutgoing DEF Reach
<1>9. PICK w : w = [v EXCEPT !.tx_flags = G]
  OBVIOUS
<1>10. PICK u : u = IF F # {} THEN NutTcpOutput(w, 0) ELSE w
  OBVIOUS
<1>11. /\ "SYN" \notin F => Sends(h, u, s, Reach(h, s))
       /\ F = {} => Outgoing(u) = Outgoing(s) /\ u.tx_flags = s.tx_flags
       /\ "SYN" \in F => \E n : SendsNew(h, u, s, n, G)
       /\ u \in Sock(h) /\ Counted(u)
  <2>1. CASE F \cap {"SYN", "FIN"} = {}
    <3>1. G \in SUBSET {"ACK", "FORCE"}
      BY <1>5, <2>1
    <3>2. w \in Sock(h) /\ w.out = v.out /\ w.tx_nbq = v.tx_nbq /\ w.rx_nxt = v.rx_nxt /\ w.rx_win = v.rx_win
          /\ w.tx_flags = G /\ SameRx(w, v)
      BY <1>7, <1>9, <3>1 DEF Sock, SameRx
    <3>3. Outgoing(w) = Outgoing(s) /\ Reach(h, w) = Reach(h, s)
      BY <1>7, <1>8, <3>2, SameOutgoing DEF Reach
    <3>4. Sends(h, u, w, Reach(h, w)) /\ u \in Sock(h) /\ Counted(u) /\ (F = {} => u = w)
      <4>1. Counted(w)
        BY <1>7, <3>2 DEF Counted, SameRx
      <4>2. CASE u = NutTcpOutput(w, 0) /\ F # {}
        BY <3>2, <4>1, <4>2, PlainSends, PlainStep DEF RxStep
      <4>3. CASE u = w
        BY <3>2, <4>1, <4>3 DEF Sends
      <4> QED BY <1>10, <4>2, <4>3
    <3>5. F = {} => G = s.tx_flags
      BY <1>4
    <3> QED BY <2>1, <3>2, <3>3, <3>4, <3>5 DEF Sends
  <2>2. CASE F \cap {"SYN", "FIN"} # {}
    <3>1. u = NutTcpOutput([v EXCEPT !.tx_flags = G], 0)
      BY <1>9, <1>10, <2>2
    <3>2. PICK n : SendsNew(h, u, v, n, G)
      BY <1>2, <1>5, <1>7, <2>2, <3>1, QueuedSends
    <3>3. SendsNew(h, u, s, n, G)
      BY <1>7, <1>8, <3>2 DEF SendsNew
    <3>4. "SYN" \notin F => Plain(h, n, Reach(h, s))
      <4>1. "SYN" \notin F => "SYN" \notin n.flags
        BY <1>3, <1>4, <3>3 DEF SendsNew
      <4>2. Reach(h, s) \in Nat
        BY TopFacts
      <4> QED BY <3>3, <4>1, <4>2 DEF Plain, SendsNew
    <3>5. "SYN" \notin F => Sends(h, u, s, Reach(h, s))
      BY <3>3, <3>4 DEF Sends, SendsNew
    <3>6. u \in Sock(h) /\ Counted(u)
      <4>1. h = Server /\ "SYN" \in G => "ACK" \in G
        <5>1. h = Server => x # "SYN_SENT"
          BY HostAssumption DEF States, Synchronized
        <5>2. "SYN" \in F => "ACK" \in F \/ x = "SYN_SENT"
          BY <1>2, ChangesFlags
        <5> QED BY <1>3, <1>4, <5>1, <5>2
      <4> QED BY <1>2, <1>5, <1>7, <2>2, <3>1, <4>1, QueuedOutput
    <3> QED BY <2>2, <3>3, <3>5, <3>6
  <2> QED BY <2>1, <2>2
<1>12. t = IF x = "CLOSE_WAIT" THEN Broadcast(Broadcast(Broadcast(u, "rx_tq"), "pc_tq"), "ac_tq") ELSE u
  <2>1. PICK change : change = {e \in Changes : e[1] = s.state /\ e[2] = x}
    OBVIOUS
  <2>2. change = {c}
    BY <1>2, <2>1, ChangesFunction
  <2>3. UNION {e[3] : e \in change} = F
    BY <1>2, <2>2
  <2>4. w = [s EXCEPT !.state = x, !.tx_flags = @ \cup UNION {e[3] : e \in change}]
    BY <1>4, <1>6, <1>7, <1>9, <2>3
  <2> QED BY <1>10, <2>1, <2>2, <2>3, <2>4 DEF NutTcpStateChange
<1>13. Outgoing(t) = Outgoing(u) /\ t.tx_flags = u.tx_flags
  <2>1. PICK b1 : b1 = Broadcast(u, "rx_tq")
    OBVIOUS
  <2>2. b1 \in Sock(h) /\ Counted(b1) /\ Outgoing(b1) = Outgoing(u) /\ b1.tx_flags = u.tx_flags
    <3>1. b1 \in Sock(h) /\ Counted(b1)
      BY <1>11, <2>1, BroadcastStep DEF Queues
    <3> QED BY <1>11, <2>1, <3>1, WakeSends
  <2>3. PICK b2 : b2 = Broadcast(b1, "pc_tq")
    OBVIOUS
  <2>4. b2 \in Sock(h) /\ Counted(b2) /\ Outgoing(b2) = Outgoing(b1) /\ b2.tx_flags = b1.tx_flags
    <3>1. b2 \in Sock(h) /\ Counted(b2)
      BY <2>2, <2>3, BroadcastStep DEF Queues
    <3> QED BY <2>2, <2>3, <3>1, WakeSends
  <2>5. CASE x = "CLOSE_WAIT"
    <3>1. t = Broadcast(b2, "ac_tq")
      BY <1>12, <2>1, <2>3, <2>5
    <3> QED BY <2>2, <2>4, <3>1, WakeSends
  <2>6. CASE x # "CLOSE_WAIT"
    BY <1>12, <2>6
  <2> QED BY <2>5, <2>6
<1> QED BY <1>4, <1>11, <1>13 DEF Sends, SendsNew

-----------------------------------------------------------------------------
(* How far the two hosts have come.                                         *)

(* How far host h has let its peer go: not at all after the connection.     *)
Edge(h, s, c) ==
    IF s.state = "ESTABLISHED" THEN Reach(h, s)
    ELSE IF s.state \in Open \/ c = "start" THEN Opening ELSE Top

(* Where the numbers that host h has used end.                              *)
Bound(h, s, c) == IF s.state \in Live \/ c = "start" THEN Pos(h, s.tx_nxt) ELSE Half

(* A segment of host h that sends data d, has used numbers up to bound B,   *)
(* and lets the peer go up to e.                                            *)
Fine(h, n, d, B, e) ==
    /\ n.len = 1 => "SYN" \notin n.flags /\ \E j \in 1..Len(d) : d[j] = n.seq
    /\ "SYN" \in n.flags => /\ Pos(h, n.seq) < B /\ (h = Client => Pos(h, n.seq) = 0)
                            /\ \A j \in 1..Len(d) : Pos(h, n.seq) < Pos(h, d[j])
    /\ IsAck(n) => Window(h, n) <= e

(* What host h may send fits what its peer lets it send.                    *)
Room(h, s, e) == Pos(h, s.tx_una) + s.tx_win <= e

(* Nothing has been received.                                               *)
Fresh(s, r) ==
    /\ s.rx_cnt = 0 /\ s.rx_win = WinSize /\ s.rx_buf = <<>> /\ s.rx_nbq = <<>>
    /\ "ACK" \notin s.tx_flags /\ r = <<>>

(* The receiving side of host h, whose peer has sent data D and used the    *)
(* numbers up to B.                                                         *)
Rcv(h, s, r, D, B) ==
    /\ s.state \in Open => Fresh(s, r)
    /\ s.state = "SYN_RECEIVED" => Pos(Peer(h), s.rx_nxt) = 1 /\ 1 <= B
    /\ s.state = "ESTABLISHED" => Est(h, s, r, D, B)
    /\ s.state = "CLOSE_WAIT" /\ Fair(h) => InOrd(r, s.rx_buf, D)
    /\ s.state \in {"NONE", "CLOSED"} => s.rx_buf = <<>>
    /\ s.state = "SYN_SENT" => s.tx_una = Isn[h]
    /\ s.state \in {"SYN_SENT", "SYN_RECEIVED"} => s.tx_una # s.tx_nxt

LEMMA EdgeFacts ==
    ASSUME NEW h \in Host, NEW s \in Sock(h), NEW c
    PROVE  /\ Edge(h, s, c) \in Nat /\ Edge(h, s, c) <= Top /\ Bound(h, s, c) \in Nat
           /\ s.state \in Late /\ c # "start" => Edge(h, s, c) = Top
<1>1. /\ Top \in Nat /\ Opening <= Top /\ Reach(h, s) \in Nat /\ Reach(h, s) <= Top
      /\ Opening \in Nat /\ Half \in Nat
  BY TopFacts, HalfFacts
<1>2. s.tx_nxt \in Num
  BY DEF Sock
<1>3. Pos(h, s.tx_nxt) \in Nat
  BY <1>2, PosNat
<1>4. Edge(h, s, c) \in Nat /\ Edge(h, s, c) <= Top /\ Bound(h, s, c) \in Nat
  BY <1>1, <1>3 DEF Edge, Bound
<1>5. s.state \in Late /\ c # "start" => Edge(h, s, c) = Top
  BY DEF Late, Edge, Open
<1> QED BY <1>4, <1>5

LEMMA FineMore ==
    ASSUME NEW h \in Host, NEW n \in Segments, NEW d, NEW B \in Nat, NEW C \in Nat, NEW e \in Nat, NEW f \in Nat,
           B <= C, e <= f, Fine(h, n, d, B, e)
    PROVE  Fine(h, n, d, C, f)
<1>1. n.seq \in Num /\ Window(h, n) \in Nat
  BY TopFacts DEF Segments, Num
<1>2. Pos(h, n.seq) \in Nat
  BY <1>1, PosNat
<1> QED BY <1>1, <1>2 DEF Fine

LEMMA FineLonger ==
    ASSUME NEW h \in Host, NEW n \in Segments, NEW d \in Seq(Num), NEW x \in Num, NEW B \in Nat, NEW e,
           B <= Pos(h, x), Fine(h, n, d, B, e)
    PROVE  Fine(h, n, Append(d, x), B, e)
<1>1. PICK c : c = Append(d, x)
  OBVIOUS
<1>2. Len(d) \in Nat /\ Len(c) = Len(d) + 1 /\ (\A j \in 1..Len(d) : c[j] = d[j]) /\ c[Len(d) + 1] = x
  BY <1>1, LenProperties, AppendProperties
<1>3. Pos(h, n.seq) \in Nat /\ Pos(h, x) \in Nat
  BY PosNat DEF Segments, Num
<1>4. "SYN" \in n.flags => \A j \in 1..Len(c) : Pos(h, n.seq) < Pos(h, c[j])
  <2>1. SUFFICES ASSUME "SYN" \in n.flags, NEW j \in 1..Len(c) PROVE Pos(h, n.seq) < Pos(h, c[j])
    OBVIOUS
  <2>2. Pos(h, n.seq) < B /\ \A i \in 1..Len(d) : Pos(h, n.seq) < Pos(h, d[i])
    BY <2>1 DEF Fine
  <2>3. CASE j \in 1..Len(d)
    BY <1>2, <2>2, <2>3
  <2>4. CASE j = Len(d) + 1
    BY <1>2, <1>3, <2>2, <2>4
  <2> QED BY <1>2, <2>3, <2>4
<1>5. (\E j \in 1..Len(d) : d[j] = n.seq) => \E j \in 1..Len(c) : c[j] = n.seq
  <2>1. \A j \in 1..Len(d) : j \in 1..Len(c)
    BY <1>2
  <2> QED BY <1>2, <2>1
<1>6. Fine(h, n, c, B, e)
  BY <1>4, <1>5 DEF Fine
<1> QED BY <1>1, <1>6

LEMMA PlainFine ==
    ASSUME NEW h, NEW n, NEW d, NEW B, NEW e, Plain(h, n, e)
    PROVE  Fine(h, n, d, B, e)
BY DEF Plain, Fine

-----------------------------------------------------------------------------
(* Steps of the state machine.                                              *)

(* Host h, before a step: d and r are what its application has sent and     *)
(* received, D what its peer has sent, B and e the peer's bound and edge.   *)
Ready(h, s, d, r, D, B, e) ==
    /\ Good(h, s, d) /\ d \in DataOf(h) /\ r \in Seq(Num) /\ D \in DataOf(Peer(h))
    /\ B \in Nat /\ B <= Half /\ e \in Nat /\ Rising(Peer(h), D, B)
    /\ \A j \in 1..Len(D) : Pos(Peer(h), D[j]) < Edge(h, s, "run")
    /\ s.state = "ESTABLISHED" => Room(h, s, e)
    /\ Rcv(h, s, r, D, B)

(* The step makes t of the socket s.                                        *)
Turn(h, t, s, d, r, D, B, e) ==
    /\ \A n \in Outgoing(t) : n \in Outgoing(s) \/ Fine(h, n, d, Bound(h, t, "run"), Edge(h, t, "run"))
    /\ Edge(h, s, "run") <= Edge(h, t, "run")
    /\ t.state \in Live => s.state \in Live /\ Pos(h, s.tx_nxt) <= Pos(h, t.tx_nxt)
    /\ t.state \in Late => s.state \in Late
    /\ t.state = "ESTABLISHED" => Room(h, t, e)
    /\ Rcv(h, t, r, D, B)

LEMMA BoundMore ==
    ASSUME NEW h \in Host, NEW s, NEW d \in DataOf(h), Good(h, s, d), NEW t,
           t.state \in Live => s.state \in Live /\ Pos(h, s.tx_nxt) <= Pos(h, t.tx_nxt)
    PROVE  Bound(h, s, "run") <= Bound(h, t, "run") /\ Bound(h, s, "run") <= Half
<1>1. s.tx_nxt \in Num /\ Tx(h, s, d)
  BY DEF Good, Sock
<1>2. Pos(h, s.tx_nxt) \in Nat /\ Half \in Nat
  BY <1>1, PosNat, HalfFacts
<1>3. s.state \in Live => Pos(h, s.tx_nxt) <= Half
  <2>1. Limit(s.state, Len(d)) \in Nat /\ Limit(s.state, Len(d)) < Half
    BY LimitFacts
  <2> QED BY <1>1, <1>2, <2>1 DEF Tx
<1> QED BY <1>2, <1>3 DEF Bound

LEMMA TurnTrans ==
    ASSUME NEW h \in Host, NEW s, NEW t, NEW u, NEW d \in DataOf(h), NEW r, NEW D, NEW B, NEW e,
           Good(h, s, d), Good(h, t, d), Good(h, u, d),
           Turn(h, t, s, d, r, D, B, e), Turn(h, u, t, d, r, D, B, e)
    PROVE  Turn(h, u, s, d, r, D, B, e)
<1>1. s \in Sock(h) /\ t \in Sock(h) /\ u \in Sock(h)
  BY DEF Good
<1>2. PICK f, g, i : f = Edge(h, s, "run") /\ g = Edge(h, t, "run") /\ i = Edge(h, u, "run")
  OBVIOUS
<1>3. f \in Nat /\ g \in Nat /\ i \in Nat /\ f <= g /\ g <= i
  BY <1>1, <1>2, EdgeFacts DEF Turn
<1>4. u.state \in Live => s.state \in Live /\ Pos(h, s.tx_nxt) <= Pos(h, u.tx_nxt)
  <2>1. Pos(h, s.tx_nxt) \in Nat /\ Pos(h, t.tx_nxt) \in Nat /\ Pos(h, u.tx_nxt) \in Nat
    BY <1>1, PosNat DEF Sock
  <2> QED BY <2>1 DEF Turn
<1>5. PICK C, E : C = Bound(h, t, "run") /\ E = Bound(h, u, "run")
  OBVIOUS
<1>6. C \in Nat /\ E \in Nat /\ C <= E
  <2>1. u.state \in Live => t.state \in Live /\ Pos(h, t.tx_nxt) <= Pos(h, u.tx_nxt)
    BY DEF Turn
  <2> QED BY <1>1, <1>5, <2>1, EdgeFacts, BoundMore
<1>7. ASSUME NEW n \in Outgoing(u)
      PROVE  n \in Outgoing(s) \/ Fine(h, n, d, E, i)
  <2>1. n \in Segments
    <3>1. u.out \subseteq SegOf(h) /\ u.tx_nbq \in Seq(SegOf(h))
      BY <1>1 DEF Sock
    <3> QED BY <1>7, <3>1, ElementOfSeq DEF Outgoing, SegOf
  <2>2. n \in Outgoing(t) \/ Fine(h, n, d, E, i)
    BY <1>2, <1>5, <1>7 DEF Turn
  <2>3. n \in Outgoing(t) => n \in Outgoing(s) \/ Fine(h, n, d, C, g)
    BY <1>2, <1>5 DEF Turn
  <2>4. Fine(h, n, d, C, g) => Fine(h, n, d, E, i)
    BY <1>3, <1>6, <2>1, FineMore
  <2> QED BY <2>2, <2>3, <2>4
<1> QED BY <1>2, <1>3, <1>4, <1>5, <1>7 DEF Turn

(* The connection is over.                                                  *)
LEMMA EndedTurn ==
    ASSUME NEW h \in Host, NEW s \in Sock(h), NEW t, Ended(h, t, s), NEW d, NEW r, NEW D, NEW B, NEW e
    PROVE  Turn(h, t, s, d, r, D, B, e)
<1>1. /\ t \in Sock(h) /\ t.state \in {"NONE", "CLOSED", "TIME_WAIT"} /\ t.rx_buf = <<>>
      /\ Outgoing(t) \subseteq Outgoing(s) /\ (t.state = "TIME_WAIT" => s.state \in Late)
  BY DEF Ended, Dead
<1>2. Edge(h, s, "run") <= Edge(h, t, "run")
  <2>1. Edge(h, t, "run") = Top
    BY <1>1 DEF Edge, Open
  <2> QED BY <2>1, EdgeFacts
<1>3. t.state \notin Live /\ t.state # "ESTABLISHED" /\ (t.state \in Late => s.state \in Late)
  BY <1>1 DEF Live, Open, Synchronized, Late
<1>4. Rcv(h, t, r, D, B)
  BY <1>1 DEF Rcv, Open
<1> QED BY <1>1, <1>2, <1>3, <1>4 DEF Turn

(* What was received, and what may be sent, stays as it is.                 *)
LEMMA KeepsTurn ==
    ASSUME NEW h \in Host, NEW s, NEW d, NEW r, NEW D, NEW B, NEW e, Ready(h, s, d, r, D, B, e),
           NEW t \in Sock(h), t.state = s.state, SameRx(t, s),
           t.tx_una = s.tx_una, t.tx_nxt = s.tx_nxt, t.tx_win = s.tx_win,
           Sends(h, t, s, Edge(h, s, "run")), s.state \in Open => t.tx_flags = s.tx_flags
    PROVE  Turn(h, t, s, d, r, D, B, e)
<1>1. s \in Sock(h) /\ Rcv(h, s, r, D, B) /\ (s.state = "ESTABLISHED" => Room(h, s, e))
  BY DEF Ready, Good
<1>2. Reach(h, t) = Reach(h, s) /\ Edge(h, t, "run") = Edge(h, s, "run") /\ Edge(h, s, "run") \in Nat
  BY <1>1, EdgeFacts DEF SameRx, Reach, Edge
<1>3. \A n \in Outgoing(t) : n \in Outgoing(s) \/ Fine(h, n, d, Bound(h, t, "run"), Edge(h, t, "run"))
  BY <1>2, PlainFine DEF Sends
<1>4. Pos(h, s.tx_nxt) <= Pos(h, t.tx_nxt)
  <2>1. Pos(h, s.tx_nxt) \in Nat
    BY <1>1, PosNat DEF Sock
  <2> QED BY <2>1
<1>5. t.state = "ESTABLISHED" => Room(h, t, e)
  BY <1>1 DEF Room
<1>6. Rcv(h, t, r, D, B)
  <2>1. s.state = "ESTABLISHED" => Est(h, t, r, D, B)
    BY <1>1, EstSame DEF Rcv
  <2>2. s.state \in Open => Fresh(t, r)
    BY <1>1 DEF Rcv, Fresh, SameRx
  <2> QED BY <1>1, <2>1, <2>2 DEF Rcv, SameRx
<1> QED BY <1>2, <1>3, <1>4, <1>5, <1>6 DEF Turn

LEMMA SameTurn ==
    ASSUME NEW h \in Host, NEW s, NEW d, NEW r, NEW D, NEW B, NEW e, Ready(h, s, d, r, D, B, e)
    PROVE  Turn(h, s, s, d, r, D, B, e)
<1>1. s \in Sock(h) /\ SameRx(s, s) /\ Sends(h, s, s, Edge(h, s, "run"))
  BY DEF Ready, Good, SameRx, Sends
<1> QED BY <1>1, KeepsTurn

LEMMA RejectTurn ==
    ASSUME NEW h \in Host, NEW s, NEW d, NEW r, NEW D, NEW B, NEW e, Ready(h, s, d, r, D, B, e),
           NEW n \in Segments, NEW t, t = Reject(s, n)
    PROVE  Turn(h, t, s, d, r, D, B, e)
<1>1. s \in Sock(h) /\ Counted(s)
  BY DEF Ready, Good
<1>2. t \in Sock(h) /\ t.state = s.state /\ SameTx(t, s) /\ SameRx(t, s)
  BY <1>1, RejectStep DEF RxStep
<1>3. Sends(h, t, s, Edge(h, s, "run")) /\ t.tx_flags = s.tx_flags
  BY <1>1, RejectSends
<1> QED BY <1>2, <1>3, KeepsTurn DEF SameTx

-----------------------------------------------------------------------------
(* The application has closed the socket: whatever arrives is for nobody.   *)

(* The step leads to a state for whose buffer there is a reader no more.    *)
Ends(h, t, s, n) ==
    /\ t \in Sock(h) /\ Counted(t) /\ Sends(h, t, s, Top)
    /\ t.state \in Late \cup {"NONE", "CLOSED"}
    /\ t.state \in Live => s.state \in Live /\ t.tx_nxt = s.tx_nxt
    /\ t.state \in {"NONE", "CLOSED"} => t.rx_buf = <<>> /\ n.len = 0

LEMMA EndsTrans ==
    ASSUME NEW h, NEW s, NEW t, NEW u, NEW n, Ends(h, t, s, n), Ends(h, u, t, n)
    PROVE  Ends(h, u, s, n)
BY SendsTrans DEF Ends

LEMMA EndedEnds ==
    ASSUME NEW h \in Host, NEW s \in Sock(h), NEW t, Ended(h, t, s), NEW n, n.len = 0
    PROVE  Ends(h, t, s, n)
<1>1. t.state \notin Live /\ t.state \in Late \cup {"NONE", "CLOSED"}
  BY DEF Ended, Dead, Live, Open, Synchronized, Late
<1>2. Sends(h, t, s, Top)
  BY SendsFewer DEF Ended
<1> QED BY <1>1, <1>2 DEF Ended, Dead, Ends

LEMMA AckEnds ==
    ASSUME NEW h \in Host, NEW s \in Sock(h), Counted(s), s.state \in Late, NEW n \in Segments, NEW up \in BOOLEAN,
           NEW t, t = NutTcpProcessAck(s, n, up)
    PROVE  Ends(h, t, s, n)
<1>1. CASE Ended(h, t, s) /\ n.len = 0
  BY <1>1, EndedEnds
<1>2. CASE Acks(h, t, s, n)
  <2>1. Sends(h, t, s, Top)
    BY <1>2, SendsFewer DEF Acks
  <2>2. s.state \notin {"NONE", "CLOSED"}
    BY DEF Late
  <2> QED BY <1>2, <2>1, <2>2 DEF Acks, AckStep, Ends
<1> QED BY <1>1, <1>2, ProcessAckSends

(* A socket without a reader changes its state, or is refused to.           *)
LEMMA ChangeEnds ==
    ASSUME NEW h \in Host, NEW s \in Sock(h), Counted(s), s.state \in Late \cup {"NONE", "CLOSED"},
           NEW n, s.state \in {"NONE", "CLOSED"} => s.rx_buf = <<>> /\ n.len = 0,
           NEW x \in Late, NEW t, t = NutTcpStateChange(s, x)
    PROVE  Ends(h, t, s, n)
<1>1. CASE t = s
  BY <1>1 DEF Ends, Sends
<1>2. CASE \E c \in Changes : c[1] = s.state /\ c[2] = x
  <2>1. PICK c \in Changes : c[1] = s.state /\ c[2] = x
    BY <1>2
  <2>2. PICK F : F = c[3]
    OBVIOUS
  <2>3. <<s.state, x, F>> \in Changes /\ F \cap {"SYN", "FIN"} = {} /\ s.state \in Live
    <3>1. c \in Changes /\ c[1] \in Late \cup {"NONE", "CLOSED"} /\ c[2] \in Late
      BY <2>1
    <3>2. c = <<c[1], c[2], c[3]>> /\ c[3] \cap {"SYN", "FIN"} = {} /\ c[1] \in Live
      BY <3>1 DEF Changes, Late, Live, Synchronized
    <3> QED BY <2>1, <2>2, <3>2
  <2>4. x \in States(h)
    BY DEF Late, States, Synchronized
  <2>5. t \in Sock(h) /\ Counted(t) /\ t.state = x /\ SameTx(t, s)
    BY <2>3, <2>4, MoveStep
  <2>6. Sends(h, t, s, Top)
    <3>1. Sends(h, t, s, Reach(h, s))
      BY <2>3, <2>4, ChangeSends
    <3> QED BY <3>1, TopFacts, SendsMore
  <2>7. x \notin {"NONE", "CLOSED"}
    BY DEF Late
  <2> QED BY <2>3, <2>5, <2>6, <2>7 DEF Ends, SameTx
<1> QED BY <1>1, <1>2, ChangeRefused

LEMMA FinWaitDataEnds ==
    ASSUME NEW h \in Host, NEW s \in Sock(h), Counted(s), s.state \in Late \cup {"NONE", "CLOSED"},
           NEW n \in Segments, s.state \in {"NONE", "CLOSED"} => s.rx_buf = <<>> /\ n.len = 0,
           NEW more \in BOOLEAN, NEW t, t = FinWaitData(s, n, more)
    PROVE  Ends(h, t, s, n)
<1>1. CASE t = s
  BY <1>1 DEF Ends, Sends
<1>2. CASE n.len = 1 /\ t = Post(NutTcpProcessAppData(s, n, more), "rx_tq")
  <2>1. PICK u : u = NutTcpProcessAppData(s, n, more)
    OBVIOUS
  <2>2. RxStep(h, u, s) /\ Sends(h, u, s, Reach(h, u))
    BY <1>2, <2>1, AppDataStep, AppDataSends
  <2>3. u \in Sock(h) /\ Counted(u) /\ u.state = s.state /\ u.tx_nxt = s.tx_nxt
    BY <2>2 DEF RxStep, SameTx
  <2>4. t \in Sock(h) /\ Counted(t) /\ t.state = u.state /\ SameTx(t, u) /\ Outgoing(t) = Outgoing(u)
    BY <1>2, <2>1, <2>3, PostStep, WakeSends DEF Queues
  <2>5. Sends(h, u, s, Top)
    BY <2>2, <2>3, TopFacts, SendsMore
  <2>6. Sends(h, t, s, Top)
    BY <2>4, <2>5 DEF Sends
  <2> QED BY <1>2, <2>3, <2>4, <2>6 DEF Ends, SameTx
<1>3. n.len = 0 \/ n.len = 1
  BY DEF Segments
<1> QED BY <1>1, <1>2, <1>3 DEF FinWaitData

LEMMA FinEnds ==
    ASSUME NEW h \in Host, NEW s \in Sock(h), Counted(s), s.state \in Late \cup {"NONE", "CLOSED"},
           NEW n, s.state \in {"NONE", "CLOSED"} => s.rx_buf = <<>> /\ n.len = 0,
           NEW t, \/ t = [s EXCEPT !.rx_nxt = SeqPlus(@, 1), !.time_wait = 0]
                  \/ t = [s EXCEPT !.time_wait = 0] \/ t = [s EXCEPT !.time_wait = @ + 1]
    PROVE  Ends(h, t, s, n)
<1>1. RxStep(h, t, s)
  BY FinStep
<1>2. t.tx_nbq = s.tx_nbq /\ t.out = s.out /\ t.rx_buf = s.rx_buf
  <2>1. {"tx_nbq", "out", "rx_buf"} \subseteq DOMAIN s
    BY DEF Sock
  <2> QED BY <2>1
<1>3. Sends(h, t, s, Top)
  BY <1>2, SameOutgoing, SendsFewer
<1> QED BY <1>1, <1>2, <1>3 DEF RxStep, SameTx, Ends

LEMMA EndsTurn ==
    ASSUME NEW h \in Host, NEW s \in Sock(h), s.state \in Late, NEW n, NEW t, Ends(h, t, s, n),
           NEW d, NEW r, NEW D, NEW B, NEW e
    PROVE  Turn(h, t, s, d, r, D, B, e)
<1>1. t \in Sock(h) /\ t.state \in Late \cup {"NONE", "CLOSED"} /\ (t.state \in {"NONE", "CLOSED"} => t.rx_buf = <<>>)
  BY DEF Ends
<1>2. Edge(h, t, "run") = Top
  BY <1>1 DEF Edge, Open, Late
<1>3. Edge(h, s, "run") <= Edge(h, t, "run")
  BY <1>2, EdgeFacts
<1>4. \A m \in Outgoing(t) : m \in Outgoing(s) \/ Fine(h, m, d, Bound(h, t, "run"), Edge(h, t, "run"))
  BY <1>2, PlainFine DEF Sends, Ends
<1>5. t.state \in Live => s.state \in Live /\ Pos(h, s.tx_nxt) <= Pos(h, t.tx_nxt)
  <2>1. Pos(h, s.tx_nxt) \in Nat
    BY PosNat DEF Sock
  <2> QED BY <2>1 DEF Ends
<1>6. t.state # "ESTABLISHED" /\ Rcv(h, t, r, D, B)
  BY <1>1 DEF Rcv, Open, Late
<1> QED BY <1>3, <1>4, <1>5, <1>6 DEF Turn

LEMMA EndsState ==
    ASSUME NEW h, NEW s, NEW t, NEW n, Ends(h, t, s, n)
    PROVE  /\ t \in Sock(h) /\ Counted(t) /\ t.state \in Late \cup {"NONE", "CLOSED"}
           /\ t.state \in {"NONE", "CLOSED"} => t.rx_buf = <<>> /\ n.len = 0
BY DEF Ends

LEMMA FinWait1Ends ==
    ASSUME NEW h \in Host, NEW s \in Sock(h), Counted(s), s.state = "FIN_WAIT_1",
           NEW n \in Segments, NEW up \in BOOLEAN, NEW more \in BOOLEAN,
           NEW t, t = NutTcpStateFinWait1(s, n, up, more)
    PROVE  Ends(h, t, s, n)
<1>1. PICK a : a = NutTcpProcessAck(s, n, up)
  OBVIOUS
<1>2. Ends(h, a, s, n)
  BY <1>1, AckEnds DEF Late
<1>3. PICK b : b = IF Acked(a) THEN NutTcpStateChange(a, "FIN_WAIT_2") ELSE a
  OBVIOUS
<1>4. Ends(h, b, s, n)
  <2>1. CASE b = a
    BY <1>2, <2>1
  <2>2. CASE b = NutTcpStateChange(a, "FIN_WAIT_2")
    <3>1. "FIN_WAIT_2" \in Late
      BY DEF Late
    <3>2. Ends(h, b, a, n)
      BY <1>2, <2>2, <3>1, EndsState, ChangeEnds
    <3> QED BY <1>2, <3>2, EndsTrans
  <2> QED BY <1>3, <2>1, <2>2
<1>5. PICK u : u = FinWaitData(b, n, more)
  OBVIOUS
<1>6. Ends(h, u, s, n)
  <2>1. Ends(h, u, b, n)
    BY <1>4, <1>5, EndsState, FinWaitDataEnds
  <2> QED BY <1>4, <2>1, EndsTrans
<1>7. PICK v : v = [u EXCEPT !.rx_nxt = SeqPlus(@, 1), !.time_wait = 0]
  OBVIOUS
<1>8. Ends(h, v, s, n)
  <2>1. Ends(h, v, u, n)
    <3>1. /\ u \in Sock(h) /\ Counted(u) /\ u.state \in Late \cup {"NONE", "CLOSED"}
          /\ u.state \in {"NONE", "CLOSED"} => u.rx_buf = <<>> /\ n.len = 0
      BY <1>6, EndsState
    <3> QED BY <1>7, <3>1, FinEnds
  <2> QED BY <1>6, <2>1, EndsTrans
<1>9. CASE \E x \in {"TIME_WAIT", "CLOSING"} : t = NutTcpStateChange(v, x)
  <2>1. PICK x \in Late : t = NutTcpStateChange(v, x)
    BY <1>9 DEF Late
  <2>2. Ends(h, t, v, n)
    BY <1>8, <2>1, EndsState, ChangeEnds
  <2> QED BY <1>8, <2>2, EndsTrans
<1>10. t = u \/ \E x \in {"TIME_WAIT", "CLOSING"} : t = NutTcpStateChange(v, x)
  BY <1>1, <1>3, <1>5, <1>7 DEF NutTcpStateFinWait1
<1> QED BY <1>6, <1>9, <1>10

LEMMA FinWait2Ends ==
    ASSUME NEW h \in Host, NEW s \in Sock(h), Counted(s), s.state = "FIN_WAIT_2",
           NEW n \in Segments, NEW up \in BOOLEAN, NEW more \in BOOLEAN,
           NEW t, t = NutTcpStateFinWait2(s, n, up, more)
    PROVE  Ends(h, t, s, n)
<1>1. PICK a : a = NutTcpProcessAck(s, n, up)
  OBVIOUS
<1>2. Ends(h, a, s, n)
  BY <1>1, AckEnds DEF Late
<1>3. PICK u : u = FinWaitData(a, n, more)
  OBVIOUS
<1>4. Ends(h, u, s, n)
  <2>1. Ends(h, u, a, n)
    BY <1>2, <1>3, EndsState, FinWaitDataEnds
  <2> QED BY <1>2, <2>1, EndsTrans
<1>5. PICK v : v = [u EXCEPT !.rx_nxt = SeqPlus(@, 1), !.time_wait = 0]
  OBVIOUS
<1>6. Ends(h, v, s, n)
  <2>1. Ends(h, v, u, n)
    <3>1. /\ u \in Sock(h) /\ Counted(u) /\ u.state \in Late \cup {"NONE", "CLOSED"}
          /\ u.state \in {"NONE", "CLOSED"} => u.rx_buf = <<>> /\ n.len = 0
      BY <1>4, EndsState
    <3> QED BY <1>5, <3>1, FinEnds
  <2> QED BY <1>4, <2>1, EndsTrans
<1>7. CASE t = NutTcpStateChange(v, "TIME_WAIT")
  <2>1. "TIME_WAIT" \in Late
    BY DEF Late
  <2>2. Ends(h, t, v, n)
    BY <1>6, <1>7, <2>1, EndsState, ChangeEnds
  <2> QED BY <1>6, <2>2, EndsTrans
<1>8. t = u \/ t = NutTcpStateChange(v, "TIME_WAIT")
  BY <1>1, <1>3, <1>5 DEF NutTcpStateFinWait2
<1> QED BY <1>4, <1>7, <1>8

LEMMA LastStatesTurn ==
    ASSUME NEW h \in Host, NEW s \in Sock(h), Counted(s), s.state \in {"CLOSING", "LAST_ACK"},
           NEW n \in Segments, NEW up \in BOOLEAN,
           NEW t, t = IF s.state = "CLOSING" THEN NutTcpStateClosing(s, n, up) ELSE NutTcpStateLastAck(s, n, up),
           NEW d, NEW r, NEW D, NEW B, NEW e
    PROVE  Turn(h, t, s, d, r, D, B, e)
<1>1. PICK a : a = NutTcpProcessAck(s, n, up)
  OBVIOUS
<1>2. Ends(h, a, s, n) /\ s.state \in Late
  BY <1>1, AckEnds DEF Late
<1>3. CASE t = a
  BY <1>2, <1>3, EndsTurn
<1>4. PICK v : v = [a EXCEPT !.time_wait = 0]
  OBVIOUS
<1>5. CASE t = NutTcpStateChange(v, "TIME_WAIT")
  <2>1. Ends(h, v, a, n)
    <3>1. /\ a \in Sock(h) /\ Counted(a) /\ a.state \in Late \cup {"NONE", "CLOSED"}
          /\ a.state \in {"NONE", "CLOSED"} => a.rx_buf = <<>> /\ n.len = 0
      BY <1>2, EndsState
    <3> QED BY <1>4, <3>1, FinEnds
  <2>2. Ends(h, v, s, n)
    BY <1>2, <2>1, EndsTrans
  <2>3. "TIME_WAIT" \in Late
    BY DEF Late
  <2>4. Ends(h, t, v, n)
    BY <1>5, <2>2, <2>3, EndsState, ChangeEnds
  <2>5. Ends(h, t, s, n)
    BY <2>2, <2>4, EndsTrans
  <2> QED BY <1>2, <2>5, EndsTurn
<1>6. CASE t = NutTcpDestroySocket(a)
  <2>1. Ended(h, t, a) /\ t.state = "NONE"
    BY <1>2, <1>6, EndsState, DestroySends
  <2>2. Outgoing(t) \subseteq Outgoing(a) /\ t \in Sock(h) /\ t.rx_buf = <<>> /\ Sends(h, a, s, Top)
    BY <1>2, <2>1 DEF Ended, Dead, Ends
  <2>3. \A m \in Outgoing(t) : m \in Outgoing(s) \/ Plain(h, m, Top)
    BY <2>2 DEF Sends
  <2>4. Edge(h, t, "run") = Top /\ Edge(h, s, "run") <= Top
    <3>1. Edge(h, t, "run") = Top
      BY <2>1 DEF Edge, Open
    <3> QED BY <3>1, EdgeFacts
  <2>5. t.state \notin Live /\ t.state \notin Late /\ t.state # "ESTABLISHED" /\ Rcv(h, t, r, D, B)
    BY <2>1, <2>2 DEF Live, Open, Synchronized, Late, Rcv
  <2> QED BY <2>3, <2>4, <2>5, PlainFine DEF Turn
<1>7. (t = a) \/ (t = NutTcpStateChange(v, "TIME_WAIT")) \/ (t = NutTcpDestroySocket(a))
  BY <1>1, <1>4 DEF NutTcpStateClosing, NutTcpStateLastAck
<1> QED BY <1>3, <1>5, <1>6, <1>7

LEMMA LateTurn ==
    ASSUME NEW h \in Host, NEW s, NEW d, NEW r, NEW D, NEW B, NEW e, Ready(h, s, d, r, D, B, e),
           NEW n \in Segments, NEW t, t = LateSegment(s, n)
    PROVE  Turn(h, t, s, d, r, D, B, e)
<1>1. s \in Sock(h) /\ Counted(s)
  BY DEF Ready, Good
<1>2. CASE t = NutTcpAbortSocket(s) \/ t = NutTcpDestroySocket(s)
  BY <1>1, <1>2, AbortSends, DestroySends, EndedTurn
<1>3. CASE t = Reject(s, n)
  BY <1>3, RejectTurn
<1>4. CASE t = s
  BY <1>4, SameTurn
<1> QED BY <1>2, <1>3, <1>4 DEF LateSegment

(* The peer has closed the connection.                                      *)
LEMMA CloseWaitTurn ==
    ASSUME NEW h \in Host, NEW s, NEW d, NEW r, NEW D, NEW B, NEW e, Ready(h, s, d, r, D, B, e),
           s.state = "CLOSE_WAIT", NEW n \in Segments, NEW up \in BOOLEAN, NEW t, t = NutTcpProcessAck(s, n, up)
    PROVE  Turn(h, t, s, d, r, D, B, e)
<1>1. s \in Sock(h) /\ Counted(s) /\ Rcv(h, s, r, D, B)
  BY DEF Ready, Good
<1>2. CASE Ended(h, t, s)
  BY <1>1, <1>2, EndedTurn
<1>3. CASE Acks(h, t, s, n)
  <2>1. /\ t \in Sock(h) /\ t.state = "CLOSE_WAIT" /\ t.tx_nxt = s.tx_nxt /\ SameRx(t, s)
        /\ Outgoing(t) \subseteq Outgoing(s)
    BY <1>3 DEF Acks, AckStep
  <2>2. Edge(h, t, "run") = Edge(h, s, "run") /\ Edge(h, s, "run") \in Nat
    BY <1>1, <2>1, EdgeFacts DEF Edge, Open
  <2>3. Pos(h, s.tx_nxt) \in Nat
    BY <1>1, PosNat DEF Sock
  <2>4. Rcv(h, t, r, D, B)
    BY <1>1, <2>1 DEF Rcv, Open, SameRx
  <2>5. t.state \notin Late /\ t.state # "ESTABLISHED"
    BY <2>1 DEF Late
  <2> QED BY <2>1, <2>2, <2>3, <2>4, <2>5 DEF Turn
<1> QED BY <1>1, <1>2, <1>3, ProcessAckSends

(* A step that wakes a thread, after one that makes t of socket s.          *)
LEMMA LikeTurn ==
    ASSUME NEW h \in Host, NEW s, NEW t \in Sock(h), NEW u \in Sock(h), NEW d, NEW r, NEW D, NEW B, NEW e,
           Turn(h, t, s, d, r, D, B, e), u.state = t.state, SameTx(u, t), SameRx(u, t),
           Outgoing(u) = Outgoing(t), u.tx_flags = t.tx_flags
    PROVE  Turn(h, u, s, d, r, D, B, e)
<1>1. Reach(h, u) = Reach(h, t) /\ u.tx_nxt = t.tx_nxt
  BY DEF Reach, SameRx, SameTx
<1>2. Edge(h, u, "run") = Edge(h, t, "run") /\ Bound(h, u, "run") = Bound(h, t, "run")
  BY <1>1 DEF Edge, Bound
<1>3. t.state = "ESTABLISHED" => Room(h, u, e)
  BY DEF Turn, Room, SameTx
<1>4. Rcv(h, u, r, D, B)
  <2>1. Rcv(h, t, r, D, B)
    BY DEF Turn
  <2>2. t.state = "ESTABLISHED" => Est(h, u, r, D, B)
    BY <2>1, EstSame DEF Rcv
  <2>3. t.state \in Open => Fresh(u, r)
    BY <2>1 DEF Rcv, Fresh, SameRx
  <2> QED BY <2>1, <2>2, <2>3 DEF Rcv, SameRx, SameTx
<1> QED BY <1>1, <1>2, <1>3, <1>4 DEF Turn

LEMMA WakeTurn ==
    ASSUME NEW h \in Host, NEW s, NEW t \in Sock(h), Counted(t), NEW d, NEW r, NEW D, NEW B, NEW e,
           Turn(h, t, s, d, r, D, B, e), NEW q \in Queues, NEW u, u = Post(t, q) \/ u = Broadcast(t, q)
    PROVE  Turn(h, u, s, d, r, D, B, e) /\ u \in Sock(h) /\ Counted(u)
<1>1. u \in Sock(h) /\ Counted(u) /\ u.state = t.state /\ SameTx(u, t) /\ SameRx(u, t)
  BY PostStep, BroadcastStep
<1>2. Outgoing(u) = Outgoing(t) /\ u.tx_flags = t.tx_flags
  BY WakeSends
<1> QED BY <1>1, <1>2, LikeTurn

-----------------------------------------------------------------------------
(* A segment arrives on an established connection.                          *)

(* The segment is taken, and with the peer's FIN the state changes.         *)
Heard(h, t, s, r, D, B) ==
    /\ t \in Sock(h) /\ Counted(t) /\ SameTx(t, s)
    /\ \/ /\ t.state = "ESTABLISHED" /\ Est(h, t, r, D, B)
          /\ Reach(h, t) = Reach(h, s) /\ Sends(h, t, s, Reach(h, s))
       \/ /\ t.state = "CLOSE_WAIT" /\ (Fair(h) => InOrd(r, t.rx_buf, D))
          /\ Sends(h, t, s, Top)

LEMMA FinHeard ==
    ASSUME NEW h \in Host, NEW s \in Sock(h), NEW r, NEW D, NEW B, NEW u, Heard(h, u, s, r, D, B),
           u.state = "ESTABLISHED", NEW flags, NEW t, t = FinReceived(u, flags)
    PROVE  Heard(h, t, s, r, D, B)
<1>1. CASE t = u
  BY <1>1
<1>2. PICK v : v = [u EXCEPT !.rx_nxt = SeqPlus(@, 1)]
  OBVIOUS
<1>3. CASE t = NutTcpStateChange(v, "CLOSE_WAIT")
  <2>1. /\ u \in Sock(h) /\ Counted(u) /\ SameTx(u, s) /\ Est(h, u, r, D, B) /\ Sends(h, u, s, Reach(h, s))
    BY DEF Heard
  <2>2. RxStep(h, v, u)
    BY <1>2, <2>1, FinStep
  <2>3. v.rx_buf = u.rx_buf /\ Outgoing(v) = Outgoing(u)
    <3>1. {"rx_buf", "out", "tx_nbq"} \subseteq DOMAIN u
      BY <2>1 DEF Sock
    <3>2. v.rx_buf = u.rx_buf /\ v.out = u.out /\ v.tx_nbq = u.tx_nbq
      BY <1>2, <3>1
    <3> QED BY <3>2, SameOutgoing
  <2>4. v \in Sock(h) /\ Counted(v) /\ v.state = "ESTABLISHED" /\ SameTx(v, u)
    BY <2>2 DEF RxStep
  <2>5. "CLOSE_WAIT" \in States(h) /\ <<v.state, "CLOSE_WAIT", {"ACK", "FORCE"}>> \in Changes
    BY <2>4 DEF States, Synchronized, Changes
  <2>6. t \in Sock(h) /\ Counted(t) /\ t.state = "CLOSE_WAIT" /\ SameTx(t, v) /\ SameRx(t, v)
    BY <1>3, <2>4, <2>5, MoveStep
  <2>7. Sends(h, t, v, Reach(h, v))
    <3>1. PICK F : F = {"ACK", "FORCE"}
      OBVIOUS
    <3>2. <<v.state, "CLOSE_WAIT", F>> \in Changes /\ "SYN" \notin F
      BY <2>5, <3>1
    <3> QED BY <1>3, <2>4, <2>5, <3>2, ChangeSends
  <2>8. Sends(h, t, v, Top) /\ Sends(h, u, s, Top)
    BY <2>1, <2>4, <2>7, TopFacts, SendsMore
  <2>9. Sends(h, t, s, Top)
    BY <2>3, <2>8 DEF Sends
  <2>10. Fair(h) => InOrd(r, t.rx_buf, D)
    BY <2>1, <2>3, <2>6 DEF Est, SameRx
  <2>11. SameTx(t, s)
    BY <2>1, <2>4, <2>6 DEF SameTx
  <2> QED BY <2>6, <2>9, <2>10, <2>11 DEF Heard
<1> QED BY <1>1, <1>2, <1>3 DEF FinReceived

LEMMA DataHeard ==
    ASSUME NEW h \in Host, NEW s \in Sock(h), Counted(s), s.state = "ESTABLISHED",
           NEW r \in Seq(Num), NEW D \in Seq(Num), NEW B \in Nat, B <= Half, Rising(Peer(h), D, B),
           Est(h, s, r, D, B), NEW n \in Segments, n.len = 1 => \E j \in 1..Len(D) : D[j] = n.seq,
           NEW more \in BOOLEAN, NEW t, t = EstablishedData(s, n, more)
    PROVE  Heard(h, t, s, r, D, B)
<1>1. CASE t = InAdvance(s, n)
  <2>1. RxStep(h, t, s)
    BY <1>1, InAdvanceStep
  <2>2. /\ t.rx_nxt = s.rx_nxt /\ t.rx_win = s.rx_win /\ t.rx_cnt = s.rx_cnt /\ t.rx_buf = s.rx_buf
        /\ Sends(h, t, s, Reach(h, s))
        /\ \A i \in 1..Len(t.rx_nbq) : \/ \E j \in 1..Len(s.rx_nbq) : t.rx_nbq[i] = s.rx_nbq[j]
                                       \/ n.len = 1 /\ t.rx_nbq[i] = n
    BY <1>1, InAdvanceSends
  <2>3. Stored(t.rx_nbq, D)
    BY <2>2, SMTT(45), ZenonT(60) DEF Est, Stored
  <2>4. Reach(h, t) = Reach(h, s)
    BY <2>2 DEF Reach
  <2>5. Est(h, t, r, D, B)
    BY <2>2, <2>3, <2>4 DEF Est
  <2> QED BY <2>1, <2>2, <2>4, <2>5 DEF RxStep, Heard
<1>2. CASE t = FinReceived(AckNow(s), n.flags)
  <2>1. PICK u : u = AckNow(s)
    OBVIOUS
  <2>2. RxStep(h, u, s) /\ SameRx(u, s) /\ Sends(h, u, s, Reach(h, s))
    BY <2>1, AckNowStep, AckNowSends
  <2>3. Est(h, u, r, D, B) /\ Reach(h, u) = Reach(h, s)
    BY <2>2, EstSame
  <2>4. Heard(h, u, s, r, D, B) /\ u.state = "ESTABLISHED"
    BY <2>2, <2>3 DEF RxStep, Heard
  <2> QED BY <1>2, <2>1, <2>4, FinHeard
<1>3. CASE /\ n.len > 0 /\ n.seq = s.rx_nxt
           /\ t = LET a == TakeAdvance(NutTcpProcessAppData(s, n, more))
                  IN  FinReceived(Post(a.s, "rx_tq"), n.flags \cup a.flags)
  <2>1. PICK p : p = NutTcpProcessAppData(s, n, more)
    OBVIOUS
  <2>2. n.len = 1
    BY <1>3 DEF Segments
  <2>3. PICK g \in 1..Len(D) : D[g] = n.seq
    BY <2>2
  <2>4. RxStep(h, p, s) /\ Est(h, p, r, D, B) /\ Reach(h, p) = Reach(h, s) /\ Sends(h, p, s, Reach(h, s))
    BY <1>3, <2>1, <2>2, <2>3, EstData
  <2>5. PICK a, F : a = TakeAdvance(p) /\ F = n.flags \cup a.flags
    OBVIOUS
  <2>6. PICK x : x = a.s
    OBVIOUS
  <2>7. RxStep(h, x, p) /\ Est(h, x, r, D, B) /\ Reach(h, x) = Reach(h, p) /\ Sends(h, x, p, Reach(h, p))
    <3>1. p \in Sock(h) /\ Counted(p) /\ x = TakeAdvance(p).s
      BY <2>4, <2>5, <2>6 DEF RxStep
    <3> QED BY <2>4, <3>1, TakeAdvanceSends
  <2>8. x \in Sock(h) /\ Counted(x) /\ x.state = "ESTABLISHED" /\ SameTx(x, s) /\ Sends(h, x, s, Reach(h, s))
    <3>1. RxStep(h, x, s)
      BY <2>4, <2>7, RxStepTrans
    <3>2. Sends(h, x, s, Reach(h, s))
      BY <2>4, <2>7, SendsTrans
    <3> QED BY <3>1, <3>2 DEF RxStep
  <2>9. PICK u : u = Post(x, "rx_tq")
    OBVIOUS
  <2>10. /\ u \in Sock(h) /\ Counted(u) /\ u.state = "ESTABLISHED" /\ SameTx(u, x) /\ SameRx(u, x)
         /\ Outgoing(u) = Outgoing(x)
    BY <2>8, <2>9, PostStep, WakeSends DEF Queues
  <2>11. Est(h, u, r, D, B) /\ Reach(h, u) = Reach(h, s)
    BY <2>4, <2>7, <2>10, EstSame
  <2>12. SameTx(u, s) /\ Sends(h, u, s, Reach(h, s))
    BY <2>8, <2>10 DEF SameTx, Sends
  <2>13. Heard(h, u, s, r, D, B)
    BY <2>10, <2>11, <2>12 DEF Heard
  <2>14. t = FinReceived(u, F)
    BY <1>3, <2>1, <2>5, <2>6, <2>9
  <2> QED BY <2>10, <2>13, <2>14, FinHeard
<1>4. CASE t = FinReceived(s, n.flags)
  <2>1. Heard(h, s, s, r, D, B)
    BY DEF SameTx, Sends, Heard
  <2> QED BY <1>4, <2>1, FinHeard
<1> QED BY <1>1, <1>2, <1>3, <1>4 DEF EstablishedData

(* The connection was given up in between: nothing is kept for a reader.    *)
LEMMA DataOver ==
    ASSUME NEW h \in Host, NEW s \in Sock(h), Counted(s), s.state \in {"NONE", "CLOSED"}, s.rx_buf = <<>>,
           NEW n \in Segments, n.len = 0, NEW more \in BOOLEAN, NEW t, t = EstablishedData(s, n, more)
    PROVE  Ends(h, t, s, n)
<1>1. PICK a : a = AckNow(s)
  OBVIOUS
<1>2. a \in Sock(h) /\ Counted(a) /\ a.state = s.state /\ a.rx_buf = <<>> /\ Sends(h, a, s, Top)
  <2>1. RxStep(h, a, s) /\ SameRx(a, s)
    BY <1>1, AckNowStep
  <2>2. Sends(h, a, s, Top)
    BY <1>1, AckNowSends, TopFacts, SendsMore
  <2> QED BY <2>1, <2>2 DEF RxStep, SameRx
<1>3. s.state \notin Live /\ Sends(h, s, s, Top)
  BY DEF Live, Open, Synchronized, Sends
<1>4. CASE t = a
  BY <1>2, <1>3, <1>4 DEF Ends
<1>5. ASSUME NEW u, u = a \/ u = s, t = FinReceived(u, n.flags)
      PROVE  Ends(h, t, s, n)
  <2>1. u \in Sock(h) /\ Counted(u) /\ u.state = s.state /\ u.rx_buf = <<>> /\ Sends(h, u, s, Top)
    BY <1>2, <1>3, <1>5
  <2>2. PICK v : v = [u EXCEPT !.rx_nxt = SeqPlus(@, 1)]
    OBVIOUS
  <2>3. RxStep(h, v, u)
    BY <2>1, <2>2, FinStep
  <2>4. v.rx_buf = <<>> /\ Outgoing(v) = Outgoing(u)
    <3>1. {"rx_buf", "out", "tx_nbq"} \subseteq DOMAIN u
      BY <2>1 DEF Sock
    <3>2. v.rx_buf = u.rx_buf /\ v.out = u.out /\ v.tx_nbq = u.tx_nbq
      BY <2>2, <3>1
    <3> QED BY <2>1, <3>2, SameOutgoing
  <2>5. v \in Sock(h) /\ Counted(v) /\ v.state = s.state /\ Sends(h, v, s, Top)
    BY <2>1, <2>3, <2>4 DEF RxStep, Sends
  <2>6. NutTcpStateChange(v, "CLOSE_WAIT") = v
    BY <2>5, DeadRefused DEF DeadStates
  <2>7. t = u \/ t = v
    BY <1>5, <2>2, <2>6 DEF FinReceived
  <2> QED BY <1>3, <2>1, <2>4, <2>5, <2>7 DEF Ends
<1>6. t = InAdvance(s, n) => t = a
  BY <1>1 DEF InAdvance
<1>7. \/ t = a \/ t = FinReceived(a, n.flags) \/ t = FinReceived(s, n.flags)
  BY <1>1, <1>6 DEF EstablishedData
<1> QED BY <1>4, <1>5, <1>7

LEMMA EstablishedTurn ==
    ASSUME NEW h \in Host, NEW s, NEW d, NEW r, NEW D, NEW B, NEW e, Ready(h, s, d, r, D, B, e),
           s.state = "ESTABLISHED", NEW n \in Segments, Fine(Peer(h), n, D, B, e),
           NEW up \in BOOLEAN, NEW more \in BOOLEAN, NEW t, t = NutTcpStateEstablished(s, n, up, more)
    PROVE  Turn(h, t, s, d, r, D, B, e)
<1>1. /\ s \in Sock(h) /\ Counted(s) /\ r \in Seq(Num) /\ D \in Seq(Num) /\ B \in Nat /\ B <= Half
      /\ Rising(Peer(h), D, B) /\ Est(h, s, r, D, B) /\ Room(h, s, e)
  BY DEF Ready, Good, DataOf, Rcv
<1>2. PICK u : u = IF "RST" \in n.flags THEN NutTcpAbortSocket(s)
                   ELSE IF "SYN" \in n.flags THEN IF n.seq # s.rx_isn THEN Reject(s, n) ELSE s
                   ELSE IF "ACK" \notin n.flags THEN s
                   ELSE EstablishedData(NutTcpProcessAck(s, n, up), n, more)
  OBVIOUS
<1>3. t = u \/ t = Broadcast(u, "tx_tq")
  BY <1>2 DEF NutTcpStateEstablished
<1>4. Turn(h, u, s, d, r, D, B, e) /\ u \in Sock(h) /\ Counted(u)
  <2>1. CASE u = NutTcpAbortSocket(s)
    <3>1. Ended(h, u, s)
      BY <1>1, <2>1, AbortSends
    <3> QED BY <1>1, <3>1, EndedTurn DEF Ended, Dead
  <2>2. CASE u = Reject(s, n)
    BY <1>1, <2>2, RejectTurn, RejectStep DEF RxStep
  <2>3. CASE u = s
    BY <1>1, <2>3, SameTurn
  <2>4. CASE "RST" \notin n.flags /\ "ACK" \in n.flags /\ u = EstablishedData(NutTcpProcessAck(s, n, up), n, more)
    <3>1. PICK a : a = NutTcpProcessAck(s, n, up)
      OBVIOUS
    <3>2. u = EstablishedData(a, n, more)
      BY <2>4, <3>1
    <3>3. CASE Ended(h, a, s) /\ n.len = 0
      <4>1. /\ a \in Sock(h) /\ Counted(a) /\ a.state \in {"NONE", "CLOSED"} /\ a.rx_buf = <<>>
            /\ Outgoing(a) \subseteq Outgoing(s)
        BY <3>3 DEF Ended, Dead, Late
      <4>2. Ends(h, u, a, n)
        BY <3>2, <3>3, <4>1, DataOver
      <4>3. u \in Sock(h) /\ Counted(u) /\ Sends(h, u, s, Top) /\ a.state \notin Live
        BY <4>1, <4>2 DEF Ends, Sends, Live, Open, Synchronized
      <4>4. u.state \in {"NONE", "CLOSED"} /\ u.rx_buf = <<>>
        <5>1. DataTaken(h, u, a)
          BY <3>2, <4>1, EstablishedDataStep DEF DeadStates
        <5>2. u.state \in {"NONE", "CLOSED"}
          BY <4>1, <5>1 DEF DataTaken
        <5> QED BY <4>2, <5>2 DEF Ends
      <4>5. Edge(h, u, "run") = Top /\ Edge(h, s, "run") <= Top
        BY <1>1, <4>4, EdgeFacts DEF Edge, Open
      <4>6. u.state \notin Live /\ u.state \notin Late /\ u.state # "ESTABLISHED" /\ Rcv(h, u, r, D, B)
        BY <4>4 DEF Live, Open, Synchronized, Late, Rcv
      <4> QED BY <4>3, <4>5, <4>6, PlainFine DEF Turn, Sends
    <3>4. CASE Acks(h, a, s, n)
      <4>1. /\ a \in Sock(h) /\ Counted(a) /\ a.state = "ESTABLISHED" /\ a.tx_nxt = s.tx_nxt /\ SameRx(a, s)
            /\ Outgoing(a) \subseteq Outgoing(s)
        BY <3>4 DEF Acks, AckStep
      <4>2. Est(h, a, r, D, B) /\ Reach(h, a) = Reach(h, s)
        BY <1>1, <4>1, EstSame
      <4>3. Room(h, a, e)
        <5>1. CASE a.tx_una = s.tx_una /\ a.tx_win = s.tx_win
          BY <1>1, <5>1 DEF Room
        <5>2. CASE a.tx_una = n.ack /\ a.tx_win = n.win
          <6>1. Window(Peer(h), n) <= e
            BY <2>4 DEF Fine, IsAck
          <6> QED BY <5>2, <6>1, PeerFacts DEF Window, Room
        <5> QED BY <3>4, <5>1, <5>2 DEF Acks
      <4>4. n.len = 1 => \E j \in 1..Len(D) : D[j] = n.seq
        BY DEF Fine
      <4>5. Heard(h, u, a, r, D, B)
        BY <1>1, <3>2, <4>1, <4>2, <4>4, DataHeard
      <4>6. u \in Sock(h) /\ Counted(u) /\ u.tx_nxt = s.tx_nxt /\ Room(h, u, e)
        BY <4>1, <4>3, <4>5 DEF Heard, SameTx, Room
      <4>7. Pos(h, s.tx_nxt) <= Pos(h, u.tx_nxt) /\ s.state \in Live
        <5>1. Pos(h, s.tx_nxt) \in Nat
          BY <1>1, PosNat DEF Sock
        <5> QED BY <4>6, <5>1 DEF Live, Synchronized
      <4>8. Edge(h, s, "run") = Reach(h, s) /\ Reach(h, s) \in Nat /\ Reach(h, s) <= Top
        BY <1>1, TopFacts DEF Edge
      <4>9. CASE /\ u.state = "ESTABLISHED" /\ Est(h, u, r, D, B)
                 /\ Reach(h, u) = Reach(h, a) /\ Sends(h, u, a, Reach(h, a))
        <5>1. Edge(h, u, "run") = Reach(h, s) /\ Sends(h, u, s, Reach(h, s))
          BY <4>1, <4>2, <4>9 DEF Edge, Sends
        <5>2. Rcv(h, u, r, D, B) /\ u.state \notin Late
          BY <4>9 DEF Rcv, Open, Late
        <5> QED BY <4>6, <4>7, <4>8, <5>1, <5>2, PlainFine DEF Turn, Sends
      <4>10. CASE u.state = "CLOSE_WAIT" /\ (Fair(h) => InOrd(r, u.rx_buf, D)) /\ Sends(h, u, a, Top)
        <5>1. Edge(h, u, "run") = Top /\ Sends(h, u, s, Top)
          BY <4>1, <4>10 DEF Edge, Open, Sends
        <5>2. Rcv(h, u, r, D, B) /\ u.state \notin Late /\ u.state # "ESTABLISHED"
          BY <4>10 DEF Rcv, Open, Late
        <5> QED BY <4>6, <4>7, <4>8, <5>1, <5>2, PlainFine DEF Turn, Sends
      <4> QED BY <4>5, <4>9, <4>10 DEF Heard
    <3> QED BY <1>1, <3>1, <3>3, <3>4, ProcessAckSends
  <2> QED BY <1>2, <2>1, <2>2, <2>3, <2>4
<1> QED BY <1>3, <1>4, WakeTurn DEF Queues

-----------------------------------------------------------------------------
(* A segment arrives before the connection is established.                  *)

LEMMA LivePos ==
    ASSUME NEW h \in Host, NEW s, NEW d \in DataOf(h), Good(h, s, d), s.state \in Live
    PROVE  /\ Pos(h, s.tx_una) \in Nat /\ Pos(h, s.tx_nxt) \in Nat
           /\ Pos(h, s.tx_una) <= Pos(h, s.tx_nxt) /\ Pos(h, s.tx_nxt) < Half
           /\ Pos(h, SeqPlus(s.tx_nxt, 1)) = Pos(h, s.tx_nxt) + 1
           /\ s.tx_una # s.tx_nxt => Pos(h, s.tx_una) < Pos(h, s.tx_nxt)
<1>1. s.tx_una \in Num /\ s.tx_nxt \in Num /\ s.tx_nbq \in Seq(SegOf(h)) /\ Tx(h, s, d)
  BY DEF Good, Sock
<1>2. Pos(h, s.tx_una) \in Nat /\ Pos(h, s.tx_nxt) \in Nat /\ Len(s.tx_nbq) \in Nat
  BY <1>1, PosNat, LenProperties
<1>3. Pos(h, s.tx_una) <= Pos(h, s.tx_nxt)
  <2>1. Pos(h, s.tx_una) + Len(s.tx_nbq) <= Pos(h, s.tx_nxt)
    BY <1>1 DEF Tx, Line, Ordered
  <2> QED BY <1>2, <2>1
<1>4. Pos(h, s.tx_nxt) < Half
  <2>1. Limit(s.state, Len(d)) \in Nat /\ Limit(s.state, Len(d)) < Half /\ Pos(h, s.tx_nxt) <= Limit(s.state, Len(d))
    BY <1>1, LimitFacts DEF Tx
  <2> QED BY <1>2, <2>1, HalfFacts
<1>5. Pos(h, SeqPlus(s.tx_nxt, 1)) = Pos(h, s.tx_nxt) + 1
  <2>1. Pos(h, s.tx_nxt) + 1 < SeqSpace
    BY <1>2, <1>4, HalfFacts, SizeFacts
  <2> QED BY <1>1, <2>1, PosFacts
<1>6. s.tx_una # s.tx_nxt => Pos(h, s.tx_una) # Pos(h, s.tx_nxt)
  BY <1>1, PosFacts
<1> QED BY <1>2, <1>3, <1>4, <1>5, <1>6

LEMMA SynSends ==
    ASSUME NEW h \in Host, NEW s \in Sock(h), NEW n \in Segments, NEW t, t = NutTcpProcessSyn(s, n)
    PROVE  /\ Outgoing(t) = Outgoing(s) /\ t.tx_flags = s.tx_flags /\ t.rx_nxt = SeqPlus(n.seq, 1)
           /\ t.rx_win = s.rx_win /\ t.rx_cnt = s.rx_cnt /\ t.rx_buf = s.rx_buf /\ t.rx_nbq = s.rx_nbq
<1>1. {"out", "tx_nbq", "tx_flags", "rx_nxt", "rx_win", "rx_cnt", "rx_buf", "rx_nbq"} \subseteq DOMAIN s
  BY DEF Sock
<1>2. t.out = s.out /\ t.tx_nbq = s.tx_nbq /\ t.tx_flags = s.tx_flags /\ t.rx_nxt = SeqPlus(n.seq, 1)
  BY <1>1 DEF NutTcpProcessSyn
<1>3. t.rx_win = s.rx_win /\ t.rx_cnt = s.rx_cnt /\ t.rx_buf = s.rx_buf /\ t.rx_nbq = s.rx_nbq
  BY <1>1 DEF NutTcpProcessSyn
<1> QED BY <1>2, <1>3, SameOutgoing

(* The number that a SYN takes.                                             *)
LEMMA SynPos ==
    ASSUME NEW h \in Host, NEW n \in Segments, "SYN" \in n.flags, NEW D, NEW B \in Nat, B <= Half, NEW e,
           Fine(Peer(h), n, D, B, e)
    PROVE  /\ Pos(Peer(h), n.seq) \in Nat /\ Pos(Peer(h), n.seq) + 1 <= B
           /\ Pos(Peer(h), SeqPlus(n.seq, 1)) = Pos(Peer(h), n.seq) + 1
           /\ h = Server => Pos(Peer(h), n.seq) = 0
           /\ \A j \in 1..Len(D) : Pos(Peer(h), n.seq) < Pos(Peer(h), D[j])
<1>1. n.seq \in Num /\ Peer(h) \in Host /\ (h = Server => Peer(h) = Client)
  BY PeerFacts, HostAssumption DEF Segments, Num, Peer
<1>2. Pos(Peer(h), n.seq) \in Nat /\ Pos(Peer(h), n.seq) < B
  BY <1>1, PosNat DEF Fine
<1>3. Pos(Peer(h), n.seq) + 1 <= B /\ Pos(Peer(h), n.seq) + 1 < SeqSpace
  BY <1>2, HalfFacts, SizeFacts
<1>4. Pos(Peer(h), SeqPlus(n.seq, 1)) = Pos(Peer(h), n.seq) + 1
  BY <1>1, <1>3, PosFacts
<1> QED BY <1>1, <1>2, <1>3, <1>4 DEF Fine

LEMMA ListenTurn ==
    ASSUME NEW h \in Host, NEW s, NEW d, NEW r, NEW D, NEW B, NEW e, Ready(h, s, d, r, D, B, e),
           s.state = "LISTEN", NEW n \in Segments, Fine(Peer(h), n, D, B, e), NEW t, t = NutTcpStateListen(s, n)
    PROVE  Turn(h, t, s, d, r, D, B, e)
<1>1. /\ s \in Sock(h) /\ Counted(s) /\ d \in DataOf(h) /\ Good(h, s, d) /\ d = <<>> /\ h = Server /\ Fresh(s, r)
      /\ B \in Nat /\ B <= Half
  BY SleeperFacts DEF Ready, Good, Tx, Live, Open, Rcv
<1>2. CASE t = Reject(s, n)
  BY <1>2, RejectTurn
<1>3. CASE "SYN" \in n.flags /\ t = NutTcpStateChange(NutTcpProcessSyn(s, n), "SYN_RECEIVED")
  <2>1. PICK u : u = NutTcpProcessSyn(s, n)
    OBVIOUS
  <2>2. /\ u \in Sock(h) /\ Counted(u) /\ u.state = "LISTEN" /\ u.tx_una = s.tx_una /\ u.tx_nxt = s.tx_nxt
        /\ Outgoing(u) = Outgoing(s) /\ u.tx_flags = s.tx_flags /\ u.rx_nxt = SeqPlus(n.seq, 1)
        /\ u.rx_win = WinSize /\ u.rx_cnt = 0 /\ u.rx_buf = <<>> /\ u.rx_nbq = <<>> /\ r = <<>>
    BY <1>1, <2>1, SynStep, SynSends DEF Fresh
  <2>3. PICK F : F = {"SYN", "ACK"}
    OBVIOUS
  <2>4. "SYN_RECEIVED" \in States(h) /\ <<u.state, "SYN_RECEIVED", F>> \in Changes /\ "SYN" \in F
    BY <1>1, <2>2, <2>3, HostAssumption DEF States, Changes
  <2>5. /\ t \in Sock(h) /\ t.state = "SYN_RECEIVED" /\ SameRx(t, u) /\ Queued(h, t, u)
    BY <1>3, <2>1, <2>2, <2>3, <2>4, MoveStep
  <2>6. PICK m : SendsNew(h, t, u, m, u.tx_flags \cup F)
    BY <1>3, <2>1, <2>2, <2>4, ChangeSends
  <2>7. Pos(Peer(h), u.rx_nxt) = 1 /\ 1 <= B
    <3>1. "SYN" \in n.flags /\ B \in Nat /\ B <= Half
      BY <1>1, <1>3
    <3>2. /\ Pos(Peer(h), n.seq) + 1 <= B
          /\ Pos(Peer(h), SeqPlus(n.seq, 1)) = Pos(Peer(h), n.seq) + 1
          /\ h = Server => Pos(Peer(h), n.seq) = 0
      BY <3>1, SynPos
    <3>3. Pos(Peer(h), n.seq) = 0
      BY <1>1, <3>2
    <3> QED BY <2>2, <3>2, <3>3
  <2>8. /\ Pos(h, s.tx_una) \in Nat /\ Pos(h, s.tx_nxt) \in Nat /\ Pos(h, s.tx_una) <= Pos(h, s.tx_nxt)
        /\ Pos(h, t.tx_nxt) = Pos(h, s.tx_nxt) + 1 /\ t.tx_una = s.tx_una
    BY <1>1, <2>2, <2>5, LivePos DEF Live, Open, Queued
  <2>9. Edge(h, t, "run") = Opening /\ Edge(h, s, "run") = Opening /\ Opening \in Nat
        /\ Bound(h, t, "run") = Pos(h, s.tx_nxt) + 1
    BY <2>5, <2>8, TopFacts DEF Edge, Bound, Open, Live
  <2>10. Fine(h, m, d, Bound(h, t, "run"), Edge(h, t, "run"))
    <3>1. Reach(h, u) = Opening
      BY <2>2, <2>7 DEF Reach, Opening
    <3>2. m.len = 0 /\ m.seq = s.tx_nxt /\ (IsAck(m) => Window(h, m) <= Opening)
      BY <2>2, <2>6, <3>1 DEF SendsNew
    <3>3. h # Client /\ Len(d) = 0 /\ 1..0 = {}
      BY <1>1, HostAssumption, EmptySeq
    <3>4. Pos(h, s.tx_nxt) < Pos(h, s.tx_nxt) + 1
      BY <2>8
    <3> QED BY <2>9, <3>2, <3>3, <3>4 DEF Fine
  <2>11. \A k \in Outgoing(t) : k \in Outgoing(s) \/ Fine(h, k, d, Bound(h, t, "run"), Edge(h, t, "run"))
    BY <2>2, <2>6, <2>10 DEF SendsNew
  <2>12. t.tx_una # t.tx_nxt
    BY <2>8
  <2>13. Rcv(h, t, r, D, B)
    <3>1. Fresh(t, r) /\ Pos(Peer(h), t.rx_nxt) = 1
      BY <2>2, <2>5, <2>6, <2>7 DEF SendsNew, SameRx, Fresh
    <3> QED BY <2>5, <2>7, <2>12, <3>1 DEF Rcv, Open
  <2>14. t.state \notin Late /\ t.state # "ESTABLISHED" /\ s.state \in Live /\ Pos(h, s.tx_nxt) <= Pos(h, t.tx_nxt)
    BY <2>5, <2>8 DEF Late, Live, Open
  <2> QED BY <2>9, <2>11, <2>13, <2>14 DEF Turn
<1> QED BY <1>2, <1>3 DEF NutTcpStateListen

(* The edge opens with the connection.                                      *)
LEMMA OpenTurn ==
    ASSUME NEW h \in Host, NEW s, NEW d, NEW r, NEW D, NEW B, NEW e, Ready(h, s, d, r, D, B, e),
           s.state \in {"SYN_SENT", "SYN_RECEIVED"},
           NEW t \in Sock(h), t.state = "ESTABLISHED", t.tx_nxt = s.tx_nxt, Room(h, t, e), Est(h, t, r, D, B),
           Opening <= Reach(h, t), Sends(h, t, s, Reach(h, t))
    PROVE  Turn(h, t, s, d, r, D, B, e)
<1>1. s \in Sock(h) /\ Pos(h, s.tx_nxt) \in Nat
  BY PosNat DEF Ready, Good, Sock
<1>2. Edge(h, t, "run") = Reach(h, t) /\ Edge(h, s, "run") = Opening
  BY DEF Edge, Open
<1>3. s.state \in Live /\ Pos(h, s.tx_nxt) <= Pos(h, t.tx_nxt) /\ t.state \notin Late
  BY <1>1 DEF Live, Open, Late
<1>4. Rcv(h, t, r, D, B)
  BY DEF Rcv, Open
<1> QED BY <1>2, <1>3, <1>4, PlainFine DEF Turn, Sends

LEMMA SynSentTurn ==
    ASSUME NEW h \in Host, NEW s, NEW d, NEW r, NEW D, NEW B, NEW e, Ready(h, s, d, r, D, B, e),
           s.state = "SYN_SENT", NEW n \in SegOf(Peer(h)), Fine(Peer(h), n, D, B, e),
           NEW up \in BOOLEAN, NEW t, t = NutTcpStateSynSent(s, n, Isn[h], up)
    PROVE  Turn(h, t, s, d, r, D, B, e)
<1>1. /\ s \in Sock(h) /\ Counted(s) /\ d \in DataOf(h) /\ Good(h, s, d) /\ n \in Segments /\ h = Client
      /\ Fresh(s, r) /\ s.tx_una = Isn[h] /\ s.tx_una # s.tx_nxt /\ B \in Nat /\ B <= Half /\ D \in Seq(Num)
  BY SleeperFacts DEF Ready, Good, SegOf, DataOf, Rcv, Open
<1>2. "SYN" \in n.flags => "ACK" \in n.flags
  BY <1>1, HostAssumption DEF SegOf, Peer
<1>3. CASE t = Reject(s, n)
  BY <1>1, <1>3, RejectTurn
<1>4. CASE t = NutTcpAbortSocket(s)
  BY <1>1, <1>4, AbortSends, EndedTurn
<1>5. CASE t = s
  BY <1>5, SameTurn
<1>6. CASE /\ "SYN" \in n.flags /\ "RST" \notin n.flags /\ SeqIsBetween(n.ack, SeqPlus(Isn[h], 1), s.tx_nxt)
           /\ t = Post(NutTcpStateChange(NutTcpProcessAck(NutTcpProcessSyn(s, n), n, up), "ESTABLISHED"), "ac_tq")
  <2>1. PICK u : u = NutTcpProcessSyn(s, n)
    OBVIOUS
  <2>2. /\ u \in Sock(h) /\ Counted(u) /\ u.state = "SYN_SENT" /\ u.tx_una = s.tx_una /\ u.tx_nxt = s.tx_nxt
        /\ Outgoing(u) = Outgoing(s) /\ u.rx_nxt = SeqPlus(n.seq, 1)
        /\ u.rx_win = WinSize /\ u.rx_cnt = 0 /\ u.rx_buf = <<>> /\ u.rx_nbq = <<>> /\ r = <<>>
    BY <1>1, <2>1, SynStep, SynSends DEF Fresh
  <2>3. PICK a : a = NutTcpProcessAck(u, n, up)
    OBVIOUS
  <2>4. Acks(h, a, u, n) /\ a.tx_una = n.ack /\ a.tx_win = n.win
    <3>1. s.state \in Live
      BY DEF Live, Open
    <3>2. Pos(h, u.tx_una) < Pos(h, u.tx_nxt) /\ Pos(h, u.tx_nxt) < Half
      BY <1>1, <2>2, <3>1, LivePos
    <3>3. SeqIsBetween(n.ack, SeqPlus(u.tx_una, 1), u.tx_nxt)
      BY <1>1, <1>6, <2>2
    <3> QED BY <1>1, <2>2, <2>3, <3>2, <3>3, FirstAck
  <2>5. /\ a \in Sock(h) /\ Counted(a) /\ a.state = "SYN_SENT" /\ a.tx_nxt = s.tx_nxt /\ SameRx(a, u)
        /\ Outgoing(a) \subseteq Outgoing(s)
    BY <2>2, <2>4 DEF Acks, AckStep
  <2>6. PICK F : F = {"ACK", "FORCE"}
    OBVIOUS
  <2>7. "ESTABLISHED" \in States(h) /\ <<a.state, "ESTABLISHED", F>> \in Changes /\ F \cap {"SYN", "FIN"} = {}
    BY <2>5, <2>6 DEF States, Synchronized, Changes
  <2>8. PICK w : w = NutTcpStateChange(a, "ESTABLISHED")
    OBVIOUS
  <2>9. w \in Sock(h) /\ Counted(w) /\ w.state = "ESTABLISHED" /\ SameRx(w, a) /\ SameTx(w, a)
    BY <2>5, <2>7, <2>8, MoveStep
  <2>10. Sends(h, w, a, Reach(h, a))
    BY <2>5, <2>7, <2>8, ChangeSends
  <2>11. Reach(h, w) = Reach(h, a) /\ Sends(h, w, s, Reach(h, w))
    BY <2>5, <2>9, <2>10 DEF SameRx, Reach, Sends
  <2>12. /\ Pos(Peer(h), n.seq) \in Nat /\ Pos(Peer(h), n.seq) + 1 <= B
         /\ Pos(Peer(h), w.rx_nxt) = Pos(Peer(h), n.seq) + 1
         /\ \A j \in 1..Len(D) : Pos(Peer(h), n.seq) < Pos(Peer(h), D[j])
    <3>1. "SYN" \in n.flags /\ B \in Nat /\ B <= Half /\ w.rx_nxt = SeqPlus(n.seq, 1)
      BY <1>1, <1>6, <2>2, <2>5, <2>9 DEF SameRx
    <3> QED BY <1>1, <3>1, SynPos
  <2>13. Room(h, w, e)
    <3>1. Window(Peer(h), n) <= e
      BY <1>2, <1>6 DEF Fine, IsAck
    <3> QED BY <2>4, <2>9, <3>1, PeerFacts DEF Window, Room, SameTx
  <2>14. /\ w.rx_win = WinSize /\ w.rx_cnt = 0 /\ w.rx_buf = <<>> /\ w.rx_nbq = <<>> /\ r = <<>>
    BY <2>2, <2>5, <2>9 DEF SameRx
  <2>15. Opening <= Reach(h, w)
    BY <2>12, <2>14, SizeFacts, TopFacts DEF Reach, Opening
  <2>16. Est(h, w, r, D, B)
    <3>1. \A j \in 1..Len(D) : D[j] \in Num /\ Pos(Peer(h), D[j]) \in Nat
      BY <1>1, PeerFacts, PosNat, ElementOfSeq
    <3>2. \A j \in 1..Len(D) : Pos(Peer(h), D[j]) < Reach(h, w)
      <4>1. Edge(h, s, "run") = Opening
        BY DEF Edge, Open
      <4>2. \A j \in 1..Len(D) : Pos(Peer(h), D[j]) < Opening
        BY <4>1 DEF Ready
      <4>3. Reach(h, w) \in Nat /\ Opening \in Nat
        BY <2>9, TopFacts
      <4> QED BY <2>15, <3>1, <4>2, <4>3
    <3>3. Stored(w.rx_nbq, D) /\ InOrd(r, w.rx_buf, D)
      <4>1. Len(<<>>) = 0 /\ 1..0 = {} /\ Len(D) \in Nat
        BY <1>1, EmptySeq, LenProperties
      <4> QED BY <2>14, <4>1 DEF Stored, InOrd
    <3>4. Cut(Peer(h), w.rx_nxt, D, Len(r) + Len(w.rx_buf))
      <4>1. Len(r) + Len(w.rx_buf) = 0
        BY <2>14, EmptySeq
      <4>2. \A j \in 1..Len(D) : ~(j <= 0) /\ ~(Pos(Peer(h), D[j]) < Pos(Peer(h), n.seq) + 1)
        BY <2>12, <3>1
      <4> QED BY <2>12, <4>1, <4>2 DEF Cut
    <3> QED BY <2>12, <2>14, <3>2, <3>3, <3>4, SizeFacts DEF Est
  <2>17. Turn(h, w, s, d, r, D, B, e)
    BY <2>5, <2>9, <2>11, <2>13, <2>15, <2>16, OpenTurn DEF SameTx
  <2> QED BY <1>6, <2>1, <2>3, <2>8, <2>9, <2>17, WakeTurn DEF Queues
<1> QED BY <1>2, <1>3, <1>4, <1>5, <1>6 DEF NutTcpStateSynSent

LEMMA RefusedTurn ==
    ASSUME NEW h \in Host, NEW s, NEW d, NEW r, NEW D, NEW B, NEW e, Ready(h, s, d, r, D, B, e),
           s.state = "SYN_RECEIVED", NEW x, NEW t,
           x = IF Handle(s, "pc_tq") THEN NutTcpStateChange(s, "LISTEN") ELSE NutTcpAbortSocket(s),
           t = NutTcpDiscardBuffers([x EXCEPT !.retran = FALSE])
    PROVE  Turn(h, t, s, d, r, D, B, e)
<1>1. s \in Sock(h) /\ Counted(s) /\ h = Server /\ Fresh(s, r)
  BY SleeperFacts DEF Ready, Good, Rcv, Open
<1>2. ASSUME x \in Sock(h)
      PROVE  /\ t \in Sock(h) /\ Counted(t) /\ t.state = x.state /\ t.wait = x.wait /\ t.tx_nxt = x.tx_nxt
             /\ t.tx_flags = x.tx_flags /\ t.rx_cnt = x.rx_cnt /\ t.rx_win = x.rx_win
             /\ t.rx_buf = <<>> /\ t.rx_nbq = <<>> /\ Outgoing(t) \subseteq Outgoing(x)
  <2>1. PICK u : u = [x EXCEPT !.retran = FALSE]
    OBVIOUS
  <2>2. /\ u \in Sock(h) /\ u.state = x.state /\ u.wait = x.wait /\ u.tx_nxt = x.tx_nxt
        /\ u.tx_flags = x.tx_flags /\ u.rx_cnt = x.rx_cnt /\ u.rx_win = x.rx_win /\ u.out = x.out
    BY <1>2, <2>1 DEF Sock
  <2>3. t = NutTcpDiscardBuffers(u)
    BY <2>1
  <2>4. t \in Sock(h) /\ Counted(t) /\ t.state = u.state /\ SameWait(t, u) /\ t.tx_nxt = u.tx_nxt /\ t.tx_nbq = <<>>
    BY <2>2, <2>3, Discarded
  <2>5. /\ t.tx_flags = u.tx_flags /\ t.rx_cnt = u.rx_cnt /\ t.rx_win = u.rx_win /\ t.out = u.out
        /\ t.rx_buf = <<>> /\ t.rx_nbq = <<>>
    <3>1. {"tx_flags", "rx_cnt", "rx_win", "out", "rx_buf", "rx_nbq"} \subseteq DOMAIN u
      BY <2>2 DEF Sock
    <3> QED BY <2>3, <3>1 DEF NutTcpDiscardBuffers
  <2>6. Outgoing(t) \subseteq Outgoing(x)
    <3>1. t.out = x.out /\ Len(t.tx_nbq) = 0 /\ 1..0 = {}
      BY <2>2, <2>4, <2>5, EmptySeq
    <3> QED BY <3>1 DEF Outgoing
  <2> QED BY <2>2, <2>4, <2>5, <2>6 DEF SameWait
<1>3. CASE x = NutTcpAbortSocket(s)
  <2>1. Ended(h, x, s)
    BY <1>1, <1>3, AbortSends
  <2>2. Ended(h, t, s)
    BY <1>2, <2>1 DEF Ended, Dead
  <2> QED BY <1>1, <2>2, EndedTurn
<1>4. CASE x = NutTcpStateChange(s, "LISTEN")
  <2>1. PICK F : F = {}
    OBVIOUS
  <2>2. "LISTEN" \in States(h) /\ <<s.state, "LISTEN", F>> \in Changes /\ F \cap {"SYN", "FIN"} = {}
    BY <1>1, <2>1, HostAssumption DEF States, Changes
  <2>3. x \in Sock(h) /\ x.state = "LISTEN" /\ SameRx(x, s) /\ SameTx(x, s)
    BY <1>1, <1>4, <2>2, MoveStep
  <2>4. Outgoing(x) = Outgoing(s) /\ x.tx_flags = s.tx_flags
    BY <1>1, <1>4, <2>1, <2>2, ChangeSends
  <2>5. /\ t.state = "LISTEN" /\ Outgoing(t) \subseteq Outgoing(s) /\ t.tx_nxt = s.tx_nxt /\ Fresh(t, r)
    BY <1>1, <1>2, <2>3, <2>4 DEF Fresh, SameRx, SameTx
  <2>6. Edge(h, t, "run") = Opening /\ Edge(h, s, "run") = Opening /\ Opening \in Nat
    BY <2>5, TopFacts DEF Edge, Open
  <2>7. s.state \in Live /\ Pos(h, s.tx_nxt) \in Nat /\ t.state \notin Late /\ t.state # "ESTABLISHED"
    BY <1>1, <2>5, PosNat DEF Sock, Live, Open, Late
  <2>8. Rcv(h, t, r, D, B)
    BY <2>5 DEF Rcv
  <2>9. \A m \in Outgoing(t) : m \in Outgoing(s)
    BY <2>5
  <2>10. Pos(h, s.tx_nxt) <= Pos(h, t.tx_nxt) /\ Edge(h, s, "run") <= Edge(h, t, "run")
    BY <2>5, <2>6, <2>7
  <2> QED BY <2>7, <2>8, <2>9, <2>10 DEF Turn
<1> QED BY <1>3, <1>4

(* Data that arrives with the acknowledgment of the SYN is taken at once.   *)
LEMMA FirstData ==
    ASSUME NEW h \in Host, h = Server, NEW s \in Sock(h), Counted(s), NEW r,
           s.rx_cnt = 0, s.rx_win = WinSize, s.rx_buf = <<>>, s.rx_nbq = <<>>, r = <<>>,
           NEW D \in DataOf(Peer(h)), NEW B \in Nat, 1 <= B, NEW n \in Segments,
           n.len = 1 => \E j \in 1..Len(D) : D[j] = n.seq,
           Pos(Peer(h), s.rx_nxt) = 1, \A j \in 1..Len(D) : Pos(Peer(h), D[j]) < Opening,
           NEW more \in BOOLEAN, NEW t, t = IF n.len > 0 THEN NutTcpProcessAppData(s, n, more) ELSE s
    PROVE  RxStep(h, t, s) /\ Est(h, t, r, D, B) /\ Reach(h, t) = Opening /\ Sends(h, t, s, Reach(h, t))
<1>1. /\ s.rx_cnt = 0 /\ s.rx_win = WinSize /\ s.rx_buf = <<>> /\ s.rx_nbq = <<>> /\ r = <<>>
      /\ WinSize \in Nat /\ WinSize > 0 /\ Len(<<>>) = 0 /\ 1..0 = {} /\ D \in Seq(Num) /\ Len(D) \in Nat
  BY SizeFacts, SizeAssumption, EmptySeq, LenProperties DEF DataOf
<1>2. s.rx_nxt \in Num /\ Peer(h) = Client /\ Client \in Host
  BY HostAssumption DEF Sock, Peer, Host
<1>3. Fair(h) => D = <<>>
  <2>1. h # Client
    BY HostAssumption
  <2>2. Fair(h) => Len(D) <= 0
    BY <1>2, <2>1 DEF Fair, DataOf
  <2>3. Len(D) <= 0 => D = <<>>
    BY <1>1, EmptySeq
  <2> QED BY <2>2, <2>3
<1>4. CASE n.len = 0
  <2>1. t = s /\ RxStep(h, t, s) /\ Sends(h, t, s, Reach(h, t))
    BY <1>4 DEF RxStep, SameTx, SameWait, Sends
  <2>2. Reach(h, t) = Opening
    BY <1>1, <2>1 DEF Reach, Opening
  <2>3. Stored(t.rx_nbq, D) /\ t.rx_cnt + t.rx_win <= WinSize
    BY <1>1, <2>1 DEF Stored
  <2>4. Fair(h) => /\ InOrd(r, t.rx_buf, D) /\ Cut(Peer(h), t.rx_nxt, D, Len(r) + Len(t.rx_buf))
                   /\ Pos(Peer(h), t.rx_nxt) <= B
    BY <1>1, <1>3, <2>1 DEF InOrd, Cut
  <2> QED BY <2>1, <2>2, <2>3, <2>4 DEF Est
<1>5. CASE n.len = 1
  <2>1. /\ t.rx_buf = Append(s.rx_buf, n) /\ t.rx_cnt = s.rx_cnt + 1 /\ t.rx_nxt = SeqPlus(s.rx_nxt, 1)
        /\ t.rx_win = (IF 1 >= s.rx_win THEN 0 ELSE s.rx_win - 1)
        /\ Sends(h, t, s, Reach(h, t)) /\ RxStep(h, t, s) /\ t.rx_nbq = s.rx_nbq
    BY <1>5, AppDataSends, AppDataStep
  <2>2. t.rx_win = WinSize - 1 /\ t.rx_cnt = 1
    BY <1>1, <2>1
  <2>3. Pos(Peer(h), t.rx_nxt) = 2
    <3>1. 2 < SeqSpace
      <4>1. Syns + 2 < SeqSpace \div 2 /\ SeqSpace \in Nat
        <5>1. /\ SeqSpace \in Nat /\ Data[h] \in Nat /\ Syns \in Nat /\ Data[h] + Syns + 2 < SeqSpace \div 2
          BY SeqAssumption
        <5> QED BY <5>1
      <4> QED BY <4>1, HalfFacts, SeqAssumption DEF Half
    <3>2. 1 + 1 < SeqSpace /\ 1 + 1 = 2
      BY <3>1
    <3> QED BY <1>2, <2>1, <3>2, PosFacts
  <2>4. Reach(h, t) = Opening
    BY <1>1, <2>2, <2>3 DEF Reach, Opening
  <2>5. Stored(t.rx_nbq, D) /\ t.rx_cnt + t.rx_win <= WinSize
    BY <1>1, <2>1, <2>2 DEF Stored
  <2>6. ~Fair(h)
    <3>1. \E j \in 1..Len(D) : D[j] = n.seq
      BY <1>5
    <3> QED BY <1>1, <1>3, <3>1
  <2> QED BY <2>1, <2>4, <2>5, <2>6 DEF Est
<1> QED BY <1>4, <1>5 DEF Segments

LEMMA SynReceivedTurn ==
    ASSUME NEW h \in Host, NEW s, NEW d, NEW r, NEW D, NEW B, NEW e, Ready(h, s, d, r, D, B, e),
           s.state = "SYN_RECEIVED", NEW n \in Segments, Fine(Peer(h), n, D, B, e),
           NEW up \in BOOLEAN, NEW more \in BOOLEAN, NEW t, t = NutTcpStateSynReceived(s, n, up, more)
    PROVE  Turn(h, t, s, d, r, D, B, e)
<1>1. /\ s \in Sock(h) /\ Counted(s) /\ d \in DataOf(h) /\ Good(h, s, d) /\ h = Server /\ Fresh(s, r)
      /\ D \in DataOf(Peer(h)) /\ B \in Nat /\ Pos(Peer(h), s.rx_nxt) = 1 /\ 1 <= B /\ s.tx_una # s.tx_nxt
  BY SleeperFacts DEF Ready, Good, Rcv, Open
<1>2. CASE "RST" \in n.flags
  <2>1. PICK x : x = IF Handle(s, "pc_tq") THEN NutTcpStateChange(s, "LISTEN") ELSE NutTcpAbortSocket(s)
    OBVIOUS
  <2>2. t = NutTcpDiscardBuffers([x EXCEPT !.retran = FALSE])
    BY <1>2, <2>1 DEF NutTcpStateSynReceived
  <2> QED BY <2>1, <2>2, RefusedTurn
<1>3. CASE t = Reject(s, n)
  BY <1>3, RejectTurn
<1>4. CASE t = s
  BY <1>4, SameTurn
<1>5. PICK a : a = NutTcpProcessAck(s, n, up)
  OBVIOUS
<1>6. PICK u : u = IF n.len > 0 THEN NutTcpProcessAppData(a, n, more) ELSE a
  OBVIOUS
<1>7. PICK v : v = [u EXCEPT !.rx_nxt = SeqPlus(@, 1)]
  OBVIOUS
<1>8. CASE /\ "RST" \notin n.flags /\ "ACK" \in n.flags
           /\ SeqIsBetween(n.ack, SeqPlus(s.tx_una, 1), s.tx_nxt)
           /\ \/ t = NutTcpStateChange(v, "CLOSE_WAIT")
              \/ t = Post(Post(NutTcpStateChange(u, "ESTABLISHED"), "pc_tq"), "ac_tq")
  <2>1. /\ s.state \in Live /\ Pos(h, s.tx_una) < Pos(h, s.tx_nxt) /\ Pos(h, s.tx_nxt) < Half
        /\ Pos(h, s.tx_nxt) \in Nat /\ Pos(h, SeqPlus(s.tx_nxt, 1)) = Pos(h, s.tx_nxt) + 1
    <3>1. s.state \in Live
      BY DEF Live, Open
    <3> QED BY <1>1, <3>1, LivePos
  <2>2. Acks(h, a, s, n) /\ a.tx_una = n.ack /\ a.tx_win = n.win
    <3>1. SeqIsBetween(n.ack, SeqPlus(s.tx_una, 1), s.tx_nxt)
      BY <1>8
    <3> QED BY <1>1, <1>5, <2>1, <3>1, FirstAck
  <2>3. /\ a \in Sock(h) /\ Counted(a) /\ a.state = "SYN_RECEIVED" /\ a.tx_nxt = s.tx_nxt /\ SameRx(a, s)
        /\ Outgoing(a) \subseteq Outgoing(s)
    BY <2>2 DEF Acks, AckStep
  <2>4. /\ a.rx_cnt = 0 /\ a.rx_win = WinSize /\ a.rx_buf = <<>> /\ a.rx_nbq = <<>> /\ r = <<>>
        /\ Pos(Peer(h), a.rx_nxt) = 1
    BY <1>1, <2>3 DEF Fresh, SameRx
  <2>5. \A j \in 1..Len(D) : Pos(Peer(h), D[j]) < Opening
    BY DEF Ready, Edge, Open
  <2>6. n.len = 1 => \E j \in 1..Len(D) : D[j] = n.seq
    BY DEF Fine
  <2>7. RxStep(h, u, a) /\ Est(h, u, r, D, B) /\ Reach(h, u) = Opening /\ Sends(h, u, a, Reach(h, u))
    BY <1>1, <1>6, <2>3, <2>4, <2>5, <2>6, FirstData
  <2>8. /\ u \in Sock(h) /\ Counted(u) /\ u.state = "SYN_RECEIVED" /\ u.tx_nxt = s.tx_nxt
        /\ u.tx_una = n.ack /\ u.tx_win = n.win
    BY <2>2, <2>3, <2>7 DEF RxStep, SameTx
  <2>9. Edge(h, s, "run") = Opening /\ Opening \in Nat /\ Opening <= Top /\ Top \in Nat
    BY TopFacts DEF Edge, Open
  <2>10. Sends(h, u, s, Opening)
    BY <2>3, <2>7 DEF Sends
  <2>11. CASE t = NutTcpStateChange(v, "CLOSE_WAIT")
    <3>1. /\ v \in Sock(h) /\ Counted(v) /\ v.state = "SYN_RECEIVED" /\ v.tx_nxt = s.tx_nxt /\ v.rx_buf = u.rx_buf
          /\ Outgoing(v) = Outgoing(u)
      <4>1. RxStep(h, v, u)
        BY <1>7, <2>8, FinStep
      <4>2. {"rx_buf", "out", "tx_nbq"} \subseteq DOMAIN u
        BY <2>8 DEF Sock
      <4>3. v.rx_buf = u.rx_buf /\ v.out = u.out /\ v.tx_nbq = u.tx_nbq
        BY <1>7, <4>2
      <4> QED BY <2>8, <4>1, <4>3, SameOutgoing DEF RxStep, SameTx
    <3>2. PICK F : F = {"FIN", "ACK"}
      OBVIOUS
    <3>3. "CLOSE_WAIT" \in States(h) /\ <<v.state, "CLOSE_WAIT", F>> \in Changes /\ "SYN" \notin F /\ F \cap {"SYN", "FIN"} # {}
      BY <3>1, <3>2 DEF States, Synchronized, Changes
    <3>4. t \in Sock(h) /\ Counted(t) /\ t.state = "CLOSE_WAIT" /\ SameRx(t, v) /\ Queued(h, t, v)
      BY <2>11, <3>1, <3>2, <3>3, MoveStep
    <3>5. Sends(h, t, v, Reach(h, v))
      BY <2>11, <3>1, <3>3, ChangeSends
    <3>6. Sends(h, t, s, Top)
      <4>1. Reach(h, v) \in Nat /\ Reach(h, v) <= Top
        BY <3>1, TopFacts
      <4>2. Sends(h, t, v, Top)
        BY <2>9, <3>4, <3>5, <4>1, SendsMore
      <4>3. Sends(h, u, s, Top)
        BY <2>8, <2>9, <2>10, SendsMore
      <4> QED BY <3>1, <4>2, <4>3 DEF Sends
    <3>7. Edge(h, t, "run") = Top
      BY <3>4 DEF Edge, Open
    <3>8. Pos(h, s.tx_nxt) <= Pos(h, t.tx_nxt)
      BY <2>1, <3>1, <3>4 DEF Queued
    <3>9. Rcv(h, t, r, D, B)
      <4>1. t.rx_buf = u.rx_buf
        BY <3>1, <3>4 DEF SameRx
      <4> QED BY <2>7, <3>4, <4>1 DEF Rcv, Open, Est
    <3>10. t.state \notin Late /\ t.state # "ESTABLISHED"
      BY <3>4 DEF Late
    <3> QED BY <2>1, <2>9, <3>6, <3>7, <3>8, <3>9, <3>10, PlainFine DEF Turn, Sends
  <2>12. CASE t = Post(Post(NutTcpStateChange(u, "ESTABLISHED"), "pc_tq"), "ac_tq")
    <3>1. PICK F : F = {}
      OBVIOUS
    <3>2. "ESTABLISHED" \in States(h) /\ <<u.state, "ESTABLISHED", F>> \in Changes /\ F \cap {"SYN", "FIN"} = {}
      BY <2>8, <3>1 DEF States, Synchronized, Changes
    <3>3. PICK w : w = NutTcpStateChange(u, "ESTABLISHED")
      OBVIOUS
    <3>4. w \in Sock(h) /\ Counted(w) /\ w.state = "ESTABLISHED" /\ SameTx(w, u) /\ SameRx(w, u)
      BY <2>8, <3>2, <3>3, MoveStep
    <3>5. Outgoing(w) = Outgoing(u)
      BY <2>8, <3>1, <3>2, <3>3, ChangeSends
    <3>6. Est(h, w, r, D, B) /\ Reach(h, w) = Opening
      BY <2>7, <3>4, EstSame
    <3>7. Sends(h, w, s, Reach(h, w)) /\ w.tx_nxt = s.tx_nxt
      BY <2>8, <2>10, <3>4, <3>5, <3>6 DEF Sends, SameTx
    <3>8. Room(h, w, e)
      <4>1. Window(Peer(h), n) <= e
        BY <1>8 DEF Fine, IsAck
      <4> QED BY <2>8, <3>4, <4>1, PeerFacts DEF Window, Room, SameTx
    <3>9. Opening <= Reach(h, w)
      BY <2>9, <3>6
    <3>10. Turn(h, w, s, d, r, D, B, e)
      BY <3>4, <3>6, <3>7, <3>8, <3>9, OpenTurn
    <3>11. PICK x : x = Post(w, "pc_tq")
      OBVIOUS
    <3>12. Turn(h, x, s, d, r, D, B, e) /\ x \in Sock(h) /\ Counted(x)
      BY <3>4, <3>10, <3>11, WakeTurn DEF Queues
    <3>13. t = Post(x, "ac_tq")
      BY <2>12, <3>3, <3>11
    <3> QED BY <3>12, <3>13, WakeTurn DEF Queues
  <2> QED BY <1>8, <2>11, <2>12
<1> QED BY <1>2, <1>3, <1>4, <1>5, <1>6, <1>7, <1>8 DEF NutTcpStateSynReceived

(* A segment arrives, in whatever state.                                    *)
LEMMA ProcessTurn ==
    ASSUME NEW h \in Host, NEW s, NEW d, NEW r, NEW D, NEW B, NEW e, Ready(h, s, d, r, D, B, e),
           s.state \notin {"NONE", "CLOSED"}, NEW n \in SegOf(Peer(h)), Fine(Peer(h), n, D, B, e),
           NEW up \in BOOLEAN, NEW more \in BOOLEAN, NEW t, t = NutTcpStateProcess(s, n, Isn[h], up, more)
    PROVE  Turn(h, t, s, d, r, D, B, e)
<1>1. n \in Segments /\ s \in Sock(h) /\ Counted(s)
  BY DEF SegOf, Ready, Good
<1>2. CASE s.state = "ESTABLISHED"
  <2>1. t = NutTcpStateEstablished(s, n, up, more)
    BY <1>2 DEF NutTcpStateProcess
  <2> QED BY <1>1, <1>2, <2>1, EstablishedTurn
<1>3. CASE s.state = "LISTEN"
  <2>1. t = NutTcpStateListen(s, n)
    BY <1>3 DEF NutTcpStateProcess
  <2> QED BY <1>1, <1>3, <2>1, ListenTurn
<1>4. CASE s.state = "SYN_SENT"
  <2>1. t = NutTcpStateSynSent(s, n, Isn[h], up)
    BY <1>4 DEF NutTcpStateProcess
  <2> QED BY <1>4, <2>1, SynSentTurn
<1>5. CASE s.state = "SYN_RECEIVED"
  <2>1. t = NutTcpStateSynReceived(s, n, up, more)
    BY <1>5 DEF NutTcpStateProcess
  <2> QED BY <1>1, <1>5, <2>1, SynReceivedTurn
<1>6. CASE t = s
  BY <1>6, SameTurn
<1>7. CASE t = LateSegment(s, n)
  BY <1>1, <1>7, LateTurn
<1>8. CASE s.state = "CLOSE_WAIT" /\ t = NutTcpProcessAck(s, n, up)
  BY <1>1, <1>8, CloseWaitTurn
<1>9. CASE s.state = "FIN_WAIT_1" /\ t = NutTcpStateFinWait1(s, n, up, more)
  <2>1. Ends(h, t, s, n) /\ s.state \in Late
    BY <1>1, <1>9, FinWait1Ends DEF Late
  <2> QED BY <1>1, <2>1, EndsTurn
<1>10. CASE s.state = "FIN_WAIT_2" /\ t = NutTcpStateFinWait2(s, n, up, more)
  <2>1. Ends(h, t, s, n) /\ s.state \in Late
    BY <1>1, <1>10, FinWait2Ends DEF Late
  <2> QED BY <1>1, <2>1, EndsTurn
<1>11. CASE s.state = "CLOSING" /\ t = NutTcpStateClosing(s, n, up)
  BY <1>1, <1>11, LastStatesTurn
<1>12. CASE s.state = "LAST_ACK" /\ t = NutTcpStateLastAck(s, n, up)
  BY <1>1, <1>12, LastStatesTurn
<1>13. CASE s.state = "TIME_WAIT"
  <2>1. t = s
    BY <1>13 DEF NutTcpStateProcess
  <2> QED BY <1>6, <2>1
<1>14. CASE s.state = "CLOSE_WAIT"
  BY <1>6, <1>7, <1>8, <1>14 DEF NutTcpStateProcess
<1>15. CASE s.state = "FIN_WAIT_1"
  BY <1>6, <1>7, <1>9, <1>15 DEF NutTcpStateProcess
<1>16. CASE s.state = "FIN_WAIT_2"
  BY <1>6, <1>7, <1>10, <1>16 DEF NutTcpStateProcess
<1>17. CASE s.state = "CLOSING"
  BY <1>6, <1>7, <1>11, <1>17 DEF NutTcpStateProcess
<1>18. CASE s.state = "LAST_ACK"
  BY <1>6, <1>7, <1>12, <1>18 DEF NutTcpStateProcess
<1>19. s.state \in {"ESTABLISHED", "LISTEN", "SYN_SENT", "SYN_RECEIVED", "TIME_WAIT", "CLOSE_WAIT",
                    "FIN_WAIT_1", "FIN_WAIT_2", "CLOSING", "LAST_ACK"}
  <2>1. s.state \in States(h)
    BY <1>1 DEF Sock
  <2> QED BY <2>1 DEF States, Synchronized
<1> QED BY <1>2, <1>3, <1>4, <1>5, <1>13, <1>14, <1>15, <1>16, <1>17, <1>18, <1>19

-----------------------------------------------------------------------------
(* A round of the timers.                                                   *)

LEMMA LateAckTurn ==
    ASSUME NEW h \in Host, NEW s, NEW d, NEW r, NEW D, NEW B, NEW e, Ready(h, s, d, r, D, B, e),
           NEW t, t = LateAck(s)
    PROVE  Turn(h, t, s, d, r, D, B, e)
<1>1. s \in Sock(h) /\ Counted(s) /\ Rcv(h, s, r, D, B)
  BY DEF Ready, Good
<1>2. CASE t = s
  BY <1>2, SameTurn
<1>3. CASE "ACK" \in s.tx_flags /\ t = AckNow(s)
  <2>1. t \in Sock(h) /\ t.state = s.state /\ SameTx(t, s) /\ SameRx(t, s)
    BY <1>1, <1>3, AckNowStep DEF RxStep
  <2>2. s.state \notin Open
    BY <1>1, <1>3 DEF Rcv, Fresh
  <2>3. Sends(h, t, s, Edge(h, s, "run"))
    <3>1. Sends(h, t, s, Reach(h, s))
      BY <1>1, <1>3, AckNowSends
    <3>2. /\ Edge(h, s, "run") = Reach(h, s) \/ Edge(h, s, "run") = Top
          /\ Reach(h, s) \in Nat /\ Reach(h, s) <= Top /\ Top \in Nat
      BY <1>1, <2>2, TopFacts DEF Edge
    <3>3. Sends(h, t, s, Top)
      BY <1>1, <3>1, <3>2, SendsMore
    <3> QED BY <3>1, <3>2, <3>3
  <2> QED BY <2>1, <2>2, <2>3, KeepsTurn DEF SameTx
<1> QED BY <1>2, <1>3 DEF LateAck

LEMMA RetransmitTurn ==
    ASSUME NEW h \in Host, NEW s, NEW d, NEW r, NEW D, NEW B, NEW e, Ready(h, s, d, r, D, B, e),
           NEW expired \in BOOLEAN, NEW up \in BOOLEAN, NEW t, t = Retransmit(s, expired, up)
    PROVE  Turn(h, t, s, d, r, D, B, e)
<1>1. s \in Sock(h) /\ Counted(s)
  BY DEF Ready, Good
<1>2. CASE t = s
  BY <1>2, SameTurn
<1>3. CASE s.tx_nbq # <<>> /\ s.retran /\ t = NutTcpStateRetranTimeout(s, up)
  <2>1. CASE Ended(h, t, s)
    BY <1>1, <2>1, EndedTurn
  <2>2. CASE /\ AckStep(h, t, s) /\ Outgoing(t) \subseteq Outgoing(s)
             /\ t.tx_una = s.tx_una /\ t.tx_win = s.tx_win /\ t.tx_flags = s.tx_flags
    <3>1. t \in Sock(h) /\ t.state = s.state /\ SameRx(t, s) /\ t.tx_nxt = s.tx_nxt
      BY <2>2 DEF AckStep
    <3>2. Sends(h, t, s, Edge(h, s, "run"))
      BY <2>2 DEF Sends
    <3> QED BY <2>2, <3>1, <3>2, KeepsTurn
  <2> QED BY <1>1, <1>3, <2>1, <2>2, RetranSends
<1> QED BY <1>2, <1>3 DEF Retransmit

LEMMA WaitTimersTurn ==
    ASSUME NEW h \in Host, NEW s, NEW d, NEW r, NEW D, NEW B, NEW e, Ready(h, s, d, r, D, B, e),
           NEW t, Good(h, t, d), t = WaitTimers(s)
    PROVE  Turn(h, t, s, d, r, D, B, e)
<1>1. s \in Sock(h) /\ Counted(s) /\ Rcv(h, s, r, D, B) /\ t \in Sock(h)
  BY DEF Ready, Good
<1>2. CASE t = s
  BY <1>2, SameTurn
<1>3. CASE t = NutTcpDestroySocket(s)
  BY <1>1, <1>3, DestroySends, EndedTurn
<1>4. CASE t = [s EXCEPT !.time_wait = @ + 1]
  <2>1. {"state", "tx_una", "tx_nxt", "tx_win", "tx_flags", "tx_nbq", "out",
         "rx_nxt", "rx_win", "rx_cnt", "rx_buf", "rx_nbq", "adv"} \subseteq DOMAIN s
    BY <1>1 DEF Sock
  <2>2. /\ t.state = s.state /\ t.tx_una = s.tx_una /\ t.tx_nxt = s.tx_nxt /\ t.tx_win = s.tx_win
        /\ t.tx_flags = s.tx_flags /\ t.tx_nbq = s.tx_nbq /\ t.out = s.out
    BY <1>4, <2>1
  <2>3. SameRx(t, s)
    BY <1>4, <2>1 DEF SameRx
  <2>4. Sends(h, t, s, Edge(h, s, "run"))
    BY <2>2, SameOutgoing DEF Sends
  <2> QED BY <1>1, <2>2, <2>3, <2>4, KeepsTurn
<1>5. CASE s.state = "SYN_RECEIVED" /\ t = [s EXCEPT !.state = "LISTEN", !.time_wait = 0]
  <2>1. {"state", "tx_una", "tx_nxt", "tx_win", "tx_flags", "tx_nbq", "out",
         "rx_nxt", "rx_win", "rx_cnt", "rx_buf", "rx_nbq"} \subseteq DOMAIN s
    BY <1>1 DEF Sock
  <2>2. /\ t.state = "LISTEN" /\ t.tx_nxt = s.tx_nxt /\ t.tx_flags = s.tx_flags
        /\ t.tx_nbq = s.tx_nbq /\ t.out = s.out
    BY <1>5, <2>1
  <2>3. t.rx_win = s.rx_win /\ t.rx_cnt = s.rx_cnt /\ t.rx_buf = s.rx_buf /\ t.rx_nbq = s.rx_nbq
    BY <1>5, <2>1
  <2>4. Fresh(t, r)
    BY <1>1, <1>5, <2>2, <2>3 DEF Rcv, Open, Fresh
  <2>5. Edge(h, t, "run") = Opening /\ Edge(h, s, "run") = Opening /\ Opening \in Nat
    BY <1>5, <2>2, TopFacts DEF Edge, Open
  <2>6. s.state \in Live /\ Pos(h, s.tx_nxt) \in Nat /\ t.state \notin Late /\ t.state # "ESTABLISHED"
    BY <1>1, <1>5, <2>2, PosNat DEF Sock, Live, Open, Late
  <2>7. Rcv(h, t, r, D, B)
    BY <2>2, <2>4 DEF Rcv
  <2>8. \A m \in Outgoing(t) : m \in Outgoing(s)
    BY <2>2, SameOutgoing
  <2>9. Pos(h, s.tx_nxt) <= Pos(h, t.tx_nxt) /\ Edge(h, s, "run") <= Edge(h, t, "run")
    BY <2>2, <2>5, <2>6
  <2> QED BY <2>6, <2>7, <2>8, <2>9 DEF Turn
<1> QED BY <1>2, <1>3, <1>4, <1>5 DEF WaitTimers

(* What is ready stays so.                                                  *)
LEMMA ReadyTurn ==
    ASSUME NEW h \in Host, NEW s, NEW d, NEW r, NEW D, NEW B, NEW e, Ready(h, s, d, r, D, B, e),
           NEW t, Good(h, t, d), Turn(h, t, s, d, r, D, B, e)
    PROVE  Ready(h, t, d, r, D, B, e)
<1>1. PICK f, g : f = Edge(h, s, "run") /\ g = Edge(h, t, "run")
  OBVIOUS
<1>2. f \in Nat /\ g \in Nat /\ f <= g
  BY <1>1, EdgeFacts DEF Ready, Good, Turn
<1>3. D \in Seq(Num) /\ Peer(h) \in Host
  BY PeerFacts DEF Ready, DataOf
<1>4. \A j \in 1..Len(D) : Pos(Peer(h), D[j]) \in Nat
  BY <1>3, ElementOfSeq, PosNat
<1>5. \A j \in 1..Len(D) : Pos(Peer(h), D[j]) < g
  <2>1. \A j \in 1..Len(D) : Pos(Peer(h), D[j]) < f
    BY <1>1 DEF Ready
  <2> QED BY <1>2, <1>4, <2>1
<1> QED BY <1>1, <1>5 DEF Ready, Turn

LEMMA RoundTurn ==
    ASSUME NEW h \in Host, NEW s, NEW d, NEW r, NEW D, NEW B, NEW e, Ready(h, s, d, r, D, B, e),
           NEW expired \in BOOLEAN, NEW up \in BOOLEAN,
           NEW t, t = WaitTimers(Retransmit(LateAck(s), expired, up))
    PROVE  Turn(h, t, s, d, r, D, B, e)
<1>1. Good(h, s, d) /\ d \in DataOf(h)
  BY DEF Ready
<1>2. PICK u : u = LateAck(s)
  OBVIOUS
<1>3. Turn(h, u, s, d, r, D, B, e) /\ Good(h, u, d)
  BY <1>1, <1>2, LateAckTurn, LateAckHandled DEF Handled
<1>4. Ready(h, u, d, r, D, B, e)
  BY <1>3, ReadyTurn
<1>5. PICK v : v = Retransmit(u, expired, up)
  OBVIOUS
<1>6. Turn(h, v, u, d, r, D, B, e) /\ Good(h, v, d)
  BY <1>3, <1>4, <1>5, RetransmitTurn, RetransmitHandled DEF Handled
<1>7. Ready(h, v, d, r, D, B, e)
  BY <1>4, <1>6, ReadyTurn
<1>8. t = WaitTimers(v)
  BY <1>2, <1>5
<1>9. Good(h, t, d)
  BY <1>1, <1>6, <1>8, WaitTimersHandled DEF Handled
<1>10. Turn(h, t, v, d, r, D, B, e)
  BY <1>7, <1>8, <1>9, WaitTimersTurn
<1>11. Turn(h, v, s, d, r, D, B, e)
  BY <1>1, <1>3, <1>6, TurnTrans
<1> QED BY <1>1, <1>6, <1>9, <1>10, <1>11, TurnTrans

-----------------------------------------------------------------------------
(* The two hosts together.                                                  *)

(* What h has sent: N on the network, and data d that fits its peer's edge. *)
Speaks(h, N, s, d, c, e) ==
    /\ \A n \in N \cup Outgoing(s) : Fine(h, n, d, Bound(h, s, c), Edge(h, s, c))
    /\ Rising(h, d, Bound(h, s, c))
    /\ \A j \in 1..Len(d) : Pos(h, d[j]) < e
    /\ s.state = "ESTABLISHED" => Room(h, s, e)

(* What h has received, of data D of its peer with bound B.                 *)
Hears(h, s, r, c, D, B) ==
    /\ Rcv(h, s, r, D, B)
    /\ c = "start" => Fresh(s, r)
    /\ s.state \in Late => c = "closed"
    /\ Fair(h) => Begins(r, D)

StreamInv ==
    /\ read \in [Host -> Seq(Num)]
    /\ \A h \in Host :
         LET p == Peer(h)
         IN  /\ Speaks(h, net[p], sock[h], sent[h], pc[h], Edge(p, sock[p], pc[p]))
             /\ Hears(h, sock[h], read[h], pc[h], sent[p], Bound(p, sock[p], pc[p]))
             /\ \A i \in 1..Len(backlog[h].syn) : backlog[h].syn[i] \in net[h]

(* A step of host h: its socket s becomes t, its data d becomes f, what it  *)
(* has received x, and its call c becomes k.                                *)
Stride(h, s, d, c, t, f, x, k, D, B, e) ==
    /\ Edge(h, s, c) <= Edge(h, t, k) /\ Bound(h, s, c) <= Bound(h, t, k)
    /\ \A n \in Outgoing(t) : n \in Outgoing(s) \/ Fine(h, n, f, Bound(h, t, k), Edge(h, t, k))
    /\ \/ f = d
       \/ \E y \in Num : /\ f = Append(d, y) /\ Bound(h, s, c) <= Pos(h, y)
                         /\ Pos(h, y) < Bound(h, t, k) /\ Pos(h, y) < e
    /\ t.state = "ESTABLISHED" => Room(h, t, e)
    /\ Hears(h, t, x, k, D, B)

(* Nothing changes but what is sent, and who waits.                         *)
Same(u, t) == u.state = t.state /\ SameTx(u, t) /\ SameRx(u, t) /\ u.tx_flags = t.tx_flags

LEMMA SameHolds ==
    ASSUME NEW h, NEW t, NEW u, Same(u, t)
    PROVE  /\ \A c : Edge(h, u, c) = Edge(h, t, c) /\ Bound(h, u, c) = Bound(h, t, c)
           /\ \A e : Room(h, u, e) <=> Room(h, t, e)
           /\ \A x, k, D, B : Hears(h, t, x, k, D, B) => Hears(h, u, x, k, D, B)
<1>1. Reach(h, u) = Reach(h, t) /\ u.tx_nxt = t.tx_nxt /\ u.state = t.state
  BY DEF Reach, Same, SameRx, SameTx
<1>2. \A c : Edge(h, u, c) = Edge(h, t, c) /\ Bound(h, u, c) = Bound(h, t, c)
  BY <1>1 DEF Edge, Bound
<1>3. \A e : Room(h, u, e) <=> Room(h, t, e)
  BY DEF Room, Same, SameTx
<1>4. ASSUME NEW x, NEW k, NEW D, NEW B, Hears(h, t, x, k, D, B)
      PROVE  Hears(h, u, x, k, D, B)
  <2>1. Rcv(h, t, x, D, B)
    BY <1>4 DEF Hears
  <2>2. t.state = "ESTABLISHED" => Est(h, u, x, D, B)
    BY <2>1, EstSame DEF Rcv, Same
  <2>3. Fresh(t, x) => Fresh(u, x)
    BY DEF Fresh, Same, SameRx
  <2>4. Rcv(h, u, x, D, B)
    BY <2>1, <2>2, <2>3 DEF Rcv, Same, SameRx, SameTx
  <2> QED BY <1>1, <1>4, <2>3, <2>4 DEF Hears
<1> QED BY <1>2, <1>3, <1>4

LEMMA RcvMore ==
    ASSUME NEW h \in Host, NEW s \in Sock(h), NEW r \in Seq(Num), NEW D \in Seq(Num), NEW B \in Nat, NEW C \in Nat,
           B <= C, Rcv(h, s, r, D, B), NEW E,
           \/ E = D
           \/ \E y \in Num : /\ E = Append(D, y) /\ B <= Pos(Peer(h), y)
                             /\ s.state = "ESTABLISHED" => Pos(Peer(h), y) < Reach(h, s)
    PROVE  Rcv(h, s, r, E, C) /\ (Begins(r, D) => Begins(r, E))
<1>1. s.rx_nxt \in Num /\ s.rx_buf \in Seq(Segments) /\ Peer(h) \in Host
  BY PeerFacts DEF Sock
<1>2. /\ Pos(Peer(h), s.rx_nxt) \in Nat /\ Len(r) \in Nat /\ Len(s.rx_buf) \in Nat /\ Len(D) \in Nat
      /\ Reach(h, s) \in Nat
  BY <1>1, PosNat, LenProperties, TopFacts
<1>3. CASE E = D
  <2>1. s.state = "ESTABLISHED" => Est(h, s, r, D, C)
    BY <1>2 DEF Rcv, Est
  <2>2. s.state = "SYN_RECEIVED" => Pos(Peer(h), s.rx_nxt) = 1 /\ 1 <= C
    BY <1>2 DEF Rcv
  <2> QED BY <1>3, <2>1, <2>2 DEF Rcv
<1>4. CASE \E y \in Num : /\ E = Append(D, y) /\ B <= Pos(Peer(h), y)
                          /\ s.state = "ESTABLISHED" => Pos(Peer(h), y) < Reach(h, s)
  <2>1. PICK y \in Num : /\ E = Append(D, y) /\ B <= Pos(Peer(h), y)
                         /\ s.state = "ESTABLISHED" => Pos(Peer(h), y) < Reach(h, s)
    BY <1>4
  <2>2. Len(E) = Len(D) + 1 /\ (\A j \in 1..Len(D) : E[j] = D[j]) /\ E[Len(D) + 1] = y
    BY <2>1, AppendProperties
  <2>3. Pos(Peer(h), y) \in Nat
    BY <1>1, PosNat
  <2>4. \A j \in 1..Len(E) : j \in 1..Len(D) \/ j = Len(D) + 1
    BY <1>2, <2>2
  <2>5. \A j \in 1..Len(D) : j \in 1..Len(E)
    BY <1>2, <2>2
  <2>6. InOrd(r, s.rx_buf, D) => InOrd(r, s.rx_buf, E)
    <3>1. SUFFICES ASSUME InOrd(r, s.rx_buf, D) PROVE InOrd(r, s.rx_buf, E)
      OBVIOUS
    <3>2. Len(r) + Len(s.rx_buf) <= Len(D) /\ \A i \in 1..Len(s.rx_buf) : s.rx_buf[i].seq = D[Len(r) + i]
      BY <3>1 DEF InOrd
    <3>3. \A i \in 1..Len(s.rx_buf) : Len(r) + i \in 1..Len(D)
      BY <1>2, <3>2
    <3> QED BY <1>2, <2>2, <3>2, <3>3 DEF InOrd
  <2>7. s.state = "ESTABLISHED" => Est(h, s, r, E, C)
    <3>1. SUFFICES ASSUME s.state = "ESTABLISHED" PROVE Est(h, s, r, E, C)
      OBVIOUS
    <3>2. Est(h, s, r, D, B)
      BY <3>1 DEF Rcv
    <3>3. Stored(s.rx_nbq, E)
      BY <2>2, <2>5, <3>2 DEF Est, Stored
    <3>4. \A j \in 1..Len(E) : Pos(Peer(h), E[j]) < Reach(h, s)
      BY <2>1, <2>2, <2>4, <3>1, <3>2 DEF Est
    <3>5. ASSUME Fair(h)
          PROVE  Cut(Peer(h), s.rx_nxt, E, Len(r) + Len(s.rx_buf)) /\ Pos(Peer(h), s.rx_nxt) <= C
      <4>1. /\ Cut(Peer(h), s.rx_nxt, D, Len(r) + Len(s.rx_buf)) /\ Pos(Peer(h), s.rx_nxt) <= B
            /\ Len(r) + Len(s.rx_buf) <= Len(D)
        BY <3>2, <3>5 DEF Est, InOrd
      <4>2. ~(Len(D) + 1 <= Len(r) + Len(s.rx_buf)) /\ ~(Pos(Peer(h), y) < Pos(Peer(h), s.rx_nxt))
        BY <1>2, <2>1, <2>3, <4>1
      <4>3. Cut(Peer(h), s.rx_nxt, E, Len(r) + Len(s.rx_buf))
        BY <2>2, <2>4, <4>1, <4>2 DEF Cut
      <4>4. Pos(Peer(h), s.rx_nxt) <= C
        BY <1>2, <4>1
      <4> QED BY <4>3, <4>4
    <3> QED BY <2>6, <3>2, <3>3, <3>4, <3>5 DEF Est
  <2>8. s.state = "SYN_RECEIVED" => Pos(Peer(h), s.rx_nxt) = 1 /\ 1 <= C
    BY <1>2 DEF Rcv
  <2>9. Begins(r, D) => Begins(r, E)
    BY <1>2, <2>2 DEF Begins
  <2> QED BY <2>6, <2>7, <2>8, <2>9 DEF Rcv
<1> QED BY <1>3, <1>4

LEMMA RisingMore ==
    ASSUME NEW h \in Host, NEW d \in Seq(Num), NEW B \in Nat, NEW C \in Nat, B <= C, Rising(h, d, B), NEW f,
           \/ f = d
           \/ \E y \in Num : f = Append(d, y) /\ B <= Pos(h, y) /\ Pos(h, y) < C
    PROVE  Rising(h, f, C)
<1>1. Len(d) \in Nat /\ \A j \in 1..Len(d) : Pos(h, d[j]) \in Nat
  BY LenProperties, ElementOfSeq, PosNat
<1>2. CASE f = d
  BY <1>1, <1>2 DEF Rising
<1>3. CASE \E y \in Num : f = Append(d, y) /\ B <= Pos(h, y) /\ Pos(h, y) < C
  <2>1. PICK y \in Num : f = Append(d, y) /\ B <= Pos(h, y) /\ Pos(h, y) < C
    BY <1>3
  <2>2. Len(f) = Len(d) + 1 /\ (\A j \in 1..Len(d) : f[j] = d[j]) /\ f[Len(d) + 1] = y
    BY <2>1, AppendProperties
  <2>3. Pos(h, y) \in Nat
    BY PosNat
  <2>4. \A j \in 1..Len(f) : j \in 1..Len(d) \/ j = Len(d) + 1
    BY <1>1, <2>2
  <2>5. \A j \in 1..Len(d) : Pos(h, d[j]) < B
    BY DEF Rising
  <2>6. ASSUME NEW i \in 1..Len(f), NEW j \in 1..Len(f), i < j
        PROVE  Pos(h, f[i]) < Pos(h, f[j])
    <3>1. i \in 1..Len(d)
      BY <1>1, <2>2, <2>6
    <3>2. CASE j \in 1..Len(d)
      BY <2>2, <2>6, <3>1, <3>2 DEF Rising
    <3>3. CASE j = Len(d) + 1
      <4>1. Pos(h, d[i]) < B /\ Pos(h, d[i]) \in Nat
        BY <1>1, <2>5, <3>1
      <4>2. Pos(h, d[i]) < Pos(h, y)
        BY <2>1, <2>3, <4>1
      <4> QED BY <2>2, <3>1, <3>3, <4>2
    <3> QED BY <2>4, <3>2, <3>3
  <2>7. \A j \in 1..Len(f) : Pos(h, f[j]) < C
    <3>1. \A j \in 1..Len(d) : Pos(h, d[j]) < C
      BY <1>1, <2>5
    <3> QED BY <2>1, <2>2, <2>4, <3>1
  <2> QED BY <2>6, <2>7 DEF Rising
<1> QED BY <1>2, <1>3

(* What host h says after its step.                                         *)
LEMMA SpeaksStep ==
    ASSUME NEW h \in Host, NEW N \in SUBSET Segments, NEW s \in Sock(h), NEW d \in Seq(Num), NEW c, NEW e,
           Speaks(h, N, s, d, c, e), NEW t \in Sock(h), NEW u \in Sock(h), NEW f, NEW x, NEW k, NEW D, NEW B,
           Stride(h, s, d, c, t, f, x, k, D, B, e), Same(u, t), Outgoing(u) \subseteq Outgoing(t),
           e \in Nat
    PROVE  Speaks(h, N \cup t.out, u, f, k, e)
<1>1. PICK E, F, C, G : E = Edge(h, s, c) /\ F = Edge(h, t, k) /\ C = Bound(h, s, c) /\ G = Bound(h, t, k)
  OBVIOUS
<1>2. E \in Nat /\ F \in Nat /\ C \in Nat /\ G \in Nat /\ E <= F /\ C <= G
  BY <1>1, EdgeFacts DEF Stride
<1>3. Edge(h, u, k) = F /\ Bound(h, u, k) = G /\ u.state = t.state
  BY <1>1, SameHolds DEF Same
<1>4. ASSUME NEW n \in N \cup Outgoing(s)
      PROVE  Fine(h, n, f, G, F)
  <2>1. n \in Segments
    <3>1. s.out \subseteq SegOf(h) /\ s.tx_nbq \in Seq(SegOf(h))
      BY DEF Sock
    <3> QED BY <3>1, ElementOfSeq DEF Outgoing, SegOf
  <2>2. Fine(h, n, d, C, E)
    BY <1>1 DEF Speaks
  <2>3. Fine(h, n, f, C, E)
    <3>1. CASE f = d
      BY <2>2, <3>1
    <3>2. CASE \E y \in Num : f = Append(d, y) /\ C <= Pos(h, y)
      BY <1>2, <2>1, <2>2, <3>2, FineLonger
    <3> QED BY <1>1, <3>1, <3>2 DEF Stride
  <2> QED BY <1>2, <2>1, <2>3, FineMore
<1>5. ASSUME NEW n \in N \cup t.out \cup Outgoing(u)
      PROVE  Fine(h, n, f, G, F)
  <2>1. n \in N \/ n \in Outgoing(t)
    BY DEF Outgoing
  <2>2. n \in N \cup Outgoing(s) \/ Fine(h, n, f, G, F)
    BY <1>1, <2>1 DEF Stride
  <2> QED BY <1>4, <2>2
<1>6. Rising(h, f, G)
  <2>1. Rising(h, d, C)
    BY <1>1 DEF Speaks
  <2>2. \/ f = d
        \/ \E y \in Num : f = Append(d, y) /\ C <= Pos(h, y) /\ Pos(h, y) < G
    BY <1>1 DEF Stride
  <2> QED BY <1>2, <2>1, <2>2, RisingMore
<1>7. \A j \in 1..Len(f) : Pos(h, f[j]) < e
  <2>1. \A j \in 1..Len(d) : Pos(h, d[j]) < e
    BY DEF Speaks
  <2>2. CASE f = d
    BY <2>1, <2>2
  <2>3. CASE \E y \in Num : f = Append(d, y) /\ Pos(h, y) < e
    <3>1. PICK y \in Num : f = Append(d, y) /\ Pos(h, y) < e
      BY <2>3
    <3>2. Len(f) = Len(d) + 1 /\ (\A j \in 1..Len(d) : f[j] = d[j]) /\ f[Len(d) + 1] = y /\ Len(d) \in Nat
      BY <3>1, AppendProperties, LenProperties
    <3>3. \A j \in 1..Len(f) : j \in 1..Len(d) \/ j = Len(d) + 1
      BY <3>2
    <3> QED BY <2>1, <3>1, <3>2, <3>3
  <2> QED BY <2>2, <2>3 DEF Stride
<1>8. u.state = "ESTABLISHED" => Room(h, u, e)
  <2>1. t.state = "ESTABLISHED" => Room(h, t, e)
    BY DEF Stride
  <2> QED BY <1>3, <2>1, SameHolds
<1> QED BY <1>3, <1>5, <1>6, <1>7, <1>8 DEF Speaks

(* A step of host h, for both hosts.                                        *)
LEMMA StreamKeeps ==
    ASSUME TcpInv, StreamInv, NEW h \in Host, NEW t \in Sock(h), NEW f, NEW x \in Seq(Num), NEW k,
           LET p == Peer(h)
           IN  Stride(h, sock[h], sent[h], pc[h], t, f, x, k, sent[p], Bound(p, sock[p], pc[p]),
                      Edge(p, sock[p], pc[p])),
           Becomes(h, t), sent' = [sent EXCEPT ![h] = f], pc' = [pc EXCEPT ![h] = k],
           read' = [read EXCEPT ![h] = x],
           \A g \in Host : \/ backlog'[g] = backlog[g]
                           \/ \A i \in 1..Len(backlog'[g].syn) : backlog'[g].syn[i] \in net[g]
    PROVE  StreamInv'
<1>1. PICK p : p = Peer(h)
  OBVIOUS
<1>2. p \in Host /\ Peer(p) = h /\ p # h /\ \A g \in Host : g = h \/ g = p
  BY <1>1, HostAssumption DEF Host, Peer
<1>3. PICK s, d, c, b, e, j, D, B, E :
         /\ s = sock[h] /\ d = sent[h] /\ c = pc[h] /\ b = sock[p] /\ e = pc[p] /\ j = read[p]
         /\ D = sent[p] /\ B = Bound(p, b, e) /\ E = Edge(p, b, e)
  OBVIOUS
<1>4. Stride(h, s, d, c, t, f, x, k, D, B, E)
  BY <1>1, <1>3
<1>5. /\ s \in Sock(h) /\ b \in Sock(p) /\ d \in Seq(Num) /\ D \in Seq(Num) /\ j \in Seq(Num)
      /\ net \in [Host -> SUBSET Segments]
  BY <1>2, <1>3 DEF TcpInv, HostInv, Good, StreamInv
<1>6. /\ Speaks(h, net[p], s, d, c, E) /\ Hears(h, s, read[h], c, D, B)
      /\ Speaks(p, net[h], b, D, e, Edge(h, s, c)) /\ Hears(p, b, j, e, d, Bound(h, s, c))
  BY <1>1, <1>2, <1>3 DEF StreamInv
<1>7. PICK u : u = [t EXCEPT !.out = {}]
  OBVIOUS
<1>8. u \in Sock(h) /\ Same(u, t) /\ Outgoing(u) \subseteq Outgoing(t)
  <2>1. u \in Sock(h) /\ u.out = {} /\ u.tx_nbq = t.tx_nbq
    BY <1>7 DEF Sock
  <2>2. u.state = t.state /\ u.tx_flags = t.tx_flags /\ SameTx(u, t)
    BY <1>7 DEF Sock, SameTx
  <2>3. SameRx(u, t)
    BY <1>7 DEF Sock, SameRx
  <2> QED BY <2>1, <2>2, <2>3 DEF Same, Outgoing
<1>9. sock' = [sock EXCEPT ![h] = u] /\ net' = [net EXCEPT ![p] = @ \cup t.out]
  BY <1>1, <1>7 DEF Becomes
<1>10. /\ sock'[h] = u /\ sock'[p] = b /\ net'[p] = net[p] \cup t.out /\ net'[h] = net[h]
       /\ sent'[h] = f /\ sent'[p] = D /\ pc'[h] = k /\ pc'[p] = e
       /\ read' \in [Host -> Seq(Num)] /\ read'[h] = x /\ read'[p] = j
  <2>1. DOMAIN sock = Host /\ DOMAIN net = Host /\ DOMAIN sent = Host /\ DOMAIN pc = Host /\ read \in [Host -> Seq(Num)]
    BY DEF TcpInv, StreamInv
  <2>2. sock'[h] = u /\ sock'[p] = b
    BY <1>2, <1>3, <1>9, <2>1
  <2>3. net'[p] = net[p] \cup t.out /\ net'[h] = net[h]
    BY <1>2, <1>9, <2>1
  <2>4. sent'[h] = f /\ sent'[p] = D /\ pc'[h] = k /\ pc'[p] = e
    BY <1>2, <1>3, <2>1
  <2>5. read' \in [Host -> Seq(Num)] /\ read'[h] = x /\ read'[p] = j
    BY <1>2, <1>3, <2>1
  <2> QED BY <2>2, <2>3, <2>4, <2>5
<1>11. PICK F, G : F = Edge(h, t, k) /\ G = Bound(h, t, k)
  OBVIOUS
<1>12. Edge(h, u, k) = F /\ Bound(h, u, k) = G
  BY <1>8, <1>11, SameHolds
<1>13. /\ E \in Nat /\ B \in Nat /\ F \in Nat /\ G \in Nat /\ Edge(h, s, c) \in Nat /\ Bound(h, s, c) \in Nat
       /\ Edge(h, s, c) <= F /\ Bound(h, s, c) <= G
  BY <1>2, <1>3, <1>4, <1>5, <1>11, EdgeFacts DEF Stride
<1>14. Speaks(h, net'[p], u, f, k, E)
  <2>1. net[p] \in SUBSET Segments
    BY <1>2, <1>5
  <2>2. Speaks(h, net[p] \cup t.out, u, f, k, E)
    BY <1>4, <1>5, <1>6, <1>8, <1>13, <2>1, SpeaksStep
  <2> QED BY <1>10, <2>2
<1>15. Hears(h, u, x, k, D, B)
  BY <1>4, <1>8, SameHolds DEF Stride
<1>16. Speaks(p, net[h], b, D, e, F)
  <2>1. \A i \in 1..Len(D) : Pos(p, D[i]) \in Nat /\ Pos(p, D[i]) < Edge(h, s, c)
    BY <1>2, <1>5, <1>6, ElementOfSeq, PosNat DEF Speaks
  <2>2. \A i \in 1..Len(D) : Pos(p, D[i]) < F
    BY <1>13, <2>1
  <2>3. b.state = "ESTABLISHED" => Room(p, b, F)
    <3>1. Pos(p, b.tx_una) \in Nat /\ b.tx_win \in Nat
      <4>1. b.tx_una \in Num /\ b.tx_win \in 0..WinSize
        BY <1>5 DEF Sock
      <4> QED BY <1>2, <4>1, PosNat
    <3>2. b.state = "ESTABLISHED" => Room(p, b, Edge(h, s, c))
      BY <1>6 DEF Speaks
    <3> QED BY <1>13, <3>1, <3>2 DEF Room
  <2> QED BY <1>6, <2>2, <2>3 DEF Speaks
<1>17. Hears(p, b, j, e, f, G)
  <2>1. \/ f = d
        \/ \E y \in Num : /\ f = Append(d, y) /\ Bound(h, s, c) <= Pos(h, y)
                          /\ b.state = "ESTABLISHED" => Pos(h, y) < Reach(p, b)
    <3>1. b.state = "ESTABLISHED" => E = Reach(p, b)
      BY <1>3 DEF Edge
    <3> QED BY <1>4, <3>1 DEF Stride
  <2>2. Rcv(p, b, j, d, Bound(h, s, c))
    BY <1>6 DEF Hears
  <2>3. Rcv(p, b, j, f, G) /\ (Begins(j, d) => Begins(j, f))
    BY <1>2, <1>5, <1>13, <2>1, <2>2, RcvMore
  <2> QED BY <1>6, <2>3 DEF Hears
<1>18. \A g \in Host : \A i \in 1..Len(backlog'[g].syn) : backlog'[g].syn[i] \in net'[g]
  <2>1. \A g \in Host : net[g] \subseteq net'[g]
    BY <1>2, <1>10
  <2>2. \A g \in Host : \A i \in 1..Len(backlog[g].syn) : backlog[g].syn[i] \in net[g]
    BY DEF StreamInv
  <2> QED BY <2>1, <2>2
<1>19. /\ Speaks(h, net'[p], sock'[h], sent'[h], pc'[h], Edge(p, sock'[p], pc'[p]))
       /\ Hears(h, sock'[h], read'[h], pc'[h], sent'[p], Bound(p, sock'[p], pc'[p]))
  BY <1>3, <1>10, <1>14, <1>15
<1>20. /\ Speaks(p, net'[h], sock'[p], sent'[p], pc'[p], Edge(h, sock'[h], pc'[h]))
       /\ Hears(p, sock'[p], read'[p], pc'[p], sent'[h], Bound(h, sock'[h], pc'[h]))
  BY <1>10, <1>12, <1>16, <1>17
<1> QED BY <1>1, <1>2, <1>10, <1>18, <1>19, <1>20 DEF StreamInv

(* A host whose socket is in use is ready for a step.                       *)
LEMMA ReadyNow ==
    ASSUME TcpInv, StreamInv, NEW h \in Host
    PROVE  LET p == Peer(h)
               B == Bound(p, sock[p], pc[p])
               e == Edge(p, sock[p], pc[p])
           IN  /\ B \in Nat /\ B <= Half /\ e \in Nat
               /\ Speaks(p, net[h], sock[p], sent[p], pc[p], Edge(h, sock[h], pc[h]))
               /\ Hears(h, sock[h], read[h], pc[h], sent[p], B)
               /\ sent[p] \in DataOf(p) /\ Rising(p, sent[p], B)
               /\ pc[h] # "start" => Ready(h, sock[h], sent[h], read[h], sent[p], B, e)
<1>1. PICK p, s, d, b, D, B, e :
         /\ p = Peer(h) /\ s = sock[h] /\ d = sent[h] /\ b = sock[p] /\ D = sent[p]
         /\ B = Bound(p, b, pc[p]) /\ e = Edge(p, b, pc[p])
  OBVIOUS
<1>2. p \in Host /\ Peer(p) = h
  BY <1>1, PeerFacts
<1>3. /\ Good(h, s, d) /\ d \in DataOf(h) /\ Good(p, b, D) /\ D \in DataOf(p) /\ Call(p, b, D, pc[p])
      /\ read[h] \in Seq(Num)
  BY <1>1, <1>2 DEF TcpInv, HostInv, StreamInv
<1>4. B \in Nat /\ e \in Nat
  BY <1>1, <1>2, <1>3, EdgeFacts DEF Good
<1>5. B <= Half
  <2>1. CASE pc[p] = "start"
    <3>1. b.tx_nxt = Isn[p] /\ Pos(p, b.tx_nxt) = 0
      BY <1>2, <1>3, <2>1, NewSocket DEF Call
    <3> QED BY <1>1, <2>1, <3>1, HalfFacts DEF Bound
  <2>2. CASE pc[p] # "start"
    <3>1. B = Bound(p, b, "run")
      BY <1>1, <2>2 DEF Bound
    <3>2. b.tx_nxt \in Num
      BY <1>3 DEF Good, Sock
    <3>3. Pos(p, b.tx_nxt) <= Pos(p, b.tx_nxt)
      BY <1>2, <3>2, PosNat
    <3> QED BY <1>2, <1>3, <3>1, <3>3, BoundMore
  <2> QED BY <2>1, <2>2
<1>6. /\ Speaks(p, net[h], b, D, pc[p], Edge(h, s, pc[h])) /\ Hears(h, s, read[h], pc[h], D, B)
      /\ Speaks(h, net[p], s, d, pc[h], e)
  BY <1>1, <1>2 DEF StreamInv
<1>7. pc[h] # "start" => Edge(h, s, pc[h]) = Edge(h, s, "run")
  BY DEF Edge
<1>8. pc[h] # "start" => Ready(h, s, d, read[h], D, B, e)
  BY <1>1, <1>3, <1>4, <1>5, <1>6, <1>7 DEF Ready, Speaks, Hears
<1> QED BY <1>1, <1>3, <1>4, <1>5, <1>6, <1>8 DEF Speaks

(* A step of the state machine, from socket w that is like s.               *)
LEMMA TurnStride ==
    ASSUME NEW h \in Host, NEW s, NEW d \in DataOf(h), NEW c, NEW w, NEW r, NEW D, NEW B, NEW e, NEW t, NEW k,
           Edge(h, s, c) = Edge(h, w, "run"), Bound(h, s, c) = Bound(h, w, "run"),
           Outgoing(w) \subseteq Outgoing(s), Good(h, w, d), Good(h, t, d), Turn(h, t, w, d, r, D, B, e),
           k # "start", w.state \in Late => k = "closed", Fair(h) => Begins(r, D)
    PROVE  Stride(h, s, d, c, t, d, r, k, D, B, e)
<1>1. Edge(h, t, k) = Edge(h, t, "run") /\ Bound(h, t, k) = Bound(h, t, "run")
  BY DEF Edge, Bound
<1>2. Bound(h, w, "run") <= Bound(h, t, "run")
  <2>1. t.state \in Live => w.state \in Live /\ Pos(h, w.tx_nxt) <= Pos(h, t.tx_nxt)
    BY DEF Turn
  <2> QED BY <2>1, BoundMore
<1>3. Hears(h, t, r, k, D, B)
  BY DEF Turn, Hears
<1> QED BY <1>1, <1>2, <1>3 DEF Turn, Stride

(* Nothing changes but what is sent, and who waits.                         *)
LEMMA SameStride ==
    ASSUME NEW h \in Host, NEW s \in Sock(h), NEW d, NEW c, NEW r, NEW D, NEW B, NEW e, NEW t, Same(t, s),
           Sends(h, t, s, Edge(h, s, c)), Hears(h, s, r, c, D, B), s.state = "ESTABLISHED" => Room(h, s, e),
           NEW k, k = c \/ (c \notin {"start", "closed"} /\ k # "start")
    PROVE  Stride(h, s, d, c, t, d, r, k, D, B, e)
<1>1. Edge(h, t, k) = Edge(h, s, c) /\ Bound(h, t, k) = Bound(h, s, c)
  <2>1. Edge(h, t, k) = Edge(h, s, k) /\ Bound(h, t, k) = Bound(h, s, k)
    BY SameHolds
  <2>2. Edge(h, s, k) = Edge(h, s, c) /\ Bound(h, s, k) = Bound(h, s, c)
    BY DEF Edge, Bound
  <2> QED BY <2>1, <2>2
<1>2. Edge(h, s, c) \in Nat /\ Bound(h, s, c) \in Nat
  BY EdgeFacts
<1>3. \A n \in Outgoing(t) : n \in Outgoing(s) \/ Fine(h, n, d, Bound(h, t, k), Edge(h, t, k))
  BY <1>1, PlainFine DEF Sends
<1>4. Hears(h, t, r, k, D, B)
  <2>1. Hears(h, s, r, k, D, B)
    BY DEF Hears
  <2> QED BY <2>1, SameHolds
<1>5. t.state = "ESTABLISHED" => Room(h, t, e)
  BY SameHolds DEF Same
<1> QED BY <1>1, <1>2, <1>3, <1>4, <1>5 DEF Stride

LEMMA RejectSame ==
    ASSUME NEW h \in Host, NEW s \in Sock(h), Counted(s), NEW n \in Segments, NEW e, NEW t, t = s \/ t = Reject(s, n)
    PROVE  Same(t, s) /\ Sends(h, t, s, e)
<1>1. CASE t = s
  BY <1>1 DEF Same, SameTx, SameRx, Sends
<1>2. CASE t = Reject(s, n)
  BY <1>2, RejectStep, RejectSends DEF RxStep, Same
<1> QED BY <1>1, <1>2

(* A thread waits, or stops to.                                             *)
LEMMA WaitSame ==
    ASSUME NEW h \in Host, NEW s \in Sock(h), NEW q, NEW e, NEW t, t = Wait(s, q) \/ t = [s EXCEPT !.wait = "none"]
    PROVE  Same(t, s) /\ Outgoing(t) = Outgoing(s) /\ Sends(h, t, s, e)
<1>1. {"state", "tx_una", "tx_nxt", "tx_win", "tx_nbq", "retran", "tx_flags", "out",
       "rx_nxt", "rx_win", "rx_cnt", "rx_buf", "rx_nbq", "adv"} \subseteq DOMAIN s
  BY DEF Sock
<1>2. t.state = s.state /\ t.tx_flags = s.tx_flags /\ t.out = s.out /\ SameTx(t, s)
  BY <1>1 DEF Wait, SameTx
<1>3. SameRx(t, s)
  BY <1>1 DEF Wait, SameRx
<1> QED BY <1>2, <1>3, SameOutgoing DEF Same, SameTx, Sends

(* The call goes on or returns, and nothing else changes.                   *)
LEMMA CallStream ==
    ASSUME TcpInv, StreamInv, NEW h \in Host, UNCHANGED <<sock, backlog, net, sent, read>>,
           pc[h] \notin {"start", "closed"}, pc' = [pc EXCEPT ![h] = "run"]
    PROVE  StreamInv'
<1>1. pc'[h] = "run" /\ \A g \in Host \ {h} : pc'[g] = pc[g]
  BY DEF TcpInv
<1>2. ASSUME NEW g \in Host
      PROVE  Edge(g, sock[g], pc'[g]) = Edge(g, sock[g], pc[g]) /\ Bound(g, sock[g], pc'[g]) = Bound(g, sock[g], pc[g])
  <2>1. CASE g = h
    BY <1>1, <2>1 DEF Edge, Bound
  <2>2. CASE g # h
    BY <1>1, <2>2
  <2> QED BY <2>1, <2>2
<1>3. ASSUME NEW g \in Host
      PROVE  LET p == Peer(g)
             IN  /\ Speaks(g, net[p], sock[g], sent[g], pc'[g], Edge(p, sock[p], pc'[p]))
                 /\ Hears(g, sock[g], read[g], pc'[g], sent[p], Bound(p, sock[p], pc'[p]))
  <2>1. PICK p : p = Peer(g)
    OBVIOUS
  <2>2. p \in Host
    BY <2>1, PeerFacts
  <2>3. /\ Speaks(g, net[p], sock[g], sent[g], pc[g], Edge(p, sock[p], pc[p]))
        /\ Hears(g, sock[g], read[g], pc[g], sent[p], Bound(p, sock[p], pc[p]))
    BY <2>1 DEF StreamInv
  <2>4. Speaks(g, net[p], sock[g], sent[g], pc'[g], Edge(p, sock[p], pc'[p]))
    BY <1>2, <2>2, <2>3 DEF Speaks
  <2>5. Hears(g, sock[g], read[g], pc'[g], sent[p], Bound(p, sock[p], pc'[p]))
    <3>1. Hears(g, sock[g], read[g], pc'[g], sent[p], Bound(p, sock[p], pc[p]))
      BY <1>1, <2>3 DEF Hears
    <3> QED BY <1>2, <2>2, <3>1
  <2> QED BY <2>1, <2>4, <2>5
<1> QED BY <1>3 DEF StreamInv

-----------------------------------------------------------------------------
(* The actions.                                                             *)

LEMMA SegmentStream ==
    ASSUME TcpInv, StreamInv, NEW h \in Host, SegmentArrives(h)
    PROVE  StreamInv'
<1>1. PICK p, s, d, c, r, D, B, e :
         /\ p = Peer(h) /\ s = sock[h] /\ d = sent[h] /\ c = pc[h] /\ r = read[h] /\ D = sent[p]
         /\ B = Bound(p, sock[p], pc[p]) /\ e = Edge(p, sock[p], pc[p])
  OBVIOUS
<1>2. /\ HostInv(h, s, d, c) /\ net[h] \subseteq SegOf(p) /\ backlog \in Backlogs
      /\ r \in Seq(Num) /\ pc \in [Host -> Progress]
      /\ sent \in [Host -> Seq(Num)] /\ read \in [Host -> Seq(Num)]
  BY <1>1 DEF TcpInv, StreamInv
<1>3. /\ Good(h, s, d) /\ d \in DataOf(h) /\ s \in Sock(h) /\ Counted(s) /\ Call(h, s, d, c)
  BY <1>2 DEF HostInv, Good
<1>4. /\ Hears(h, s, r, c, D, B) /\ Speaks(p, net[h], sock[p], D, pc[p], Edge(h, s, c))
      /\ Speaks(h, net[p], s, d, c, e) /\ (c # "start" => Ready(h, s, d, r, D, B, e))
  BY <1>1, ReadyNow DEF StreamInv
<1>5. PICK n \in net[h], up \in Up, more \in BOOLEAN :
         IF s.state \in {"NONE", "CLOSED"} THEN Backlog(h, n)
         ELSE /\ s.state = "LISTEN" => (s.tx_nxt - Isn[h]) % SeqSpace < Syns
              /\ Becomes(h, NutTcpStateProcess(s, n, Isn[h], up, more))
              /\ UNCHANGED backlog
  BY <1>1 DEF SegmentArrives
<1>6. n \in SegOf(p) /\ n \in Segments /\ up \in BOOLEAN
  BY <1>2 DEF SegOf, Up
<1>7. /\ sent' = [sent EXCEPT ![h] = d] /\ pc' = [pc EXCEPT ![h] = c] /\ read' = [read EXCEPT ![h] = r]
  <2>1. UNCHANGED <<sent, pc, read>>
    BY DEF SegmentArrives
  <2> QED BY <1>1, <1>2, <2>1
<1>8. CASE s.state \in {"NONE", "CLOSED"}
  <2>1. Backlog(h, n)
    BY <1>5, <1>8
  <2>2. \A g \in Host : \/ backlog'[g] = backlog[g]
                        \/ \A i \in 1..Len(backlog'[g].syn) : backlog'[g].syn[i] \in net[g]
    <3>1. PICK b1, b2 : b1 = [syn |-> <<n>>, time |-> 0] /\ b2 = NoSyn
      OBVIOUS
    <3>2. \A i \in 1..Len(b1.syn) : b1.syn[i] \in net[h]
      BY <3>1
    <3>3. \A i \in 1..Len(b2.syn) : b2.syn[i] \in net[h]
      BY <3>1, EmptySeq DEF NoSyn
    <3>4. backlog' \in {[backlog EXCEPT ![h] = b1], [backlog EXCEPT ![h] = b2], backlog}
      BY <2>1, <3>1 DEF Backlog
    <3> QED BY <1>2, <3>2, <3>3, <3>4 DEF Backlogs
  <2>3. PICK t : Becomes(h, t) /\ (t = s \/ t = Reject(s, n))
    BY <1>1, <2>1 DEF Backlog
  <2>4. t \in Sock(h) /\ Same(t, s) /\ Sends(h, t, s, Edge(h, s, c))
    BY <1>3, <1>6, <2>3, RejectSame, RejectStep DEF RxStep
  <2>5. Stride(h, s, d, c, t, d, r, c, D, B, e)
    BY <1>3, <1>4, <2>4, SameStride DEF Speaks
  <2> QED BY <1>1, <1>2, <1>7, <2>2, <2>3, <2>4, <2>5, StreamKeeps
<1>9. CASE s.state \notin {"NONE", "CLOSED"}
  <2>1. PICK t : t = NutTcpStateProcess(s, n, Isn[h], up, more)
    OBVIOUS
  <2>2. Becomes(h, t) /\ (s.state = "LISTEN" => Pos(h, s.tx_nxt) < Syns) /\ UNCHANGED backlog
    BY <1>5, <1>9, <2>1 DEF Pos
  <2>3. c # "start"
    <3>1. s = NutTcpCreateSocket(h) => s.state = "CLOSED"
      BY NewSocket
    <3> QED BY <1>3, <1>9, <3>1 DEF Call
  <2>4. Good(h, t, d)
    BY <1>1, <1>3, <1>6, <1>9, <2>1, <2>2, ProcessHandled DEF Handled
  <2>5. Fine(p, n, D, B, e)
    BY <1>1, <1>4 DEF Speaks
  <2>6. Turn(h, t, s, d, r, D, B, e)
    BY <1>1, <1>4, <1>6, <1>9, <2>1, <2>3, <2>5, ProcessTurn
  <2>7. Edge(h, s, c) = Edge(h, s, "run") /\ Bound(h, s, c) = Bound(h, s, "run")
    BY <2>3 DEF Edge, Bound
  <2>8. Stride(h, s, d, c, t, d, r, c, D, B, e)
    BY <1>3, <1>4, <2>3, <2>4, <2>6, <2>7, TurnStride DEF Hears
  <2> QED BY <1>1, <1>2, <1>7, <2>2, <2>4, <2>8, StreamKeeps DEF Good
<1> QED BY <1>8, <1>9

LEMMA TimersStream ==
    ASSUME TcpInv, StreamInv, NEW h \in Host, NEW expired \in BOOLEAN, Timers(h, expired)
    PROVE  StreamInv'
<1>1. PICK p, s, d, c, r, D, B, e, b :
         /\ p = Peer(h) /\ s = sock[h] /\ d = sent[h] /\ c = pc[h] /\ r = read[h] /\ D = sent[p]
         /\ B = Bound(p, sock[p], pc[p]) /\ e = Edge(p, sock[p], pc[p]) /\ b = backlog[h]
  OBVIOUS
<1>2. /\ HostInv(h, s, d, c) /\ backlog \in Backlogs /\ b \in [syn: Seq(Segments), time: Nat]
      /\ r \in Seq(Num) /\ pc \in [Host -> Progress]
      /\ sent \in [Host -> Seq(Num)] /\ read \in [Host -> Seq(Num)]
  BY <1>1 DEF TcpInv, StreamInv, Backlogs
<1>3. /\ Good(h, s, d) /\ d \in DataOf(h) /\ s \in Sock(h) /\ Counted(s) /\ Call(h, s, d, c) /\ s.out = {}
  BY <1>2 DEF HostInv, Good
<1>4. /\ Hears(h, s, r, c, D, B) /\ Speaks(h, net[p], s, d, c, e) /\ (c # "start" => Ready(h, s, d, r, D, B, e))
  BY <1>1, ReadyNow DEF StreamInv
<1>5. PICK old : old = (b.syn # <<>> /\ b.time >= BacklogTime)
  OBVIOUS
<1>6. PICK w : w = IF old THEN Reject(s, Head(b.syn)) ELSE s
  OBVIOUS
<1>7. PICK up \in Up : Becomes(h, WaitTimers(Retransmit(LateAck(w), expired, up)))
  BY <1>1, <1>5, <1>6 DEF Timers
<1>8. PICK t : t = WaitTimers(Retransmit(LateAck(w), expired, up))
  OBVIOUS
<1>9. /\ sent' = [sent EXCEPT ![h] = d] /\ pc' = [pc EXCEPT ![h] = c] /\ read' = [read EXCEPT ![h] = r]
  <2>1. UNCHANGED <<sent, pc, read>>
    BY DEF Timers
  <2> QED BY <1>1, <1>2, <2>1
<1>10. \A g \in Host : \/ backlog'[g] = backlog[g]
                       \/ \A i \in 1..Len(backlog'[g].syn) : backlog'[g].syn[i] \in net[g]
  <2>1. backlog' = IF old THEN [backlog EXCEPT ![h] = NoSyn]
                   ELSE IF b.syn # <<>> THEN [backlog EXCEPT ![h].time = @ + 1] ELSE backlog
    BY <1>1, <1>5 DEF Timers
  <2>2. PICK b1, b2 : b1 = NoSyn /\ b2 = [b EXCEPT !.time = @ + 1]
    OBVIOUS
  <2>3. backlog' \in {[backlog EXCEPT ![h] = b1], [backlog EXCEPT ![h] = b2], backlog}
    BY <1>1, <2>1, <2>2
  <2>4. \A i \in 1..Len(b1.syn) : b1.syn[i] \in net[h]
    BY <2>2, EmptySeq DEF NoSyn
  <2>5. \A i \in 1..Len(b2.syn) : b2.syn[i] \in net[h]
    <3>1. b2.syn = b.syn
      BY <1>2, <2>2
    <3> QED BY <1>1, <3>1 DEF StreamInv
  <2> QED BY <1>2, <2>3, <2>4, <2>5 DEF Backlogs
<1>11. PICK n \in Segments : w = s \/ w = Reject(s, n)
  <2>1. b.syn # <<>> => Head(b.syn) \in Segments
    BY <1>2, HeadTailProperties
  <2>2. [seq |-> 0, ack |-> 0, flags |-> {}, win |-> 0, len |-> 0] \in Segments
    BY SizeFacts DEF Segments
  <2> QED BY <1>5, <1>6, <2>1, <2>2
<1>12. Good(h, w, d) /\ w \in Sock(h)
  <2>1. Handled(h, w, s, d)
    BY <1>3, <1>11, SameHandled, RejectHandled
  <2> QED BY <2>1 DEF Handled, Good
<1>13. CASE c = "start"
  <2>1. s.state = "CLOSED" /\ s.tx_flags = {} /\ s.tx_nbq = <<>>
    BY <1>3, <1>13, NewSocket DEF Call
  <2>2. w.state = "CLOSED" /\ w.tx_flags = {} /\ w.tx_nbq = <<>>
    BY <1>3, <1>11, <2>1, OnlyOut
  <2>3. LateAck(w) = w
    BY <2>2 DEF LateAck
  <2>4. Retransmit(w, expired, up) = w
    BY <2>2 DEF Retransmit
  <2>5. t = w
    BY <1>8, <2>2, <2>3, <2>4 DEF WaitTimers
  <2>6. Same(t, s) /\ Sends(h, t, s, Edge(h, s, c))
    BY <1>3, <1>11, <2>5, RejectSame
  <2>7. Stride(h, s, d, c, t, d, r, c, D, B, e)
    BY <1>3, <1>4, <2>6, SameStride DEF Speaks
  <2> QED BY <1>1, <1>2, <1>7, <1>8, <1>9, <1>10, <1>12, <2>5, <2>7, StreamKeeps
<1>14. CASE c # "start"
  <2>1. Ready(h, s, d, r, D, B, e)
    BY <1>4, <1>14
  <2>2. Turn(h, w, s, d, r, D, B, e)
    BY <1>11, <2>1, SameTurn, RejectTurn
  <2>3. Ready(h, w, d, r, D, B, e)
    BY <1>12, <2>1, <2>2, ReadyTurn
  <2>4. up \in BOOLEAN
    BY DEF Up
  <2>5. Turn(h, t, w, d, r, D, B, e) /\ Good(h, t, d)
    BY <1>3, <1>8, <1>12, <2>3, <2>4, RoundTurn, RoundHandled DEF Handled
  <2>6. Turn(h, t, s, d, r, D, B, e)
    BY <1>3, <1>12, <2>2, <2>5, TurnTrans
  <2>7. Edge(h, s, c) = Edge(h, s, "run") /\ Bound(h, s, c) = Bound(h, s, "run")
    BY <1>14 DEF Edge, Bound
  <2>8. Stride(h, s, d, c, t, d, r, c, D, B, e)
    BY <1>3, <1>4, <1>14, <2>5, <2>6, <2>7, TurnStride DEF Hears
  <2> QED BY <1>1, <1>2, <1>7, <1>8, <1>9, <1>10, <2>5, <2>8, StreamKeeps DEF Good
<1> QED BY <1>13, <1>14

LEMMA SameTrans ==
    ASSUME NEW s, NEW t, NEW u, Same(t, s), Same(u, t)
    PROVE  Same(u, s)
BY DEF Same, SameTx, SameRx

LEMMA ConnectStream ==
    ASSUME TcpInv, StreamInv, NEW h \in Host, NutTcpConnect(h)
    PROVE  StreamInv'
<1>1. PICK p, s, d, c, r, D, B, e :
         /\ p = Peer(h) /\ s = sock[h] /\ d = sent[h] /\ c = pc[h] /\ r = read[h] /\ D = sent[p]
         /\ B = Bound(p, sock[p], pc[p]) /\ e = Edge(p, sock[p], pc[p])
  OBVIOUS
<1>2. /\ s = NutTcpCreateSocket(h) /\ d = <<>> /\ h = Client /\ c = "start"
      /\ sent \in [Host -> Seq(Num)] /\ read \in [Host -> Seq(Num)] /\ r \in Seq(Num)
  BY <1>1 DEF NutTcpConnect, TcpInv, HostInv, Call, StreamInv
<1>3. /\ s \in Sock(h) /\ Counted(s) /\ s.state = "CLOSED" /\ s.tx_una = Isn[h] /\ s.tx_nxt = Isn[h]
      /\ s.tx_nbq = <<>> /\ s.tx_flags = {} /\ s.out = {} /\ Pos(h, s.tx_nxt) = 0 /\ s.tx_nxt \in Num
  BY <1>2, NewSocket DEF Sock
<1>4. Hears(h, s, r, c, D, B)
  BY <1>1 DEF StreamInv
<1>5. PICK v : v = NutTcpStateChange(s, "SYN_SENT")
  OBVIOUS
<1>6. PICK F : F = {"SYN"}
  OBVIOUS
<1>7. "SYN_SENT" \in States(h) /\ <<s.state, "SYN_SENT", F>> \in Changes /\ "SYN" \in F
  BY <1>2, <1>3, <1>6 DEF States, Changes
<1>8. v \in Sock(h) /\ Counted(v) /\ v.state = "SYN_SENT" /\ SameRx(v, s) /\ Queued(h, v, s)
  BY <1>3, <1>5, <1>6, <1>7, MoveStep
<1>9. PICK n : SendsNew(h, v, s, n, s.tx_flags \cup F)
  BY <1>3, <1>5, <1>7, ChangeSends
<1>10. /\ n.seq = s.tx_nxt /\ n.len = 0 /\ n.flags = {"SYN"} /\ v.tx_flags = {}
       /\ Outgoing(v) = Outgoing(s) \cup {n}
  BY <1>3, <1>6, <1>9 DEF SendsNew
<1>11. Pos(h, v.tx_nxt) = 1 /\ v.tx_una # v.tx_nxt /\ v.tx_una = Isn[h]
  <2>1. v.tx_nxt = SeqPlus(s.tx_nxt, 1) /\ v.tx_una = s.tx_una
    BY <1>8 DEF Queued
  <2>2. 0 + 1 < SeqSpace
    BY HalfFacts, SizeFacts, SeqAssumption DEF Half
  <2>3. Pos(h, SeqPlus(s.tx_nxt, 1)) = 0 + 1
    BY <1>3, <2>2, PosFacts
  <2> QED BY <1>3, <2>1, <2>3
<1>12. PICK up \in Up : Becomes(h, Wait(IF up THEN v ELSE Post([v EXCEPT !.out = {}], "ac_tq"), "ac_tq"))
  BY <1>1, <1>5 DEF NutTcpConnect
<1>13. PICK w : w = IF up THEN v ELSE Post([v EXCEPT !.out = {}], "ac_tq")
  OBVIOUS
<1>14. PICK t : t = Wait(w, "ac_tq")
  OBVIOUS
<1>15. w \in Sock(h) /\ Same(w, v) /\ Outgoing(w) \subseteq Outgoing(v)
  <2>1. CASE w = v
    BY <1>8, <2>1 DEF Same, SameTx, SameRx
  <2>2. CASE w = Post([v EXCEPT !.out = {}], "ac_tq")
    <3>1. PICK z : z = [v EXCEPT !.out = {}]
      OBVIOUS
    <3>2. z \in Sock(h) /\ z.state = v.state /\ z.tx_flags = v.tx_flags /\ SameTx(z, v) /\ z.out = {}
      BY <1>8, <3>1 DEF Sock, SameTx
    <3>3. SameRx(z, v)
      BY <1>8, <3>1 DEF Sock, SameRx
    <3>4. Counted(z) /\ Same(z, v) /\ Outgoing(z) \subseteq Outgoing(v)
      BY <1>8, <3>2, <3>3 DEF Counted, SameRx, Same, SameTx, Outgoing
    <3>5. w = Post(z, "ac_tq")
      BY <2>2, <3>1
    <3>6. w \in Sock(h) /\ w.state = z.state /\ SameTx(w, z) /\ SameRx(w, z)
      BY <3>2, <3>4, <3>5, PostStep DEF Queues
    <3>7. w.tx_flags = z.tx_flags /\ Outgoing(w) = Outgoing(z)
      BY <3>2, <3>5, WakeSends
    <3>8. Same(w, z)
      BY <3>6, <3>7 DEF Same
    <3> QED BY <3>4, <3>6, <3>7, <3>8, SameTrans
  <2> QED BY <1>13, <2>1, <2>2
<1>16. Same(t, v) /\ Outgoing(t) \subseteq Outgoing(v)
  <2>1. Same(t, w) /\ Outgoing(t) = Outgoing(w)
    BY <1>14, <1>15, WaitSame
  <2> QED BY <1>15, <2>1, SameTrans
<1>17. t \in Sock(h)
  <2>1. up \in BOOLEAN
    BY DEF Up
  <2> QED BY <1>2, <1>5, <1>13, <1>14, <2>1, ConnectGood DEF Good
<1>18. /\ Edge(h, s, c) = Opening /\ Edge(h, t, "connect") = Opening /\ Opening \in Nat
       /\ Bound(h, s, c) = 0 /\ Bound(h, t, "connect") = 1
  <2>1. Edge(h, v, "connect") = Opening /\ Bound(h, v, "connect") = 1
    BY <1>8, <1>11 DEF Edge, Bound, Open, Live
  <2>2. Edge(h, s, c) = Opening /\ Bound(h, s, c) = 0
    BY <1>2, <1>3 DEF Edge, Bound
  <2> QED BY <1>16, <2>1, <2>2, TopFacts, SameHolds
<1>19. \A m \in Outgoing(t) : m \in Outgoing(s) \/ Fine(h, m, d, Bound(h, t, "connect"), Edge(h, t, "connect"))
  <2>1. Len(d) = 0 /\ 1..0 = {}
    BY <1>2, EmptySeq
  <2>2. ~IsAck(n) /\ Pos(h, n.seq) = 0
    BY <1>3, <1>10 DEF IsAck
  <2>3. Fine(h, n, d, Bound(h, t, "connect"), Edge(h, t, "connect"))
    BY <1>10, <1>18, <2>1, <2>2 DEF Fine
  <2> QED BY <1>10, <1>16, <2>3
<1>20. Hears(h, t, r, "connect", D, B)
  <2>1. Fresh(v, r)
    BY <1>2, <1>4, <1>8, <1>10 DEF Hears, Fresh, SameRx
  <2>2. Rcv(h, v, r, D, B)
    BY <1>8, <1>11, <2>1 DEF Rcv
  <2>3. Hears(h, v, r, "connect", D, B)
    BY <1>4, <1>8, <2>2 DEF Hears, Late
  <2> QED BY <1>16, <2>3, SameHolds
<1>21. t.state # "ESTABLISHED"
  BY <1>8, <1>16 DEF Same
<1>22. Stride(h, s, d, c, t, d, r, "connect", D, B, e)
  BY <1>18, <1>19, <1>20, <1>21 DEF Stride
<1>23. /\ Becomes(h, t) /\ sent' = [sent EXCEPT ![h] = d] /\ pc' = [pc EXCEPT ![h] = "connect"]
       /\ read' = [read EXCEPT ![h] = r] /\ UNCHANGED backlog
  <2>1. UNCHANGED <<backlog, sent, read>> /\ pc' = [pc EXCEPT ![h] = "connect"]
    BY DEF NutTcpConnect
  <2> QED BY <1>1, <1>2, <1>12, <1>13, <1>14, <2>1
<1> QED BY <1>1, <1>2, <1>17, <1>22, <1>23, StreamKeeps

LEMMA AcceptStream ==
    ASSUME TcpInv, StreamInv, NEW h \in Host, NutTcpAccept(h)
    PROVE  StreamInv'
<1>1. PICK p, s, d, c, r, D, B, e :
         /\ p = Peer(h) /\ s = sock[h] /\ d = sent[h] /\ c = pc[h] /\ r = read[h] /\ D = sent[p]
         /\ B = Bound(p, sock[p], pc[p]) /\ e = Edge(p, sock[p], pc[p])
  OBVIOUS
<1>2. /\ s = NutTcpCreateSocket(h) /\ d = <<>> /\ h = Server /\ c = "start" /\ backlog \in Backlogs
      /\ sent \in [Host -> Seq(Num)] /\ read \in [Host -> Seq(Num)] /\ r \in Seq(Num) /\ d \in DataOf(h)
  BY <1>1 DEF NutTcpAccept, TcpInv, HostInv, Call, StreamInv
<1>3. /\ s \in Sock(h) /\ Counted(s) /\ s.state = "CLOSED" /\ s.tx_nbq = <<>> /\ s.tx_flags = {} /\ s.out = {}
  BY <1>2, NewSocket
<1>4. /\ Hears(h, s, r, c, D, B) /\ Speaks(p, net[h], sock[p], D, pc[p], Edge(h, s, c))
      /\ B \in Nat /\ B <= Half /\ e \in Nat /\ D \in DataOf(p) /\ Rising(p, D, B)
  BY <1>1, ReadyNow
<1>5. PICK l : l = NutTcpStateChange(s, "LISTEN")
  OBVIOUS
<1>6. PICK F : F = {}
  OBVIOUS
<1>7. "LISTEN" \in States(h) /\ <<s.state, "LISTEN", F>> \in Changes /\ F \cap {"SYN", "FIN"} = {}
  BY <1>2, <1>3, <1>6, HostAssumption DEF States, Changes
<1>8. l \in Sock(h) /\ Counted(l) /\ l.state = "LISTEN" /\ SameRx(l, s) /\ SameTx(l, s)
  BY <1>3, <1>5, <1>7, MoveStep
<1>9. Outgoing(l) = Outgoing(s) /\ l.tx_flags = s.tx_flags
  BY <1>3, <1>5, <1>6, <1>7, ChangeSends
<1>10. Good(h, l, d) /\ l.wait = "none"
  BY <1>2, <1>5, ListenGood
<1>11. Rcv(h, l, r, D, B)
  <2>1. Fresh(l, r)
    BY <1>2, <1>4, <1>8, <1>9 DEF Hears, Fresh, SameRx
  <2> QED BY <1>8, <2>1 DEF Rcv
<1>12. Edge(h, s, c) = Edge(h, l, "run") /\ Bound(h, s, c) = Bound(h, l, "run") /\ Edge(h, s, c) = Opening
  BY <1>2, <1>3, <1>8 DEF Edge, Bound, Open, Live, SameTx
<1>13. Ready(h, l, d, r, D, B, e)
  BY <1>1, <1>2, <1>4, <1>8, <1>10, <1>11, <1>12 DEF Ready, Speaks
<1>14. l.state \notin Late /\ (Fair(h) => Begins(r, D))
  BY <1>4, <1>8 DEF Late, Hears
<1>15. sent' = [sent EXCEPT ![h] = d] /\ read' = [read EXCEPT ![h] = r]
  <2>1. UNCHANGED <<sent, read>>
    BY DEF NutTcpAccept
  <2> QED BY <1>1, <1>2, <2>1
<1>16. CASE backlog[h].syn # <<>>
  <2>1. PICK n : n = Head(backlog[h].syn)
    OBVIOUS
  <2>2. n \in Segments /\ Fine(p, n, D, B, e)
    <3>1. backlog[h].syn \in Seq(Segments)
      BY <1>2 DEF Backlogs
    <3>2. n \in Segments /\ n = backlog[h].syn[1] /\ Len(backlog[h].syn) \in Nat /\ Len(backlog[h].syn) # 0
      BY <1>16, <2>1, <3>1, HeadTailProperties, LenProperties, EmptySeq
    <3>3. 1 \in 1..Len(backlog[h].syn)
      BY <3>2
    <3>4. n \in net[h]
      BY <3>2, <3>3 DEF StreamInv
    <3> QED BY <1>1, <1>4, <3>2, <3>4 DEF Speaks
  <2>3. PICK t : t = NutTcpStateProcess(l, n, Isn[h], TRUE, FALSE)
    OBVIOUS
  <2>4. Becomes(h, t) /\ backlog' = [backlog EXCEPT ![h] = NoSyn] /\ pc' = [pc EXCEPT ![h] = "run"]
    BY <1>1, <1>5, <1>16, <2>1, <2>3 DEF NutTcpAccept, Returns
  <2>5. t = NutTcpStateListen(l, n)
    BY <1>8, <2>3 DEF NutTcpStateProcess
  <2>6. Turn(h, t, l, d, r, D, B, e)
    BY <1>1, <1>8, <1>13, <2>2, <2>5, ListenTurn
  <2>7. Good(h, t, d)
    <3>1. Pos(h, l.tx_nxt) < Syns
      BY <1>2, <1>5, ListenGood
    <3> QED BY <1>2, <1>8, <1>10, <2>2, <2>5, <3>1, ListenHandled DEF Handled
  <2>8. Stride(h, s, d, c, t, d, r, "run", D, B, e)
    BY <1>2, <1>9, <1>10, <1>12, <1>14, <2>6, <2>7, TurnStride
  <2>9. \A g \in Host : \/ backlog'[g] = backlog[g]
                        \/ \A i \in 1..Len(backlog'[g].syn) : backlog'[g].syn[i] \in net[g]
    <3>1. \A i \in 1..Len(NoSyn.syn) : NoSyn.syn[i] \in net[h]
      BY EmptySeq DEF NoSyn
    <3> QED BY <1>2, <2>4, <3>1 DEF Backlogs
  <2> QED BY <1>1, <1>2, <1>15, <2>4, <2>7, <2>8, <2>9, StreamKeeps DEF Good
<1>17. CASE backlog[h].syn = <<>>
  <2>1. PICK t : t = Wait(l, "pc_tq")
    OBVIOUS
  <2>2. Becomes(h, t) /\ UNCHANGED backlog /\ pc' = [pc EXCEPT ![h] = "accept"]
    BY <1>1, <1>5, <1>17, <2>1 DEF NutTcpAccept
  <2>3. Good(h, t, d)
    <3>1. "pc_tq" \in Sleeps(h)
      BY <1>2, HostAssumption DEF Sleeps
    <3> QED BY <1>8, <1>10, <2>1, <3>1, WaitGood
  <2>4. Same(t, l) /\ Sends(h, t, l, Edge(h, l, "run"))
    BY <1>8, <2>1, WaitSame
  <2>5. Turn(h, t, l, d, r, D, B, e)
    BY <1>13, <2>3, <2>4, KeepsTurn DEF Same, SameTx, Good
  <2>6. Stride(h, s, d, c, t, d, r, "accept", D, B, e)
    BY <1>2, <1>9, <1>10, <1>12, <1>14, <2>3, <2>5, TurnStride
  <2> QED BY <1>1, <1>2, <1>15, <2>2, <2>3, <2>6, StreamKeeps DEF Good
<1> QED BY <1>16, <1>17

LEMMA TimeoutsStream ==
    ASSUME TcpInv, StreamInv, NEW h \in Host, AcceptTimeout(h) \/ WaitTimeout(h)
    PROVE  StreamInv'
<1>1. PICK p, s, d, c, r, D, B, e :
         /\ p = Peer(h) /\ s = sock[h] /\ d = sent[h] /\ c = pc[h] /\ r = read[h] /\ D = sent[p]
         /\ B = Bound(p, sock[p], pc[p]) /\ e = Edge(p, sock[p], pc[p])
  OBVIOUS
<1>2. /\ HostInv(h, s, d, c) /\ r \in Seq(Num) /\ pc \in [Host -> Progress]
      /\ sent \in [Host -> Seq(Num)] /\ read \in [Host -> Seq(Num)]
  BY <1>1 DEF TcpInv, StreamInv
<1>3. /\ Good(h, s, d) /\ d \in DataOf(h) /\ s \in Sock(h) /\ Counted(s) /\ Call(h, s, d, c) /\ Told(s)
  BY <1>2 DEF HostInv, Good
<1>4. s.wait # "none"
  BY <1>1 DEF AcceptTimeout, WaitTimeout
<1>5. c # "start"
  BY <1>3, <1>4, NewSocket DEF Call
<1>6. Ready(h, s, d, r, D, B, e) /\ Hears(h, s, r, c, D, B)
  BY <1>1, <1>5, ReadyNow
<1>7. Edge(h, s, c) = Edge(h, s, "run") /\ Bound(h, s, c) = Bound(h, s, "run")
  BY <1>5 DEF Edge, Bound
<1>8. /\ sent' = [sent EXCEPT ![h] = d] /\ read' = [read EXCEPT ![h] = r] /\ pc' = [pc EXCEPT ![h] = "run"]
      /\ UNCHANGED backlog
  <2>1. UNCHANGED <<backlog, sent, read>> /\ pc' = [pc EXCEPT ![h] = "run"]
    BY DEF AcceptTimeout, WaitTimeout, Returns
  <2> QED BY <1>1, <1>2, <2>1
<1>9. s.state \notin Late /\ (Fair(h) => Begins(r, D))
  BY <1>3, <1>4, <1>6, SleeperFacts DEF Late, Open, Hears
<1>10. ASSUME NEW t, Becomes(h, t), Good(h, t, d), Turn(h, t, s, d, r, D, B, e)
       PROVE  StreamInv'
  <2>1. Stride(h, s, d, c, t, d, r, "run", D, B, e)
    BY <1>3, <1>7, <1>9, <1>10, TurnStride
  <2> QED BY <1>1, <1>2, <1>8, <1>10, <2>1, StreamKeeps DEF Good
<1>11. CASE AcceptTimeout(h)
  <2>1. PICK t : t = [s EXCEPT !.wait = "none", !.state = "CLOSED"]
    OBVIOUS
  <2>2. Becomes(h, t) /\ s.wait = "pc_tq"
    BY <1>1, <1>11, <2>1 DEF AcceptTimeout
  <2>3. PICK X \in States(h) : X = "CLOSED"
    BY DEF States
  <2>4. t = [s EXCEPT !.wait = "none", !.state = X]
    BY <2>1, <2>3
  <2>5. t \in Sock(h) /\ t.state = "CLOSED" /\ t.wait = "none" /\ t.out = s.out
    BY <1>3, <2>3, <2>4 DEF Sock
  <2>6. t.rx_buf = s.rx_buf /\ t.rx_cnt = s.rx_cnt /\ t.rx_nbq = s.rx_nbq /\ t.adv = s.adv /\ t.tx_nbq = s.tx_nbq
    BY <1>3, <2>4 DEF Sock
  <2>7. Dead(h, t)
    BY <1>3, <2>5, <2>6 DEF Dead, Counted
  <2>8. t.rx_buf = <<>>
    <3>1. s.state \in Open
      BY <1>3, <2>2 DEF Told, Open
    <3> QED BY <1>6, <2>6, <3>1 DEF Hears, Rcv, Fresh
  <2>9. Ended(h, t, s)
    BY <2>5, <2>6, <2>7, <2>8, SameOutgoing DEF Ended
  <2> QED BY <1>3, <1>10, <2>2, <2>7, <2>9, DeadHandled, EndedTurn DEF Handled
<1>12. CASE WaitTimeout(h)
  <2>1. PICK t : t = [s EXCEPT !.wait = "none"]
    OBVIOUS
  <2>2. Becomes(h, t)
    BY <1>1, <1>12, <2>1 DEF WaitTimeout
  <2>3. Good(h, t, d)
    BY <1>3, <2>1, SleepEnds
  <2>4. Same(t, s) /\ Sends(h, t, s, Edge(h, s, "run"))
    BY <1>3, <2>1, WaitSame
  <2>5. Turn(h, t, s, d, r, D, B, e)
    BY <1>6, <2>3, <2>4, KeepsTurn DEF Same, SameTx, Good
  <2> QED BY <1>10, <2>2, <2>3, <2>5
<1> QED BY <1>11, <1>12

LEMMA CloseStream ==
    ASSUME TcpInv, StreamInv, NEW h \in Host, NutTcpCloseSocket(h)
    PROVE  StreamInv'
<1>1. PICK p, s, d, c, r, D, B, e :
         /\ p = Peer(h) /\ s = sock[h] /\ d = sent[h] /\ c = pc[h] /\ r = read[h] /\ D = sent[p]
         /\ B = Bound(p, sock[p], pc[p]) /\ e = Edge(p, sock[p], pc[p])
  OBVIOUS
<1>2. /\ HostInv(h, s, d, c) /\ r \in Seq(Num) /\ c = "run"
      /\ sent \in [Host -> Seq(Num)] /\ read \in [Host -> Seq(Num)]
  BY <1>1 DEF TcpInv, StreamInv, NutTcpCloseSocket
<1>3. /\ Good(h, s, d) /\ d \in DataOf(h) /\ s \in Sock(h) /\ Counted(s) /\ s.wait = "none"
  BY <1>2 DEF HostInv, Good, Call
<1>4. Ready(h, s, d, r, D, B, e) /\ Hears(h, s, r, c, D, B)
  BY <1>1, <1>2, ReadyNow
<1>5. PICK t : t = CASE s.state \in {"LISTEN", "SYN_SENT", "CLOSED"} -> NutTcpDestroySocket(s)
                     [] s.state \in {"SYN_RECEIVED", "ESTABLISHED"} -> NutTcpStateChange(s, "FIN_WAIT_1")
                     [] s.state = "CLOSE_WAIT" -> NutTcpStateChange(s, "LAST_ACK")
                     [] OTHER -> s
  OBVIOUS
<1>6. Becomes(h, t) /\ pc' = [pc EXCEPT ![h] = "closed"] /\ UNCHANGED backlog
      /\ sent' = [sent EXCEPT ![h] = d] /\ read' = [read EXCEPT ![h] = r]
  <2>1. /\ Becomes(h, t) /\ pc' = [pc EXCEPT ![h] = "closed"] /\ UNCHANGED <<backlog, sent, read>>
    BY <1>1, <1>5 DEF NutTcpCloseSocket
  <2> QED BY <1>1, <1>2, <2>1
<1>7. Good(h, t, d)
  BY <1>3, <1>5, CloseGood
<1>8. CASE s.state \notin {"SYN_RECEIVED", "ESTABLISHED", "CLOSE_WAIT"}
  <2>1. Turn(h, t, s, d, r, D, B, e)
    <3>1. CASE t = NutTcpDestroySocket(s)
      BY <1>3, <3>1, DestroySends, EndedTurn
    <3>2. CASE t = s
      BY <1>4, <3>2, SameTurn
    <3> QED BY <1>5, <1>8, <3>1, <3>2
  <2>2. Stride(h, s, d, c, t, d, r, "closed", D, B, e)
    BY <1>2, <1>3, <1>4, <1>7, <2>1, TurnStride DEF Hears
  <2> QED BY <1>1, <1>2, <1>6, <1>7, <2>2, StreamKeeps DEF Good
<1>9. CASE s.state \in {"SYN_RECEIVED", "ESTABLISHED", "CLOSE_WAIT"}
  <2>1. PICK x : x = IF s.state = "CLOSE_WAIT" THEN "LAST_ACK" ELSE "FIN_WAIT_1"
    OBVIOUS
  <2>2. t = NutTcpStateChange(s, x) /\ x \in {"FIN_WAIT_1", "LAST_ACK"}
    BY <1>5, <1>9, <2>1
  <2>3. PICK F : <<s.state, x, F>> \in Changes /\ "FIN" \in F /\ F \subseteq {"FIN", "ACK"}
    <3>1. /\ <<"SYN_RECEIVED", "FIN_WAIT_1", {"FIN"}>> \in Changes
          /\ <<"ESTABLISHED", "FIN_WAIT_1", {"FIN", "ACK"}>> \in Changes
          /\ <<"CLOSE_WAIT", "LAST_ACK", {"FIN", "ACK"}>> \in Changes
      BY DEF Changes
    <3> QED BY <1>9, <2>1, <3>1
  <2>4. x \in States(h)
    BY <2>2 DEF States, Synchronized
  <2>5. t.state = x /\ Queued(h, t, s)
    BY <1>3, <2>2, <2>3, <2>4, MoveStep
  <2>6. Sends(h, t, s, Reach(h, s))
    BY <1>3, <2>2, <2>3, <2>4, ChangeSends
  <2>7. Sends(h, t, s, Top)
    BY <1>3, <2>6, TopFacts, SendsMore
  <2>8. /\ t.state \in Late /\ t.state \in Live \ Open /\ t.state # "ESTABLISHED" /\ s.state \in Live
    BY <1>9, <2>2, <2>5 DEF Late, Live, Open, Synchronized
  <2>9. Edge(h, t, "closed") = Top /\ Edge(h, s, c) <= Top
    BY <1>3, <2>8, EdgeFacts DEF Edge
  <2>10. Bound(h, s, c) <= Bound(h, t, "closed")
    <3>1. /\ Pos(h, s.tx_nxt) \in Nat /\ t.tx_nxt = SeqPlus(s.tx_nxt, 1)
          /\ Pos(h, SeqPlus(s.tx_nxt, 1)) = Pos(h, s.tx_nxt) + 1
      BY <1>3, <2>5, <2>8, LivePos DEF Queued
    <3> QED BY <2>8, <3>1 DEF Bound
  <2>11. \A n \in Outgoing(t) : n \in Outgoing(s) \/ Fine(h, n, d, Bound(h, t, "closed"), Edge(h, t, "closed"))
    BY <2>7, <2>9, PlainFine DEF Sends
  <2>12. Hears(h, t, r, "closed", D, B)
    <3>1. Rcv(h, t, r, D, B)
      BY <2>2, <2>5, <2>8 DEF Rcv
    <3> QED BY <1>4, <3>1 DEF Hears
  <2>13. Stride(h, s, d, c, t, d, r, "closed", D, B, e)
    BY <2>8, <2>9, <2>10, <2>11, <2>12 DEF Stride
  <2> QED BY <1>1, <1>2, <1>6, <1>7, <2>13, StreamKeeps DEF Good
<1> QED BY <1>8, <1>9

(* What NutTcpOutput() sends when it sends data.                            *)
LEMMA DataSends ==
    ASSUME NEW h \in Host, NEW s \in Sock(h), NEW t, NEW n, DataSent(h, t, s, n)
    PROVE  Outgoing(t) = Outgoing(s) \cup {n} /\ IsAck(n) /\ Window(h, n) <= Reach(h, s)
<1>1. PICK q, Q : q = s.tx_nbq /\ Q = t.tx_nbq
  OBVIOUS
<1>2. q \in Seq(SegOf(h)) /\ n \in SegOf(h) /\ Q = Append(q, n) /\ t.out = s.out \cup {n}
  BY <1>1 DEF Sock, DataSent
<1>3. Len(q) \in Nat /\ Len(Q) = Len(q) + 1 /\ Q[Len(q) + 1] = n /\ \A i \in 1..Len(q) : Q[i] = q[i]
  <2>1. PICK T : T = SegOf(h)
    OBVIOUS
  <2>2. q \in Seq(T) /\ n \in T
    BY <1>2, <2>1
  <2> QED BY <1>2, <2>2, AppendProperties, LenProperties
<1>4. {Q[i] : i \in 1..Len(Q)} = {q[i] : i \in 1..Len(q)} \cup {n}
  <2>1. \A i \in 1..Len(Q) : i \in 1..Len(q) \/ i = Len(q) + 1
    BY <1>3
  <2>2. Len(q) + 1 \in 1..Len(Q) /\ \A i \in 1..Len(q) : i \in 1..Len(Q)
    BY <1>3
  <2> QED BY <1>3, <2>1, <2>2
<1>5. Outgoing(t) = Outgoing(s) \cup {n}
  <2>1. PICK X, Y : X = {Q[i] : i \in 1..Len(Q)} /\ Y = {q[i] : i \in 1..Len(q)}
    OBVIOUS
  <2>2. Outgoing(t) = t.out \cup X
    BY <1>1, <2>1 DEF Outgoing
  <2>3. Outgoing(s) = s.out \cup Y
    BY <1>1, <2>1 DEF Outgoing
  <2> QED BY <1>2, <1>4, <2>1, <2>2, <2>3
<1> QED BY <1>5, WindowReach DEF DataSent, IsAck, SegOf

LEMMA SendStream ==
    ASSUME TcpInv, StreamInv, NEW h \in Host, NutTcpSend(h)
    PROVE  StreamInv'
<1>1. PICK p, s, d, c, r, D, B, e :
         /\ p = Peer(h) /\ s = sock[h] /\ d = sent[h] /\ c = pc[h] /\ r = read[h] /\ D = sent[p]
         /\ B = Bound(p, sock[p], pc[p]) /\ e = Edge(p, sock[p], pc[p])
  OBVIOUS
<1>2. /\ HostInv(h, s, d, c) /\ r \in Seq(Num) /\ c \in {"run", "send"} /\ UNCHANGED <<backlog, read>>
      /\ sent \in [Host -> Seq(Num)] /\ read \in [Host -> Seq(Num)]
  BY <1>1 DEF TcpInv, StreamInv, NutTcpSend, Awake
<1>3. /\ Good(h, s, d) /\ d \in DataOf(h) /\ s \in Sock(h) /\ Counted(s) /\ s.wait = "none" /\ Len(d) < Data[h]
      /\ d \in Seq(Num)
  BY <1>1, <1>2 DEF HostInv, Good, Call, NutTcpSend, Awake, DataOf
<1>4. Ready(h, s, d, r, D, B, e) /\ Hears(h, s, r, c, D, B) /\ e \in Nat
  BY <1>1, <1>2, ReadyNow
<1>5. read' = [read EXCEPT ![h] = r]
  BY <1>1, <1>2
<1>6. CASE s.state # "ESTABLISHED"
  <2>1. UNCHANGED <<sock, backlog, net, sent, read>> /\ pc' = [pc EXCEPT ![h] = "run"]
    BY <1>1, <1>2, <1>6 DEF NutTcpSend, Returns
  <2> QED BY <1>1, <1>2, <2>1, CallStream
<1>7. CASE s.state = "ESTABLISHED" /\ ~MaySend(s)
  <2>1. PICK t : t = Wait(s, "tx_tq")
    OBVIOUS
  <2>2. Becomes(h, t) /\ UNCHANGED sent /\ pc' = [pc EXCEPT ![h] = "send"]
    BY <1>1, <1>7, <2>1 DEF NutTcpSend
  <2>3. Same(t, s) /\ Sends(h, t, s, Edge(h, s, c))
    BY <1>3, <2>1, WaitSame
  <2>4. t \in Sock(h)
    <3>1. "tx_tq" \in Sleeps(h) /\ ~HasRoom(s)
      BY <1>3, <1>7, RoomFacts DEF Sleeps
    <3> QED BY <1>3, <1>7, <2>1, <3>1, WaitGood DEF Good
  <2>5. Stride(h, s, d, c, t, d, r, "send", D, B, e)
    BY <1>2, <1>3, <1>4, <2>3, SameStride DEF Ready
  <2>6. sent' = [sent EXCEPT ![h] = d]
    BY <1>1, <1>2, <2>2
  <2> QED BY <1>1, <1>2, <1>5, <2>2, <2>4, <2>5, <2>6, StreamKeeps
<1>8. CASE s.state = "ESTABLISHED" /\ MaySend(s)
  <2>1. PICK t, y, f : t = NutTcpOutput([s EXCEPT !.tx_flags = @ \cup {"ACK"}], 1) /\ y = s.tx_nxt /\ f = Append(d, y)
    OBVIOUS
  <2>2. Becomes(h, t) /\ sent' = [sent EXCEPT ![h] = f] /\ pc' = [pc EXCEPT ![h] = "run"]
    BY <1>1, <1>8, <2>1 DEF NutTcpSend, Returns
  <2>3. /\ t \in Sock(h) /\ t.state = s.state /\ t.tx_una = s.tx_una /\ t.tx_nxt = SeqPlus(y, 1)
        /\ t.tx_win = s.tx_win /\ SameRx(t, s) /\ \E n : DataSent(h, t, s, n)
    BY <1>3, <2>1, DataOutput
  <2>4. PICK n : DataSent(h, t, s, n)
    BY <2>3
  <2>5. Outgoing(t) = Outgoing(s) \cup {n} /\ Window(h, n) <= Reach(h, s)
    BY <1>3, <2>4, DataSends
  <2>6. s.state \in Live /\ s.state \notin Late
    BY <1>8 DEF Live, Synchronized, Late
  <2>7. /\ Pos(h, s.tx_una) \in Nat /\ Pos(h, y) \in Nat /\ Pos(h, s.tx_una) <= Pos(h, y)
        /\ Pos(h, SeqPlus(y, 1)) = Pos(h, y) + 1
    BY <1>3, <2>1, <2>6, LivePos
  <2>8. Bound(h, s, c) = Pos(h, y) /\ Bound(h, t, "run") = Pos(h, y) + 1
    BY <2>1, <2>3, <2>6, <2>7 DEF Bound
  <2>9. Edge(h, s, c) = Reach(h, s) /\ Edge(h, t, "run") = Reach(h, s) /\ Reach(h, s) \in Nat
    BY <1>3, <1>8, <2>3, TopFacts DEF Edge, Reach, SameRx
  <2>10. Pos(h, y) < e
    <3>1. y \in Num /\ s.tx_una \in Num /\ s.tx_win \in Nat
      BY <1>3, <2>1, SizeFacts DEF Sock
    <3>2. Unacked(s) = Pos(h, y) - Pos(h, s.tx_una)
      BY <2>1, <2>7, <3>1, PosFacts DEF Unacked
    <3>3. CASE NarrowInt
      <4>1. e = Top
        BY <1>1, <3>3 DEF Edge, Reach, Opening
      <4> QED BY <1>4, <3>1, <4>1, TopFacts, SizeFacts
    <3>4. CASE ~NarrowInt
      <4>1. Unacked(s) < s.tx_win
        BY <1>3, <1>8, <3>4, RoomFacts DEF HasRoom
      <4>2. Pos(h, s.tx_una) + s.tx_win <= e
        BY <1>4, <1>8 DEF Ready, Room
      <4> QED BY <1>4, <2>7, <3>1, <3>2, <4>1, <4>2
    <3> QED BY <3>3, <3>4
  <2>11. y \in Num /\ Len(f) = Len(d) + 1 /\ f[Len(d) + 1] = y /\ Len(d) \in Nat
    <3>1. y \in Num
      BY <1>3, <2>1 DEF Sock
    <3> QED BY <1>3, <2>1, <3>1, AppendProperties, LenProperties
  <2>12. Fine(h, n, f, Bound(h, t, "run"), Edge(h, t, "run"))
    <3>1. n.seq = y /\ n.flags = {"ACK"}
      BY <2>1, <2>4 DEF DataSent
    <3>2. Len(d) + 1 \in 1..Len(f)
      BY <2>11
    <3>3. \E j \in 1..Len(f) : f[j] = n.seq
      BY <2>11, <3>1, <3>2
    <3> QED BY <2>5, <2>9, <3>1, <3>3 DEF Fine
  <2>13. Hears(h, t, r, "run", D, B)
    <3>1. Est(h, s, r, D, B)
      BY <1>4, <1>8 DEF Ready, Rcv
    <3>2. Rcv(h, t, r, D, B)
      BY <1>8, <2>3, <3>1, EstSame DEF Rcv, Open
    <3> QED BY <1>4, <2>3, <2>6, <3>2 DEF Hears
  <2>14. t.state = "ESTABLISHED" => Room(h, t, e)
    BY <1>4, <1>8, <2>3 DEF Ready, Room
  <2>15. Stride(h, s, d, c, t, f, r, "run", D, B, e)
    <3>1. Bound(h, s, c) <= Pos(h, y) /\ Pos(h, y) < Bound(h, t, "run") /\ Bound(h, s, c) <= Bound(h, t, "run")
      BY <2>7, <2>8
    <3>2. Edge(h, s, c) <= Edge(h, t, "run")
      BY <2>9
    <3>3. \A m \in Outgoing(t) : m \in Outgoing(s) \/ Fine(h, m, f, Bound(h, t, "run"), Edge(h, t, "run"))
      BY <2>5, <2>12
    <3> QED BY <2>1, <2>10, <2>11, <2>13, <2>14, <3>1, <3>2, <3>3 DEF Stride
  <2> QED BY <1>1, <1>2, <1>5, <2>2, <2>3, <2>15, StreamKeeps
<1> QED BY <1>6, <1>7, <1>8

(* The first n segments of buffer b are read, u is left.                    *)
Reads(x, u, r, b, n) == x = r \o [i \in 1..n |-> b[i].seq] /\ u = SubSeq(b, n + 1, Len(b))

LEMMA ReadMore ==
    ASSUME NEW r \in Seq(Num), NEW b \in Seq(Segments), NEW n \in 1..Len(b), NEW D \in Seq(Num),
           NEW x, NEW u, Reads(x, u, r, b, n)
    PROVE  /\ x \in Seq(Num) /\ Len(x) = Len(r) + n /\ Len(u) = Len(b) - n
           /\ InOrd(r, b, D) => InOrd(x, u, D)
           /\ InOrd(r, b, D) /\ Begins(r, D) => Begins(x, D)
<1>1. Len(r) \in Nat /\ Len(b) \in Nat /\ n \in Nat /\ n >= 1 /\ n <= Len(b)
  BY LenProperties
<1>2. PICK g : g = [i \in 1..n |-> b[i].seq]
  OBVIOUS
<1>3. g \in Seq(Num) /\ Len(g) = n /\ \A i \in 1..n : g[i] = b[i].seq
  <2>1. \A i \in 1..n : b[i].seq \in Num
    <3>1. \A i \in 1..n : i \in 1..Len(b)
      BY <1>1
    <3>2. \A i \in 1..n : b[i] \in Segments
      BY <3>1, ElementOfSeq
    <3> QED BY <3>2 DEF Segments, Num
  <2>2. g \in [1..n -> Num]
    BY <1>2, <2>1
  <2>3. g \in Seq(Num)
    BY <1>1, <2>2 DEF Seq
  <2>4. Len(g) = n
    BY <1>1, <2>2, <2>3, LenProperties
  <2> QED BY <1>2, <2>3, <2>4
<1>4. /\ x \in Seq(Num) /\ Len(x) = Len(r) + n
      /\ \A i \in 1..(Len(r) + n) : x[i] = IF i <= Len(r) THEN r[i] ELSE g[i - Len(r)]
  BY <1>2, <1>3, ConcatProperties DEF Reads
<1>5. Len(u) = Len(b) - n /\ \A i \in 1..(Len(b) - n) : u[i] = b[n + i]
  <2>1. n + 1 \in 1..(Len(b) + 1) /\ Len(b) \in 0..Len(b)
    BY <1>1
  <2>2. PICK T : T = Segments
    OBVIOUS
  <2>3. b \in Seq(T)
    BY <2>2
  <2>4. /\ Len(u) = IF n + 1 <= Len(b) THEN Len(b) - (n + 1) + 1 ELSE 0
        /\ \A i \in 1..(Len(b) - (n + 1) + 1) : u[i] = b[(n + 1) + i - 1]
    BY <2>1, <2>3, SubSeqFacts DEF Reads
  <2>5. Len(u) = Len(b) - n
    BY <1>1, <2>4
  <2>6. ASSUME NEW i \in 1..(Len(b) - n) PROVE u[i] = b[n + i]
    <3>1. i \in 1..(Len(b) - (n + 1) + 1) /\ (n + 1) + i - 1 = n + i
      BY <1>1
    <3> QED BY <2>4, <3>1
  <2> QED BY <2>5, <2>6
<1>6. ASSUME InOrd(r, b, D) PROVE InOrd(x, u, D)
  <2>1. Len(r) + Len(b) <= Len(D) /\ \A i \in 1..Len(b) : b[i].seq = D[Len(r) + i]
    BY <1>6 DEF InOrd
  <2>2. Len(x) + Len(u) = Len(r) + Len(b)
    <3>1. Len(x) = Len(r) + n /\ Len(u) = Len(b) - n
      BY <1>4, <1>5
    <3>2. \A k, l \in Nat : (k + n) + (l - n) = k + l
      BY <1>1
    <3> QED BY <1>1, <3>1, <3>2
  <2>3. ASSUME NEW i \in 1..Len(u) PROVE u[i].seq = D[Len(x) + i]
    <3>1. n + i \in 1..Len(b) /\ i \in 1..(Len(b) - n) /\ Len(r) + (n + i) = Len(x) + i
      BY <1>1, <1>4, <1>5
    <3> QED BY <1>5, <2>1, <3>1
  <2> QED BY <2>1, <2>2, <2>3 DEF InOrd
<1>7. ASSUME InOrd(r, b, D), Begins(r, D) PROVE Begins(x, D)
  <2>1. Len(r) + Len(b) <= Len(D) /\ \A i \in 1..Len(b) : b[i].seq = D[Len(r) + i]
    BY <1>7 DEF InOrd
  <2>2. \A i \in 1..Len(r) : r[i] = D[i]
    BY <1>7 DEF Begins
  <2>3. Len(x) <= Len(D)
    <3>1. Len(D) \in Nat
      BY LenProperties
    <3> QED BY <1>1, <1>4, <2>1, <3>1
  <2>4. ASSUME NEW i \in 1..Len(x) PROVE x[i] = D[i]
    <3>1. i \in 1..(Len(r) + n)
      BY <1>4
    <3>2. CASE i <= Len(r)
      <4>1. i \in 1..Len(r)
        BY <1>1, <3>1, <3>2
      <4> QED BY <1>4, <2>2, <3>1, <3>2, <4>1
    <3>3. CASE ~(i <= Len(r))
      <4>1. i - Len(r) \in 1..n /\ i - Len(r) \in 1..Len(b) /\ Len(r) + (i - Len(r)) = i
        BY <1>1, <3>1, <3>3
      <4>2. x[i] = g[i - Len(r)]
        BY <1>4, <3>1, <3>3
      <4> QED BY <1>3, <2>1, <4>1, <4>2
    <3> QED BY <3>2, <3>3
  <2> QED BY <2>3, <2>4 DEF Begins
<1> QED BY <1>4, <1>5, <1>6, <1>7

(* What the application takes opens the window by as much.                  *)
LEMMA TakenSends ==
    ASSUME NEW h \in Host, NEW s \in Sock(h), Counted(s), NEW n \in 1..Len(s.rx_buf), NEW t, t = Taken(s, n),
           s.state = "ESTABLISHED" /\ ~NarrowInt => s.rx_cnt + s.rx_win <= WinSize
    PROVE  /\ t.rx_buf = SubSeq(s.rx_buf, n + 1, Len(s.rx_buf)) /\ t.rx_cnt = s.rx_cnt - n
           /\ ~NarrowInt => t.rx_win = (IF s.state = "ESTABLISHED" THEN s.rx_win + n ELSE s.rx_win)
           /\ t.rx_nxt = s.rx_nxt /\ t.rx_nbq = s.rx_nbq
           /\ Sends(h, t, s, Reach(h, t))
<1>1. /\ s.rx_buf \in Seq(Segments) /\ Len(s.rx_buf) \in Nat /\ n \in Nat /\ n >= 1 /\ n <= Len(s.rx_buf)
      /\ s.rx_cnt \in Nat /\ Len(s.rx_buf) <= s.rx_cnt /\ s.rx_win \in 0..WinSize /\ WinSize \in Nat
  BY LenProperties, SizeFacts DEF Sock, Counted
<1>2. PICK win : win = IF s.rx_win + n > WinSize THEN WinSize ELSE s.rx_win + n
  OBVIOUS
<1>3. PICK B, C, W : /\ B = SubSeq(s.rx_buf, n + 1, Len(s.rx_buf)) /\ C = s.rx_cnt - n
                     /\ W = IF s.state = "ESTABLISHED" THEN win ELSE s.rx_win
  OBVIOUS
<1>4. /\ W \in 0..WinSize /\ C \in Nat
      /\ ~NarrowInt => W = IF s.state = "ESTABLISHED" THEN s.rx_win + n ELSE s.rx_win
  BY <1>1, <1>2, <1>3, SMTT(45), ZenonT(60)
<1>5. B \in Seq(Segments) /\ Len(B) <= C
  <2>1. n + 1 \in 1..(Len(s.rx_buf) + 1) /\ Len(s.rx_buf) \in 0..Len(s.rx_buf)
    BY <1>1
  <2>2. /\ B \in Seq(Segments)
        /\ Len(B) = IF n + 1 <= Len(s.rx_buf) THEN Len(s.rx_buf) - (n + 1) + 1 ELSE 0
    BY <1>1, <1>3, <2>1, SubSeqFacts
  <2> QED BY <1>1, <1>3, <2>2
<1>6. PICK u : u = [s EXCEPT !.rx_buf = B, !.rx_cnt = C, !.rx_win = W]
  OBVIOUS
<1>7. /\ u \in Sock(h) /\ u.rx_buf = B /\ u.rx_cnt = C /\ u.rx_win = W
      /\ u.rx_nxt = s.rx_nxt /\ u.rx_nbq = s.rx_nbq /\ u.adv = s.adv
  BY <1>4, <1>5, <1>6 DEF Sock
<1>8. u.out = s.out /\ u.tx_nbq = s.tx_nbq
  BY <1>6 DEF Sock
<1>9. Counted(u) /\ Outgoing(u) = Outgoing(s)
  BY <1>5, <1>7, <1>8, SameOutgoing DEF Counted
<1>10. t = IF s.state = "ESTABLISHED" /\ s.rx_win <= Mss /\ win > Mss THEN AckNow(u) ELSE u
  BY <1>2, <1>3, <1>6 DEF Taken
<1>11. SameRx(t, u) /\ Sends(h, t, u, Reach(h, u))
  <2>1. CASE t = u
    BY <2>1 DEF SameRx, Sends
  <2>2. CASE t = AckNow(u)
    BY <1>7, <1>9, <2>2, AckNowStep, AckNowSends
  <2> QED BY <1>10, <2>1, <2>2
<1>12. Reach(h, t) = Reach(h, u) /\ Sends(h, t, s, Reach(h, t))
  BY <1>9, <1>11 DEF SameRx, Reach, Sends
<1> QED BY <1>3, <1>4, <1>7, <1>11, <1>12 DEF SameRx

LEMMA ReceiveStream ==
    ASSUME TcpInv, StreamInv, NEW h \in Host, NutTcpReceive(h)
    PROVE  StreamInv'
<1>1. PICK p, s, d, c, r, D, B, e :
         /\ p = Peer(h) /\ s = sock[h] /\ d = sent[h] /\ c = pc[h] /\ r = read[h] /\ D = sent[p]
         /\ B = Bound(p, sock[p], pc[p]) /\ e = Edge(p, sock[p], pc[p])
  OBVIOUS
<1>2. /\ HostInv(h, s, d, c) /\ r \in Seq(Num) /\ c \in {"run", "receive"} /\ UNCHANGED <<backlog, sent>>
      /\ sent \in [Host -> Seq(Num)] /\ read \in [Host -> Seq(Num)] /\ p \in Host /\ D \in Seq(Num)
  BY <1>1, PeerFacts DEF TcpInv, StreamInv, NutTcpReceive, Awake
<1>3. /\ Good(h, s, d) /\ d \in DataOf(h) /\ s \in Sock(h) /\ Counted(s) /\ s.wait = "none"
  BY <1>1, <1>2 DEF HostInv, Good, Call, NutTcpReceive, Awake
<1>4. Ready(h, s, d, r, D, B, e) /\ Hears(h, s, r, c, D, B)
  BY <1>1, <1>2, ReadyNow
<1>5. sent' = [sent EXCEPT ![h] = d]
  BY <1>1, <1>2
<1>6. CASE UNCHANGED <<sock, net, read>> /\ Returns(h)
  BY <1>1, <1>2, <1>6, CallStream DEF Returns
<1>7. CASE /\ s.rx_cnt = 0 /\ s.state = "ESTABLISHED" /\ UNCHANGED read
           /\ pc' = [pc EXCEPT ![h] = "receive"] /\ Becomes(h, Wait(s, "rx_tq"))
  <2>1. PICK t : t = Wait(s, "rx_tq")
    OBVIOUS
  <2>2. Same(t, s) /\ Sends(h, t, s, Edge(h, s, c))
    BY <1>3, <2>1, WaitSame
  <2>3. t \in Sock(h)
    BY <1>3, <1>7, <2>1, WaitGood DEF Sleeps, Good
  <2>4. Stride(h, s, d, c, t, d, r, "receive", D, B, e)
    BY <1>2, <1>3, <1>4, <2>2, SameStride DEF Ready
  <2>5. read' = [read EXCEPT ![h] = r]
    BY <1>1, <1>2, <1>7
  <2>6. Becomes(h, t) /\ pc' = [pc EXCEPT ![h] = "receive"]
    BY <1>7, <2>1
  <2> QED BY <1>1, <1>2, <1>5, <2>3, <2>4, <2>5, <2>6, StreamKeeps
<1>8. CASE \E n \in 1..Len(s.rx_buf) : /\ Returns(h) /\ Becomes(h, Taken(s, n))
                                       /\ read' = [read EXCEPT ![h] = @ \o [i \in 1..n |-> s.rx_buf[i].seq]]
  <2>1. PICK n \in 1..Len(s.rx_buf) :
           /\ Returns(h) /\ Becomes(h, Taken(s, n))
           /\ read' = [read EXCEPT ![h] = @ \o [i \in 1..n |-> s.rx_buf[i].seq]]
    BY <1>8
  <2>2. PICK t, x, b, u : /\ t = Taken(s, n) /\ x = r \o [i \in 1..n |-> s.rx_buf[i].seq]
                          /\ b = s.rx_buf /\ u = SubSeq(b, n + 1, Len(b))
    OBVIOUS
  <2>3. Becomes(h, t) /\ pc' = [pc EXCEPT ![h] = "run"] /\ read' = [read EXCEPT ![h] = x]
    BY <1>1, <1>2, <2>1, <2>2 DEF Returns
  <2>4. t \in Sock(h) /\ t.state = s.state /\ SameTx(t, s)
    BY <1>3, <2>2, TakenStep DEF RxStep
  <2>5. /\ b \in Seq(Segments) /\ n \in 1..Len(b) /\ Len(b) \in Nat /\ n \in Nat /\ Len(r) \in Nat /\ s.rx_cnt \in Nat
        /\ s.rx_win \in Nat
    <3>1. b \in Seq(Segments) /\ n \in 1..Len(b) /\ s.rx_cnt \in Nat /\ s.rx_win \in 0..WinSize
      BY <1>3, <2>2 DEF Sock
    <3> QED BY <1>2, <3>1, LenProperties, SizeFacts
  <2>6. /\ x \in Seq(Num) /\ Len(x) = Len(r) + n /\ Len(u) = Len(b) - n
        /\ InOrd(r, b, D) => InOrd(x, u, D)
        /\ InOrd(r, b, D) /\ Begins(r, D) => Begins(x, D)
    <3>1. Reads(x, u, r, b, n)
      BY <2>2 DEF Reads
    <3> QED BY <1>2, <2>5, <3>1, ReadMore
  <2>7. Rcv(h, s, r, D, B)
    BY <1>4 DEF Hears
  <2>8. s.state \in {"ESTABLISHED", "CLOSE_WAIT"}
    <3>1. b # <<>>
      BY <2>5, EmptySeq
    <3>2. s.state \notin Open /\ s.state \notin {"NONE", "CLOSED"}
      BY <2>2, <2>7, <3>1 DEF Rcv, Fresh
    <3>3. s.state \notin Late
      BY <1>2, <1>4 DEF Hears
    <3>4. s.state \in States(h)
      BY <1>3 DEF Sock
    <3> QED BY <3>2, <3>3, <3>4 DEF States, Open, Late, Synchronized
  <2>9. s.state = "ESTABLISHED" => Est(h, s, r, D, B)
    BY <2>7 DEF Rcv
  <2>10. /\ t.rx_buf = u /\ t.rx_cnt = s.rx_cnt - n
         /\ ~NarrowInt => t.rx_win = (IF s.state = "ESTABLISHED" THEN s.rx_win + n ELSE s.rx_win)
         /\ t.rx_nxt = s.rx_nxt /\ t.rx_nbq = s.rx_nbq
         /\ Sends(h, t, s, Reach(h, t))
    BY <1>3, <2>2, <2>9, TakenSends DEF Est
  <2>11. /\ Pos(p, s.rx_nxt) \in Nat /\ Reach(h, s) \in Nat /\ Reach(h, t) \in Nat /\ Reach(h, t) <= Top
         /\ s.state = "ESTABLISHED" => Reach(h, s) <= Reach(h, t)
    <3>1. s.rx_nxt \in Num
      BY <1>3 DEF Sock
    <3>2. Pos(p, s.rx_nxt) \in Nat
      BY <1>2, <3>1, PosNat
    <3>3. Reach(h, s) \in Nat /\ Reach(h, t) \in Nat /\ Reach(h, t) <= Top
      BY <1>3, <2>4, TopFacts
    <3>4. CASE NarrowInt
      <4>1. Reach(h, s) = Reach(h, t)
        BY <3>4 DEF Reach
      <4> QED BY <3>2, <3>3, <4>1
    <3>5. CASE ~NarrowInt
      <4>1. Reach(h, s) = Pos(p, s.rx_nxt) + s.rx_win /\ Reach(h, t) = Pos(p, s.rx_nxt) + t.rx_win
        BY <1>1, <2>10, <3>5 DEF Reach
      <4>2. s.state = "ESTABLISHED" => s.rx_win <= t.rx_win /\ t.rx_win \in Nat
        BY <2>5, <2>10, <3>5
      <4> QED BY <2>5, <3>2, <3>3, <4>1, <4>2
    <3> QED BY <3>4, <3>5
  <2>12. /\ Edge(h, s, c) <= Edge(h, t, "run") /\ Reach(h, t) <= Edge(h, t, "run")
         /\ Edge(h, t, "run") \in Nat
    <3>1. CASE s.state = "ESTABLISHED"
      BY <2>4, <2>11, <3>1 DEF Edge
    <3>2. CASE s.state = "CLOSE_WAIT"
      <4>1. Edge(h, s, c) = Top /\ Edge(h, t, "run") = Top /\ Top \in Nat
        BY <1>2, <2>4, <3>2, TopFacts DEF Edge, Open
      <4> QED BY <2>11, <4>1
    <3> QED BY <2>8, <3>1, <3>2
  <2>13. Bound(h, s, c) = Bound(h, t, "run") /\ Bound(h, s, c) \in Nat
    <3>1. Bound(h, s, c) = Bound(h, t, "run")
      BY <1>2, <2>4 DEF Bound, SameTx
    <3> QED BY <1>3, <3>1, EdgeFacts
  <2>14. \A m \in Outgoing(t) : m \in Outgoing(s) \/ Fine(h, m, d, Bound(h, t, "run"), Edge(h, t, "run"))
    <3>1. Sends(h, t, s, Edge(h, t, "run"))
      BY <2>10, <2>11, <2>12, SendsMore
    <3> QED BY <3>1, PlainFine DEF Sends
  <2>15. t.state = "ESTABLISHED" => Room(h, t, e)
    BY <1>4, <2>4 DEF Ready, Room, SameTx
  <2>16. Fair(h) => InOrd(r, b, D)
    BY <2>2, <2>7, <2>8, <2>9 DEF Rcv, Est
  <2>17. s.state = "ESTABLISHED" => Est(h, t, x, D, B)
    <3>1. SUFFICES ASSUME s.state = "ESTABLISHED" PROVE Est(h, t, x, D, B)
      OBVIOUS
    <3>2. ~NarrowInt => t.rx_cnt + t.rx_win = s.rx_cnt + s.rx_win
      BY <2>5, <2>10, <3>1
    <3>3. (~NarrowInt => t.rx_cnt + t.rx_win <= WinSize) /\ Stored(t.rx_nbq, D)
      BY <2>9, <2>10, <3>1, <3>2 DEF Est
    <3>4. \A j \in 1..Len(D) : Pos(p, D[j]) < Reach(h, t)
      <4>1. \A j \in 1..Len(D) : Pos(p, D[j]) \in Nat
        BY <1>2, ElementOfSeq, PosNat
      <4>2. \A j \in 1..Len(D) : Pos(p, D[j]) < Reach(h, s)
        BY <1>1, <2>9, <3>1 DEF Est
      <4> QED BY <2>11, <3>1, <4>1, <4>2
    <3>5. ASSUME Fair(h)
          PROVE  /\ InOrd(x, t.rx_buf, D) /\ Cut(p, t.rx_nxt, D, Len(x) + Len(t.rx_buf))
                 /\ Pos(p, t.rx_nxt) <= B
      <4>1. Cut(p, s.rx_nxt, D, Len(r) + Len(b)) /\ Pos(p, s.rx_nxt) <= B
        BY <1>1, <2>2, <2>9, <3>1, <3>5 DEF Est
      <4>2. Len(x) + Len(t.rx_buf) = Len(r) + Len(b)
        <5>1. Len(x) = Len(r) + n /\ Len(t.rx_buf) = Len(b) - n
          BY <2>6, <2>10
        <5>2. \A k, l \in Nat : (k + n) + (l - n) = k + l
          BY <2>5
        <5> QED BY <2>5, <5>1, <5>2
      <4> QED BY <2>6, <2>10, <2>16, <3>5, <4>1, <4>2
    <3> QED BY <1>1, <3>3, <3>4, <3>5 DEF Est
  <2>18. Rcv(h, t, x, D, B)
    <3>1. s.state = "CLOSE_WAIT" /\ Fair(h) => InOrd(x, t.rx_buf, D)
      BY <2>6, <2>10, <2>16
    <3> QED BY <2>4, <2>8, <2>17, <3>1 DEF Rcv, Open
  <2>19. Hears(h, t, x, "run", D, B)
    <3>1. Fair(h) => Begins(x, D)
      BY <1>4, <2>6, <2>16 DEF Hears
    <3> QED BY <2>4, <2>8, <2>18, <3>1 DEF Hears, Late
  <2>20. Stride(h, s, d, c, t, d, x, "run", D, B, e)
    BY <2>12, <2>13, <2>14, <2>15, <2>19 DEF Stride
  <2> QED BY <1>1, <1>2, <1>5, <2>3, <2>4, <2>6, <2>20, StreamKeeps
<1> QED BY <1>1, <1>6, <1>7, <1>8 DEF NutTcpReceive

LEMMA StreamInit == Init => StreamInv
<1>1. SUFFICES ASSUME Init PROVE StreamInv
  OBVIOUS
<1>2. /\ \A h \in Host : /\ sock[h] = NutTcpCreateSocket(h) /\ sent[h] = <<>> /\ net[h] = {} /\ pc[h] = "start"
                         /\ read[h] = <<>> /\ backlog[h] = NoSyn
      /\ read \in [Host -> Seq(Num)]
  BY <1>1, EmptySeq DEF Init
<1>3. Len(<<>>) = 0 /\ 1..0 = {} /\ NoSyn.syn = <<>>
  BY EmptySeq DEF NoSyn
<1>4. ASSUME NEW h \in Host, NEW s, s = sock[h], NEW e, NEW B
      PROVE  Speaks(h, {}, s, <<>>, "start", e) /\ Hears(h, s, <<>>, "start", <<>>, B)
  <2>1. s.state = "CLOSED" /\ s.out = {} /\ s.tx_nbq = <<>> /\ s.tx_flags = {}
    BY <1>2, <1>4, NewSocket
  <2>2. s.rx_cnt = 0 /\ s.rx_win = WinSize /\ s.rx_buf = <<>> /\ s.rx_nbq = <<>>
    <3>1. s = NutTcpCreateSocket(h)
      BY <1>2, <1>4
    <3> QED BY <3>1 DEF NutTcpCreateSocket, NoSocket
  <2>3. Outgoing(s) = {}
    BY <1>3, <2>1 DEF Outgoing
  <2>4. Rising(h, <<>>, Bound(h, s, "start"))
    BY <1>3 DEF Rising
  <2>5. Speaks(h, {}, s, <<>>, "start", e)
    BY <1>3, <2>1, <2>3, <2>4 DEF Speaks
  <2>6. Fresh(s, <<>>)
    BY <2>1, <2>2 DEF Fresh
  <2>7. Rcv(h, s, <<>>, <<>>, B)
    BY <2>1, <2>2 DEF Rcv, Open
  <2>8. Begins(<<>>, <<>>)
    BY <1>3 DEF Begins
  <2> QED BY <2>1, <2>5, <2>6, <2>7, <2>8 DEF Hears, Late
<1>5. ASSUME NEW h \in Host
      PROVE  LET p == Peer(h)
             IN  /\ Speaks(h, net[p], sock[h], sent[h], pc[h], Edge(p, sock[p], pc[p]))
                 /\ Hears(h, sock[h], read[h], pc[h], sent[p], Bound(p, sock[p], pc[p]))
                 /\ \A i \in 1..Len(backlog[h].syn) : backlog[h].syn[i] \in net[h]
  <2>1. PICK p, s, e, B : /\ p = Peer(h) /\ s = sock[h]
                          /\ e = Edge(p, sock[p], pc[p]) /\ B = Bound(p, sock[p], pc[p])
    OBVIOUS
  <2>2. p \in Host
    BY <2>1, PeerFacts
  <2>3. /\ net[p] = {} /\ sent[h] = <<>> /\ pc[h] = "start" /\ read[h] = <<>> /\ sent[p] = <<>>
        /\ backlog[h].syn = <<>>
    BY <1>2, <1>3, <2>2
  <2>4. Speaks(h, {}, s, <<>>, "start", e) /\ Hears(h, s, <<>>, "start", <<>>, B)
    BY <1>4, <2>1
  <2>5. \A i \in 1..Len(backlog[h].syn) : backlog[h].syn[i] \in net[h]
    BY <1>3, <2>3
  <2> QED BY <2>1, <2>3, <2>4, <2>5
<1> QED BY <1>2, <1>5 DEF StreamInv

LEMMA StreamStep == TcpInv /\ StreamInv /\ [Next]_vars => StreamInv'
<1>1. SUFFICES ASSUME TcpInv, StreamInv, [Next]_vars PROVE StreamInv'
  OBVIOUS
<1>2. CASE UNCHANGED vars
  BY <1>1, <1>2 DEF vars, StreamInv
<1>3. ASSUME NEW h \in Host, SegmentArrives(h) PROVE StreamInv'
  BY <1>1, <1>3, SegmentStream
<1>4. ASSUME NEW h \in Host, NEW expired \in BOOLEAN, Timers(h, expired) PROVE StreamInv'
  BY <1>1, <1>4, TimersStream
<1>5. ASSUME NEW h \in Host, NutTcpConnect(h) PROVE StreamInv'
  BY <1>1, <1>5, ConnectStream
<1>6. ASSUME NEW h \in Host, NutTcpAccept(h) PROVE StreamInv'
  BY <1>1, <1>6, AcceptStream
<1>7. ASSUME NEW h \in Host, OpenReturns(h) PROVE StreamInv'
  <2>1. /\ UNCHANGED <<sock, backlog, net, sent, read>> /\ pc[h] \notin {"start", "closed"}
        /\ pc' = [pc EXCEPT ![h] = "run"]
    BY <1>7 DEF OpenReturns, Awake, Returns
  <2> QED BY <1>1, <2>1, CallStream
<1>8. ASSUME NEW h \in Host, AcceptTimeout(h) \/ WaitTimeout(h) PROVE StreamInv'
  BY <1>1, <1>8, TimeoutsStream
<1>9. ASSUME NEW h \in Host, NutTcpSend(h) PROVE StreamInv'
  BY <1>1, <1>9, SendStream
<1>10. ASSUME NEW h \in Host, NutTcpReceive(h) PROVE StreamInv'
  BY <1>1, <1>10, ReceiveStream
<1>11. ASSUME NEW h \in Host, NutTcpCloseSocket(h) PROVE StreamInv'
  BY <1>1, <1>11, CloseStream
<1> QED BY <1>1, <1>2, <1>3, <1>4, <1>5, <1>6, <1>7, <1>8, <1>9, <1>10, <1>11 DEF Next, Application

(* StreamInv holds too: what each host says agrees with what the other has  *)
(* sent, and what each has received is what the other sent, in the order    *)
(* sent; where an int is wider than uint16_t, each also sends within what   *)
(* the other has offered.                                                   *)
THEOREM StreamInvariant == Spec => [](TcpInv /\ StreamInv)
<1>1. Init => TcpInv /\ StreamInv
  BY InitInv, StreamInit
<1>2. TcpInv /\ StreamInv /\ [Next]_vars => TcpInv' /\ StreamInv'
  BY TcpStep, StreamStep
<1> QED BY <1>1, <1>2, PTL DEF Spec

LEMMA InvWindow ==
    ASSUME NarrowInt = FALSE
    PROVE  TcpInv /\ StreamInv => WindowKept
<1>1. SUFFICES ASSUME StreamInv, NEW h \in Host, sock[h].state = "ESTABLISHED"
               PROVE  sock[h].rx_cnt + sock[h].rx_win <= WinSize
  BY DEF WindowKept
<1>2. PICK p : p = Peer(h)
  OBVIOUS
<1>3. Rcv(h, sock[h], read[h], sent[p], Bound(p, sock[p], pc[p]))
  BY <1>1, <1>2 DEF StreamInv, Hears
<1> QED BY <1>1, <1>3 DEF Rcv, Est

LEMMA InvPrefix ==
    ASSUME TcpInv, StreamInv, NEW h \in Host, Fair(h)
    PROVE  IsPrefix(read[h], sent[Peer(h)])
<1>1. PICK p, r, D, n : p = Peer(h) /\ r = read[h] /\ D = sent[p] /\ n = Len(r)
  OBVIOUS
<1>2. p \in Host /\ r \in Seq(Num) /\ D \in Seq(Num)
  BY <1>1, PeerFacts DEF TcpInv, StreamInv
<1>3. Len(r) <= Len(D) /\ \A i \in 1..Len(r) : r[i] = D[i]
  BY <1>1 DEF StreamInv, Hears, Begins
<1>4. n \in Nat /\ n <= Len(D) /\ Len(D) \in Nat
  BY <1>1, <1>2, <1>3, LenProperties
<1>5. 1 \in 1..(Len(r) + 1) /\ 1 \in 1..(Len(D) + 1) /\ n \in 0..Len(r) /\ n \in 0..Len(D)
  BY <1>1, <1>4
<1>6. PICK x, y : x = SubSeq(r, 1, n) /\ y = SubSeq(D, 1, n)
  OBVIOUS
<1>7. /\ x \in Seq(Num) /\ Len(x) = IF 1 <= n THEN n - 1 + 1 ELSE 0
      /\ \A i \in 1..(n - 1 + 1) : x[i] = r[1 + i - 1]
  BY <1>2, <1>5, <1>6, SubSeqFacts
<1>8. /\ y \in Seq(Num) /\ Len(y) = IF 1 <= n THEN n - 1 + 1 ELSE 0
      /\ \A i \in 1..(n - 1 + 1) : y[i] = D[1 + i - 1]
  BY <1>2, <1>5, <1>6, SubSeqFacts
<1>9. Len(x) = n /\ Len(y) = n /\ \A i \in 1..n : x[i] = r[i] /\ y[i] = D[i]
  <2>1. Len(x) = n /\ Len(y) = n
    BY <1>4, <1>7, <1>8
  <2>2. ASSUME NEW i \in 1..n PROVE x[i] = r[i] /\ y[i] = D[i]
    <3>1. i \in 1..(n - 1 + 1) /\ 1 + i - 1 = i
      BY <1>4
    <3> QED BY <1>7, <1>8, <3>1
  <2> QED BY <2>1, <2>2
<1>10. x = y
  BY <1>1, <1>3, <1>7, <1>8, <1>9, SeqEqual
<1> QED BY <1>1, <1>3, <1>6, <1>10 DEF IsPrefix

(* Where an int is wider than uint16_t, the receive buffer keeps its limit: *)
(* what waits for the reader and the window offered are never more than     *)
(* so_rx_bsz (NutTcpProcessAppData(), NutTcpReceive()), because the peer    *)
(* sends no more than was offered (NutTcpSend()), and what was offered may  *)
(* have been closed since.  With an int of 16 bits so_tx_win - unacked is   *)
(* unsigned, the peer sends past a window that has been closed below what   *)
(* is outstanding, and nothing at the receiver holds it back.               *)
THEOREM WindowIsKept ==
    ASSUME NarrowInt = FALSE
    PROVE  Spec => []WindowKept
<1>1. TcpInv /\ StreamInv => WindowKept
  BY InvWindow
<1> QED BY <1>1, StreamInvariant, PTL

(* What the client's application receives is what the server's sent, from   *)
(* the first segment on, in order, nothing missing and nothing twice        *)
(* (NutTcpStateEstablished(), the segments kept in advance, NutTcpReceive).  *)
THEOREM ClientInOrder == Spec => []IsPrefix(read[Client], sent[Server])
<1>1. TcpInv /\ StreamInv => IsPrefix(read[Client], sent[Server])
  <2>1. Client \in Host /\ Fair(Client) /\ Peer(Client) = Server
    BY DEF Host, Fair, Peer
  <2> QED BY <2>1, InvPrefix
<1> QED BY <1>1, StreamInvariant, PTL

(* The same of both applications, when the client sends no data: a server   *)
(* takes data that comes in SYN_RECEIVED whatever its sequence number       *)
(* (NutTcpStateSynReceived()), so that a client's stream may begin wrong.   *)
THEOREM StreamIsInOrder ==
    ASSUME Data[Client] = 0
    PROVE  Spec => []StreamInOrder
<1>1. TcpInv /\ StreamInv => StreamInOrder
  <2>1. \A h \in Host : Fair(h)
    BY DEF Fair
  <2> QED BY <2>1, InvPrefix DEF StreamInOrder
<1> QED BY <1>1, StreamInvariant, PTL
=============================================================================
