---------------------------- MODULE NutNetProofs ----------------------------
(***************************************************************************)
(* What is proved of the network's parts, for any number of threads,        *)
(* addresses, entries and buffers: the layers of a PPP link go up and down  *)
(* in order, the ARP cache keeps an entry as long as a query uses it, and   *)
(* the memory of network buffers is kept exactly as long as it is used.     *)
(***************************************************************************)
EXTENDS NutPpp, NutArp, NutNetBuf, NutListProofs, FiniteSetTheorems, TLAPS

-----------------------------------------------------------------------------
(* PPP.  A function of the source gets a device and returns one.  A lemma   *)
(* says what each keeps of it; a packet, a round or a request is one of     *)
(* them.                                                                    *)

Codes == {"CONFREQ", "CONFACK", "CONFNAK", "CONFREJ", "TERMREQ", "TERMACK", "CODEREJ"}

Message == [prot: {"lcp", "ipcp", "pap"}, code: Codes, id: Nat, opts: {"CONFACK", "CONFNAK", "CONFREJ"}]

Device ==
    [lcp: LayerStates, ipcp: LayerStates, auth: {"INITIAL", "AUTHREQ", "OPEN", "BADAUTH"},
     reqid: Nat, acked: BOOLEAN, retries: Nat, signaled: BOOLEAN, ifnet: BOOLEAN, up: BOOLEAN,
     app: {"idle", "wait", "asleep", "woken", "closed"}, out: Seq(Message)]

Low(d) == d.ipcp \in {"INITIAL", "STARTING"}
High(d) == d.lcp = "OPENED" /\ d.auth = "OPEN"
Ordered(d) == d \in Device /\ (Low(d) \/ High(d))

(* What is left of a device after something was sent or posted.             *)
Same(e, d) == e \in Device /\ e.lcp = d.lcp /\ e.ipcp = d.ipcp /\ e.auth = d.auth

-----------------------------------------------------------------------------
(* Sending and posting.                                                     *)

LEMMA SendSame ==
    ASSUME NEW d \in Device, NEW p \in {"lcp", "ipcp", "pap"}, NEW c \in Codes, NEW i \in Nat
    PROVE  Same(Send(d, p, c, i), d) /\ Send(d, p, c, i).reqid = d.reqid
<1>1. [prot |-> p, code |-> c, id |-> i, opts |-> "CONFACK"] \in Message
    BY DEF Message, Codes
<1>2. Append(d.out, [prot |-> p, code |-> c, id |-> i, opts |-> "CONFACK"]) \in Seq(Message)
    BY <1>1 DEF Device
<1> QED
    BY <1>2 DEF Same, Send, Device

LEMMA PostSame == ASSUME NEW d \in Device PROVE Same(Post(d), d)
BY DEF Same, Post, Device

LEMMA NextIdSame == ASSUME NEW d \in Device PROVE Same(NextId(d), d)
<1>1. (d.reqid + 1) % IdSpace \in Nat
    BY PppAssumption DEF Device
<1> QED
    BY <1>1 DEF Same, NextId, Device

LEMMA RequestSame ==
    ASSUME NEW d \in Device, NEW p \in {"lcp", "ipcp"}
    PROVE  Same(TxConfReq(d, p), d) /\ Same(NewRequest(d, p), d)
<1>1. ASSUME NEW e \in Device PROVE Same(TxConfReq(e, p), e)
    <2>1. [e EXCEPT !.acked = FALSE, !.retries = 0] \in Device /\ [e EXCEPT !.acked = FALSE] \in Device
        BY DEF Device
    <2>2. Same(LcpTxConfReq(e), e)
        <3> DEFINE f == [e EXCEPT !.acked = FALSE, !.retries = 0]
        <3>1. Same(f, e) /\ e.reqid \in Nat
            BY <2>1 DEF Same, Device
        <3>2. Same(Send(f, "lcp", "CONFREQ", e.reqid), f)
            BY <2>1, <3>1, SendSame DEF Codes
        <3> QED
            BY <3>1, <3>2 DEF Same, LcpTxConfReq
    <2>3. Same(IpcpTxConfReq(e), e)
        <3> DEFINE f == [e EXCEPT !.acked = FALSE]
        <3>1. Same(f, e) /\ e.reqid \in Nat
            BY <2>1 DEF Same, Device
        <3>2. Same(Send(f, "ipcp", "CONFREQ", e.reqid), f)
            BY <2>1, <3>1, SendSame DEF Codes
        <3> QED
            BY <3>1, <3>2 DEF Same, IpcpTxConfReq
    <2> QED
        BY <2>2, <2>3 DEF TxConfReq
<1>2. NextId(d) \in Device /\ Same(NextId(d), d)
    BY NextIdSame DEF Same
<1>3. Same(TxConfReq(NextId(d), p), NextId(d))
    BY <1>1, <1>2
<1> QED
    BY <1>1, <1>2, <1>3 DEF NewRequest, Same

(* The authentication starts; nobody is authenticated.                      *)
LEMMA AuthReqSent ==
    ASSUME NEW d \in Device
    PROVE  /\ PapTxAuthReq(d) \in Device /\ PapTxAuthReq(d).auth = "AUTHREQ"
           /\ PapTxAuthReq(d).lcp = d.lcp /\ PapTxAuthReq(d).ipcp = d.ipcp
<1> DEFINE e == NextId(d)
<1> DEFINE f == [e EXCEPT !.auth = "AUTHREQ"]
<1>1. Same(e, d)
    BY NextIdSame
<1> HIDE DEF e
<1>2. f \in Device /\ f.auth = "AUTHREQ" /\ f.lcp = e.lcp /\ f.ipcp = e.ipcp /\ e.reqid \in Nat
    BY <1>1 DEF Same, Device
<1> HIDE DEF f
<1>3. Same(Send(f, "pap", "CONFREQ", e.reqid), f)
    BY <1>2, SendSame DEF Codes
<1> QED
    BY <1>1, <1>2, <1>3 DEF PapTxAuthReq, Same, e, f

-----------------------------------------------------------------------------
(* The layers above and below.                                              *)

(* Whatever state IPCP was in, it is down.                                  *)
LEMMA IpcpIsDown ==
    ASSUME NEW d \in Device
    PROVE  /\ IpcpLowerDown(d) \in Device /\ Low(IpcpLowerDown(d))
           /\ IpcpLowerDown(d).lcp = d.lcp /\ IpcpLowerDown(d).auth = d.auth
<1> DEFINE e == [d EXCEPT !.ipcp = Down(@), !.ifnet = @ /\ d.ipcp # "CLOSED"]
<1>1. Down(d.ipcp) \in {"INITIAL", "STARTING"}
    BY DEF Down, Device, LayerStates, Connected
<1>2. (d.ifnet /\ d.ipcp # "CLOSED") \in BOOLEAN
    OBVIOUS
<1>3. e \in Device /\ Low(e) /\ e.lcp = d.lcp /\ e.auth = d.auth
    BY <1>1, <1>2 DEF Device, Low, LayerStates
<1> HIDE DEF e
<1>4. Same(Post(e), e)
    BY <1>3, PostSame
<1> QED
    BY <1>3, <1>4 DEF IpcpLowerDown, Low, Same, e

LEMMA LcpLowerDownOrdered == ASSUME NEW d, Ordered(d) PROVE Ordered(LcpLowerDown(d))
<1> DEFINE e == IF d.lcp = "OPENED" THEN IpcpLowerDown(d) ELSE d
<1>1. e \in Device /\ Low(e) /\ e.lcp = d.lcp
    BY IpcpIsDown DEF Ordered, High
<1>2. Down(d.lcp) \in LayerStates
    BY DEF Down, Ordered, Device, LayerStates, Connected
<1> HIDE DEF e
<1>3. [e EXCEPT !.lcp = Down(@)] \in Device /\ Low([e EXCEPT !.lcp = Down(@)])
    BY <1>1, <1>2 DEF Device, Low
<1> QED
    BY <1>3 DEF LcpLowerDown, Ordered, e

(* A layer that is down takes a new state.                                  *)
LEMMA LcpMoves ==
    ASSUME NEW d \in Device, Low(d), NEW s \in LayerStates
    PROVE  /\ [d EXCEPT !.lcp = s] \in Device /\ Low([d EXCEPT !.lcp = s])
           /\ [d EXCEPT !.lcp = s].lcp = s /\ [d EXCEPT !.lcp = s].auth = d.auth
           /\ Ordered([d EXCEPT !.lcp = s])
BY DEF Device, Low, Ordered

LEMMA IpcpMoves ==
    ASSUME NEW d \in Device, NEW s \in LayerStates
    PROVE  /\ [d EXCEPT !.ipcp = s] \in Device
           /\ [d EXCEPT !.ipcp = s].lcp = d.lcp /\ [d EXCEPT !.ipcp = s].auth = d.auth
           /\ [d EXCEPT !.ipcp = s].ipcp = s
BY DEF Device

LEMMA LcpUpOrdered ==
    ASSUME NEW d, Ordered(d)
    PROVE  Ordered(LcpLowerUp(d)) /\ Ordered(LcpOpen(d))
<1>1. d \in Device /\ Same(NewRequest(d, "lcp"), d)
    BY RequestSame DEF Ordered
<1>2. CASE d.lcp \in {"INITIAL", "STARTING", "CLOSED", "CLOSING"}
    <2>1. Low(d) /\ Low(NewRequest(d, "lcp")) /\ NewRequest(d, "lcp") \in Device
        BY <1>1, <1>2 DEF Ordered, High, Low, Same
    <2>2. \A s \in LayerStates : Ordered([d EXCEPT !.lcp = s]) /\ Ordered([NewRequest(d, "lcp") EXCEPT !.lcp = s])
        BY <1>1, <2>1, LcpMoves
    <2> QED
        BY <1>2, <2>2 DEF LcpLowerUp, LcpOpen, LayerStates, Connected
<1>3. CASE d.lcp \notin {"INITIAL", "STARTING", "CLOSED", "CLOSING"}
    BY <1>3 DEF LcpLowerUp, LcpOpen
<1> QED
    BY <1>2, <1>3

-----------------------------------------------------------------------------
(* Packets of LCP: while this layer moves, IPCP is down.                    *)

LowDevice(d) == d \in Device /\ Low(d)

(* In every state but OPENED the layer above is down.                       *)
LEMMA LowIsOrdered ==
    ASSUME NEW d
    PROVE  /\ LowDevice(d) => Ordered(d)
           /\ Ordered(d) /\ d.lcp # "OPENED" => LowDevice(d)
BY DEF LowDevice, Ordered, High

LEMMA LowMoves ==
    ASSUME NEW d, LowDevice(d), NEW s \in LayerStates, NEW a \in BOOLEAN
    PROVE  /\ LowDevice([d EXCEPT !.lcp = s]) /\ LowDevice([d EXCEPT !.acked = a])
           /\ LowDevice([d EXCEPT !.lcp = s, !.retries = 0])
BY DEF LowDevice, Low, Device

LEMMA LowSends ==
    ASSUME NEW d, LowDevice(d), NEW m \in Message, NEW c \in Codes
    PROVE  /\ LowDevice(Send(d, "lcp", c, m.id)) /\ Send(d, "lcp", c, m.id).lcp = d.lcp
           /\ LowDevice(NewRequest(d, "lcp")) /\ LowDevice(TxConfReq(d, "lcp"))
<1>1. d \in Device /\ m.id \in Nat
    BY DEF LowDevice, Message
<1>2. Same(Send(d, "lcp", c, m.id), d) /\ Same(NewRequest(d, "lcp"), d) /\ Same(TxConfReq(d, "lcp"), d)
    BY <1>1, SendSame, RequestSame
<1> QED
    BY <1>2 DEF LowDevice, Low, Same

LEMMA LowOpened == ASSUME NEW d, LowDevice(d) PROVE LowDevice(LcpOpened(d))
<1> DEFINE e == [d EXCEPT !.lcp = "OPENED"]
<1>1. LowDevice(e)
    BY LowMoves DEF LayerStates, Connected
<1> HIDE DEF e
<1>2. Same(NextId(e), e)
    BY <1>1, NextIdSame DEF LowDevice
<1>3. NextId(e) \in Device
    BY <1>2 DEF Same
<1>4. PapTxAuthReq(NextId(e)) \in Device /\ PapTxAuthReq(NextId(e)).ipcp = NextId(e).ipcp
    BY <1>3, AuthReqSent
<1> QED
    BY <1>1, <1>2, <1>4 DEF LcpOpened, LowDevice, Low, Same, e

LEMMA LowRestarts ==
    ASSUME NEW d \in Device, NEW p \in {"lcp", "ipcp"}
    PROVE  LowDevice(Restart(d, p)) /\ Restart(d, p).lcp = d.lcp /\ Restart(d, p).auth = d.auth
<1> DEFINE e == IpcpLowerDown(d)
<1>1. LowDevice(e) /\ e.lcp = d.lcp /\ e.auth = d.auth
    BY IpcpIsDown DEF LowDevice
<1> HIDE DEF e
<1>2. Same(NewRequest(e, p), e)
    BY <1>1, RequestSame DEF LowDevice
<1> QED
    BY <1>1, <1>2 DEF Restart, LowDevice, Low, Same, e

LEMMA LowAnswers ==
    ASSUME NEW d, LowDevice(d), NEW m \in Message
    PROVE  LowDevice(Answer(d, "lcp", m))
<1> DEFINE e == Send(d, "lcp", m.opts, m.id)
<1>1. LowDevice(e)
    BY LowSends DEF Message, Codes
<1> HIDE DEF e
<1>2. /\ LowDevice(LcpOpened(e)) /\ LowDevice([e EXCEPT !["lcp"] = "ACKSENT"])
      /\ LowDevice([e EXCEPT !["lcp"] = "REQSENT"])
    BY <1>1, LowOpened, LowMoves DEF LayerStates, Connected
<1> QED
    BY <1>1, <1>2 DEF Answer, e

LEMMA LcpRxConfReqOrdered ==
    ASSUME NEW d, Ordered(d), NEW m \in Message
    PROVE  Ordered(LcpRxConfReq(d, m))
<1>1. CASE d.lcp = "OPENED"
    <2>1. LowDevice(Restart(d, "lcp"))
        BY LowRestarts DEF Ordered
    <2>2. LowDevice(Answer(Restart(d, "lcp"), "lcp", m))
        BY <2>1, LowAnswers
    <2> QED
        BY <1>1, <2>2, LowIsOrdered DEF LcpRxConfReq, RxConfReq
<1>2. CASE d.lcp # "OPENED"
    <2>1. LowDevice(d)
        BY <1>2, LowIsOrdered
    <2>2. LowDevice(Send(d, "lcp", "TERMACK", m.id)) /\ LowDevice(NewRequest(d, "lcp"))
        BY <2>1, LowSends DEF Codes
    <2>3. LowDevice([NewRequest(d, "lcp") EXCEPT !["lcp"] = "REQSENT"])
        BY <2>2, LowMoves DEF LayerStates, Connected
    <2>4. LowDevice(Answer([NewRequest(d, "lcp") EXCEPT !["lcp"] = "REQSENT"], "lcp", m))
        BY <2>3, LowAnswers
    <2>5. LowDevice(Answer(d, "lcp", m))
        BY <2>1, LowAnswers
    <2> QED
        BY <1>2, <2>1, <2>2, <2>4, <2>5, LowIsOrdered DEF LcpRxConfReq, RxConfReq
<1> QED
    BY <1>1, <1>2

LEMMA UnexpectedOrdered ==
    ASSUME NEW d, Ordered(d), NEW m \in Message
    PROVE  Ordered(Unexpected(d, "lcp", m))
<1>1. CASE d.lcp = "OPENED"
    <2>1. LowDevice([Restart(d, "lcp") EXCEPT !["lcp"] = "REQSENT"])
        BY LowRestarts, LowMoves DEF Ordered, LayerStates, Connected
    <2> QED
        BY <1>1, <2>1, LowIsOrdered DEF Unexpected
<1>2. CASE d.lcp # "OPENED"
    <2>1. LowDevice(d)
        BY <1>2, LowIsOrdered
    <2>2. LowDevice(Send(d, "lcp", "TERMACK", m.id)) /\ LowDevice(NewRequest(d, "lcp"))
        BY <2>1, LowSends DEF Codes
    <2>3. LowDevice([NewRequest(d, "lcp") EXCEPT !["lcp"] = "REQSENT"])
        BY <2>2, LowMoves DEF LayerStates, Connected
    <2> QED
        BY <1>2, <2>1, <2>2, <2>3, LowIsOrdered DEF Unexpected
<1> QED
    BY <1>1, <1>2

LEMMA LcpAnswersOrdered ==
    ASSUME NEW d, Ordered(d), NEW m \in Message
    PROVE  Ordered(LcpRxConfAck(d, m)) /\ Ordered(LcpRxConfNakRej(d, m))
<1>1. ASSUME NEW a \in BOOLEAN
      PROVE  /\ Ordered([d EXCEPT !.acked = a]) /\ [d EXCEPT !.acked = a].lcp = d.lcp
             /\ [d EXCEPT !.acked = a].acked = a
    BY DEF Ordered, Device, Low, High
<1>2. Ordered(LcpRxConfAck(d, m))
    <2> DEFINE a == d.acked \/ (m.id = d.reqid /\ m.opts = "CONFACK")
    <2> DEFINE e == [d EXCEPT !.acked = a]
    <2>1. Ordered(e) /\ e.lcp = d.lcp
        <3>1. a \in BOOLEAN
            BY DEF Ordered, Device
        <3> QED
            BY <3>1, <1>1
    <2>2. e = [d EXCEPT !.acked = @ \/ (m.id = d.reqid /\ m.opts = "CONFACK")]
        OBVIOUS
    <2> HIDE DEF e
    <2>3. d.lcp # "OPENED" => Ordered([e EXCEPT !.lcp = "ACKRCVD", !.retries = 0]) /\ Ordered(LcpOpened(e))
        BY <2>1, LowIsOrdered, LowMoves, LowOpened DEF LayerStates, Connected
    <2>4. Ordered(Unexpected(e, "lcp", m))
        BY <2>1, UnexpectedOrdered
    <2> QED
        BY <2>2, <2>3, <2>4 DEF LcpRxConfAck
<1>3. Ordered(LcpRxConfNakRej(d, m))
    <2> DEFINE e == [d EXCEPT !.acked = TRUE]
    <2>1. Ordered(e) /\ e.lcp = d.lcp
        BY <1>1
    <2> HIDE DEF e
    <2>2. d.lcp # "OPENED" => Ordered(NewRequest(e, "lcp"))
        BY <2>1, LowIsOrdered, LowSends DEF Codes
    <2>3. Ordered(Unexpected(e, "lcp", m))
        BY <2>1, UnexpectedOrdered
    <2>4. Ordered(Refused(e, "lcp", m))
        BY <2>1, <2>2, <2>3 DEF Refused
    <2> QED
        BY <2>4 DEF LcpRxConfNakRej, e
<1> QED
    BY <1>2, <1>3

LEMMA LcpTermOrdered ==
    ASSUME NEW d, Ordered(d), NEW m \in Message
    PROVE  Ordered(LcpRxTermReq(d, m)) /\ Ordered(LcpRxTermAck(d)) /\ Ordered(RxCodeRej(d, "lcp"))
<1>1. CASE d.lcp = "OPENED"
    <2> DEFINE e == [IpcpLowerDown(d) EXCEPT !["lcp"] = "STOPPING"]
    <2>1. LowDevice(e)
        <3>1. LowDevice(IpcpLowerDown(d))
            BY IpcpIsDown DEF LowDevice, Ordered
        <3> QED
            BY <3>1, LowMoves DEF LayerStates
    <2> HIDE DEF e
    <2>2. LowDevice(Send(e, "lcp", "TERMACK", m.id))
        BY <2>1, LowSends DEF Codes
    <2>3. LowDevice(Restart(d, "lcp"))
        BY LowRestarts DEF Ordered
    <2>4. LcpRxTermReq(d, m) = Send(e, "lcp", "TERMACK", m.id)
        BY <1>1 DEF LcpRxTermReq, RxTermReq, e
    <2>5. LcpRxTermAck(d) = Restart(d, "lcp") /\ RxCodeRej(d, "lcp") = d
        BY <1>1 DEF LcpRxTermAck, RxTermAck, RxCodeRej
    <2> QED
        BY <2>2, <2>3, <2>4, <2>5, LowIsOrdered
<1>2. CASE d.lcp # "OPENED"
    <2>1. LowDevice(d)
        BY <1>2, LowIsOrdered
    <2>2. \A s \in LayerStates : LowDevice([d EXCEPT !["lcp"] = s])
        BY <2>1, LowMoves
    <2>3. LowDevice(RxCodeRej(d, "lcp")) /\ LowDevice(LcpRxTermAck(d))
        BY <1>2, <2>1, <2>2 DEF RxCodeRej, LcpRxTermAck, RxTermAck, LayerStates, Connected
    <2>4. LowDevice(Send(d, "lcp", "TERMACK", m.id))
        BY <2>1, LowSends DEF Codes
    <2>5. LowDevice(Send([d EXCEPT !["lcp"] = "REQSENT"], "lcp", "TERMACK", m.id))
        BY <2>2, LowSends DEF Codes, LayerStates, Connected
    <2>6. LowDevice(LcpRxTermReq(d, m))
        BY <1>2, <2>4, <2>5 DEF LcpRxTermReq, RxTermReq
    <2> QED
        BY <2>3, <2>6, LowIsOrdered
<1> QED
    BY <1>1, <1>2

LEMMA LcpInputOrdered ==
    ASSUME NEW d, Ordered(d), NEW m \in Message
    PROVE  Ordered(NutLcpInput(d, m))
<1>1. Ordered(LcpRxConfReq(d, m)) /\ Ordered(LcpRxConfAck(d, m)) /\ Ordered(LcpRxConfNakRej(d, m))
    BY LcpRxConfReqOrdered, LcpAnswersOrdered
<1>2. Ordered(LcpRxTermReq(d, m)) /\ Ordered(LcpRxTermAck(d)) /\ Ordered(RxCodeRej(d, "lcp"))
    BY LcpTermOrdered
<1>3. m.code \in Codes
    BY DEF Message
<1> QED
    BY <1>1, <1>2, <1>3 DEF NutLcpInput, Codes

LEMMA LcpCloseOrdered == ASSUME NEW d, Ordered(d) PROVE Ordered(LcpClose(d))
<1>1. CASE d.lcp \in Connected
    <2> DEFINE c == [d EXCEPT !.lcp = "CLOSING"]
    <2>1. c \in Device /\ d.reqid \in Nat
        BY DEF Ordered, Device, LayerStates
    <2>2. LowDevice(IpcpLowerDown(c))
        BY <2>1, IpcpIsDown DEF LowDevice
    <2>3. Same(Send(IpcpLowerDown(c), "lcp", "TERMREQ", d.reqid), IpcpLowerDown(c))
        BY <2>1, <2>2, SendSame DEF LowDevice, Codes
    <2>4. LowDevice(Send(IpcpLowerDown(c), "lcp", "TERMREQ", d.reqid))
        BY <2>2, <2>3 DEF LowDevice, Low, Same
    <2>5. LcpClose(d) = Send(IpcpLowerDown(c), "lcp", "TERMREQ", d.reqid)
        BY <1>1 DEF LcpClose
    <2> HIDE DEF c
    <2> QED
        BY <2>4, <2>5, LowIsOrdered
<1>2. CASE d.lcp \notin Connected
    <2>1. LowDevice(d)
        BY <1>2, LowIsOrdered DEF Connected
    <2>2. Withdrawn(d.lcp) \in LayerStates
        BY DEF Withdrawn, Ordered, Device, LayerStates
    <2>3. LowDevice([d EXCEPT !.lcp = Withdrawn(d.lcp)])
        BY <2>1, <2>2, LowMoves
    <2> QED
        BY <1>2, <2>3, LowIsOrdered DEF LcpClose
<1> QED
    BY <1>1, <1>2

-----------------------------------------------------------------------------
(* IPCP moves above the link, which it leaves as it is.                     *)

Above(e, d) == e \in Device /\ e.lcp = d.lcp /\ e.auth = d.auth

LEMMA AboveOrdered == ASSUME NEW d, NEW e, High(d), Above(e, d) PROVE Ordered(e)
BY DEF High, Above, Ordered

LEMMA AboveMoves ==
    ASSUME NEW d, NEW e, Above(e, d), NEW s \in LayerStates, NEW a \in BOOLEAN
    PROVE  /\ Above([e EXCEPT !.ipcp = s], d) /\ Above([e EXCEPT !["ipcp"] = s], d)
           /\ Above([e EXCEPT !.acked = a], d) /\ Above([e EXCEPT !.retries = 0], d)
           /\ Above([e EXCEPT !.ipcp = s, !.retries = 0], d)
BY DEF Above, Device

LEMMA AboveSends ==
    ASSUME NEW d, NEW e, Above(e, d), NEW c \in Codes, NEW i \in Nat
    PROVE  /\ Above(Send(e, "ipcp", c, i), d) /\ Above(NewRequest(e, "ipcp"), d)
           /\ Above(TxConfReq(e, "ipcp"), d) /\ Above(Restart(e, "ipcp"), d) /\ Above(Post(e), d)
<1>1. e \in Device
    BY DEF Above
<1>2. /\ Same(Send(e, "ipcp", c, i), e) /\ Same(NewRequest(e, "ipcp"), e)
      /\ Same(TxConfReq(e, "ipcp"), e) /\ Same(Post(e), e)
    BY <1>1, SendSame, RequestSame, PostSame
<1>3. Restart(e, "ipcp") \in Device /\ Restart(e, "ipcp").lcp = e.lcp /\ Restart(e, "ipcp").auth = e.auth
    BY <1>1, LowRestarts DEF LowDevice
<1> QED
    BY <1>2, <1>3 DEF Above, Same

LEMMA AboveOpened == ASSUME NEW d, NEW e, Above(e, d) PROVE Above(IpcpOpened(e), d)
<1>1. Above([e EXCEPT !.ipcp = "OPENED"], d)
    BY AboveMoves DEF LayerStates, Connected
<1> QED
    BY <1>1, AboveSends DEF IpcpOpened, Codes

LEMMA AboveAnswers ==
    ASSUME NEW d, NEW e, Above(e, d), NEW m \in Message
    PROVE  Above(Answer(e, "ipcp", m), d)
<1> DEFINE f == Send(e, "ipcp", m.opts, m.id)
<1>1. Above(f, d)
    BY AboveSends DEF Message, Codes
<1> HIDE DEF f
<1>2. /\ Above(IpcpOpened(f), d) /\ Above([f EXCEPT !["ipcp"] = "ACKSENT"], d)
      /\ Above([f EXCEPT !["ipcp"] = "REQSENT"], d)
    BY <1>1, AboveOpened, AboveMoves DEF LayerStates, Connected
<1> QED
    BY <1>1, <1>2 DEF Answer, f

LEMMA AboveUnexpected ==
    ASSUME NEW d, NEW e, Above(e, d), NEW m \in Message
    PROVE  Above(Unexpected(e, "ipcp", m), d)
<1>1. m.id \in Nat /\ "TERMACK" \in Codes /\ "REQSENT" \in LayerStates
    BY DEF Message, Codes, LayerStates, Connected
<1>2. /\ Above(Send(e, "ipcp", "TERMACK", m.id), d)
      /\ Above(NewRequest(e, "ipcp"), d) /\ Above(Restart(e, "ipcp"), d)
    BY <1>1, AboveSends
<1>3. /\ Above([NewRequest(e, "ipcp") EXCEPT !["ipcp"] = "REQSENT"], d)
      /\ Above([Restart(e, "ipcp") EXCEPT !["ipcp"] = "REQSENT"], d)
    BY <1>1, <1>2, AboveMoves
<1> QED
    BY <1>2, <1>3 DEF Unexpected

LEMMA IpcpInputAbove ==
    ASSUME NEW d \in Device, NEW m \in Message
    PROVE  Above(NutIpcpInput(d, m), d)
<1> USE DEF Codes
<1>0. Above(d, d) /\ m.id \in Nat /\ m.code \in Codes
    BY DEF Above, Message
<1>1. "REQSENT" \in LayerStates /\ \A s \in LayerStates : Above([d EXCEPT !["ipcp"] = s], d)
    BY <1>0, AboveMoves DEF LayerStates, Connected
<1>2. Above(NewRequest(d, "ipcp"), d) /\ Above(Restart(d, "ipcp"), d)
    BY <1>0, AboveSends
<1>3. \A e : Above(e, d) => Above(Send(e, "ipcp", "TERMACK", m.id), d)
    BY <1>0, AboveSends
<1>4. Above(IpcpRxConfReq(d, m), d)
    <2>1. Above([NewRequest(d, "ipcp") EXCEPT !["ipcp"] = "REQSENT"], d)
        BY <1>1, <1>2, AboveMoves
    <2>2. /\ Above(Answer([NewRequest(d, "ipcp") EXCEPT !["ipcp"] = "REQSENT"], "ipcp", m), d)
          /\ Above(Answer(Restart(d, "ipcp"), "ipcp", m), d) /\ Above(Answer(d, "ipcp", m), d)
        BY <1>0, <1>2, <2>1, AboveAnswers
    <2> QED
        BY <1>0, <1>3, <2>2 DEF IpcpRxConfReq, RxConfReq
<1>5. Above(IpcpRxConfAck(d, m), d)
    <2> DEFINE e == CASE d.ipcp = "REQSENT" -> [d EXCEPT !.ipcp = "ACKRCVD", !.retries = 0]
                      [] d.ipcp = "ACKSENT" -> IpcpOpened([d EXCEPT !.retries = 0])
                      [] OTHER              -> Unexpected(d, "ipcp", m)
    <2>1. Above([d EXCEPT !.ipcp = "ACKRCVD", !.retries = 0], d) /\ Above([d EXCEPT !.retries = 0], d)
        BY <1>0, <1>1, AboveMoves DEF LayerStates, Connected
    <2>2. Above(IpcpOpened([d EXCEPT !.retries = 0]), d) /\ Above(Unexpected(d, "ipcp", m), d)
        BY <1>0, <2>1, AboveOpened, AboveUnexpected
    <2>3. Above(e, d)
        BY <2>1, <2>2
    <2> HIDE DEF e
    <2>4. Above([e EXCEPT !.acked = TRUE], d)
        BY <1>1, <2>3, AboveMoves
    <2> QED
        BY <1>0, <2>2, <2>4 DEF IpcpRxConfAck, e
<1>6. Above(IpcpRxConfNakRej(d, m), d)
    <2> DEFINE e == [d EXCEPT !.acked = d.ipcp \in Connected]
    <2>1. Above(e, d)
        <3>1. (d.ipcp \in Connected) \in BOOLEAN
            OBVIOUS
        <3> QED
            BY <1>0, <1>1, <3>1, AboveMoves
    <2> HIDE DEF e
    <2>2. Above(NewRequest(e, "ipcp"), d) /\ Above(Unexpected(e, "ipcp", m), d)
        BY <1>0, <2>1, AboveSends, AboveUnexpected
    <2> QED
        BY <1>0, <2>2 DEF IpcpRxConfNakRej, Refused, e
<1>7. Above(IpcpRxTermReq(d, m), d)
    <2>1. Above([IpcpLowerDown(d) EXCEPT !["ipcp"] = "STOPPING"], d)
        <3>1. Above(IpcpLowerDown(d), d)
            BY IpcpIsDown DEF Above
        <3> QED
            BY <1>1, <3>1, AboveMoves DEF LayerStates
    <2> QED
        BY <1>0, <1>1, <1>3, <2>1 DEF IpcpRxTermReq, RxTermReq
<1>8. Above(IpcpRxTermAck(d), d) /\ Above(RxCodeRej(d, "ipcp"), d)
    BY <1>0, <1>1, <1>2 DEF IpcpRxTermAck, RxTermAck, RxCodeRej, LayerStates
<1> QED
    BY <1>0, <1>4, <1>5, <1>6, <1>7, <1>8 DEF NutIpcpInput

-----------------------------------------------------------------------------
(* Packets.                                                                 *)

LEMMA PapInputOrdered ==
    ASSUME NEW d, Ordered(d), d.lcp = "OPENED", NEW m \in Message
    PROVE  Ordered(NutPapInput(d, m))
<1>1. CASE m.code = "CONFREQ"
    <2>1. Same(Send(d, "pap", "CONFACK", m.id), d)
        BY SendSame DEF Ordered, Message, Codes
    <2> QED
        BY <1>1, <2>1 DEF NutPapInput, Ordered, Same, Low, High
<1>2. CASE m.code = "CONFACK" /\ d.auth = "AUTHREQ"
    <2> DEFINE e == [d EXCEPT !.auth = "OPEN"]
    <2>1. Above(e, e) /\ High(e)
        BY DEF Above, High, Ordered, Device
    <2> HIDE DEF e
    <2>2. "CONFACK" \in Codes /\ 0 \in Nat
        BY DEF Codes
    <2>3. Above(NewRequest(e, "ipcp"), e)
        BY <2>1, <2>2, AboveSends
    <2>4. /\ Above([e EXCEPT !.ipcp = "CLOSED"], e)
          /\ Above([NewRequest(e, "ipcp") EXCEPT !.ipcp = "REQSENT"], e)
        BY <2>1, <2>3, AboveMoves DEF LayerStates, Connected
    <2>5. Above(IpcpLowerUp(e), e)
        BY <2>1, <2>4 DEF IpcpLowerUp
    <2> QED
        BY <1>2, <2>1, <2>5, AboveOrdered DEF NutPapInput, e
<1>3. CASE m.code = "CONFNAK" /\ d.auth = "AUTHREQ"
    <2>1. [d EXCEPT !.auth = "BADAUTH"] \in Device
        BY DEF Ordered, Device
    <2>2. LowDevice(IpcpLowerDown([d EXCEPT !.auth = "BADAUTH"]))
        BY <2>1, IpcpIsDown DEF LowDevice
    <2> QED
        BY <1>3, <2>2, LowIsOrdered DEF NutPapInput
<1> QED
    BY <1>1, <1>2, <1>3 DEF NutPapInput

LEMMA InputOrdered ==
    ASSUME NEW d, Ordered(d), NEW m \in Message
    PROVE  Ordered(NutPppInput(d, m))
<1>1. Ordered(NutLcpInput(d, m))
    BY LcpInputOrdered
<1>2. d.lcp = "OPENED" => Ordered(NutPapInput(d, m))
    BY PapInputOrdered
<1>3. High(d) => Ordered(NutIpcpInput(d, m))
    BY IpcpInputAbove, AboveOrdered DEF Ordered
<1> QED
    BY <1>1, <1>2, <1>3 DEF NutPppInput, High

-----------------------------------------------------------------------------
(* A round of NutPppSm().                                                   *)

LEMMA TriedSame == ASSUME NEW d \in Device, NEW r \in Nat PROVE Same(Tried(d, r), d)
BY DEF Tried, Same, Device

LEMMA LcpRetryOrdered ==
    ASSUME NEW d, Ordered(d), NEW r \in Nat
    PROVE  Ordered(Retry(d, "lcp", r))
<1>1. CASE d.lcp = "OPENED"
    BY <1>1 DEF Retry
<1>2. CASE d.lcp # "OPENED"
    <2>1. LowDevice(d) /\ d.reqid \in Nat
        BY <1>2, LowIsOrdered DEF LowDevice, Device
    <2>2. LowDevice(Send(d, "lcp", "TERMREQ", d.reqid)) /\ LowDevice(TxConfReq(d, "lcp"))
        BY <2>1, SendSame, RequestSame DEF LowDevice, Low, Same, Codes
    <2>3. \A e : LowDevice(e) => LowDevice(Tried(e, r))
        BY TriedSame DEF LowDevice, Low, Same
    <2>4. LowDevice([d EXCEPT !["lcp"] = "CLOSED"]) /\ LowDevice([d EXCEPT !["lcp"] = "STOPPED"])
        BY <2>1, LowMoves DEF LayerStates
    <2>5. /\ LowDevice(Tried(IF r > 0 THEN Send(d, "lcp", "TERMREQ", d.reqid) ELSE d, r))
          /\ LowDevice(Tried(IF r > 0 THEN TxConfReq(d, "lcp") ELSE d, r))
        BY <2>1, <2>2, <2>3
    <2>6. LowDevice(Retry(d, "lcp", r))
        BY <2>1, <2>4, <2>5 DEF Retry
    <2> QED
        BY <2>6, LowIsOrdered
<1> QED
    BY <1>1, <1>2

LEMMA AuthRetryOrdered ==
    ASSUME NEW d, Ordered(d), NEW r \in Nat
    PROVE  Ordered(AuthRetry(d, r))
<1>1. CASE d.auth # "AUTHREQ"
    BY <1>1 DEF AuthRetry
<1>2. CASE d.auth = "AUTHREQ"
    <2>1. LowDevice(d)
        BY <1>2 DEF LowDevice, Ordered, High
    <2>2. LowDevice(PapTxAuthReq(d))
        BY <2>1, AuthReqSent DEF LowDevice, Low
    <2>3. \A e : LowDevice(e) => LowDevice(Tried(e, r))
        BY TriedSame DEF LowDevice, Low, Same
    <2>4. LowDevice([d EXCEPT !.lcp = "STOPPED"])
        BY <2>1, LowMoves DEF LayerStates
    <2>5. LowDevice(Tried(IF r > 0 THEN PapTxAuthReq(d) ELSE d, r))
        BY <2>1, <2>2, <2>3
    <2>6. LowDevice(AuthRetry(d, r))
        BY <2>1, <2>4, <2>5 DEF AuthRetry
    <2> QED
        BY <2>6, LowIsOrdered
<1> QED
    BY <1>1, <1>2

(* A layer that is down has nothing to retry.                               *)
LEMMA IpcpRetryOrdered ==
    ASSUME NEW d, Ordered(d), NEW r \in Nat
    PROVE  Ordered(Retry(d, "ipcp", r))
<1>1. CASE Low(d)
    BY <1>1 DEF Low, Retry
<1>2. CASE High(d)
    <2>1. Above(d, d) /\ d.reqid \in Nat
        BY DEF Above, Ordered, Device
    <2>2. Above(Send(d, "ipcp", "TERMREQ", d.reqid), d) /\ Above(TxConfReq(d, "ipcp"), d)
        BY <2>1, AboveSends DEF Codes
    <2>3. \A e : Above(e, d) => Above(Tried(e, r), d)
        BY TriedSame DEF Above, Same
    <2>4. Above([d EXCEPT !["ipcp"] = "CLOSED"], d) /\ Above([d EXCEPT !["ipcp"] = "STOPPED"], d)
        BY <2>1, AboveMoves DEF LayerStates
    <2>5. /\ Above(Tried(IF r > 0 THEN Send(d, "ipcp", "TERMREQ", d.reqid) ELSE d, r), d)
          /\ Above(Tried(IF r > 0 THEN TxConfReq(d, "ipcp") ELSE d, r), d)
        BY <2>1, <2>2, <2>3
    <2>6. Above(Retry(d, "ipcp", r), d)
        BY <2>1, <2>4, <2>5 DEF Retry
    <2> QED
        BY <1>2, <2>6, AboveOrdered
<1> QED
    BY <1>1, <1>2 DEF Ordered

LEMMA RoundOrdered == ASSUME NEW d, Ordered(d) PROVE Ordered(NutPppSm(d))
<1>1. d.retries \in Nat
    BY DEF Ordered, Device
<1>2. Ordered(Retry(d, "lcp", d.retries))
    BY <1>1, LcpRetryOrdered
<1>3. Ordered(AuthRetry(Retry(d, "lcp", d.retries), d.retries))
    BY <1>1, <1>2, AuthRetryOrdered
<1>4. Ordered(Retry(AuthRetry(Retry(d, "lcp", d.retries), d.retries), "ipcp", d.retries))
    BY <1>1, <1>3, IpcpRetryOrdered
<1> QED
    BY <1>4 DEF NutPppSm

-----------------------------------------------------------------------------
(* The driver, the application and the device's opening and closing.        *)

LEMMA FieldsOrdered ==
    ASSUME NEW d, Ordered(d), NEW s \in BOOLEAN, NEW i \in BOOLEAN, NEW u \in BOOLEAN,
           NEW a \in {"idle", "wait", "asleep", "woken", "closed"}
    PROVE  /\ Ordered([d EXCEPT !.up = u]) /\ Ordered([d EXCEPT !.app = a])
           /\ Ordered([d EXCEPT !.ifnet = i]) /\ Ordered([d EXCEPT !.out = <<>>])
           /\ Ordered([d EXCEPT !.signaled = s, !.app = a])
           /\ Ordered([d EXCEPT !.signaled = s, !.ifnet = i, !.app = a])
<1>1. <<>> \in Seq(Message)
    OBVIOUS
<1> QED
    BY <1>1, ZenonT(60) DEF Ordered, Device, Low, High

LEMMA DriverOrdered == ASSUME NEW d, Ordered(d) PROVE Ordered(AhdlcRx(d))
<1>1. Ordered([d EXCEPT !.up = TRUE]) /\ Ordered([d EXCEPT !.up = FALSE])
    BY FieldsOrdered
<1> QED
    BY <1>1, LcpUpOrdered, LcpLowerDownOrdered DEF AhdlcRx

LEMMA ConfigureOrdered ==
    ASSUME NEW d, Ordered(d)
    PROVE  Ordered(NutNetIfConfig(d)) /\ Ordered(ConfigWait(d))
BY FieldsOrdered DEF NutNetIfConfig, ConfigWait

LEMMA OpenOrdered ==
    ASSUME NEW u \in BOOLEAN, NEW i \in BOOLEAN
    PROVE  Ordered(IpcpOpen([NewDevice EXCEPT !.ifnet = i, !.up = u]))
<1> DEFINE n == [NewDevice EXCEPT !.ifnet = i, !.up = u]
<1> DEFINE e == [n EXCEPT !.ipcp = "STARTING"]
<1>1. <<>> \in Seq(Message)
    OBVIOUS
<1>2. e \in Device /\ Low(e) /\ n.ipcp = "INITIAL"
    BY <1>1 DEF NewDevice, Device, LayerStates, Low
<1>3. IpcpOpen(n) = LcpOpen(e)
    BY <1>2 DEF IpcpOpen
<1> HIDE DEF e
<1>4. Ordered(LcpOpen(e))
    BY <1>2, LcpUpOrdered DEF Ordered
<1> QED
    BY <1>3, <1>4

LEMMA CloseOrdered == ASSUME NEW d, Ordered(d) PROVE Ordered(NutPppClose(d))
<1>1. Ordered(IpcpClose(d))
    <2>1. CASE d.ipcp \in Connected
        <3>1. High(d)
            BY <2>1 DEF Ordered, Low, Connected
        <3>2. Above(d, d) /\ d.reqid \in Nat
            BY DEF Above, Ordered, Device
        <3> DEFINE e == [Send(d, "ipcp", "TERMREQ", d.reqid) EXCEPT !.ipcp = "CLOSING"]
        <3>3. Above(e, d)
            BY <3>2, AboveSends, AboveMoves DEF Codes, LayerStates
        <3> HIDE DEF e
        <3>4. Above(Post(e), d)
            BY <3>3, PostSame DEF Above, Same
        <3> QED
            BY <2>1, <3>1, <3>4, AboveOrdered DEF IpcpClose, e
    <2>2. CASE d.ipcp \notin Connected
        <3>1. Withdrawn(d.ipcp) \in LayerStates /\ (Low(d) => Withdrawn(d.ipcp) \in {"INITIAL", "STARTING"})
            BY DEF Withdrawn, Ordered, Device, LayerStates, Low
        <3>2. Ordered([d EXCEPT !.ipcp = Withdrawn(d.ipcp)])
            BY <3>1 DEF Ordered, Device, Low, High
        <3> QED
            BY <2>2, <3>2 DEF IpcpClose
    <2> QED
        BY <2>1, <2>2
<1> QED
    BY <1>1, FieldsOrdered DEF NutPppClose

-----------------------------------------------------------------------------
(* The device of the specification.                                         *)

LEMMA PacketIsMessage == ASSUME NEW d \in Device, NEW m \in Packet(d) PROVE m \in Message
<1>1. d.reqid \in Nat /\ (d.reqid + 1) % IdSpace \in Nat
    BY PppAssumption DEF Device
<1> QED
    BY <1>1 DEF Packet, Message, Codes

LEMMA BecomesOrdered == ASSUME NEW d, Ordered(d), Becomes(d) PROVE Ordered(dcb)'
BY FieldsOrdered DEF Becomes

(* IPCP is down, or the link is open and authenticated: no packet, no round *)
(* of NutPppSm(), no change of the driver and no request changes that.      *)
THEOREM PppOrdered == PppSpec => []Ordered(dcb)
<1>1. PppInit => Ordered(dcb)
    <2>1. [NewDevice EXCEPT !.ifnet = NewDevice.ifnet, !.up = NewDevice.up] =
            [NewDevice EXCEPT !.ifnet = FALSE, !.up = FALSE]
        BY DEF NewDevice
    <2> QED
        BY <2>1, OpenOrdered DEF PppInit, NutPppOpen
<1>2. Ordered(dcb) /\ [PppNext]_pppVars => Ordered(dcb)'
    <2> SUFFICES ASSUME Ordered(dcb), [PppNext]_pppVars PROVE Ordered(dcb)'
        OBVIOUS
    <2>0. dcb \in Device /\ dcb.up \in BOOLEAN /\ dcb.ifnet \in BOOLEAN
        BY DEF Ordered, Device
    <2>1. CASE Receive
        <3>1. PICK m \in Packet(dcb) : Becomes(NutPppInput(dcb, m))
            BY <2>1 DEF Receive
        <3> QED
            BY <2>0, <3>1, PacketIsMessage, InputOrdered, BecomesOrdered
    <2>2. CASE Round
        BY <2>2, RoundOrdered, BecomesOrdered DEF Round
    <2>3. CASE DriverThread
        BY <2>3, DriverOrdered, BecomesOrdered DEF DriverThread
    <2>4. CASE Configure
        <3>1. Ordered([dcb EXCEPT !.app = "idle"])
            BY FieldsOrdered
        <3> QED
            BY <2>4, <3>1, ConfigureOrdered, BecomesOrdered DEF Configure
    <2>5. CASE ConfigTimeout
        <3>1. Ordered([dcb EXCEPT !.app = "idle"])
            BY FieldsOrdered
        <3> QED
            BY <2>5, <3>1, BecomesOrdered DEF ConfigTimeout
    <2>6. CASE Control
        <3>1. Ordered([dcb EXCEPT !.ifnet = FALSE])
            BY FieldsOrdered
        <3>2. Ordered(LcpOpen(dcb)) /\ Ordered(LcpClose(dcb))
            BY LcpUpOrdered, LcpCloseOrdered
        <3> QED
            BY <2>6, <3>1, <3>2, BecomesOrdered DEF Control
    <2>7. CASE OpenClose
        <3>1. Ordered(NutPppOpen(dcb))
            BY <2>0, OpenOrdered DEF NutPppOpen
        <3> QED
            BY <2>7, <3>1, CloseOrdered, BecomesOrdered DEF OpenClose
    <2>8. CASE PeerGone
        BY <2>8 DEF PeerGone
    <2>9. CASE UNCHANGED pppVars
        BY <2>9 DEF pppVars
    <2> QED
        BY <2>1, <2>2, <2>3, <2>4, <2>5, <2>6, <2>7, <2>8, <2>9 DEF PppNext
<1> QED
    BY <1>1, <1>2, PTL DEF PppSpec

(* IPCP is down unless the link below it is open and authenticated: what    *)
(* takes LCP or the authentication down calls IpcpLowerDown() first.        *)
THEOREM LayersStayInOrder == PppSpec => []LayersInOrder
<1>1. Ordered(dcb) => LayersInOrder
    BY DEF Ordered, Low, High, LayersInOrder
<1> QED
    BY <1>1, PppOrdered, PTL

-----------------------------------------------------------------------------
(* ARP.  The query that has made an entry is over before the entry can be   *)
(* outdated: the invariant says how old the entry of such a query may be.   *)
(* A step removes entries, starts a query and goes round its loop; each of  *)
(* these has a lemma, so the invariant is an operator of the five variables. *)

USE ArpAssumption

Entries == [kind: {"entry"}, ip: Ip, complete: BOOLEAN, outdated: Nat]

Queries == [kind: {"query"}, ip: Ip, entry: Entry, nb: BOOLEAN, retries: Nat, at: {"output", "wait"}]

Starting == [kind: {"query"}, ip: Ip, entry: Entry, nb: BOOLEAN, retries: Nat, at: {"start"}]

ArpTypeOK(tab, qry, wt, min, slw) ==
    /\ tab \in [Entry -> Entries \cup {Nothing}]
    /\ qry \in [Sender -> Queries \cup {Nothing}]
    /\ wt \in [Sender -> Entry \cup {NoEntry}]
    /\ min \in BOOLEAN
    /\ slw \subseteq Sender

OneEntry(tab) ==
    \A e, f \in Entry : tab[e] # Nothing /\ tab[f] # Nothing /\ tab[e].ip = tab[f].ip => e = f

(* A thread sleeps in its query, on an entry for its address.               *)
Sleeping(tab, qry, wt) ==
    \A t \in Sender : wt[t] # NoEntry =>
        /\ qry[t] # Nothing /\ qry[t].at = "wait"
        /\ wt[t] \in Entry /\ tab[wt[t]] # Nothing /\ tab[wt[t]].ip = qry[t].ip

(* The query that has made an entry.                                        *)
Makes(qry, t) == qry[t] # Nothing /\ qry[t].nb

(* Its entry is in the table, and passes one aging at most.                 *)
MakersKept(tab, qry, min, slw) ==
    \A t \in Sender : Makes(qry, t) =>
        /\ tab[qry[t].entry] # Nothing /\ tab[qry[t].entry].ip = qry[t].ip
        /\ tab[qry[t].entry].outdated = 0 \/ (t \in slw /\ ~min)

MakersDiffer(qry) ==
    \A t, u \in Sender :
        Makes(qry, t) /\ Makes(qry, u) /\ qry[t].entry = qry[u].entry => t = u

IncompleteMade(tab, qry) ==
    \A e \in Entry : tab[e] # Nothing /\ ~tab[e].complete =>
        \E t \in Sender : Makes(qry, t) /\ qry[t].entry = e

OutputMade(qry) == \A t \in Sender : qry[t] # Nothing /\ qry[t].at = "output" => qry[t].nb

AllSlow(qry, min, slw) == min => \A t \in Sender : qry[t] # Nothing => t \in slw

Sound(tab, qry, wt, min, slw) ==
    /\ ArpTypeOK(tab, qry, wt, min, slw) /\ OneEntry(tab) /\ Sleeping(tab, qry, wt)
    /\ MakersKept(tab, qry, min, slw) /\ MakersDiffer(qry) /\ IncompleteMade(tab, qry)
    /\ OutputMade(qry) /\ AllSlow(qry, min, slw)

ArpInv == Sound(table, query, wait, minute, slow)

(* Threads that slept on the entries rem are awake.                         *)
Told(wt, rem) == [t \in Sender |-> IF wt[t] \in rem THEN NoEntry ELSE wt[t]]

LEMMA EntryFacts ==
  /\ \A e \in Entries : e # Nothing /\ e.ip \in Ip /\ e.complete \in BOOLEAN /\ e.outdated \in Nat
  /\ \A q \in Queries : /\ q # Nothing /\ q.ip \in Ip /\ q.entry \in Entry /\ q.nb \in BOOLEAN
                        /\ q.retries \in Nat /\ q.at \in {"output", "wait"}
  BY DEF Entries, Queries, Nothing

-----------------------------------------------------------------------------

LEMMA InitSound == ArpInit => ArpInv
  BY DEF ArpInit, ArpInv, Sound, ArpTypeOK, OneEntry, Sleeping, MakersKept, MakersDiffer, Makes,
         IncompleteMade, OutputMade, AllSlow

(* Aging removes no entry of a query that has made it.                      *)
LEMMA AgedSound ==
  ASSUME ArpInv
  PROVE  Sound(Aged, query, Told(wait, Outdated), FALSE, slow)
<1> USE DEF ArpInv, Sound
<1>1. \A e \in Entry :
        \/ Aged[e] = Nothing /\ (table[e] = Nothing \/ e \in Outdated)
        \/ /\ Aged[e] # Nothing /\ table[e] # Nothing /\ e \notin Outdated /\ Aged[e] \in Entries
           /\ Aged[e].ip = table[e].ip /\ Aged[e].complete = table[e].complete
           /\ ~minute => Aged[e].outdated = table[e].outdated
  <2> TAKE e \in Entry
  <2>1. table[e] \in Entries \cup {Nothing}
    BY DEF ArpTypeOK
  <2>2. CASE table[e] = Nothing
    BY <2>2 DEF Aged, InTable, Outdated
  <2>3. CASE e \in Outdated
    BY <2>3 DEF Aged
  <2>4. CASE table[e] # Nothing /\ e \notin Outdated /\ minute
    <3>1. Aged[e] = [table[e] EXCEPT !.outdated = @ + 1]
      BY <2>4 DEF Aged, InTable
    <3>2. Aged[e] \in Entries
      BY <2>1, <2>4, <3>1 DEF Entries
    <3> QED BY <2>1, <2>4, <3>1, <3>2, EntryFacts DEF Entries
  <2>5. CASE table[e] # Nothing /\ e \notin Outdated /\ ~minute
    BY <2>1, <2>5, EntryFacts DEF Aged
  <2> QED BY <2>2, <2>3, <2>4, <2>5
<1>2. ArpTypeOK(Aged, query, Told(wait, Outdated), FALSE, slow)
  <2>1. Aged \in [Entry -> Entries \cup {Nothing}]
    BY <1>1 DEF Aged
  <2> QED BY <2>1 DEF ArpTypeOK, Told
<1>3. OneEntry(Aged)
  BY <1>1 DEF OneEntry
<1>4. Sleeping(Aged, query, Told(wait, Outdated))
  BY <1>1 DEF Sleeping, Told
<1>5. ASSUME NEW t \in Sender, Makes(query, t)
      PROVE  /\ Aged[query[t].entry] # Nothing /\ Aged[query[t].entry].ip = query[t].ip
             /\ Aged[query[t].entry].outdated = 0 \/ t \in slow
  <2> DEFINE e == query[t].entry
  <2>1. e \in Entry /\ table[e] # Nothing /\ table[e].ip = query[t].ip
    BY <1>5, EntryFacts DEF MakersKept, ArpTypeOK, Makes
  <2>2. table[e].outdated = 0 \/ (t \in slow /\ ~minute)
    BY <1>5 DEF MakersKept
  <2>3. minute => t \in slow
    BY <1>5 DEF AllSlow, Makes
  <2>4. e \notin Outdated
    BY <2>2 DEF Outdated
  <2> QED BY <1>1, <2>1, <2>2, <2>3, <2>4
<1>6. MakersKept(Aged, query, FALSE, slow)
  BY <1>5 DEF MakersKept
<1>7. IncompleteMade(Aged, query)
  BY <1>1 DEF IncompleteMade
<1>8. AllSlow(query, FALSE, slow)
  BY DEF AllSlow
<1> QED BY <1>2, <1>3, <1>4, <1>6, <1>7, <1>8

(* A query begins with the entry it has found.                              *)
LEMMA FoundSound ==
  ASSUME NEW tab, NEW qry, NEW wt, NEW slw, Sound(tab, qry, wt, FALSE, slw),
         NEW t \in Sender, qry[t] = Nothing, NEW e \in Entry, tab[e] # Nothing,
         NEW q \in Queries, ~q.nb, q.at = "wait"
  PROVE  Sound(tab, [qry EXCEPT ![t] = q], wt, FALSE, slw)
<1> USE DEF Sound
<1> DEFINE Q == [qry EXCEPT ![t] = q]
<1>1. Q \in [Sender -> Queries \cup {Nothing}] /\ Q[t] = q /\ \A u \in Sender \ {t} : Q[u] = qry[u]
  BY DEF ArpTypeOK
<1>2. \A u \in Sender : Makes(Q, u) <=> Makes(qry, u)
  BY <1>1, EntryFacts DEF Makes
<1>3. \A u \in Sender : Makes(qry, u) => Q[u] = qry[u]
  BY <1>1 DEF Makes
<1> HIDE DEF Q
<1>4. ArpTypeOK(tab, Q, wt, FALSE, slw)
  BY <1>1 DEF ArpTypeOK
<1>5. Sleeping(tab, Q, wt)
  BY <1>1 DEF Sleeping
<1>6. MakersKept(tab, Q, FALSE, slw) /\ MakersDiffer(Q) /\ IncompleteMade(tab, Q)
  <2>1. MakersKept(tab, Q, FALSE, slw)
    BY <1>2, <1>3 DEF MakersKept
  <2>2. MakersDiffer(Q)
    BY <1>2, <1>3 DEF MakersDiffer
  <2>3. IncompleteMade(tab, Q)
    BY <1>2, <1>3 DEF IncompleteMade
  <2> QED BY <2>1, <2>2, <2>3
<1>7. OutputMade(Q) /\ AllSlow(Q, FALSE, slw)
  BY <1>1 DEF OutputMade, AllSlow
<1> QED BY <1>4, <1>5, <1>6, <1>7 DEF Q

(* A query begins with a new entry.                                         *)
LEMMA NewSound ==
  ASSUME NEW tab, NEW qry, NEW wt, NEW slw, Sound(tab, qry, wt, FALSE, slw),
         NEW t \in Sender, qry[t] = Nothing, NEW e \in Entry, tab[e] = Nothing,
         NEW q \in Queries, q.nb, q.at = "wait", q.entry = e,
         \A f \in Entry : tab[f] # Nothing => tab[f].ip # q.ip
  PROVE  Sound([tab EXCEPT ![e] = NewEntry(q.ip, FALSE)], [qry EXCEPT ![t] = q], wt, FALSE, slw)
<1> USE DEF Sound
<1> DEFINE Q == [qry EXCEPT ![t] = q]
           n == NewEntry(q.ip, FALSE)
           T == [tab EXCEPT ![e] = n]
<1>1. Q \in [Sender -> Queries \cup {Nothing}] /\ Q[t] = q /\ \A u \in Sender \ {t} : Q[u] = qry[u]
  BY DEF ArpTypeOK
<1>2. n \in Entries /\ n # Nothing /\ n.ip = q.ip /\ ~n.complete /\ n.outdated = 0
  BY EntryFacts DEF NewEntry, Entries, Nothing
<1>3. /\ T \in [Entry -> Entries \cup {Nothing}] /\ T[e] = n
      /\ \A f \in Entry \ {e} : T[f] = tab[f]
  BY <1>2 DEF ArpTypeOK
<1>4. \A u \in Sender : Makes(Q, u) <=> u = t \/ Makes(qry, u)
  BY <1>1, EntryFacts DEF Makes
<1>5. \A u \in Sender : Makes(qry, u) =>
        u # t /\ Q[u] = qry[u] /\ qry[u].entry \in Entry /\ qry[u].entry # e
  BY <1>1, EntryFacts DEF Makes, MakersKept, ArpTypeOK
<1> HIDE DEF Q, n, T
<1>6. ArpTypeOK(T, Q, wt, FALSE, slw)
  BY <1>1, <1>3 DEF ArpTypeOK
<1>7. OneEntry(T)
  BY <1>2, <1>3 DEF OneEntry
<1>8. Sleeping(T, Q, wt)
  BY <1>1, <1>3 DEF Sleeping
<1>9. MakersKept(T, Q, FALSE, slw)
  BY <1>1, <1>2, <1>3, <1>4, <1>5 DEF MakersKept
<1>10. MakersDiffer(Q)
  BY <1>1, <1>4, <1>5 DEF MakersDiffer
<1>11. IncompleteMade(T, Q)
  <2> SUFFICES ASSUME NEW f \in Entry, T[f] # Nothing, ~T[f].complete
               PROVE  \E u \in Sender : Makes(Q, u) /\ Q[u].entry = f
    BY DEF IncompleteMade
  <2>1. CASE f = e
    BY <2>1, <1>1, <1>4
  <2>2. CASE f # e
    BY <2>2, <1>3, <1>4, <1>5 DEF IncompleteMade
  <2> QED BY <2>1, <2>2
<1>12. OutputMade(Q) /\ AllSlow(Q, FALSE, slw)
  BY <1>1 DEF OutputMade, AllSlow
<1> QED BY <1>6, <1>7, <1>8, <1>9, <1>10, <1>11, <1>12 DEF Q, T, n

(* A query ends whose entry, if it has made one, is complete.               *)
LEMMA ReturnSound ==
  ASSUME NEW tab, NEW qry, NEW wt, NEW min, NEW slw, Sound(tab, qry, wt, min, slw),
         NEW t \in Sender, wt[t] = NoEntry,
         Makes(qry, t) => tab[qry[t].entry].complete
  PROVE  Sound(tab, [qry EXCEPT ![t] = Nothing], wt, min, slw \ {t})
<1> USE DEF Sound
<1> DEFINE Q == [qry EXCEPT ![t] = Nothing]
<1>1. /\ Q \in [Sender -> Queries \cup {Nothing}] /\ Q[t] = Nothing
      /\ \A u \in Sender \ {t} : Q[u] = qry[u]
  BY DEF ArpTypeOK
<1>2. \A u \in Sender : Makes(Q, u) <=> u # t /\ Makes(qry, u)
  BY <1>1 DEF Makes
<1> HIDE DEF Q
<1>3. ArpTypeOK(tab, Q, wt, min, slw \ {t})
  BY <1>1 DEF ArpTypeOK
<1>4. Sleeping(tab, Q, wt)
  BY <1>1 DEF Sleeping
<1>5. MakersKept(tab, Q, min, slw \ {t})
  BY <1>1, <1>2 DEF MakersKept
<1>6. MakersDiffer(Q)
  BY <1>1, <1>2 DEF MakersDiffer
<1>7. IncompleteMade(tab, Q)
  BY <1>1, <1>2 DEF IncompleteMade
<1>8. OutputMade(Q) /\ AllSlow(Q, min, slw \ {t})
  BY <1>1 DEF OutputMade, AllSlow
<1> QED BY <1>3, <1>4, <1>5, <1>6, <1>7, <1>8 DEF Q

(* A query ends and removes the entry that it has made.                     *)
LEMMA RemoveSound ==
  ASSUME NEW tab, NEW qry, NEW wt, NEW min, NEW slw, Sound(tab, qry, wt, min, slw),
         NEW t \in Sender, wt[t] = NoEntry, Makes(qry, t)
  PROVE  Sound([tab EXCEPT ![qry[t].entry] = Nothing], [qry EXCEPT ![t] = Nothing],
               Told(wt, {qry[t].entry}), min, slw \ {t})
<1> USE DEF Sound
<1> DEFINE e == qry[t].entry
           Q == [qry EXCEPT ![t] = Nothing]
           T == [tab EXCEPT ![e] = Nothing]
           W == Told(wt, {e})
<1>1. /\ Q \in [Sender -> Queries \cup {Nothing}] /\ Q[t] = Nothing
      /\ \A u \in Sender \ {t} : Q[u] = qry[u]
  BY DEF ArpTypeOK
<1>2. \A u \in Sender : Makes(Q, u) <=> u # t /\ Makes(qry, u)
  BY <1>1 DEF Makes
<1>3. \A u \in Sender : u # t /\ Makes(qry, u) => qry[u].entry # e
  BY DEF MakersDiffer
<1>4. e \in Entry
  BY EntryFacts DEF ArpTypeOK, Makes
<1>5. /\ T \in [Entry -> Entries \cup {Nothing}] /\ T[e] = Nothing
      /\ \A f \in Entry \ {e} : T[f] = tab[f]
  BY <1>4 DEF ArpTypeOK
<1>6. \A u \in Sender : Makes(qry, u) => qry[u].entry \in Entry
  BY EntryFacts DEF ArpTypeOK, Makes
<1>7. /\ W \in [Sender -> Entry \cup {NoEntry}]
      /\ \A u \in Sender : W[u] # NoEntry => W[u] = wt[u] /\ W[u] # e
  BY DEF Told, ArpTypeOK
<1> HIDE DEF Q, T, W, e
<1>8. ArpTypeOK(T, Q, W, min, slw \ {t})
  BY <1>1, <1>5, <1>7 DEF ArpTypeOK
<1>9. OneEntry(T)
  BY <1>5 DEF OneEntry
<1>10. Sleeping(T, Q, W)
  BY <1>1, <1>5, <1>7 DEF Sleeping
<1>11. MakersKept(T, Q, min, slw \ {t})
  BY <1>1, <1>2, <1>3, <1>5, <1>6 DEF MakersKept
<1>12. MakersDiffer(Q)
  BY <1>1, <1>2 DEF MakersDiffer
<1>13. IncompleteMade(T, Q)
  BY <1>1, <1>2, <1>5, e = qry[t].entry DEF IncompleteMade, e
<1>14. OutputMade(Q) /\ AllSlow(Q, min, slw \ {t})
  BY <1>1 DEF OutputMade, AllSlow
<1> QED BY <1>8, <1>9, <1>10, <1>11, <1>12, <1>13, <1>14 DEF Q, T, W, e

(* The loop of a query q that is sound when it is taken for waiting.        *)
LEMMA LoopSound ==
  ASSUME query \in [Sender -> Queries \cup {Nothing}], wait \in [Sender -> Entry \cup {NoEntry}],
         NEW tab, NEW rem, NEW t \in Sender, NEW q, wait[t] = NoEntry,
         q \in Starting \cup Queries,
         Sound(tab, [query EXCEPT ![t] = [q EXCEPT !.at = "wait"]], Told(wait, rem), minute', slow),
         tab[q.entry] # Nothing, tab[q.entry].ip = q.ip,
         Loop(t, q, tab, rem)
  PROVE  ArpInv'
<1> DEFINE r == [q EXCEPT !.at = "wait"]
           R == [query EXCEPT ![t] = r]
           W == Told(wait, rem)
<1>1. /\ r \in Queries /\ r # Nothing /\ r.at = "wait"
      /\ r.entry = q.entry /\ r.ip = q.ip /\ r.nb = q.nb /\ r.retries = q.retries
      /\ q.retries \in Nat /\ q.nb \in BOOLEAN
  BY EntryFacts DEF Queries, Starting
<1>a. Sound(tab, R, W, minute', slow)
  OBVIOUS
<1>2. R[t] = r /\ W[t] = NoEntry /\ (Makes(R, t) <=> q.nb)
  BY <1>1, EntryFacts DEF Told, Makes
<1>3. [R EXCEPT ![t] = Nothing] = [query EXCEPT ![t] = Nothing]
  OBVIOUS
<1>4. CASE tab[q.entry].complete \/ (q.retries = 0 /\ ~q.nb)
  <2>1. Sound(tab, [R EXCEPT ![t] = Nothing], W, minute', slow \ {t})
    BY <1>1, <1>2, <1>4, ReturnSound
  <2> QED BY <1>3, <1>4, <2>1 DEF Loop, Returned, Flushed, ArpInv, Told
<1>5. CASE ~(tab[q.entry].complete \/ (q.retries = 0 /\ ~q.nb)) /\ q.retries = 0
  <2>1. q.nb
    BY <1>1, <1>5, EntryFacts
  <2>2. Sound([tab EXCEPT ![q.entry] = Nothing], [R EXCEPT ![t] = Nothing],
              Told(W, {q.entry}), minute', slow \ {t})
    BY <1>1, <1>2, <2>1, RemoveSound
  <2>3. /\ table' = [tab EXCEPT ![q.entry] = Nothing]
        /\ query' = [query EXCEPT ![t] = Nothing] /\ slow' = slow \ {t}
        /\ wait' = Told(wait, rem \cup {q.entry})
    BY <1>5 DEF Loop, Returned, Flushed, Told
  <2>4. Told(W, {q.entry}) = Told(wait, rem \cup {q.entry})
    <3> SUFFICES ASSUME NEW u \in Sender
                 PROVE  Told(W, {q.entry})[u] = Told(wait, rem \cup {q.entry})[u]
      BY DEF Told
    <3> QED BY DEF Told
  <2> QED BY <1>3, <2>2, <2>3, <2>4 DEF ArpInv
<1>6. CASE ~(tab[q.entry].complete \/ (q.retries = 0 /\ ~q.nb)) /\ q.retries # 0
  <2> DEFINE n == [q EXCEPT !.retries = @ - 1, !.at = IF q.nb THEN "output" ELSE "wait"]
  <2>1. /\ n \in Queries /\ n # Nothing /\ n.entry = q.entry /\ n.ip = q.ip /\ n.nb = q.nb
        /\ n.at = IF q.nb THEN "output" ELSE "wait"
    <3>1. q.retries - 1 \in Nat
      BY <1>1, <1>6
    <3>2. n \in Queries
      BY <3>1 DEF Queries, Starting
    <3>3. /\ n.entry = q.entry /\ n.ip = q.ip /\ n.nb = q.nb
          /\ n.at = IF q.nb THEN "output" ELSE "wait"
      BY DEF Queries, Starting
    <3> QED BY <3>2, <3>3, EntryFacts
  <2>2. /\ query' = [query EXCEPT ![t] = n] /\ table' = tab /\ slow' = slow
        /\ wait' = [u \in Sender |-> IF u = t /\ ~q.nb THEN q.entry
                                     ELSE IF wait[u] \in rem THEN NoEntry ELSE wait[u]]
    BY <1>6 DEF Loop
  <2> HIDE DEF n, r
  <2>3. /\ query' \in [Sender -> Queries \cup {Nothing}] /\ query'[t] = n
        /\ \A u \in Sender \ {t} : query'[u] = R[u]
    BY <2>1, <2>2
  <2>4. /\ wait' \in [Sender -> Entry \cup {NoEntry}] /\ wait'[t] = IF q.nb THEN NoEntry ELSE q.entry
        /\ \A u \in Sender \ {t} : wait'[u] = W[u]
    BY <1>1, <2>2, EntryFacts DEF Told
  <2>5. \A u \in Sender : /\ Makes(query', u) <=> Makes(R, u)
                          /\ query'[u] # Nothing <=> R[u] # Nothing
                          /\ query'[u].entry = R[u].entry /\ query'[u].ip = R[u].ip
    BY <1>1, <1>2, <2>1, <2>3 DEF Makes
  <2> HIDE DEF R, W
  <2> USE <1>a DEF Sound
  <2>6. ArpTypeOK(table', query', wait', minute', slow')
    BY <2>2, <2>3, <2>4 DEF ArpTypeOK
  <2>7. Sleeping(table', query', wait')
    BY <1>1, <2>1, <2>2, <2>3, <2>4 DEF Sleeping
  <2>8. MakersKept(table', query', minute', slow')
    BY <2>2, <2>5 DEF MakersKept
  <2>9. MakersDiffer(query') /\ IncompleteMade(table', query') /\ OneEntry(table')
    <3>1. MakersDiffer(query')
      BY <2>5 DEF MakersDiffer
    <3>2. IncompleteMade(table', query')
      <4> SUFFICES ASSUME NEW e \in Entry, tab[e] # Nothing, ~tab[e].complete
                   PROVE  \E u \in Sender : Makes(query', u) /\ query'[u].entry = e
        BY <2>2 DEF IncompleteMade
      <4>1. PICK u \in Sender : Makes(R, u) /\ R[u].entry = e
        BY DEF IncompleteMade
      <4> QED BY <2>5, <4>1
    <3>3. OneEntry(table')
      BY <2>2
    <3> QED BY <3>1, <3>2, <3>3
  <2>10. OutputMade(query')
    BY <1>1, <2>1, <2>3 DEF OutputMade
  <2>11. AllSlow(query', minute', slow')
    BY <2>2, <2>5 DEF AllSlow
  <2> QED BY <2>6, <2>7, <2>8, <2>9, <2>10, <2>11 DEF ArpInv, R, W
<1> QED BY <1>4, <1>5, <1>6

-----------------------------------------------------------------------------
(* The steps.                                                               *)

LEMMA QuerySound ==
  ASSUME ArpInv, NEW t \in Sender, NEW ip \in Ip, NutArpCacheQuery(t, ip)
  PROVE  ArpInv'
<1> DEFINE W == Told(wait, Outdated)
<1>1. query[t] = Nothing /\ minute' = FALSE /\ wait[t] = NoEntry
  BY DEF NutArpCacheQuery, ArpInv, Sound, Sleeping
<1>2. query \in [Sender -> Queries \cup {Nothing}] /\ wait \in [Sender -> Entry \cup {NoEntry}]
  BY DEF ArpInv, Sound, ArpTypeOK
<1>3. Sound(Aged, query, W, FALSE, slow)
  BY AgedSound
<1> HIDE DEF W
<1>4. ASSUME NEW e \in Found(Aged, ip), Loop(t, StartedQuery(ip, e, FALSE), Aged, Outdated)
      PROVE  ArpInv'
  <2> DEFINE q == StartedQuery(ip, e, FALSE)
             r == [q EXCEPT !.at = "wait"]
  <2>1. e \in Entry /\ Aged[e] # Nothing /\ Aged[e].ip = ip
    BY DEF Found
  <2>2. /\ q \in Starting /\ q.entry = e /\ q.ip = ip
        /\ r \in Queries /\ r.nb = FALSE /\ r.at = "wait"
    BY <2>1 DEF StartedQuery, Starting, Queries
  <2> HIDE DEF q
  <2>3. Sound(Aged, [query EXCEPT ![t] = r], W, FALSE, slow)
    BY <1>1, <1>3, <2>1, <2>2, FoundSound
  <2> QED BY <1>1, <1>2, <1>4, <2>1, <2>2, <2>3, LoopSound DEF W, q
<1>5. ASSUME Found(Aged, ip) = {}, NEW e \in Entry, Aged[e] = Nothing,
             Loop(t, StartedQuery(ip, e, TRUE), [Aged EXCEPT ![e] = NewEntry(ip, FALSE)], Outdated)
      PROVE  ArpInv'
  <2> DEFINE q == StartedQuery(ip, e, TRUE)
             r == [q EXCEPT !.at = "wait"]
             T == [Aged EXCEPT ![e] = NewEntry(ip, FALSE)]
  <2>1. \A f \in Entry : Aged[f] # Nothing => Aged[f].ip # ip
    BY <1>5 DEF Found
  <2>2. /\ q \in Starting /\ q.entry = e /\ q.ip = ip
        /\ r \in Queries /\ r.nb = TRUE /\ r.at = "wait" /\ r.entry = e /\ r.ip = ip
    BY DEF StartedQuery, Starting, Queries
  <2> HIDE DEF q
  <2>3. Sound(T, [query EXCEPT ![t] = r], W, FALSE, slow)
    BY <1>1, <1>3, <1>5, <2>1, <2>2, NewSound, ZenonT(60)
  <2>4. T[q.entry] # Nothing /\ T[q.entry].ip = q.ip
    BY <2>2 DEF Aged, NewEntry, Nothing
  <2> HIDE DEF T
  <2> QED BY <1>1, <1>2, <1>5, <2>2, <2>3, <2>4, LoopSound DEF W, q, T
<1>6. ASSUME Flushed(Aged, Outdated), UNCHANGED <<query, slow>>
      PROVE  ArpInv'
  BY <1>1, <1>3, <1>6 DEF ArpInv, Flushed, W, Told
<1> QED BY <1>4, <1>5, <1>6 DEF NutArpCacheQuery

LEMMA OutputSentSound ==
  ASSUME ArpInv, NEW t \in Sender, OutputSent(t)
  PROVE  ArpInv'
<1> USE DEF ArpInv, Sound, OutputSent
<1> DEFINE q == query[t]
<1>1. q \in Queries /\ q.nb /\ q.at = "output"
  BY DEF ArpTypeOK, OutputMade
<1>2. /\ query' \in [Sender -> Queries \cup {Nothing}]
      /\ query'[t] = [q EXCEPT !.at = "wait"]
      /\ \A u \in Sender \ {t} : query'[u] = query[u]
  BY <1>1 DEF ArpTypeOK, Queries
<1>3. /\ query'[t] # Nothing /\ query'[t].at = "wait" /\ query'[t].entry = q.entry
      /\ query'[t].ip = q.ip /\ query'[t].nb
  BY <1>1, <1>2 DEF Queries, Nothing
<1>4. \A u \in Sender : /\ Makes(query', u) <=> Makes(query, u)
                        /\ query'[u] # Nothing <=> query[u] # Nothing
                        /\ query'[u].entry = query[u].entry /\ query'[u].ip = query[u].ip
  BY <1>1, <1>2, <1>3 DEF Makes
<1>5. /\ wait' \in [Sender -> Entry \cup {NoEntry}] /\ wait'[t] = q.entry
      /\ \A u \in Sender \ {t} : wait'[u] = wait[u]
  BY <1>1, EntryFacts DEF ArpTypeOK
<1>6. ArpTypeOK(table, query', wait', minute, slow)
  BY <1>2, <1>5 DEF ArpTypeOK
<1>7. Sleeping(table, query', wait')
  BY <1>1, <1>2, <1>3, <1>5, EntryFacts DEF Sleeping, MakersKept, Makes
<1>8. MakersKept(table, query', minute, slow)
  BY <1>4 DEF MakersKept
<1>9. MakersDiffer(query')
  BY <1>4 DEF MakersDiffer
<1>10. IncompleteMade(table, query')
  BY <1>4 DEF IncompleteMade
<1>11. OutputMade(query') /\ AllSlow(query', minute, slow)
  BY <1>2, <1>3, <1>4 DEF OutputMade, AllSlow
<1> QED BY <1>6, <1>7, <1>8, <1>9, <1>10, <1>11

(* The incomplete entry that a failed request removes is the query's own.   *)
LEMMA OutputFailedSound ==
  ASSUME ArpInv, NEW t \in Sender, OutputFailed(t)
  PROVE  ArpInv'
<1> DEFINE q == query[t]
           rem == {e \in Found(table, q.ip) : ~table[e].complete}
<1>1. q # Nothing /\ q.at = "output" /\ Returned(t) /\ ArpCacheFlush(rem) /\ minute' = minute
  BY DEF OutputFailed
<1>2. /\ Makes(query, t) /\ q.entry \in Entry /\ table[q.entry] # Nothing
      /\ table[q.entry].ip = q.ip /\ wait[t] = NoEntry
  BY <1>1, EntryFacts DEF ArpInv, Sound, ArpTypeOK, OutputMade, MakersKept, Makes, Sleeping
<1>3. \A e \in Found(table, q.ip) : e = q.entry
  BY <1>2 DEF ArpInv, Sound, OneEntry, Found
<1>4. /\ table \in [Entry -> Entries \cup {Nothing}] /\ wait \in [Sender -> Entry \cup {NoEntry}]
  BY DEF ArpInv, Sound, ArpTypeOK
<1>5. CASE table[q.entry].complete
  <2>1. rem = {}
    BY <1>3, <1>5
  <2>2. table' = table /\ wait' = wait
    BY <1>1, <1>4, <2>1 DEF ArpCacheFlush, Flushed
  <2>3. Sound(table, [query EXCEPT ![t] = Nothing], wait, minute, slow \ {t})
    BY <1>2, <1>5, ReturnSound DEF ArpInv
  <2> QED BY <1>1, <2>2, <2>3 DEF Returned, ArpInv
<1>6. CASE ~table[q.entry].complete
  <2>1. rem = {q.entry}
    BY <1>2, <1>3, <1>6 DEF Found
  <2>2. table' = [table EXCEPT ![q.entry] = Nothing] /\ wait' = Told(wait, {q.entry})
    BY <1>1, <1>4, <2>1 DEF ArpCacheFlush, Flushed, Told
  <2>3. Sound([table EXCEPT ![q.entry] = Nothing], [query EXCEPT ![t] = Nothing],
              Told(wait, {q.entry}), minute, slow \ {t})
    BY <1>2, RemoveSound DEF ArpInv
  <2> QED BY <1>1, <2>2, <2>3 DEF Returned, ArpInv
<1> QED BY <1>5, <1>6

(* A thread goes on with the entry for its address: when it has made one it *)
(* is the same.                                                             *)
LEMMA ResumesSound ==
  ASSUME ArpInv, NEW t \in Sender, Resumes(t)
  PROVE  ArpInv'
<1> DEFINE q == query[t]
<1>1. q \in Queries /\ q.at = "wait" /\ wait[t] = NoEntry /\ minute' = minute
  BY DEF Resumes, ArpInv, Sound, ArpTypeOK
<1>2. query \in [Sender -> Queries \cup {Nothing}] /\ wait \in [Sender -> Entry \cup {NoEntry}]
  BY DEF ArpInv, Sound, ArpTypeOK
<1>3. Makes(query, t) => q.entry \in Found(table, q.ip)
  BY <1>1, EntryFacts DEF ArpInv, Sound, MakersKept, Found
<1>4. CASE Found(table, q.ip) = {} /\ Returned(t) /\ UNCHANGED <<table, wait>>
  BY <1>1, <1>3, <1>4, ReturnSound DEF ArpInv, Returned
<1>5. ASSUME NEW e \in Found(table, q.ip), Loop(t, [q EXCEPT !.entry = e], table, {})
      PROVE  ArpInv'
  <2> DEFINE r == [q EXCEPT !.entry = e]
  <2>1. e \in Entry /\ table[e] # Nothing /\ table[e].ip = q.ip
    BY DEF Found
  <2>2. r \in Queries /\ r.at = "wait" /\ r.entry = e /\ r.ip = q.ip /\ r.nb = q.nb
    BY <1>1, <2>1 DEF Queries
  <2>3. [r EXCEPT !.at = "wait"] = r
    BY <2>2 DEF Queries
  <2>4. Told(wait, {}) = wait
    BY <1>2 DEF Told
  <2>5. Sound(table, [query EXCEPT ![t] = r], wait, minute, slow)
    <3>1. CASE q.nb
      <4>1. e = q.entry
        BY <1>1, <1>3, <2>1, <3>1, EntryFacts DEF Makes, Found, ArpInv, Sound, OneEntry
      <4>2. r = q
        BY <1>1, <4>1 DEF Queries
      <4>3. [query EXCEPT ![t] = r] = query
        BY <1>2, <4>2
      <4> QED BY <4>3 DEF ArpInv
    <3>2. CASE ~q.nb
      <4> DEFINE Q == [query EXCEPT ![t] = r]
      <4>1. /\ Q \in [Sender -> Queries \cup {Nothing}] /\ Q[t] = r
            /\ \A u \in Sender \ {t} : Q[u] = query[u]
        BY <1>2, <2>2
      <4>2. \A u \in Sender : /\ Makes(Q, u) <=> Makes(query, u)
                              /\ Makes(query, u) => Q[u] = query[u]
        BY <2>2, <3>2, <4>1, EntryFacts DEF Makes
      <4> HIDE DEF Q, r
      <4> USE DEF ArpInv, Sound
      <4>3. ArpTypeOK(table, Q, wait, minute, slow)
        BY <4>1 DEF ArpTypeOK
      <4>4. Sleeping(table, Q, wait)
        BY <1>1, <4>1 DEF Sleeping
      <4>5. MakersKept(table, Q, minute, slow)
        BY <4>2 DEF MakersKept
      <4>6. MakersDiffer(Q)
        BY <4>2 DEF MakersDiffer
      <4>7. IncompleteMade(table, Q)
        BY <4>2 DEF IncompleteMade
      <4>8. OutputMade(Q) /\ AllSlow(Q, minute, slow)
        BY <1>1, <2>2, <4>1, EntryFacts DEF OutputMade, AllSlow
      <4> QED BY <4>3, <4>4, <4>5, <4>6, <4>7, <4>8 DEF Q
    <3> QED BY <1>1, <3>1, <3>2, EntryFacts
  <2> HIDE DEF r
  <2> QED BY <1>1, <1>2, <1>5, <2>1, <2>2, <2>3, <2>4, <2>5, LoopSound DEF r
<1> QED BY <1>4, <1>5 DEF Resumes

LEMMA SleepTimeoutSound ==
  ASSUME ArpInv, NEW t \in Sender, SleepTimeout(t)
  PROVE  ArpInv'
  BY DEF SleepTimeout, ArpInv, Sound, ArpTypeOK, Sleeping

LEMMA UpdateSound ==
  ASSUME ArpInv, NEW ip \in Ip, NutArpCacheUpdate(ip)
  PROVE  ArpInv'
<1>1. UNCHANGED <<query, slow>>
  BY DEF NutArpCacheUpdate
<1>2. ASSUME NEW e \in Found(table, ip),
             table' = [table EXCEPT ![e].complete = TRUE, ![e].outdated = 0],
             wait' = [t \in Sender |-> IF wait[t] = e THEN NoEntry ELSE wait[t]],
             UNCHANGED minute
      PROVE  ArpInv'
  <2> USE DEF ArpInv, Sound
  <2>1. e \in Entry /\ table[e] \in Entries
    BY DEF Found, ArpTypeOK
  <2>2. /\ table' \in [Entry -> Entries \cup {Nothing}]
        /\ table'[e] \in Entries /\ table'[e].ip = table[e].ip
        /\ table'[e].complete /\ table'[e].outdated = 0
        /\ \A f \in Entry \ {e} : table'[f] = table[f]
    <3>1. table'[e] = [table[e] EXCEPT !.complete = TRUE, !.outdated = 0]
      BY <1>2, <2>1 DEF ArpTypeOK
    <3>2. table'[e] = NewEntry(table[e].ip, TRUE)
      BY <2>1, <3>1 DEF Entries, NewEntry
    <3>3. /\ table'[e] \in Entries /\ table'[e].ip = table[e].ip
          /\ table'[e].complete /\ table'[e].outdated = 0
      BY <2>1, <3>2, EntryFacts DEF NewEntry, Entries
    <3> QED BY <1>2, <2>1, <3>3 DEF ArpTypeOK
  <2>3. ArpTypeOK(table', query, wait', minute, slow)
    BY <1>2, <2>2 DEF ArpTypeOK
  <2>4. OneEntry(table') /\ Sleeping(table', query, wait')
    BY <1>2, <2>1, <2>2, EntryFacts DEF OneEntry, Sleeping
  <2>5. MakersKept(table', query, minute, slow)
    BY <2>1, <2>2, EntryFacts DEF MakersKept, ArpTypeOK, Makes
  <2>6. IncompleteMade(table', query)
    BY <2>2 DEF IncompleteMade
  <2> QED BY <1>1, <1>2, <2>3, <2>4, <2>5, <2>6
<1>3. Sound(Aged, query, Told(wait, Outdated), FALSE, slow)
  BY AgedSound
<1>4. ASSUME Found(table, ip) = {}, minute' = FALSE, NEW e \in Entry, Aged[e] = Nothing,
             Flushed([Aged EXCEPT ![e] = NewEntry(ip, TRUE)], Outdated)
      PROVE  ArpInv'
  <2> USE DEF Sound
  <2> DEFINE n == NewEntry(ip, TRUE)
             W == Told(wait, Outdated)
  <2>1. n \in Entries /\ n # Nothing /\ n.ip = ip /\ n.complete
    BY DEF NewEntry, Entries, Nothing
  <2>2. \A f \in Entry : Aged[f] # Nothing => Aged[f].ip # ip
    <3>1. \A f \in Entry : Aged[f] # Nothing => table[f] # Nothing /\ Aged[f].ip = table[f].ip
      <4> SUFFICES ASSUME NEW f \in Entry, Aged[f] # Nothing
                   PROVE  table[f] # Nothing /\ Aged[f].ip = table[f].ip
        OBVIOUS
      <4>1. table[f] \in Entries \cup {Nothing} /\ f \notin Outdated
        BY DEF ArpInv, ArpTypeOK, Aged
      <4>2. CASE minute /\ f \in InTable
        BY <4>1, <4>2 DEF Aged, InTable, Entries
      <4>3. CASE ~(minute /\ f \in InTable)
        BY <4>1, <4>3 DEF Aged
      <4> QED BY <4>2, <4>3
    <3> QED BY <1>4, <3>1 DEF Found
  <2>3. /\ table' \in [Entry -> Entries \cup {Nothing}] /\ table'[e] = n
        /\ \A f \in Entry \ {e} : table'[f] = Aged[f]
    <3>1. Aged \in [Entry -> Entries \cup {Nothing}]
      BY <1>3 DEF ArpTypeOK
    <3> QED BY <1>4, <2>1, <3>1 DEF Flushed
  <2>4. wait' = W
    BY <1>4 DEF Flushed, Told
  <2> HIDE DEF n, W
  <2>5. ArpTypeOK(table', query, W, FALSE, slow)
    BY <1>3, <2>3 DEF ArpTypeOK, W
  <2>6. OneEntry(table')
    BY <1>3, <2>1, <2>2, <2>3 DEF OneEntry
  <2>7. Sleeping(table', query, W)
    BY <1>3, <1>4, <2>1, <2>3 DEF Sleeping, W
  <2>8. MakersKept(table', query, FALSE, slow)
    BY <1>3, <1>4, <2>1, <2>3, EntryFacts DEF MakersKept, ArpTypeOK, Makes
  <2>9. IncompleteMade(table', query)
    BY <1>3, <2>1, <2>3 DEF IncompleteMade
  <2> QED BY <1>1, <1>3, <1>4, <2>4, <2>5, <2>6, <2>7, <2>8, <2>9 DEF ArpInv
<1>5. ASSUME minute' = FALSE, Flushed(Aged, Outdated)
      PROVE  ArpInv'
  BY <1>1, <1>3, <1>5 DEF ArpInv, Flushed, Told
<1> QED BY <1>2, <1>4, <1>5 DEF NutArpCacheUpdate

(* Queries in progress are slow from now on, so the next minute waits for   *)
(* them: their entries were never outdated before.                          *)
LEMMA MinuteSound ==
  ASSUME ArpInv, Minute
  PROVE  ArpInv'
<1> USE DEF ArpInv, Sound, Minute
<1>1. ArpTypeOK(table, query, wait, minute', slow')
  BY DEF ArpTypeOK
<1>2. MakersKept(table, query, minute', slow')
  BY DEF MakersKept
<1>3. AllSlow(query, minute', slow')
  BY DEF AllSlow
<1> QED BY <1>1, <1>2, <1>3

LEMMA NextSound == ArpInv /\ [ArpNext]_arpVars => ArpInv'
<1> SUFFICES ASSUME ArpInv, [ArpNext]_arpVars PROVE ArpInv'
  OBVIOUS
<1>1. CASE UNCHANGED arpVars
  BY <1>1 DEF arpVars, ArpInv, Sound, ArpTypeOK, OneEntry, Sleeping, MakersKept, MakersDiffer,
              IncompleteMade, Makes, OutputMade, AllSlow
<1>2. ASSUME NEW t \in Sender, NEW ip \in Ip, NutArpCacheQuery(t, ip) PROVE ArpInv'
  BY <1>2, QuerySound
<1>3. ASSUME NEW t \in Sender, OutputSent(t) PROVE ArpInv'
  BY <1>3, OutputSentSound
<1>4. ASSUME NEW t \in Sender, OutputFailed(t) PROVE ArpInv'
  BY <1>4, OutputFailedSound
<1>5. ASSUME NEW t \in Sender, Resumes(t) PROVE ArpInv'
  BY <1>5, ResumesSound
<1>6. ASSUME NEW t \in Sender, SleepTimeout(t) PROVE ArpInv'
  BY <1>6, SleepTimeoutSound
<1>7. ASSUME NEW ip \in Ip, NutArpCacheUpdate(ip) PROVE ArpInv'
  BY <1>7, UpdateSound
<1>8. CASE Minute
  BY <1>8, MinuteSound
<1> QED BY <1>1, <1>2, <1>3, <1>4, <1>5, <1>6, <1>7, <1>8 DEF ArpNext

-----------------------------------------------------------------------------
(* The theorems.                                                            *)

(* The inductive invariant, for any threads, addresses, entries and limits. *)
THEOREM ArpInvariant == ArpSpec => []ArpInv
  BY InitSound, NextSound, PTL DEF ArpSpec

(* No entry is freed while a thread sleeps in its queue or the driver sends *)
(* its request: NutArpCacheQuery() does not look at freed memory.           *)
THEOREM EntriesStayAlive == ArpSpec => []EntriesAlive
<1>1. ArpInv => EntriesAlive
  BY EntryFacts DEF ArpInv, Sound, ArpTypeOK, Sleeping, MakersKept, Makes, OutputMade, EntriesAlive, InTable
<1> QED BY <1>1, ArpInvariant, PTL

(* One entry for each address, and one query that sends the requests for an *)
(* incomplete one: ArpCacheLookup() finds the entry there is.               *)
THEOREM IncompleteIsOwned == ArpSpec => []IncompleteOwned
<1>1. ArpInv => IncompleteOwned
  <2> SUFFICES ASSUME ArpInv, NEW e \in InTable
               PROVE  /\ Found(table, table[e].ip) = {e}
                      /\ ~table[e].complete =>
                           Cardinality({t \in Sender : query[t] # Nothing /\ query[t].nb /\ query[t].entry = e}) = 1
    BY DEF IncompleteOwned
  <2>1. Found(table, table[e].ip) = {e}
    BY DEF ArpInv, Sound, OneEntry, Found, InTable
  <2>2. ASSUME ~table[e].complete
        PROVE  Cardinality({t \in Sender : query[t] # Nothing /\ query[t].nb /\ query[t].entry = e}) = 1
    <3>1. PICK t \in Sender : Makes(query, t) /\ query[t].entry = e
      BY <2>2 DEF ArpInv, Sound, IncompleteMade, InTable
    <3>2. {u \in Sender : query[u] # Nothing /\ query[u].nb /\ query[u].entry = e} = {t}
      BY <3>1 DEF ArpInv, Sound, MakersDiffer, Makes
    <3> QED BY <3>2, FS_Singleton
  <2> QED BY <2>1, <2>2
<1> QED BY <1>1, ArpInvariant, PTL

HIDE ArpAssumption
-----------------------------------------------------------------------------
(* Network buffers.  Releasing gives up one reference after the other; Kept *)
(* is what holds in between, when the buffer next has one to give up.       *)

Structure == [part : [Part -> Block \cup {Null}], own : SUBSET Part, refs : 0..RefMax,
              ref : Buf \cup {Null}, used : BOOLEAN]

Live(bf) == {b \in Buf : bf[b].used}
Refs(bf, b) == {c \in Buf : bf[c].ref = b}
One(p) == IF p THEN 1 ELSE 0
Owns(bf, m) == \E b \in Buf : \E p \in bf[b].own : bf[b].part[p] = m

Typed(bf, hd, nx) ==
    /\ bf \in [Buf -> Structure]
    /\ \A b \in Buf : ~bf[b].used => bf[b] = Unused
    /\ \A b \in Buf : bf[b].ref # Null => bf[b].ref \in Live(bf)
    /\ \A b \in Buf : \A p \in bf[b].own : bf[b].part[p] # Null
    /\ hd \subseteq Live(bf)
    /\ nx \in Live(bf) \cup {Null}

Counted(bf, hd, nx) ==
    \A b \in Live(bf) :
        Cardinality(Refs(bf, b)) + One(b \in hd) + One(b = nx) = bf[b].refs + 1

Shared(bf) ==
    \A b \in Buf : \A p \in Part \ bf[b].own :
        bf[b].part[p] # Null =>
            bf[b].ref # Null /\ bf[bf[b].ref].part[p] = bf[b].part[p]

Owned(bf, mem, extra) ==
    /\ extra \subseteq Block
    /\ \A m : m \in mem <=> Owns(bf, m) \/ m \in extra
    /\ \A m \in extra : ~Owns(bf, m)
    /\ \A b, c \in Buf : \A p \in bf[b].own, q \in bf[c].own :
         bf[b].part[p] = bf[c].part[q] => b = c /\ p = q

Ranked(bf) ==
    \E rank \in [Buf -> Nat] : \A b \in Buf : bf[b].ref # Null => rank[bf[b].ref] < rank[b]

Kept(bf, mem, hd, nx, extra) ==
    /\ Typed(bf, hd, nx)
    /\ Counted(bf, hd, nx)
    /\ Shared(bf)
    /\ Owned(bf, mem, extra)
    /\ Ranked(bf)

BufInv == Kept(buf, memory, held, Null, {})

LEMMA UnusedFacts ==
    /\ Unused \in Structure
    /\ ~Unused.used /\ Unused.refs = 0 /\ Unused.ref = Null /\ Unused.own = {}
    /\ \A p \in Part : Unused.part[p] = Null
BY NetBufAssumption DEF Unused, Structure

LEMMA RefsFinite ==
    ASSUME NEW bf, NEW b
    PROVE  IsFiniteSet(Refs(bf, b)) /\ Cardinality(Refs(bf, b)) \in Nat
           /\ (Cardinality(Refs(bf, b)) = 0 <=> Refs(bf, b) = {})
<1>1. Refs(bf, b) \subseteq Buf /\ IsFiniteSet(Buf)
  BY NetBufAssumption DEF Refs
<1>2. IsFiniteSet(Refs(bf, b))
  BY <1>1, FS_Subset
<1> QED BY <1>2, FS_CardinalityType, FS_EmptySet

(* A buffer to which nobody refers but its holder.                          *)
LEMMA HeldAlone ==
    ASSUME NEW bf, NEW hd, NEW nx, Typed(bf, hd, nx), Counted(bf, hd, nx),
           NEW b \in Live(bf), bf[b].refs = 0
    PROVE  /\ b \in hd => Refs(bf, b) = {} /\ b # nx
           /\ b = nx => Refs(bf, b) = {} /\ b \notin hd
<1>1. Cardinality(Refs(bf, b)) + One(b \in hd) + One(b = nx) = 1
  BY DEF Counted
<1>2. Cardinality(Refs(bf, b)) \in Nat /\ (Cardinality(Refs(bf, b)) = 0 <=> Refs(bf, b) = {})
  BY RefsFinite
<1> QED BY <1>1, <1>2 DEF One

(* NutNetBufFree() of a buffer that has clones.                             *)
LEMMA LessKept ==
    ASSUME NEW bf, NEW mem, NEW hd, NEW b \in Buf, NEW extra, Kept(bf, mem, hd, b, extra),
           bf[b].refs > 0
    PROVE  Kept([bf EXCEPT ![b].refs = @ - 1], mem, hd, Null, extra)
<1> DEFINE b2 == [bf EXCEPT ![b].refs = @ - 1]
           r == [bf[b] EXCEPT !.refs = @ - 1]
<1>1. bf \in [Buf -> Structure] /\ b \in Live(bf) /\ Null \notin Buf
  BY NetBufAssumption DEF Kept, Typed
<1>2. bf[b] \in Structure /\ bf[b].refs \in 1..RefMax
  BY <1>1 DEF Structure
<1>3. /\ r \in Structure /\ r.refs = bf[b].refs - 1 /\ r.part = bf[b].part /\ r.own = bf[b].own
      /\ r.ref = bf[b].ref /\ r.used = bf[b].used
  BY <1>2, NetBufAssumption DEF Structure
<1>4. /\ b2 \in [Buf -> Structure] /\ b2[b] = r
      /\ \A c \in Buf \ {b} : b2[c] = bf[c]
  BY <1>1, <1>3
<1> HIDE DEF b2, r
<1>5. \A c \in Buf : /\ b2[c].part = bf[c].part /\ b2[c].own = bf[c].own
                     /\ b2[c].ref = bf[c].ref /\ b2[c].used = bf[c].used
  BY <1>3, <1>4
<1>6. Live(b2) = Live(bf) /\ \A c : Refs(b2, c) = Refs(bf, c)
  BY <1>5 DEF Live, Refs
<1>7. Typed(b2, hd, Null)
  <2>1. \A c \in Buf : ~b2[c].used => b2[c] = Unused
    BY <1>1, <1>3, <1>4 DEF Kept, Typed, Live
  <2>2. \A c \in Buf : b2[c].ref # Null => b2[c].ref \in Live(b2)
    BY <1>5, <1>6 DEF Kept, Typed
  <2>3. \A c \in Buf : \A p \in b2[c].own : b2[c].part[p] # Null
    BY <1>5 DEF Kept, Typed
  <2>4. hd \subseteq Live(b2)
    BY <1>6 DEF Kept, Typed
  <2> QED BY <1>4, <2>1, <2>2, <2>3, <2>4 DEF Typed
<1>8. Counted(b2, hd, Null)
  <2> SUFFICES ASSUME NEW c \in Live(b2)
               PROVE  Cardinality(Refs(b2, c)) + One(c \in hd) + One(c = Null) = b2[c].refs + 1
    BY DEF Counted
  <2>1. c \in Live(bf) /\ c \in Buf /\ One(c = Null) = 0
    BY <1>1, <1>6 DEF Live, One
  <2>2. Cardinality(Refs(bf, c)) + One(c \in hd) + One(c = b) = bf[c].refs + 1
    BY <2>1 DEF Kept, Counted
  <2>3. Cardinality(Refs(bf, c)) \in Nat /\ One(c \in hd) \in Nat
    BY RefsFinite DEF One
  <2>4. CASE c = b
    <3>1. One(c = b) = 1 /\ b2[c].refs = bf[c].refs - 1 /\ bf[c].refs \in Nat
      BY <2>4, <1>2, <1>3, <1>4 DEF One
    <3> QED BY <2>1, <2>2, <2>3, <3>1, <1>6
  <2>5. CASE c # b
    <3>1. One(c = b) = 0 /\ b2[c].refs = bf[c].refs
      BY <2>1, <2>5, <1>4 DEF One
    <3> QED BY <2>1, <2>2, <2>3, <3>1, <1>6
  <2> QED BY <2>4, <2>5
<1>9. Shared(b2)
  <2> SUFFICES ASSUME NEW c \in Buf, NEW p \in Part \ b2[c].own, b2[c].part[p] # Null
               PROVE  b2[c].ref # Null /\ b2[b2[c].ref].part[p] = b2[c].part[p]
    BY DEF Shared
  <2>1. bf[c].ref # Null /\ bf[bf[c].ref].part[p] = bf[c].part[p]
    BY <1>5 DEF Kept, Shared
  <2>2. bf[c].ref \in Buf
    BY <2>1 DEF Kept, Typed, Live
  <2> QED BY <1>5, <2>1, <2>2
<1>10. Owned(b2, mem, extra)
  <2>1. \A m : Owns(b2, m) <=> Owns(bf, m)
    BY <1>5 DEF Owns
  <2>2. \A c, d \in Buf : \A p \in b2[c].own, q \in b2[d].own :
         b2[c].part[p] = b2[d].part[q] => c = d /\ p = q
    BY <1>5 DEF Kept, Owned
  <2> QED BY <2>1, <2>2 DEF Kept, Owned
<1>11. Ranked(b2)
  BY <1>5 DEF Kept, Ranked
<1> QED BY <1>7, <1>8, <1>9, <1>10, <1>11 DEF Kept, b2

(* NutNetBufFree() of a buffer that has none.                               *)
LEMMA GoneKept ==
    ASSUME NEW bf, NEW mem, NEW hd, NEW b \in Buf, NEW extra, Kept(bf, mem, hd, b, extra),
           bf[b].refs = 0
    PROVE  /\ Kept([bf EXCEPT ![b] = Unused], mem \ {bf[b].part[p] : p \in bf[b].own}, hd,
                   bf[b].ref, extra)
           /\ b \notin hd
<1> DEFINE b2 == [bf EXCEPT ![b] = Unused]
           mine == {bf[b].part[p] : p \in bf[b].own}
           nx == bf[b].ref
<1>1. bf \in [Buf -> Structure] /\ b \in Live(bf) /\ Null \notin Buf
  BY NetBufAssumption DEF Kept, Typed
<1>2. Refs(bf, b) = {} /\ b \notin hd
  BY <1>1, HeldAlone DEF Kept
<1>3. b2 \in [Buf -> Structure] /\ b2[b] = Unused /\ \A c \in Buf \ {b} : b2[c] = bf[c]
  BY <1>1, UnusedFacts
<1> HIDE DEF b2
<1>4. /\ \A c \in Buf : bf[c].ref # b
      /\ Live(b2) = Live(bf) \ {b}
      /\ nx # b
  BY <1>2, <1>3, UnusedFacts DEF Refs, Live
<1>5. \A c \in Buf : b2[c].own # {} \/ b2[c].ref # Null => c # b /\ b2[c] = bf[c]
  BY <1>3, UnusedFacts
<1>6. nx \in Live(b2) \cup {Null}
  BY <1>4 DEF Kept, Typed
<1>7. Typed(b2, hd, nx)
  <2>1. \A c \in Buf : ~b2[c].used => b2[c] = Unused
    BY <1>3 DEF Kept, Typed
  <2>2. \A c \in Buf : b2[c].ref # Null => b2[c].ref \in Live(b2)
    BY <1>4, <1>5 DEF Kept, Typed
  <2>3. \A c \in Buf : \A p \in b2[c].own : b2[c].part[p] # Null
    BY <1>5 DEF Kept, Typed
  <2>4. hd \subseteq Live(b2)
    BY <1>2, <1>4 DEF Kept, Typed
  <2> QED BY <1>3, <1>6, <2>1, <2>2, <2>3, <2>4 DEF Typed
<1>8. Counted(b2, hd, nx)
  <2> SUFFICES ASSUME NEW c \in Live(b2)
               PROVE  Cardinality(Refs(b2, c)) + One(c \in hd) + One(c = nx) = b2[c].refs + 1
    BY DEF Counted
  <2>1. c \in Live(bf) /\ c \in Buf /\ c # b /\ b2[c] = bf[c] /\ c # Null
    BY <1>1, <1>3, <1>4 DEF Live
  <2>2. Cardinality(Refs(bf, c)) + One(c \in hd) + One(c = b) = bf[c].refs + 1 /\ One(c = b) = 0
    BY <2>1 DEF Kept, Counted, One
  <2>3. /\ Cardinality(Refs(bf, c)) \in Nat /\ IsFiniteSet(Refs(bf, c))
        /\ Cardinality(Refs(b2, c)) \in Nat /\ One(c \in hd) \in Nat
    BY RefsFinite DEF One
  <2>4. Refs(b2, c) = Refs(bf, c) \ {b}
    BY <2>1, <1>3, UnusedFacts DEF Refs
  <2>5. CASE c = nx
    <3>1. b \in Refs(bf, c)
      BY <2>5 DEF Refs
    <3>2. Cardinality(Refs(b2, c)) = Cardinality(Refs(bf, c)) - 1
      BY <2>3, <2>4, <3>1, FS_RemoveElement
    <3>3. One(c = nx) = 1
      BY <2>5 DEF One
    <3> QED BY <2>1, <2>2, <2>3, <3>2, <3>3
  <2>6. CASE c # nx
    <3>1. Refs(b2, c) = Refs(bf, c)
      BY <2>4, <2>6 DEF Refs
    <3>2. One(c = nx) = 0
      BY <2>6 DEF One
    <3> QED BY <2>1, <2>2, <2>3, <3>1, <3>2
  <2> QED BY <2>5, <2>6
<1>9. Shared(b2)
  <2> SUFFICES ASSUME NEW c \in Buf, NEW p \in Part \ b2[c].own, b2[c].part[p] # Null
               PROVE  b2[c].ref # Null /\ b2[b2[c].ref].part[p] = b2[c].part[p]
    BY DEF Shared
  <2>1. c # b /\ b2[c] = bf[c]
    BY <1>3, UnusedFacts
  <2>2. bf[c].ref # Null /\ bf[bf[c].ref].part[p] = bf[c].part[p]
    BY <2>1 DEF Kept, Shared
  <2>3. bf[c].ref \in Buf \ {b}
    BY <2>2, <1>4 DEF Kept, Typed, Live
  <2> QED BY <1>3, <2>1, <2>2, <2>3
<1>10. Owned(b2, mem \ mine, extra)
  <2>1. \A m : Owns(b2, m) <=> Owns(bf, m) /\ m \notin mine
    <3> TAKE m
    <3>1. ASSUME Owns(b2, m) PROVE Owns(bf, m) /\ m \notin mine
      <4>1. PICK c \in Buf : \E p \in b2[c].own : b2[c].part[p] = m
        BY <3>1 DEF Owns
      <4>2. PICK p \in b2[c].own : b2[c].part[p] = m
        BY <4>1
      <4>3. c # b /\ b2[c] = bf[c] /\ p \in bf[c].own
        BY <1>5, <4>2
      <4>4. m \notin mine
        BY <4>2, <4>3 DEF Kept, Owned
      <4> QED BY <4>2, <4>3, <4>4 DEF Owns
    <3>2. ASSUME Owns(bf, m), m \notin mine PROVE Owns(b2, m)
      <4>1. PICK c \in Buf : \E p \in bf[c].own : bf[c].part[p] = m
        BY <3>2 DEF Owns
      <4>2. c # b
        BY <3>2, <4>1
      <4> QED BY <4>1, <4>2, <1>3 DEF Owns
    <3> QED BY <3>1, <3>2
  <2>2. \A m \in extra : m \notin mine
    BY DEF Kept, Owned, Owns
  <2>3. \A c, d \in Buf : \A p \in b2[c].own, q \in b2[d].own :
         b2[c].part[p] = b2[d].part[q] => c = d /\ p = q
    <3> SUFFICES ASSUME NEW c \in Buf, NEW d \in Buf, NEW p \in b2[c].own, NEW q \in b2[d].own,
                        b2[c].part[p] = b2[d].part[q]
                 PROVE  c = d /\ p = q
      OBVIOUS
    <3>1. b2[c] = bf[c] /\ b2[d] = bf[d]
      BY <1>5
    <3> QED BY <3>1 DEF Kept, Owned
  <2>4. \A m : m \in mem \ mine <=> Owns(b2, m) \/ m \in extra
    BY <2>1, <2>2 DEF Kept, Owned
  <2>5. extra \subseteq Block /\ \A m \in extra : ~Owns(b2, m)
    BY <2>1 DEF Kept, Owned
  <2> QED BY <2>3, <2>4, <2>5 DEF Owned
<1>11. Ranked(b2)
  BY <1>5 DEF Kept, Ranked
<1> QED BY <1>2, <1>7, <1>8, <1>9, <1>10, <1>11 DEF Kept, b2

Chained(f, hd, extra) ==
    /\ f = [buf |-> f.buf, memory |-> f.memory, next |-> f.next]
    /\ Kept(f.buf, f.memory, hd, f.next, extra)

LiveCount(bf) == Cardinality(Live(bf))

LEMMA LiveFacts ==
    ASSUME NEW bf
    PROVE  /\ IsFiniteSet(Live(bf)) /\ LiveCount(bf) \in Nat
           /\ LiveCount(bf) = 0 => Live(bf) = {}
           /\ LiveCount(bf) <= Cardinality(Buf)
           /\ Cardinality(Buf) \in Nat
<1>1. Live(bf) \subseteq Buf /\ IsFiniteSet(Buf)
  BY NetBufAssumption DEF Live
<1> QED BY <1>1, FS_Subset, FS_CardinalityType, FS_EmptySet DEF LiveCount

(* One round of NutNetBufFree(): a held buffer without clones is left alone, *)
(* and each round but the last puts a structure out of use.                 *)
LEMMA ReleaseKept ==
    ASSUME NEW f, NEW hd, NEW extra, Chained(f, hd, extra)
    PROVE  /\ Chained(Release(f), hd, extra)
           /\ \A b \in hd : f.buf[b].refs = 0 => Release(f).buf[b] = f.buf[b]
           /\ f.next = Null => Release(f) = f
           /\ f.next # Null => \/ Release(f).next = Null
                               \/ LiveCount(Release(f).buf) + 1 = LiveCount(f.buf)
<1> DEFINE bf == f.buf
           mem == f.memory
           b == f.next
           mine == {bf[b].part[p] : p \in bf[b].own}
<1>1. Typed(bf, hd, b) /\ bf \in [Buf -> Structure] /\ b \in Live(bf) \cup {Null}
      /\ Null \notin Buf /\ hd \subseteq Buf
  BY NetBufAssumption DEF Chained, Kept, Typed, Live
<1>2. CASE b = Null
  BY <1>2 DEF Release
<1>3. CASE b # Null /\ bf[b].refs > 0
  <2> DEFINE b2 == [bf EXCEPT ![b].refs = @ - 1]
  <2>1. b \in Buf /\ Kept(bf, mem, hd, b, extra)
    BY <1>1, <1>3 DEF Live, Chained
  <2>2. Release(f) = [buf |-> b2, memory |-> mem, next |-> Null]
    BY <1>3 DEF Release, Chained
  <2>3. Kept(b2, mem, hd, Null, extra)
    BY <1>3, <2>1, LessKept
  <2>4. \A c \in hd : bf[c].refs = 0 => b2[c] = bf[c]
    BY <1>1, <1>3
  <2> HIDE DEF b2
  <2> QED BY <1>3, <2>2, <2>3, <2>4 DEF Chained
<1>4. CASE b # Null /\ ~(bf[b].refs > 0)
  <2> DEFINE b2 == [bf EXCEPT ![b] = Unused]
             nx == bf[b].ref
  <2>1. b \in Buf /\ Kept(bf, mem, hd, b, extra) /\ b \in Live(bf)
    BY <1>1, <1>4 DEF Live, Chained
  <2>2. Release(f) = [buf |-> b2, memory |-> mem \ mine, next |-> nx]
    BY <1>4 DEF Release
  <2>3. bf[b].refs = 0
    <3>1. bf[b].refs \in 0..RefMax
      BY <1>1, <2>1 DEF Structure
    <3> QED BY <3>1, <1>4, NetBufAssumption
  <2>4. Kept(b2, mem \ mine, hd, nx, extra) /\ b \notin hd
    BY <2>1, <2>3, GoneKept
  <2>5. \A c \in hd : b2[c] = bf[c]
    BY <1>1, <2>4
  <2>6. Live(b2) = Live(bf) \ {b}
    BY <1>1, <2>1, UnusedFacts DEF Live
  <2> HIDE DEF b2, nx, mine
  <2>7. LiveCount(b2) + 1 = LiveCount(bf)
    <3>1. Cardinality(Live(b2)) = Cardinality(Live(bf)) - 1
      <4>1. IsFiniteSet(Live(bf))
        BY LiveFacts
      <4>2. Cardinality(Live(bf) \ {b}) = Cardinality(Live(bf)) - 1
        BY ONLY <2>1, <4>1, FS_RemoveElement
      <4> QED BY ONLY <2>6, <4>2
    <3> QED BY <3>1, LiveFacts DEF LiveCount
  <2> QED BY <1>4, <2>2, <2>4, <2>5, <2>7 DEF Chained
<1> QED BY <1>2, <1>3, <1>4

(* The chain of releases.                                                   *)
IsChain(g, s, n) == g[0] = s /\ \A i \in 1..n : g[i] = Release(g[i - 1])

LEMMA ChainExists ==
    ASSUME NEW s, NEW n \in Nat
    PROVE  \E g : IsChain(g, s, n)
<1> DEFINE B == {i \in 1..n : ~ \E g : IsChain(g, s, i)}
<1> SUFFICES ASSUME B # {} PROVE FALSE
  <2>1. CASE n = 0
    <3>1. IsChain([i \in {0} |-> s], s, n)
      BY <2>1 DEF IsChain
    <3> QED BY <3>1
  <2>2. CASE n # 0
    BY <2>2
  <2> QED BY <2>1, <2>2
<1>1. B \in SUBSET (1..n)
  OBVIOUS
<1>2. PICK m \in B : \A j \in B : m <= j
  <2> HIDE DEF B
  <2> QED BY <1>1, FirstPosition
<1>3. m \in 1..n /\ m - 1 \in 0..n /\ m \in Nat /\ m - 1 \in Nat
  OBVIOUS
<1>4. PICK g : IsChain(g, s, m - 1)
  <2>1. CASE m = 1
    <3>1. IsChain([i \in {0} |-> s], s, 0)
      BY DEF IsChain
    <3> QED BY <2>1, <3>1
  <2>2. CASE m # 1
    <3>1. m - 1 \in 1..n /\ ~(m <= m - 1)
      BY <1>3, <2>2
    <3> QED BY <1>2, <3>1
  <2> QED BY <2>1, <2>2
<1> DEFINE h == [i \in 0..m |-> IF i < m THEN g[i] ELSE Release(g[m - 1])]
<1>5. h[0] = s
  BY <1>3, <1>4 DEF IsChain
<1>6. \A i \in 1..m : h[i] = Release(h[i - 1])
  <2> TAKE i \in 1..m
  <2>1. i \in 0..m /\ i - 1 \in 0..m /\ i - 1 < m /\ i \in Int
    BY <1>3
  <2>2. h[i - 1] = g[i - 1]
    BY <2>1
  <2>3. CASE i < m
    <3>1. i \in 1..(m - 1) /\ h[i] = g[i]
      BY <1>3, <2>1, <2>3
    <3>2. g[i] = Release(g[i - 1])
      BY <1>4, <3>1 DEF IsChain
    <3> QED BY <2>2, <3>1, <3>2
  <2>4. CASE i = m
    BY <2>1, <2>2, <2>4
  <2> QED BY <2>1, <2>3, <2>4
<1> HIDE DEF h
<1>7. IsChain(h, s, m)
  BY <1>5, <1>6 DEF IsChain
<1> QED BY <1>2, <1>7

(* Freed() follows a chain of releases to its end.                          *)
LEMMA FreedFacts ==
    ASSUME NEW bf, NEW mem, NEW b
    PROVE  \E g : /\ IsChain(g, [buf |-> bf, memory |-> mem, next |-> b], Cardinality(Buf))
                  /\ Freed(bf, mem, b) = g[Cardinality(Buf)]
<1> DEFINE n == Cardinality(Buf)
           s == [buf |-> bf, memory |-> mem, next |-> b]
           P(f) == f = [i \in 0..n |-> IF i = 0 THEN s ELSE Release(f[i - 1])]
           t == CHOOSE f : P(f)
<1>1. n \in Nat
  BY LiveFacts
<1>2. Freed(bf, mem, b) = t[n]
  BY DEF Freed
<1> HIDE DEF n, s
<1>3. PICK g : IsChain(g, s, n)
  BY <1>1, ChainExists
<1> DEFINE h == [i \in 0..n |-> g[i]]
<1>4. P(h)
  <2>1. h = [i \in 0..n |-> h[i]]
    OBVIOUS
  <2>2. h[0] = s
    BY <1>1, <1>3 DEF IsChain
  <2>3. \A i \in 1..n : h[i] = Release(h[i - 1])
    <3> TAKE i \in 1..n
    <3>1. i \in 0..n /\ i - 1 \in 0..n
      BY <1>1
    <3> QED BY <3>1, <1>3 DEF IsChain
  <2>4. \A i \in 0..n : h[i] = IF i = 0 THEN s ELSE Release(h[i - 1])
    <3> TAKE i \in 0..n
    <3>1. i = 0 \/ i \in 1..n
      BY <1>1
    <3> HIDE DEF h
    <3> QED BY <2>2, <2>3, <3>1
  <2> HIDE DEF h
  <2> QED BY <2>1, <2>4
<1> HIDE DEF h
<1>5. P(t)
  BY <1>4
<1> HIDE DEF t
<1>6. t[0] = s
  BY <1>1, <1>5
<1>7. \A i \in 1..n : t[i] = Release(t[i - 1])
  <2> TAKE i \in 1..n
  <2>1. i \in 0..n /\ i # 0
    BY <1>1
  <2> QED BY <1>5, <2>1
<1> QED BY <1>2, <1>6, <1>7 DEF IsChain, n, s

(* Releasing ends before there are as many rounds as structures.            *)
LEMMA FreedKept ==
    ASSUME NEW bf, NEW mem, NEW hd, NEW b \in Buf, NEW extra, Kept(bf, mem, hd, b, extra)
    PROVE  /\ Kept(Freed(bf, mem, b).buf, Freed(bf, mem, b).memory, hd, Null, extra)
           /\ \A c \in hd : bf[c].refs = 0 => Freed(bf, mem, b).buf[c] = bf[c]
<1> DEFINE n == Cardinality(Buf)
           s == [buf |-> bf, memory |-> mem, next |-> b]
<1>1. n \in Nat
  BY LiveFacts
<1>2. PICK g : IsChain(g, s, n) /\ Freed(bf, mem, b) = g[n]
  BY FreedFacts
<1>3. /\ Chained(s, hd, extra) /\ s.buf = bf
  BY DEF Chained
<1>4. LiveCount(s.buf) <= n
  BY LiveFacts
<1> HIDE DEF n, s
<1> DEFINE Ok(i) == /\ Chained(g[i], hd, extra)
                    /\ \A c \in hd : bf[c].refs = 0 => g[i].buf[c] = bf[c]
                    /\ g[i].next = Null \/ LiveCount(g[i].buf) + i <= n
           B == {i \in 1..n : ~Ok(i)}
<1>5. Ok(0)
  <2>1. g[0] = s
    BY <1>2 DEF IsChain
  <2>2. LiveCount(s.buf) \in Nat
    BY LiveFacts
  <2> QED BY <1>1, <1>3, <1>4, <2>1, <2>2
<1>6. ASSUME NEW i \in 1..n, Ok(i - 1) PROVE Ok(i)
  <2>1. g[i] = Release(g[i - 1])
    BY <1>2 DEF IsChain
  <2>2. Chained(g[i - 1], hd, extra)
    BY <1>6
  <2>3. /\ Chained(g[i], hd, extra)
        /\ \A c \in hd : g[i - 1].buf[c].refs = 0 => g[i].buf[c] = g[i - 1].buf[c]
        /\ g[i - 1].next = Null => g[i] = g[i - 1]
        /\ g[i - 1].next # Null => \/ g[i].next = Null
                                   \/ LiveCount(g[i].buf) + 1 = LiveCount(g[i - 1].buf)
    BY <2>1, <2>2, ReleaseKept
  <2>4. \A c \in hd : bf[c].refs = 0 => g[i].buf[c] = bf[c]
    BY <1>6, <2>3
  <2>5. g[i].next = Null \/ LiveCount(g[i].buf) + i <= n
    <3>1. CASE g[i - 1].next = Null
      BY <2>3, <3>1
    <3>2. CASE g[i - 1].next # Null /\ LiveCount(g[i].buf) + 1 = LiveCount(g[i - 1].buf)
      <4>1. LiveCount(g[i - 1].buf) + (i - 1) <= n
        BY <1>6, <3>2
      <4>2. LiveCount(g[i].buf) \in Nat /\ LiveCount(g[i - 1].buf) \in Nat /\ i \in Nat
        BY LiveFacts
      <4> QED BY <1>1, <3>2, <4>1, <4>2
    <3> QED BY <2>3, <3>1, <3>2
  <2> QED BY <2>3, <2>4, <2>5
<1> HIDE DEF Ok
<1>7. Ok(n)
  <2> SUFFICES ASSUME ~Ok(n) PROVE FALSE
    OBVIOUS
  <2>1. n \in 1..n
    BY <1>1, <1>5
  <2>2. B \in SUBSET (1..n) /\ B # {}
    BY <2>1
  <2>3. PICK m \in B : \A j \in B : m <= j
    <3> HIDE DEF B
    <3> QED BY <1>1, <2>2, FirstPosition
  <2>4. m \in 1..n /\ m - 1 \in 0..n /\ ~Ok(m)
    BY <1>1
  <2>5. Ok(m - 1)
    <3>1. CASE m = 1
      <4>1. m - 1 = 0
        BY <3>1
      <4> QED BY <1>5, <4>1
    <3>2. CASE m # 1
      <4>1. m - 1 \in 1..n /\ ~(m <= m - 1)
        BY <1>1, <2>4, <3>2
      <4>2. m - 1 \notin B
        BY <2>3, <4>1
      <4> QED BY <4>1, <4>2
    <3> QED BY <3>1, <3>2
  <2> QED BY <1>6, <2>4, <2>5
<1>8. g[n].next = Null
  <2> SUFFICES ASSUME g[n].next # Null PROVE FALSE
    OBVIOUS
  <2>1. LiveCount(g[n].buf) + n <= n /\ LiveCount(g[n].buf) \in Nat
    BY <1>7, LiveFacts DEF Ok
  <2>2. LiveCount(g[n].buf) = 0
    BY <1>1, <2>1
  <2>3. Live(g[n].buf) = {}
    BY <2>2, LiveFacts
  <2> QED BY <1>7, <2>3 DEF Ok, Chained, Kept, Typed
<1> QED BY <1>2, <1>7, <1>8 DEF Ok, Chained

LEMMA InitKept == BufInit => BufInv
<1> SUFFICES ASSUME BufInit PROVE BufInv
  OBVIOUS
<1>1. buf = [b \in Buf |-> Unused] /\ memory = {} /\ held = {}
  BY DEF BufInit
<1>2. Live(buf) = {} /\ \A m : ~Owns(buf, m)
  BY <1>1, UnusedFacts DEF Live, Owns
<1>3. Typed(buf, held, Null)
  BY <1>1, <1>2, UnusedFacts DEF Typed
<1>4. Counted(buf, held, Null)
  BY <1>2 DEF Counted
<1>5. Shared(buf)
  BY <1>1, UnusedFacts DEF Shared
<1>6. Owned(buf, memory, {})
  BY <1>1, <1>2, UnusedFacts DEF Owned
<1>7. Ranked(buf)
  <2>1. [b \in Buf |-> 0] \in [Buf -> Nat]
    OBVIOUS
  <2> QED BY <2>1, <1>1, UnusedFacts DEF Ranked
<1> QED BY <1>3, <1>4, <1>5, <1>6, <1>7 DEF BufInv, Kept

(* A thread gives up a buffer: it is the next to release.                   *)
LEMMA GivenUp ==
    ASSUME NEW bf, NEW mem, NEW hd, NEW extra, Kept(bf, mem, hd, Null, extra), NEW b \in hd
    PROVE  b \in Buf /\ Kept(bf, mem, hd \ {b}, b, extra)
<1>1. b \in Live(bf) /\ b \in Buf /\ Null \notin Buf
  BY NetBufAssumption DEF Kept, Typed, Live
<1>2. Typed(bf, hd \ {b}, b)
  BY <1>1 DEF Kept, Typed
<1>3. Counted(bf, hd \ {b}, b)
  <2> SUFFICES ASSUME NEW c \in Live(bf)
               PROVE  Cardinality(Refs(bf, c)) + One(c \in hd \ {b}) + One(c = b) = bf[c].refs + 1
    BY DEF Counted
  <2>1. Cardinality(Refs(bf, c)) + One(c \in hd) + One(c = Null) = bf[c].refs + 1
    BY DEF Kept, Counted
  <2>2. c # Null /\ Cardinality(Refs(bf, c)) \in Nat
    BY <1>1, RefsFinite DEF Live
  <2>3. One(c \in hd) + One(c = Null) = One(c \in hd \ {b}) + One(c = b)
    BY <2>2 DEF One
  <2>4. One(c \in hd) \in Nat /\ One(c = Null) \in Nat /\ One(c \in hd \ {b}) \in Nat /\ One(c = b) \in Nat
    BY DEF One
  <2> QED BY <2>1, <2>2, <2>3, <2>4
<1> QED BY <1>1, <1>2, <1>3 DEF Kept

LEMMA FreeKept ==
    ASSUME BufInv, NEW b \in Buf, NutNetBufFree(b)
    PROVE  BufInv'
<1>1. /\ b \in held /\ held' = held \ {b}
      /\ buf' = Freed(buf, memory, b).buf /\ memory' = Freed(buf, memory, b).memory
  BY DEF NutNetBufFree
<1>2. Kept(buf, memory, held \ {b}, b, {})
  BY <1>1, GivenUp DEF BufInv
<1>3. Kept(Freed(buf, memory, b).buf, Freed(buf, memory, b).memory, held \ {b}, Null, {})
  BY <1>2, FreedKept
<1> QED BY <1>1, <1>3 DEF BufInv

(* Nobody refers to a structure that is not in use.                         *)
LEMMA UnusedAlone ==
    ASSUME NEW bf, NEW hd, NEW nx, Typed(bf, hd, nx), NEW c \in Buf, ~bf[c].used
    PROVE  /\ Refs(bf, c) = {} /\ c \notin hd /\ c \notin Live(bf) /\ bf[c] = Unused
           /\ \A b \in Buf : bf[b].ref # c
<1>1. c \notin Live(bf) /\ bf[c] = Unused /\ c # Null
  BY NetBufAssumption DEF Typed, Live
<1>2. \A b \in Buf : bf[b].ref # c
  BY <1>1 DEF Typed
<1> QED BY <1>1, <1>2 DEF Refs, Typed

(* A structure is taken: its own parts are new memory, the others those of  *)
(* the buffer it refers to, if any, which has one more reference.           *)
Fits(r, bf, mem) ==
    /\ r \in Structure /\ r.used /\ r.refs = 0
    /\ \A p \in r.own : r.part[p] \in Block \ mem
    /\ \A p, q \in r.own : r.part[p] = r.part[q] => p = q
    /\ r.ref # Null => r.ref \in Live(bf) /\ bf[r.ref].refs < RefMax
    /\ \A p \in Part \ r.own : r.part[p] # Null =>
            r.ref # Null /\ bf[r.ref].part[p] = r.part[p]

Takes(c, r, bf, mem, b2, mem2) ==
    /\ b2 \in [Buf -> Structure] /\ b2[c] = r
    /\ \A d \in Buf \ {c} :
         /\ b2[d].part = bf[d].part /\ b2[d].own = bf[d].own
         /\ b2[d].ref = bf[d].ref /\ b2[d].used = bf[d].used
         /\ b2[d].refs = IF d = r.ref THEN bf[d].refs + 1 ELSE bf[d].refs
         /\ d # r.ref => b2[d] = bf[d]
    /\ \A x : x \in mem2 <=> x \in mem \/ \E p \in r.own : r.part[p] = x

LEMMA TakenKept ==
    ASSUME NEW bf, NEW mem, NEW hd, Kept(bf, mem, hd, Null, {}),
           NEW c \in Buf, ~bf[c].used,
           NEW r, Fits(r, bf, mem), NEW b2, NEW mem2, Takes(c, r, bf, mem, b2, mem2)
    PROVE  Kept(b2, mem2, hd \cup {c}, Null, {})
<1> USE DEF Fits, Takes
<1>1. /\ bf \in [Buf -> Structure] /\ Null \notin Buf /\ Null \notin Block
      /\ Typed(bf, hd, Null) /\ Counted(bf, hd, Null)
  BY NetBufAssumption DEF Kept, Typed
<1>2. /\ Refs(bf, c) = {} /\ c \notin hd /\ c \notin Live(bf) /\ bf[c] = Unused
      /\ \A b \in Buf : bf[b].ref # c
  BY <1>1, UnusedAlone
<1>3. Live(b2) = Live(bf) \cup {c}
  BY DEF Live
<1>4. r.ref # c /\ c # Null
  BY <1>1, <1>2
<1>5. Typed(b2, hd \cup {c}, Null)
  <2>1. \A d \in Buf : ~b2[d].used => b2[d] = Unused
    <3> TAKE d \in Buf
    <3>1. CASE d = c
      BY <3>1
    <3>2. CASE d # c /\ d = r.ref
      BY <3>2, <1>1 DEF Live
    <3>3. CASE d # c /\ d # r.ref
      BY <3>3, <1>1 DEF Typed
    <3> QED BY <3>1, <3>2, <3>3
  <2>2. \A d \in Buf : b2[d].ref # Null => b2[d].ref \in Live(b2)
    BY <1>1, <1>3 DEF Typed
  <2>3. \A d \in Buf : \A p \in b2[d].own : b2[d].part[p] # Null
    <3> TAKE d \in Buf
    <3>1. CASE d = c
      BY <3>1, <1>1
    <3>2. CASE d # c
      BY <3>2, <1>1 DEF Typed
    <3> QED BY <3>1, <3>2
  <2>4. hd \cup {c} \subseteq Live(b2)
    BY <1>1, <1>3 DEF Typed
  <2> QED BY <2>1, <2>2, <2>3, <2>4 DEF Typed
<1>6. Counted(b2, hd \cup {c}, Null)
  <2> SUFFICES ASSUME NEW d \in Live(b2)
               PROVE  Cardinality(Refs(b2, d)) + One(d \in hd \cup {c}) + One(d = Null) = b2[d].refs + 1
    BY DEF Counted
  <2>1. d \in Buf /\ d # Null /\ One(d = Null) = 0
    BY <1>1 DEF Live, One
  <2>2. CASE d = c
    <3>1. Refs(b2, d) = {}
      BY <2>2, <1>2, <1>4 DEF Refs
    <3>2. One(d \in hd \cup {c}) = 1 /\ b2[d].refs = 0
      BY <2>2 DEF One
    <3>3. Cardinality(Refs(b2, d)) = 0
      BY <3>1, FS_EmptySet
    <3> QED BY <2>1, <3>2, <3>3
  <2>3. CASE d # c
    <3>1. /\ d \in Live(bf)
          /\ Cardinality(Refs(bf, d)) + One(d \in hd) + One(d = Null) = bf[d].refs + 1
      BY <1>1, <1>3, <2>3 DEF Counted
    <3>2. One(d \in hd \cup {c}) = One(d \in hd) /\ One(d \in hd) \in Nat
      BY <2>3 DEF One
    <3>3. IsFiniteSet(Refs(bf, d)) /\ Cardinality(Refs(bf, d)) \in Nat /\ Cardinality(Refs(b2, d)) \in Nat
      BY RefsFinite
    <3>4. bf[d].refs \in Nat
      BY <1>1, <2>1 DEF Structure
    <3>5. CASE d = r.ref
      <4>1. Refs(b2, d) = Refs(bf, d) \cup {c} /\ c \notin Refs(bf, d)
        BY <3>5, <1>2, <2>1 DEF Refs, Unused
      <4>2. Cardinality(Refs(b2, d)) = Cardinality(Refs(bf, d)) + 1
        <5>1. Cardinality(Refs(bf, d) \cup {c}) = Cardinality(Refs(bf, d)) + 1
          BY ONLY <3>3, <4>1, FS_AddElement
        <5> QED BY ONLY <4>1, <5>1
      <4>3. b2[d].refs = bf[d].refs + 1
        BY <2>1, <2>3, <3>5
      <4> QED BY <2>1, <3>1, <3>2, <3>3, <3>4, <4>2, <4>3
    <3>6. CASE d # r.ref
      <4>1. Refs(b2, d) = Refs(bf, d)
        BY <3>6, <1>2, <2>1 DEF Refs, Unused
      <4>2. b2[d].refs = bf[d].refs
        BY <2>1, <2>3, <3>6
      <4> QED BY <2>1, <3>1, <3>2, <3>3, <3>4, <4>1, <4>2
    <3> QED BY <3>5, <3>6
  <2> QED BY <2>2, <2>3
<1>7. Shared(b2)
  <2> SUFFICES ASSUME NEW d \in Buf, NEW p \in Part \ b2[d].own, b2[d].part[p] # Null
               PROVE  b2[d].ref # Null /\ b2[b2[d].ref].part[p] = b2[d].part[p]
    BY DEF Shared
  <2>1. CASE d = c
    <3>1. r.ref # Null /\ bf[r.ref].part[p] = r.part[p]
      BY <2>1
    <3>2. r.ref \in Buf \ {c}
      BY <3>1, <1>4 DEF Live
    <3> QED BY <2>1, <3>1, <3>2
  <2>2. CASE d # c
    <3>1. bf[d].ref # Null /\ bf[bf[d].ref].part[p] = bf[d].part[p]
      BY <2>2 DEF Kept, Shared
    <3>2. bf[d].ref \in Buf \ {c}
      BY <3>1, <1>1, <1>2 DEF Typed, Live
    <3> QED BY <2>2, <3>1, <3>2
  <2> QED BY <2>1, <2>2
<1>8. Owned(b2, mem2, {})
  <2> DEFINE mine == {r.part[p] : p \in r.own}
  <2>1. \A m : Owns(b2, m) <=> Owns(bf, m) \/ m \in mine
    <3> TAKE m
    <3>1. ASSUME Owns(b2, m) PROVE Owns(bf, m) \/ m \in mine
      BY <3>1 DEF Owns
    <3>2. ASSUME Owns(bf, m) PROVE Owns(b2, m)
      <4>1. PICK d \in Buf : \E p \in bf[d].own : bf[d].part[p] = m
        BY <3>2 DEF Owns
      <4>2. d # c
        BY <4>1, <1>2, UnusedFacts
      <4> QED BY <4>1, <4>2 DEF Owns
    <3>3. ASSUME m \in mine PROVE Owns(b2, m)
      BY <3>3 DEF Owns
    <3> QED BY <3>1, <3>2, <3>3
  <2>2. \A m : m \in mem <=> Owns(bf, m)
    BY DEF Kept, Owned
  <2>3. \A m \in mine : ~Owns(bf, m)
    BY <2>2
  <2>4. \A d, e \in Buf : \A p \in b2[d].own, q \in b2[e].own :
         b2[d].part[p] = b2[e].part[q] => d = e /\ p = q
    <3> SUFFICES ASSUME NEW d \in Buf, NEW e \in Buf, NEW p \in b2[d].own, NEW q \in b2[e].own,
                        b2[d].part[p] = b2[e].part[q]
                 PROVE  d = e /\ p = q
      OBVIOUS
    <3>1. CASE d = c /\ e = c
      BY <3>1
    <3>2. CASE d = c /\ e # c
      <4>1. Owns(bf, bf[e].part[q]) /\ bf[e].part[q] \in mine
        BY <3>2 DEF Owns
      <4> QED BY <4>1, <2>3
    <3>3. CASE d # c /\ e = c
      <4>1. Owns(bf, bf[d].part[p]) /\ bf[d].part[p] \in mine
        BY <3>3 DEF Owns
      <4> QED BY <4>1, <2>3
    <3>4. CASE d # c /\ e # c
      BY <3>4 DEF Kept, Owned
    <3> QED BY <3>1, <3>2, <3>3, <3>4
  <2>5. \A m : m \in mem2 <=> Owns(b2, m)
    BY <2>1, <2>2
  <2> QED BY <2>4, <2>5 DEF Owned
<1>9. Ranked(b2)
  <2>1. PICK rank \in [Buf -> Nat] : \A b \in Buf : bf[b].ref # Null => rank[bf[b].ref] < rank[b]
    BY DEF Kept, Ranked
  <2> DEFINE top == IF r.ref = Null THEN 0 ELSE rank[r.ref] + 1
             rank2 == [rank EXCEPT ![c] = top]
  <2>2. top \in Nat /\ (r.ref # Null => rank[r.ref] < top)
    BY <2>1 DEF Live
  <2>3. rank2 \in [Buf -> Nat] /\ rank2[c] = top /\ \A d \in Buf \ {c} : rank2[d] = rank[d]
    BY <2>1, <2>2
  <2> HIDE DEF top, rank2
  <2>4. ASSUME NEW d \in Buf, b2[d].ref # Null PROVE rank2[b2[d].ref] < rank2[d]
    <3>1. CASE d = c
      <4>1. r.ref \in Buf \ {c}
        BY <2>4, <3>1, <1>4 DEF Live
      <4> QED BY <2>2, <2>3, <2>4, <3>1, <4>1
    <3>2. CASE d # c
      <4>1. bf[d].ref # Null /\ b2[d].ref = bf[d].ref
        BY <2>4, <3>2
      <4>2. bf[d].ref \in Buf \ {c}
        BY <4>1, <1>1, <1>2 DEF Typed, Live
      <4> QED BY <2>1, <2>3, <3>2, <4>1, <4>2
    <3> QED BY <3>1, <3>2
  <2> QED BY <2>3, <2>4 DEF Ranked
<1> QED BY <1>5, <1>6, <1>7, <1>8, <1>9 DEF Kept

LEMMA AllocNewKept ==
    ASSUME BufInv, NEW b \in Buf, NEW p \in Part, NutNetBufAllocNew(b, p)
    PROVE  BufInv'
<1>1. PICK m \in Block \ memory :
        /\ buf' = [buf EXCEPT ![b] = [Unused EXCEPT !.part[p] = m, !.own = {p}, !.used = TRUE]]
        /\ memory' = memory \cup {m}
  BY DEF NutNetBufAllocNew
<1>2. ~buf[b].used /\ held' = held \cup {b}
  BY DEF NutNetBufAllocNew
<1> DEFINE r == [Unused EXCEPT !.part[p] = m, !.own = {p}, !.used = TRUE]
           b2 == [buf EXCEPT ![b] = r]
<1>3. /\ r \in Structure /\ r.used /\ r.refs = 0 /\ r.ref = Null /\ r.own = {p}
      /\ r.part[p] = m /\ \A q \in Part \ {p} : r.part[q] = Null
  <2>1. Unused \in Structure /\ {p} \in SUBSET Part /\ m \in Block
    BY UnusedFacts
  <2>2. /\ r \in Structure /\ r.used /\ r.refs = Unused.refs /\ r.ref = Unused.ref /\ r.own = {p}
        /\ r.part[p] = m /\ \A q \in Part \ {p} : r.part[q] = Unused.part[q]
    <3> PICK u : u = Unused
      OBVIOUS
    <3> QED BY <2>1 DEF Structure
  <2> QED BY <2>2, UnusedFacts
<1>4. buf \in [Buf -> Structure] /\ Null \notin Buf
  BY NetBufAssumption DEF BufInv, Kept, Typed
<1> HIDE DEF r
<1>5. b2 \in [Buf -> Structure] /\ b2[b] = r /\ \A d \in Buf \ {b} : b2[d] = buf[d]
  BY <1>3, <1>4
<1>7. buf' = b2
  BY <1>1 DEF r
<1> HIDE DEF b2
<1>8. Fits(r, buf, memory)
  BY <1>3 DEF Fits
<1>9. Takes(b, r, buf, memory, b2, memory')
  <2>1. \A x : x \in memory' <=> x \in memory \/ \E q \in r.own : r.part[q] = x
    BY <1>1, <1>3
  <2>2. \A d \in Buf \ {b} : d # r.ref
    BY <1>3, <1>4
  <2> QED BY <1>5, <2>1, <2>2 DEF Takes
<1>10. Kept(b2, memory', held \cup {b}, Null, {})
  BY <1>2, <1>8, <1>9, TakenKept DEF BufInv
<1> QED BY <1>2, <1>7, <1>10 DEF BufInv

(* A part of a buffer without clones is allocated anew.                     *)
LEMMA PartKept ==
    ASSUME NEW bf, NEW mem, NEW hd, NEW extra, Kept(bf, mem, hd, Null, extra),
           NEW b \in hd, bf[b].refs = 0, NEW p \in Part, NEW m \in Block,
           NEW old, old = IF p \in bf[b].own THEN {bf[b].part[p]} ELSE {},
           Owns(bf, m) => m \in old,
           NEW mem2, \A x : x \in mem2 <=> (Owns(bf, x) /\ x \notin old) \/ x = m
    PROVE  Kept([bf EXCEPT ![b].part[p] = m, ![b].own = @ \cup {p}], mem2, hd, Null, {})
<1> DEFINE b2 == [bf EXCEPT ![b].part[p] = m, ![b].own = @ \cup {p}]
           r == [bf[b] EXCEPT !.part[p] = m, !.own = @ \cup {p}]
<1>1. /\ bf \in [Buf -> Structure] /\ Null \notin Buf /\ Null \notin Block
      /\ Typed(bf, hd, Null) /\ Counted(bf, hd, Null) /\ b \in Live(bf) /\ b \in Buf
  BY NetBufAssumption DEF Kept, Typed, Live
<1>2. Refs(bf, b) = {} /\ \A d \in Buf : bf[d].ref # b
  <2>1. Refs(bf, b) = {}
    BY <1>1, HeldAlone
  <2> QED BY <2>1 DEF Refs
<1>3. bf[b] \in Structure
  BY <1>1
<1>4. /\ r \in Structure /\ r.refs = bf[b].refs /\ r.ref = bf[b].ref /\ r.used = bf[b].used
      /\ r.own = bf[b].own \cup {p} /\ r.part[p] = m
      /\ \A q \in Part \ {p} : r.part[q] = bf[b].part[q]
  BY <1>3 DEF Structure
<1>5. b2 \in [Buf -> Structure] /\ b2[b] = r /\ \A d \in Buf \ {b} : b2[d] = bf[d]
  BY <1>1, <1>4
<1> HIDE DEF b2, r
<1>6. \A d \in Buf : b2[d].ref = bf[d].ref /\ b2[d].refs = bf[d].refs /\ b2[d].used = bf[d].used
  BY <1>4, <1>5
<1>7. Live(b2) = Live(bf) /\ \A d : Refs(b2, d) = Refs(bf, d)
  BY <1>6 DEF Live, Refs
<1>8. Typed(b2, hd, Null)
  <2>1. \A d \in Buf : ~b2[d].used => b2[d] = Unused
    BY <1>1, <1>5, <1>6 DEF Typed, Live
  <2>2. \A d \in Buf : b2[d].ref # Null => b2[d].ref \in Live(b2)
    BY <1>1, <1>6, <1>7 DEF Typed
  <2>3. \A d \in Buf : \A q \in b2[d].own : b2[d].part[q] # Null
    <3> SUFFICES ASSUME NEW d \in Buf, NEW q \in b2[d].own PROVE b2[d].part[q] # Null
      OBVIOUS
    <3>1. CASE d # b
      BY <3>1, <1>1, <1>5 DEF Typed
    <3>2. CASE d = b /\ q = p
      BY <3>2, <1>1, <1>4, <1>5
    <3>3. CASE d = b /\ q # p
      <4>1. q \in bf[b].own /\ q \in Part \ {p}
        BY <3>3, <1>3, <1>4, <1>5 DEF Structure
      <4> QED BY <4>1, <3>3, <1>1, <1>4, <1>5 DEF Typed
    <3> QED BY <3>1, <3>2, <3>3
  <2>4. hd \subseteq Live(b2)
    BY <1>1, <1>7 DEF Typed
  <2> QED BY <1>5, <2>1, <2>2, <2>3, <2>4 DEF Typed
<1>9. Counted(b2, hd, Null)
  <2> SUFFICES ASSUME NEW d \in Live(b2)
               PROVE  Cardinality(Refs(b2, d)) + One(d \in hd) + One(d = Null) = b2[d].refs + 1
    BY DEF Counted
  <2>1. d \in Live(bf) /\ b2[d].refs = bf[d].refs /\ Refs(b2, d) = Refs(bf, d)
    BY <1>6, <1>7 DEF Live
  <2> QED BY <2>1, <1>1 DEF Counted
<1>10. Shared(b2)
  <2> SUFFICES ASSUME NEW d \in Buf, NEW q \in Part \ b2[d].own, b2[d].part[q] # Null
               PROVE  b2[d].ref # Null /\ b2[b2[d].ref].part[q] = b2[d].part[q]
    BY DEF Shared
  <2>1. q \in Part \ bf[d].own /\ b2[d].part[q] = bf[d].part[q] /\ b2[d].ref = bf[d].ref
    BY <1>4, <1>5
  <2>2. bf[d].ref # Null /\ bf[bf[d].ref].part[q] = bf[d].part[q]
    BY <2>1 DEF Kept, Shared
  <2>3. bf[d].ref \in Buf \ {b}
    BY <2>2, <1>1, <1>2 DEF Typed, Live
  <2> QED BY <1>5, <2>1, <2>2, <2>3
<1>11. Owned(b2, mem2, {})
  <2>1. \A d, e \in Buf : \A q \in bf[d].own, s \in bf[e].own :
         bf[d].part[q] = bf[e].part[s] => d = e /\ q = s
    BY DEF Kept, Owned
  <2>2. ASSUME NEW d \in Buf, NEW q \in b2[d].own
        PROVE  \/ d = b /\ q = p /\ b2[d].part[q] = m
               \/ /\ q \in bf[d].own /\ b2[d].part[q] = bf[d].part[q] /\ ~(d = b /\ q = p)
                  /\ bf[d].part[q] \notin old /\ bf[d].part[q] # m
    <3>1. CASE d = b /\ q = p
      BY <3>1, <1>4, <1>5
    <3>2. CASE ~(d = b /\ q = p)
      <4>1. q \in bf[d].own /\ b2[d].part[q] = bf[d].part[q]
        <5>1. CASE d = b
          <6>1. q \in bf[b].own /\ q \in Part \ {p}
            BY <3>2, <5>1, <1>3, <1>4, <1>5 DEF Structure
          <6> QED BY <5>1, <6>1, <1>4, <1>5
        <5>2. CASE d # b
          BY <5>2, <1>5
        <5> QED BY <5>1, <5>2
      <4>2. bf[d].part[q] \notin old
        <5> SUFFICES ASSUME bf[d].part[q] \in old PROVE FALSE
          OBVIOUS
        <5>1. p \in bf[b].own /\ bf[d].part[q] = bf[b].part[p]
          OBVIOUS
        <5>2. d = b /\ q = p
          BY ONLY <2>1, <4>1, <5>1, <1>1, d \in Buf
        <5> QED BY <3>2, <5>2
      <4>3. Owns(bf, bf[d].part[q])
        BY <4>1 DEF Owns
      <4> QED BY <3>2, <4>1, <4>2, <4>3
    <3> QED BY <3>1, <3>2
  <2>3. \A x : Owns(b2, x) <=> (Owns(bf, x) /\ x \notin old) \/ x = m
    <3> TAKE x
    <3>1. ASSUME Owns(b2, x) PROVE (Owns(bf, x) /\ x \notin old) \/ x = m
      BY <2>2, <3>1 DEF Owns
    <3>2. ASSUME x = m PROVE Owns(b2, x)
      <4>1. p \in b2[b].own /\ b2[b].part[p] = m
        BY <1>4, <1>5
      <4> QED BY <4>1, <3>2, <1>1 DEF Owns
    <3>3. ASSUME Owns(bf, x), x \notin old PROVE Owns(b2, x)
      <4>1. PICK d \in Buf : \E q \in bf[d].own : bf[d].part[q] = x
        BY <3>3 DEF Owns
      <4>2. PICK q \in bf[d].own : bf[d].part[q] = x
        BY <4>1
      <4>3. ~(d = b /\ q = p)
        BY <3>3, <4>2
      <4>4. q \in b2[d].own /\ b2[d].part[q] = x
        <5>1. q \in Part
          BY <1>1 DEF Structure
        <5> QED BY <5>1, <4>2, <4>3, <1>4, <1>5
      <4> QED BY <4>4 DEF Owns
    <3> QED BY <3>1, <3>2, <3>3
  <2>4. \A d, e \in Buf : \A q \in b2[d].own, s \in b2[e].own :
         b2[d].part[q] = b2[e].part[s] => d = e /\ q = s
    <3> SUFFICES ASSUME NEW d \in Buf, NEW e \in Buf, NEW q \in b2[d].own, NEW s \in b2[e].own,
                        b2[d].part[q] = b2[e].part[s]
                 PROVE  d = e /\ q = s
      OBVIOUS
    <3>1. CASE d = b /\ q = p
      BY <3>1, <2>2
    <3>2. CASE e = b /\ s = p
      BY <3>2, <2>2
    <3>3. CASE ~(d = b /\ q = p) /\ ~(e = b /\ s = p)
      BY <3>3, <2>1, <2>2
    <3> QED BY <3>1, <3>2, <3>3
  <2> QED BY <2>3, <2>4 DEF Owned
<1>12. Ranked(b2)
  BY <1>6 DEF Kept, Ranked
<1> QED BY <1>8, <1>9, <1>10, <1>11, <1>12 DEF Kept, b2

LEMMA AllocKept ==
    ASSUME BufInv, NEW b \in Buf, NEW p \in Part, NutNetBufAlloc(b, p)
    PROVE  BufInv'
<1> DEFINE old == IF p \in buf[b].own THEN {buf[b].part[p]} ELSE {}
<1>1. b \in held /\ buf[b].refs = 0 /\ Kept(buf, memory, held, Null, {})
  BY DEF NutNetBufAlloc, BufInv
<1>2. CASE /\ \E m \in Block \ (memory \ old) :
                   /\ buf' = [buf EXCEPT ![b].part[p] = m, ![b].own = @ \cup {p}]
                   /\ memory' = (memory \ old) \cup {m}
           /\ held' = held
  <2>1. PICK m \in Block \ (memory \ old) :
                   /\ buf' = [buf EXCEPT ![b].part[p] = m, ![b].own = @ \cup {p}]
                   /\ memory' = (memory \ old) \cup {m}
    BY <1>2
  <2>2. PICK mem2 : mem2 = (memory \ old) \cup {m}
    OBVIOUS
  <2>3. PICK o : o = old
    OBVIOUS
  <2>4. \A x : x \in memory <=> Owns(buf, x)
    BY <1>1 DEF Kept, Owned
  <2> DEFINE b2 == [buf EXCEPT ![b].part[p] = m, ![b].own = @ \cup {p}]
  <2>5. Kept(b2, mem2, held, Null, {})
    <3>1. Owns(buf, m) => m \in o
      BY <2>1, <2>3, <2>4
    <3>2. \A x : x \in mem2 <=> (Owns(buf, x) /\ x \notin o) \/ x = m
      BY <2>2, <2>3, <2>4
    <3>3. m \in Block
      OBVIOUS
    <3> HIDE DEF old
    <3> QED BY ONLY <1>1, <2>3, <3>1, <3>2, <3>3, p \in Part, PartKept DEF old
  <2>6. buf' = b2 /\ memory' = mem2
    BY <2>1, <2>2
  <2> HIDE DEF b2
  <2> QED BY <1>2, <2>5, <2>6 DEF BufInv
<1>3. CASE /\ buf' = Freed(buf, memory, b).buf
           /\ memory' = Freed(buf, memory, b).memory
           /\ held' = held \ {b}
  <2>1. Kept(buf, memory, held \ {b}, b, {})
    BY <1>1, GivenUp
  <2>2. Kept(Freed(buf, memory, b).buf, Freed(buf, memory, b).memory, held \ {b}, Null, {})
    BY <2>1, FreedKept
  <2> QED BY <1>3, <2>2 DEF BufInv
<1> QED BY <1>2, <1>3 DEF NutNetBufAlloc

LEMMA CollectKept ==
    ASSUME BufInv, NEW b \in Buf, NEW next \in Buf, NEW p \in Part, NutNetBufCollect(b, next, p)
    PROVE  BufInv'
<1>1. /\ b \in held /\ next \in held \ {b} /\ buf[b].refs = 0
      /\ held' = held \ {next} /\ Kept(buf, memory, held, Null, {})
  BY DEF NutNetBufCollect, BufInv
<1> DEFINE old == IF p \in buf[b].own THEN {buf[b].part[p]} ELSE {}
           f(m) == Freed(buf, memory \cup {m}, next)
<1>2. PICK m \in Block \ memory :
        /\ buf' = [f(m).buf EXCEPT ![b].part[p] = m, ![b].own = @ \cup {p}]
        /\ memory' = f(m).memory \ old
  BY DEF NutNetBufCollect
<1>3. Kept(buf, memory \cup {m}, held, Null, {m})
  <2>1. \A x : x \in memory <=> Owns(buf, x)
    BY <1>1 DEF Kept, Owned
  <2>2. Owned(buf, memory \cup {m}, {m})
    BY <1>1, <2>1 DEF Kept, Owned
  <2> QED BY <1>1, <2>2 DEF Kept
<1>4. Kept(buf, memory \cup {m}, held \ {next}, next, {m})
  BY <1>1, <1>3, GivenUp
<1>5. PICK bf : bf = f(m).buf
  OBVIOUS
<1>6. PICK mem : mem = f(m).memory
  OBVIOUS
<1>7. PICK hd : hd = held \ {next}
  OBVIOUS
<1>8. Kept(bf, mem, hd, Null, {m}) /\ bf[b] = buf[b]
  <2>1. PICK mm : mm = memory \cup {m}
    OBVIOUS
  <2>2. Kept(buf, mm, hd, next, {m}) /\ next \in Buf
    BY <1>4, <1>7, <2>1
  <2>3. PICK ex : ex = {m}
    OBVIOUS
  <2>4. /\ Kept(Freed(buf, mm, next).buf, Freed(buf, mm, next).memory, hd, Null, ex)
        /\ \A c \in hd : buf[c].refs = 0 => Freed(buf, mm, next).buf[c] = buf[c]
    BY ONLY <2>2, <2>3, FreedKept
  <2>5. b \in hd
    BY <1>1, <1>7
  <2>6. bf = Freed(buf, mm, next).buf /\ mem = Freed(buf, mm, next).memory
    BY <1>5, <1>6, <2>1
  <2> QED BY ONLY <1>1, <2>3, <2>4, <2>5, <2>6
<1>9. PICK o : o = old
  OBVIOUS
<1>10. PICK mem2 : mem2 = mem \ o
  OBVIOUS
<1> DEFINE b2 == [bf EXCEPT ![b].part[p] = m, ![b].own = @ \cup {p}]
<1>11. Kept(b2, mem2, hd, Null, {})
  <2>1. /\ \A x : x \in mem <=> Owns(bf, x) \/ x = m
        /\ ~Owns(bf, m)
    BY <1>8 DEF Kept, Owned
  <2>2. o = IF p \in bf[b].own THEN {bf[b].part[p]} ELSE {}
    BY <1>8, <1>9
  <2>3. m \notin o
    BY <2>1, <2>2 DEF Owns
  <2>4. \A x : x \in mem2 <=> (Owns(bf, x) /\ x \notin o) \/ x = m
    BY <1>10, <2>1, <2>3
  <2>5. bf[b].refs = 0 /\ b \in hd /\ m \in Block /\ p \in Part
    BY <1>1, <1>8, <1>7
  <2>6. PICK ex : ex = {m}
    OBVIOUS
  <2>7. Kept(bf, mem, hd, Null, ex) /\ (Owns(bf, m) => m \in o)
    BY <1>8, <2>1, <2>6
  <2> QED BY ONLY <2>2, <2>4, <2>5, <2>7, PartKept
<1>12. buf' = b2 /\ memory' = mem2
  BY <1>2, <1>5, <1>6, <1>9, <1>10
<1> HIDE DEF b2
<1> QED BY <1>1, <1>11, <1>12, <1>7 DEF BufInv

LEMMA NextCount ==
    ASSUME NEW n \in 0..RefMax, n # RefMax
    PROVE  (n + 1) % (RefMax + 1) = n + 1 /\ n + 1 \in 0..RefMax /\ n < RefMax
BY NetBufAssumption

LEMMA CloneKept ==
    ASSUME BufInv, NEW b \in Buf, NEW c \in Buf, NEW inserts \in SUBSET Part,
           NutNetBufClonePart(b, c, inserts)
    PROVE  BufInv'
<1> DEFINE copied == Copied(b, inserts)
           shares == Parts(b) \ copied # {}
           ref == IF shares THEN b ELSE Null
           parts(new) == [p \in Part |-> IF p \in copied THEN new[p] ELSE buf[b].part[p]]
           rec(new) == [part |-> parts(new), own |-> copied, refs |-> 0, ref |-> ref, used |-> TRUE]
           count(n) == IF shares THEN (n + 1) % (RefMax + 1) ELSE n
<1>1. b \in held /\ ~buf[c].used /\ held' = held \cup {c}
  BY DEF NutNetBufClonePart
<1>2. PICK new \in [copied -> Block \ memory] :
        /\ \A p, q \in copied : p # q => new[p] # new[q]
        /\ buf' = [buf EXCEPT ![c] = rec(new),
                              ![b].refs = IF shares THEN (@ + 1) % (RefMax + 1) ELSE @]
        /\ memory' = memory \cup {new[p] : p \in copied}
  BY DEF NutNetBufClonePart
<1>3. /\ buf \in [Buf -> Structure] /\ Null \notin Buf /\ Null \notin Block
      /\ b \in Live(buf) /\ buf[b] \in Structure /\ b # c
  BY <1>1, NetBufAssumption DEF BufInv, Kept, Typed, Live
<1>4. /\ copied \subseteq Parts(b) /\ Parts(b) \subseteq Part
      /\ \A p \in Part : buf[b].part[p] # Null => p \in Parts(b)
  BY DEF Copied, Parts
<1>5. shares => buf[b].refs # RefMax
  BY DEF Copied
<1>6. buf[b].refs \in 0..RefMax
  BY <1>3 DEF Structure
<1>7. count(buf[b].refs) = (IF shares THEN buf[b].refs + 1 ELSE buf[b].refs)
      /\ count(buf[b].refs) \in 0..RefMax
      /\ (shares => buf[b].refs < RefMax)
  BY <1>5, <1>6, NextCount
<1>8. ref = (IF shares THEN b ELSE Null)
  OBVIOUS
<1>9. \A p \in Parts(b) \ copied : shares
  OBVIOUS
<1> DEFINE r == rec(new)
<1>10. /\ r.part = parts(new) /\ r.own = copied /\ r.refs = 0 /\ r.ref = ref /\ r.used = TRUE
  OBVIOUS
<1>11. /\ parts(new) \in [Part -> Block \cup {Null}]
       /\ \A p \in copied : parts(new)[p] = new[p]
       /\ \A p \in Part \ copied : parts(new)[p] = buf[b].part[p]
  <2>1. \A p \in Part : buf[b].part[p] \in Block \cup {Null}
    BY <1>3 DEF Structure
  <2>2. \A p \in copied : new[p] \in Block
    BY <1>2
  <2> HIDE DEF copied
  <2> QED BY <2>1, <2>2, <1>4
<1>12. r \in Structure
  <2>1. copied \in SUBSET Part /\ ref \in Buf \cup {Null} /\ 0 \in 0..RefMax
    BY <1>4, NetBufAssumption
  <2> HIDE DEF copied, ref, parts
  <2> QED BY <2>1, <1>11 DEF Structure
<1> HIDE DEF copied, shares, ref, parts, r, count
<1>13. Fits(r, buf, memory)
  <2>1. \A p \in r.own : r.part[p] \in Block \ memory
    BY <1>2, <1>10, <1>11
  <2>2. \A p, q \in r.own : r.part[p] = r.part[q] => p = q
    BY <1>2, <1>10, <1>11
  <2>3. r.ref # Null => r.ref \in Live(buf) /\ buf[r.ref].refs < RefMax
    BY <1>3, <1>7, <1>8, <1>10
  <2>4. ASSUME NEW p \in Part \ r.own, r.part[p] # Null
        PROVE  r.ref # Null /\ buf[r.ref].part[p] = r.part[p]
    <3>1. p \in Parts(b) \ copied /\ r.part[p] = buf[b].part[p]
      BY <2>4, <1>4, <1>10, <1>11
    <3> QED BY <3>1, <1>3, <1>8, <1>9, <1>10
  <2> QED BY <1>10, <1>12, <2>1, <2>2, <2>3, <2>4 DEF Fits
<1> DEFINE s == [buf[b] EXCEPT !.refs = count(buf[b].refs)]
<1>14. /\ s \in Structure /\ s.refs = count(buf[b].refs) /\ s.part = buf[b].part
       /\ s.own = buf[b].own /\ s.ref = buf[b].ref /\ s.used = buf[b].used
  BY <1>3, <1>7 DEF Structure
<1> DEFINE b2 == [buf EXCEPT ![c] = r, ![b] = s]
<1>15. s = [buf[b] EXCEPT !.refs = IF shares THEN (@ + 1) % (RefMax + 1) ELSE @]
  BY DEF count
<1>16. buf' = b2
  <2>1. buf' = [buf EXCEPT ![c] = r, ![b] =
                   [buf[b] EXCEPT !.refs = IF shares THEN (@ + 1) % (RefMax + 1) ELSE @]]
    <3> HIDE DEF s
    <3> QED BY <1>2, <1>3 DEF r
  <2> QED BY <2>1, <1>15
<1> HIDE DEF s
<1>17. /\ b2 \in [Buf -> Structure] /\ b2[c] = r /\ b2[b] = s
       /\ \A d \in Buf : d # b /\ d # c => b2[d] = buf[d]
  BY <1>3, <1>12, <1>14
<1> HIDE DEF b2
<1>18. ~shares => s = buf[b]
  BY <1>3, <1>7 DEF s, count, Structure
<1>19. Takes(c, r, buf, memory, b2, memory')
  <2>1. \A x : x \in memory' <=> x \in memory \/ \E p \in r.own : r.part[p] = x
    BY <1>2, <1>10, <1>11
  <2>2. ASSUME NEW d \in Buf \ {c}
        PROVE  /\ b2[d].part = buf[d].part /\ b2[d].own = buf[d].own
               /\ b2[d].ref = buf[d].ref /\ b2[d].used = buf[d].used
               /\ b2[d].refs = IF d = r.ref THEN buf[d].refs + 1 ELSE buf[d].refs
               /\ d # r.ref => b2[d] = buf[d]
    <3>1. CASE d = b
      BY <3>1, <1>3, <1>7, <1>8, <1>10, <1>14, <1>17, <1>18
    <3>2. CASE d # b
      BY <3>2, <1>3, <1>8, <1>10, <1>17
    <3> QED BY <3>1, <3>2
  <2> QED BY <1>17, <2>1, <2>2 DEF Takes
<1>20. Kept(b2, memory', held \cup {c}, Null, {})
  BY <1>1, <1>13, <1>19, TakenKept DEF BufInv
<1> QED BY <1>1, <1>16, <1>20 DEF BufInv

(* Each structure in use counts the clones that refer to it and its holder, *)
(* the parts a clone shares are those of the buffer it refers to, each block *)
(* belongs to one part of one buffer, and references do not go round, for any *)
(* numbers of buffers, blocks, parts and references (dev/netbuf.c).         *)
THEOREM BufInvariant == BufSpec => []BufInv
<1>1. BufInit => BufInv
  BY InitKept
<1>2. BufInv /\ [BufNext]_bufVars => BufInv'
  <2> SUFFICES ASSUME BufInv, [BufNext]_bufVars PROVE BufInv'
    OBVIOUS
  <2>1. CASE BufNext
    <3>1. PICK b \in Buf :
        \/ NutNetBufFree(b)
        \/ \E p \in Part : NutNetBufAllocNew(b, p) \/ NutNetBufAlloc(b, p)
        \/ \E c \in Buf : \/ \E inserts \in SUBSET Part : NutNetBufClonePart(b, c, inserts)
                          \/ \E p \in Part : NutNetBufCollect(b, c, p)
      BY <2>1 DEF BufNext
    <3> QED BY <3>1, FreeKept, AllocNewKept, AllocKept, CloneKept, CollectKept
  <2>2. CASE UNCHANGED bufVars
    BY <2>2 DEF bufVars, BufInv
  <2> QED BY <2>1, <2>2
<1> QED BY <1>1, <1>2, PTL DEF BufSpec

(* Along the references each part leads to the buffer that has allocated it. *)
LEMMA PartsLead ==
    ASSUME NEW bf, NEW mem, NEW hd, NEW extra, Kept(bf, mem, hd, Null, extra),
           NEW b \in Buf, NEW p \in Part, bf[b].part[p] # Null
    PROVE  bf[b].part[p] \in mem
<1>1. PICK rank \in [Buf -> Nat] : \A c \in Buf : bf[c].ref # Null => rank[bf[c].ref] < rank[c]
  BY DEF Kept, Ranked
<1> DEFINE Bad(c) == bf[c].part[p] # Null /\ bf[c].part[p] \notin mem
           n == rank[b] + 1
           B == {i \in 1..n : \E c \in Buf : Bad(c) /\ rank[c] + 1 = i}
<1> SUFFICES ASSUME Bad(b) PROVE FALSE
  OBVIOUS
<1>2. n \in Nat /\ B \in SUBSET (1..n) /\ n \in B
  BY <1>1
<1>3. PICK m \in B : \A j \in B : m <= j
  <2> HIDE DEF B, n
  <2> QED BY <1>2, FirstPosition
<1>4. PICK c \in Buf : Bad(c) /\ rank[c] + 1 = m
  BY <1>3
<1>5. p \notin bf[c].own
  BY <1>4 DEF Kept, Owned, Owns
<1>6. bf[c].ref # Null /\ bf[bf[c].ref].part[p] = bf[c].part[p]
  BY <1>4, <1>5 DEF Kept, Shared
<1>7. PICK d \in Buf : d = bf[c].ref
  BY <1>6 DEF Kept, Typed, Live
<1>8. Bad(d) /\ rank[d] < rank[c] /\ rank[d] \in Nat /\ rank[c] \in Nat
  BY <1>1, <1>4, <1>6, <1>7
<1>9. rank[d] + 1 \in 1..n
  BY <1>2, <1>3, <1>4, <1>8
<1>10. rank[d] + 1 \in B
  BY <1>8, <1>9
<1>11. m <= rank[d] + 1
  BY <1>3, <1>10
<1> QED BY <1>4, <1>8, <1>11

(* BuffersKept: whatever the order in which buffers and clones are released, *)
(* no part in use is given back (dev/netbuf.c:364) and nothing is left when *)
(* nobody has a buffer.                                                     *)
THEOREM MemoryKeptAsUsed == BufSpec => []BuffersKept
<1>1. BufInv => BuffersKept
  <2> SUFFICES ASSUME BufInv PROVE BuffersKept
    OBVIOUS
  <2>1. Kept(buf, memory, held, Null, {}) /\ Using = Live(buf)
    BY DEF BufInv, Using, Live
  <2>2. PartsAlive
    <3>1. \A b \in held : b \in Live(buf) /\ b \in Buf
      BY <2>1 DEF Kept, Typed, Live
    <3>2. \A b \in Buf : \A p \in Parts(b) : buf[b].part[p] \in memory
      BY <2>1, PartsLead DEF Parts
    <3> QED BY <2>1, <3>1, <3>2 DEF PartsAlive
  <2>3. memory = UNION {{buf[b].part[p] : p \in buf[b].own} : b \in Using}
    <3>1. \A x : x \in memory <=> Owns(buf, x)
      BY <2>1 DEF Kept, Owned
    <3>2. \A b \in Buf : buf[b].own # {} => b \in Live(buf)
      BY <2>1, UnusedFacts DEF Kept, Typed, Live
    <3>3. \A x : Owns(buf, x) <=> \E b \in Live(buf) : \E p \in buf[b].own : buf[b].part[p] = x
      BY <3>2 DEF Owns, Live
    <3> QED BY <2>1, <3>1, <3>3
  <2>4. \A b, c \in Using : \A p \in buf[b].own, q \in buf[c].own :
         buf[b].part[p] = buf[c].part[q] => b = c /\ p = q
    BY <2>1 DEF Kept, Owned, Live
  <2>5. \A b \in Using : b \in held \/ \E c \in Using : buf[c].ref = b
    <3> SUFFICES ASSUME NEW b \in Live(buf), b \notin held
                 PROVE  \E c \in Live(buf) : buf[c].ref = b
      BY <2>1
    <3>1. Cardinality(Refs(buf, b)) + One(b \in held) + One(b = Null) = buf[b].refs + 1
      BY <2>1 DEF Kept, Counted
    <3>2. b \in Buf /\ b # Null /\ One(b \in held) = 0 /\ One(b = Null) = 0 /\ buf[b].refs \in 0..RefMax
      BY <2>1, NetBufAssumption DEF Kept, Typed, Live, One, Structure
    <3>3. Refs(buf, b) # {}
      BY <3>1, <3>2, RefsFinite, NetBufAssumption
    <3>4. PICK c \in Buf : buf[c].ref = b
      BY <3>3 DEF Refs
    <3>5. buf[c].used
      BY <3>2, <3>4, <2>1, UnusedFacts DEF Kept, Typed
    <3> QED BY <3>4, <3>5 DEF Live
  <2> QED BY <2>2, <2>3, <2>4, <2>5 DEF BuffersKept, NothingLeaked
<1> QED BY <1>1, BufInvariant, PTL
=============================================================================
