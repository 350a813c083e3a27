------------------------------- MODULE NutPpp -------------------------------
(***************************************************************************)
(* net/pppsm.c, lcpin.c, lcpout.c, ipcpin.c, ipcpout.c, papin.c, papout.c,  *)
(* pppin.c, dev/ppp.c: a PPP device.  LCP, PAP and IPCP share the id of the *)
(* last request, the mark that it was answered and the count of retries.    *)
(*                                                                          *)
(* The peer is not modelled: any packet may come at any time, until it is   *)
(* silent.  What a packet's options call for is part of the packet.         *)
(*                                                                          *)
(* The handlers are operators on the device control block.  A step is one   *)
(* packet, one round of the thread NutPppSm, or what the application does   *)
(* up to its next wait: the threads are not preemptive, and the driver has  *)
(* room for what is sent in a step.  PAP is always asked for, as            *)
(* LcpResetOptions() has it, and options that are agreed on are left out.   *)
(***************************************************************************)
EXTENDS Naturals, Sequences

CONSTANTS
    RetriesMax,   \* rounds without an answer: 9
    IdSpace       \* identifiers are counted modulo IdSpace: 256

ASSUME PppAssumption == {RetriesMax, IdSpace} \subseteq Nat \ {0}

VARIABLES
    dcb,      \* the device control block, and the driver and application below
    silent    \* the peer has gone

pppVars == <<dcb, silent>>

-----------------------------------------------------------------------------
(* The device.  Field x is the source's dcb_x, with lcp and ipcp the states *)
(* of the layers; signaled is what dcb_state_chg remembers; ifnet says that *)
(* the driver is attached (dev_icb) and up that its thread has taken notice;*)
(* app is the place of the application; out collects what a step sends.     *)

NewDevice == [lcp |-> "INITIAL", ipcp |-> "INITIAL", auth |-> "INITIAL", reqid |-> 0,
              acked |-> FALSE, retries |-> 0, signaled |-> FALSE,
              ifnet |-> FALSE, up |-> FALSE, app |-> "idle", out |-> <<>>]

(* Whether the id of a packet is that of the last request is all that is    *)
(* asked of it, and of options only in requests and acknowledgments.        *)
Packet(d) ==
    {m \in [prot: {"lcp", "ipcp", "pap"},
            code: {"CONFREQ", "CONFACK", "CONFNAK", "CONFREJ", "TERMREQ", "TERMACK", "CODEREJ"},
            id: {d.reqid, (d.reqid + 1) % IdSpace},
            opts: {"CONFACK", "CONFNAK", "CONFREJ"}] :
        m.code \in {"CONFREQ", "CONFACK"} \/ m.opts = "CONFACK"}

Send(d, p, c, i) == [d EXCEPT !.out = Append(@, [prot |-> p, code |-> c, id |-> i, opts |-> "CONFACK"])]

(* NutEventPost() to dcb_state_chg.                                         *)
Post(d) == IF d.app = "asleep" THEN [d EXCEPT !.app = "woken"] ELSE [d EXCEPT !.signaled = TRUE]

NextId(d) == [d EXCEPT !.reqid = (@ + 1) % IdSpace]

LcpTxConfReq(d) == Send([d EXCEPT !.acked = FALSE, !.retries = 0], "lcp", "CONFREQ", d.reqid)

IpcpTxConfReq_Acked(d) ==   \* fault: the last request's mark is left
    Send(d, "ipcp", "CONFREQ", d.reqid)

IpcpTxConfReq(d) == Send([d EXCEPT !.acked = FALSE], "ipcp", "CONFREQ", d.reqid)

(* It takes a new id, although all its callers do, too.                     *)
PapTxAuthReq(d) ==
    LET e == NextId(d)
    IN  Send([e EXCEPT !.auth = "AUTHREQ"], "pap", "CONFREQ", e.reqid)

TxConfReq(d, p) == IF p = "lcp" THEN LcpTxConfReq(d) ELSE IpcpTxConfReq(d)

NewRequest(d, p) == TxConfReq(NextId(d), p)

-----------------------------------------------------------------------------
(* Events of the layers above and below.                                    *)

(* The state of a layer when the one below goes down.                       *)
Down(state) ==
    CASE state \in {"CLOSED", "CLOSING"} -> "INITIAL"
      [] state \in {"STOPPED", "STOPPING", "REQSENT", "ACKRCVD", "ACKSENT", "OPENED"} -> "STARTING"
      [] OTHER -> state

(* When the layer was closed, the driver is detached.                       *)
IpcpLowerDown(d) ==
    LET e == [d EXCEPT !.ipcp = Down(@), !.ifnet = @ /\ d.ipcp # "CLOSED"]
    IN  IF d.ipcp = "OPENED" THEN Post(e) ELSE e

IpcpLowerUp(d) ==
    CASE d.ipcp = "INITIAL"  -> [d EXCEPT !.ipcp = "CLOSED"]
      [] d.ipcp = "STARTING" -> [NewRequest(d, "ipcp") EXCEPT !.ipcp = "REQSENT"]
      [] OTHER -> d

LcpLowerDown_Alone(d) ==   \* fault: the layer above is forgotten
    [d EXCEPT !.lcp = Down(@)]

LcpLowerDown(d) ==
    [(IF d.lcp = "OPENED" THEN IpcpLowerDown(d) ELSE d) EXCEPT !.lcp = Down(@)]

LcpLowerUp(d) ==
    CASE d.lcp = "INITIAL"  -> [d EXCEPT !.lcp = "CLOSED"]
      [] d.lcp = "STARTING" -> [NewRequest(d, "lcp") EXCEPT !.lcp = "REQSENT"]
      [] OTHER -> d

LcpOpen(d) ==
    CASE d.lcp = "INITIAL" -> [d EXCEPT !.lcp = "STARTING"]
      [] d.lcp = "CLOSED"  -> [NewRequest(d, "lcp") EXCEPT !.lcp = "REQSENT"]
      [] d.lcp = "CLOSING" -> [d EXCEPT !.lcp = "STOPPING"]
      [] OTHER -> d

IpcpOpen(d) ==
    CASE d.ipcp = "INITIAL" -> LcpOpen([d EXCEPT !.ipcp = "STARTING"])
      [] d.ipcp = "CLOSED"  -> [NewRequest(d, "ipcp") EXCEPT !.ipcp = "REQSENT"]
      [] d.ipcp = "CLOSING" -> [d EXCEPT !.ipcp = "STOPPING"]
      [] OTHER -> d

Connected == {"REQSENT", "ACKRCVD", "ACKSENT", "OPENED"}

(* What closing makes of a layer that is not connected.                     *)
Withdrawn(state) ==
    CASE state = "STARTING" -> "INITIAL"
      [] state = "STOPPED"  -> "CLOSED"
      [] state = "STOPPING" -> "CLOSING"
      [] OTHER -> state

LcpClose(d) ==
    IF d.lcp \in Connected
      THEN Send(IpcpLowerDown([d EXCEPT !.lcp = "CLOSING"]), "lcp", "TERMREQ", d.reqid)
      ELSE [d EXCEPT !.lcp = Withdrawn(@)]

IpcpClose(d) ==
    IF d.ipcp \in Connected
      THEN Post([Send(d, "ipcp", "TERMREQ", d.reqid) EXCEPT !.ipcp = "CLOSING"])
      ELSE [d EXCEPT !.ipcp = Withdrawn(@)]

-----------------------------------------------------------------------------
(* Packets.  LCP and IPCP differ in what an open layer does next.           *)

LcpOpened(d) == PapTxAuthReq(NextId([d EXCEPT !.lcp = "OPENED"]))

IpcpOpened(d) == Post([d EXCEPT !.ipcp = "OPENED"])

(* "Go down and restart negotiation."                                       *)
Restart(d, p) == NewRequest(IpcpLowerDown(d), p)

(* A request is answered as its options call for.                           *)
Answer(d, p, m) ==
    LET e == Send(d, p, m.opts, m.id)
    IN  IF m.opts = "CONFACK" /\ d[p] = "ACKRCVD"
          THEN IF p = "lcp" THEN LcpOpened(e) ELSE IpcpOpened(e)
        ELSE IF m.opts = "CONFACK" THEN [e EXCEPT ![p] = "ACKSENT"]
        ELSE IF d[p] = "ACKRCVD" THEN e
        ELSE [e EXCEPT ![p] = "REQSENT"]

RxConfReq(d, p, m) ==
    CASE d[p] = "CLOSED"                  -> Send(d, p, "TERMACK", m.id)
      [] d[p] \in {"CLOSING", "STOPPING"} -> d
      [] d[p] = "OPENED"                  -> Answer(Restart(d, p), p, m)
      [] d[p] = "STOPPED"                 -> Answer([NewRequest(d, p) EXCEPT ![p] = "REQSENT"], p, m)
      [] OTHER                            -> Answer(d, p, m)

LcpRxConfReq(d, m) == RxConfReq(d, "lcp", m)
IpcpRxConfReq(d, m) == RxConfReq(d, "ipcp", m)

(* An answer to the last request, in a state where it is not the expected   *)
(* one.                                                                     *)
Unexpected(d, p, m) ==
    CASE d[p] \in {"CLOSED", "STOPPED"} -> Send(d, p, "TERMACK", m.id)
      [] d[p] = "ACKRCVD"               -> [NewRequest(d, p) EXCEPT ![p] = "REQSENT"]
      [] d[p] = "OPENED"                -> [Restart(d, p) EXCEPT ![p] = "REQSENT"]
      [] OTHER                          -> d

(* When some request was answered already, any acknowledgment will do.      *)
LcpRxConfAck(d, m) ==
    LET e == [d EXCEPT !.acked = @ \/ (m.id = d.reqid /\ m.opts = "CONFACK")]
    IN  IF ~e.acked THEN d
        ELSE CASE d.lcp = "REQSENT" -> [e EXCEPT !.lcp = "ACKRCVD", !.retries = 0]
               [] d.lcp = "ACKSENT" -> LcpOpened(e)
               [] OTHER             -> Unexpected(e, "lcp", m)

IpcpRxConfAck(d, m) ==
    IF m.id # d.reqid \/ d.acked THEN d
    ELSE IF d.ipcp \in {"CLOSED", "STOPPED"} THEN Unexpected(d, "ipcp", m)
    ELSE LET e == CASE d.ipcp = "REQSENT" -> [d EXCEPT !.ipcp = "ACKRCVD", !.retries = 0]
                    [] d.ipcp = "ACKSENT" -> IpcpOpened([d EXCEPT !.retries = 0])
                    [] OTHER              -> Unexpected(d, "ipcp", m)
         IN  [e EXCEPT !.acked = TRUE]

(* "They didn't agree to what we wanted - try another request".             *)
Refused(d, p, m) ==
    IF d[p] \in {"REQSENT", "ACKSENT"} THEN NewRequest(d, p) ELSE Unexpected(d, p, m)

LcpRxConfNakRej(d, m) ==
    IF m.id # d.reqid \/ d.acked THEN d ELSE Refused([d EXCEPT !.acked = TRUE], "lcp", m)

IpcpRxConfNakRej(d, m) ==
    IF m.id # d.reqid \/ d.acked THEN d
    ELSE Refused([d EXCEPT !.acked = d.ipcp \in Connected], "ipcp", m)

RxTermReq(d, p, m) ==
    LET e == CASE d[p] \in {"ACKRCVD", "ACKSENT"} -> [d EXCEPT ![p] = "REQSENT"]
               [] d[p] = "OPENED" -> [IpcpLowerDown(d) EXCEPT ![p] = "STOPPING"]
               [] OTHER -> d
    IN  Send(e, p, "TERMACK", m.id)

LcpRxTermReq(d, m) == RxTermReq(d, "lcp", m)
IpcpRxTermReq(d, m) == RxTermReq(d, "ipcp", m)

(* An open layer starts again; IpcpLowerDown() has left IPCP in STARTING.   *)
RxTermAck(d, p) ==
    CASE d[p] = "CLOSING"  -> [d EXCEPT ![p] = "CLOSED"]
      [] d[p] = "STOPPING" -> [d EXCEPT ![p] = "STOPPED"]
      [] d[p] = "ACKRCVD"  -> [d EXCEPT ![p] = "REQSENT"]
      [] d[p] = "OPENED"   -> Restart(d, p)
      [] OTHER -> d

LcpRxTermAck(d) == RxTermAck(d, "lcp")
IpcpRxTermAck(d) == RxTermAck(d, "ipcp")

RxCodeRej(d, p) == IF d[p] = "ACKRCVD" THEN [d EXCEPT ![p] = "REQSENT"] ELSE d

NutLcpInput(d, m) ==
    CASE d.lcp \in {"INITIAL", "STARTING"} -> d
      [] OTHER -> CASE m.code = "CONFREQ" -> LcpRxConfReq(d, m)
                    [] m.code = "CONFACK" -> LcpRxConfAck(d, m)
                    [] m.code \in {"CONFNAK", "CONFREJ"} -> LcpRxConfNakRej(d, m)
                    [] m.code = "TERMREQ" -> LcpRxTermReq(d, m)
                    [] m.code = "TERMACK" -> LcpRxTermAck(d)
                    [] m.code = "CODEREJ" -> RxCodeRej(d, "lcp")

NutIpcpInput(d, m) ==
    CASE d.ipcp \in {"INITIAL", "STARTING"} -> d
      [] OTHER -> CASE m.code = "CONFREQ" -> IpcpRxConfReq(d, m)
                    [] m.code = "CONFACK" -> IpcpRxConfAck(d, m)
                    [] m.code \in {"CONFNAK", "CONFREJ"} -> IpcpRxConfNakRej(d, m)
                    [] m.code = "TERMREQ" -> IpcpRxTermReq(d, m)
                    [] m.code = "TERMACK" -> IpcpRxTermAck(d)
                    [] m.code = "CODEREJ" -> RxCodeRej(d, "ipcp")

(* "No server support": every request is acknowledged.                      *)
NutPapInput(d, m) ==
    CASE m.code = "CONFREQ" -> Send(d, "pap", "CONFACK", m.id)
      [] m.code = "CONFACK" /\ d.auth = "AUTHREQ" -> IpcpLowerUp([d EXCEPT !.auth = "OPEN"])
      [] m.code = "CONFNAK" /\ d.auth = "AUTHREQ" -> IpcpLowerDown([d EXCEPT !.auth = "BADAUTH"])
      [] OTHER -> d

NutPppInput(d, m) ==
    CASE m.prot = "lcp" -> NutLcpInput(d, m)
      [] m.prot = "pap" /\ d.lcp = "OPENED" -> NutPapInput(d, m)
      [] m.prot = "ipcp" /\ d.lcp = "OPENED" /\ d.auth = "OPEN" -> NutIpcpInput(d, m)
      [] OTHER -> d

-----------------------------------------------------------------------------
(* A round of the thread NutPppSm(), every five seconds; r is what it read  *)
(* of dcb_retries before.                                                   *)

Tried(d, r) == [d EXCEPT !.retries = r + 1]

Retry_Tried(d, p, r) ==   \* fault: the count is taken before the request resets it
    IF d[p] \in {"REQSENT", "ACKSENT"}
      THEN IF r < RetriesMax THEN TxConfReq(Tried(d, r), p) ELSE [d EXCEPT ![p] = "STOPPED"]
      ELSE IF d[p] = "CLOSING" THEN [d EXCEPT ![p] = "CLOSED"]
      ELSE IF d[p] = "STOPPING" THEN [d EXCEPT ![p] = "STOPPED"]
      ELSE d

Retry(d, p, r) ==
    CASE d[p] \in {"CLOSING", "STOPPING"} /\ r < RetriesMax ->
           Tried(IF r > 0 THEN Send(d, p, "TERMREQ", d.reqid) ELSE d, r)
      [] d[p] \in {"REQSENT", "ACKSENT"} /\ r < RetriesMax ->
           Tried(IF r > 0 THEN TxConfReq(d, p) ELSE d, r)
      [] d[p] = "CLOSING" /\ r >= RetriesMax -> [d EXCEPT ![p] = "CLOSED"]
      [] d[p] \in {"STOPPING", "REQSENT", "ACKSENT"} /\ r >= RetriesMax -> [d EXCEPT ![p] = "STOPPED"]
      [] OTHER -> d

AuthRetry(d, r) ==
    CASE d.auth = "AUTHREQ" /\ r < RetriesMax -> Tried(IF r > 0 THEN PapTxAuthReq(d) ELSE d, r)
      [] d.auth = "AUTHREQ" /\ r >= RetriesMax -> [d EXCEPT !.lcp = "STOPPED"]
      [] OTHER -> d

NutPppSm(d) == Retry(AuthRetry(Retry(d, "lcp", d.retries), d.retries), "ipcp", d.retries)

-----------------------------------------------------------------------------
(* The thread AhdlcRx() of the driver, and the application.                 *)

AhdlcRx(d) ==
    IF d.ifnet THEN LcpLowerUp([d EXCEPT !.up = TRUE]) ELSE LcpLowerDown([d EXCEPT !.up = FALSE])

(* "Make sure that the state change queue is empty", and attach the driver. *)
NutNetIfConfig(d) == [d EXCEPT !.signaled = FALSE, !.ifnet = TRUE, !.app = "wait"]

ConfigWait(d) ==
    IF d.signaled THEN [d EXCEPT !.signaled = FALSE, !.app = "idle"] ELSE [d EXCEPT !.app = "asleep"]

(* The device is opened and closed; the driver stays as it is.              *)
NutPppOpen(d) == IpcpOpen([NewDevice EXCEPT !.ifnet = d.ifnet, !.up = d.up])

NutPppClose(d) == [IpcpClose(d) EXCEPT !.app = "closed"]

-----------------------------------------------------------------------------
(* One device, and any peer.                                                *)

PppInit ==
    /\ dcb = NutPppOpen(NewDevice)
    /\ silent = FALSE

Becomes(d) == dcb' = [d EXCEPT !.out = <<>>] /\ UNCHANGED silent

Receive == \E m \in Packet(dcb) : dcb.up /\ ~silent /\ Becomes(NutPppInput(dcb, m))

Round == Becomes(NutPppSm(dcb))

DriverThread == dcb.up # dcb.ifnet /\ Becomes(AhdlcRx(dcb))

Configure ==
    \/ dcb.app = "idle" /\ Becomes(NutNetIfConfig(dcb))
    \/ dcb.app = "wait" /\ Becomes(ConfigWait(dcb))
    \/ dcb.app = "woken" /\ Becomes([dcb EXCEPT !.app = "idle"])

ConfigTimeout == dcb.app = "asleep" /\ Becomes([dcb EXCEPT !.app = "idle"])

(* The ioctl requests LCP_OPEN, LCP_CLOSE and HDLC_SETIFNET.                *)
Control ==
    /\ dcb.app = "idle"
    /\ \/ Becomes(LcpOpen(dcb)) \/ Becomes(LcpClose(dcb))
       \/ Becomes([dcb EXCEPT !.ifnet = FALSE])

OpenClose ==
    \/ dcb.app = "idle" /\ Becomes(NutPppClose(dcb))
    \/ dcb.app = "closed" /\ Becomes(NutPppOpen(dcb))

PeerGone == ~silent /\ silent' = TRUE /\ UNCHANGED dcb

PppNext == Receive \/ Round \/ DriverThread \/ Configure \/ ConfigTimeout \/ Control \/ OpenClose \/ PeerGone

PppSpec == PppInit /\ [][PppNext]_pppVars

(* The thread NutPppSm() runs.                                              *)
PppFairness == WF_pppVars(Round)

PppFairSpec == PppSpec /\ PppFairness

-----------------------------------------------------------------------------
(* Properties.                                                              *)

LayerStates == {"INITIAL", "STARTING", "CLOSED", "STOPPED", "CLOSING", "STOPPING"} \cup Connected

(* Type invariant.                                                          *)
PppTypeOK ==
    /\ {dcb.lcp, dcb.ipcp} \subseteq LayerStates
    /\ dcb.auth \in {"INITIAL", "AUTHREQ", "OPEN", "BADAUTH"}
    /\ dcb.reqid \in 0..(IdSpace - 1) /\ dcb.retries \in 0..RetriesMax
    /\ {dcb.acked, dcb.signaled, dcb.ifnet, dcb.up, silent} \subseteq BOOLEAN
    /\ dcb.app \in {"idle", "wait", "asleep", "woken", "closed"}
    /\ dcb.out = <<>>

(* IPCP works only above a link that is open and authenticated, whatever    *)
(* takes this link down.                                                    *)
LayersInOrder ==
    dcb.lcp # "OPENED" \/ dcb.auth # "OPEN" => dcb.ipcp \in {"INITIAL", "STARTING"}

(* Both layers give up waiting for a peer that is silent, however often     *)
(* requests were repeated: the three of them count dcb_retries.             *)
GivesUp ==
    silent ~> {dcb.lcp, dcb.ipcp} \cap {"CLOSING", "STOPPING", "REQSENT", "ACKSENT"} = {}

(* What does not hold.                                                      *)

(* The same of the state where only our request has been acknowledged.      *)
AckrcvdGivesUp == silent ~> "ACKRCVD" \notin {dcb.lcp, dcb.ipcp}

(* LcpClose(), "Disable the link": it is not left in the state from which   *)
(* the peer may open it again.  The timeout of the authentication, which    *)
(* goes on in a closed link, does that.                                     *)
StaysClosed == [][dcb.lcp = "CLOSED" => dcb'.lcp # "STOPPED"]_pppVars

(* LCP is "Down" (include/netinet/ppp_fsm.h) while the driver is not there: *)
(* after the same timeout LcpLowerUp() finds the link stopped.              *)
DownWithDriver == ~dcb.up => dcb.lcp \in {"INITIAL", "STARTING"}

(* NutNetIfConfig() does not sleep when the network is ready: it forgets    *)
(* the event and then waits for the next.                                   *)
ConfigTold == dcb.app = "asleep" => dcb.ipcp # "OPENED"
=============================================================================
