----------------------------- MODULE NutPppLink -----------------------------
(***************************************************************************)
(* Two devices of NutPpp that are each other's peer, over a serial line     *)
(* that keeps the order of packets and may lose some of them.  Both         *)
(* applications call NutNetIfConfig(), and all options are accepted.        *)
(*                                                                          *)
(* NutPppSm() runs every five seconds on both hosts, which is long for the  *)
(* line: a round of one follows one of the other, and finds the line empty. *)
(***************************************************************************)
EXTENDS NutPpp

CONSTANTS
    Host,       \* two hosts
    LossMax     \* packets the line may lose

VARIABLES
    dcbs,       \* their device control blocks
    line,       \* line[h]: the packets on their way to h
    losses,     \* the number of packets lost
    turn        \* the host whose thread NutPppSm is the next to wake up

linkVars == <<dcbs, line, losses, turn>>

Other(h) == CHOOSE k \in Host : k # h

LinkInit ==
    /\ dcbs = [h \in Host |-> NutPppOpen(NewDevice)]
    /\ line = [h \in Host |-> <<>>]
    /\ losses = 0
    /\ turn \in Host

(* h has device control block d, and what it has sent is on the line.       *)
Steps(h, d, ln) ==
    /\ dcbs' = [dcbs EXCEPT ![h] = [d EXCEPT !.out = <<>>]]
    /\ line' = [ln EXCEPT ![Other(h)] = @ \o d.out]

Taken(h) == [line EXCEPT ![h] = Tail(@)]

(* Before its driver is up a host does not receive.                         *)
LinkReceive(h) ==
    /\ line[h] # <<>>
    /\ Steps(h, IF dcbs[h].up THEN NutPppInput(dcbs[h], Head(line[h])) ELSE dcbs[h], Taken(h))
    /\ UNCHANGED <<losses, turn>>

LinkLoss(h) ==
    /\ line[h] # <<>> /\ losses < LossMax
    /\ losses' = losses + 1
    /\ line' = Taken(h)
    /\ UNCHANGED <<dcbs, turn>>

LinkRound(h) ==
    /\ turn = h /\ turn' = Other(h)
    /\ \A k \in Host : line[k] = <<>> /\ dcbs[k].up
    /\ Steps(h, NutPppSm(dcbs[h]), line)
    /\ UNCHANGED losses

LinkDriver(h) ==
    /\ dcbs[h].up # dcbs[h].ifnet
    /\ Steps(h, AhdlcRx(dcbs[h]), line)
    /\ UNCHANGED <<losses, turn>>

(* The application attaches the driver, goes to sleep, and is woken or      *)
(* times out.                                                               *)
LinkConfigure(h) ==
    /\ \/ ~dcbs[h].ifnet /\ Steps(h, NutNetIfConfig(dcbs[h]), line)
       \/ dcbs[h].app = "wait" /\ Steps(h, ConfigWait(dcbs[h]), line)
       \/ dcbs[h].app \in {"asleep", "woken"} /\ Steps(h, [dcbs[h] EXCEPT !.app = "idle"], line)
    /\ UNCHANGED <<losses, turn>>

LinkNext == \E h \in Host : LinkReceive(h) \/ LinkLoss(h) \/ LinkRound(h) \/ LinkDriver(h) \/ LinkConfigure(h)

(* The line delivers, and the threads NutPppSm and AhdlcRx run.             *)
LinkFairness ==
    \A h \in Host :
        WF_linkVars(LinkReceive(h)) /\ WF_linkVars(LinkRound(h)) /\ WF_linkVars(LinkDriver(h))

LinkSpec == LinkInit /\ [][LinkNext]_linkVars /\ LinkFairness

-----------------------------------------------------------------------------
(* Properties.                                                              *)

(* Two hosts that are both up come to an agreement: both networks become    *)
(* ready, although packets were lost, and are so at the same time.  One     *)
(* number of the last request, one mark that it was answered and one count  *)
(* of retries serve three protocols.                                        *)
LinkConnects == (\A h \in Host : dcbs[h].up) ~> (\A h \in Host : dcbs[h].ipcp = "OPENED")
=============================================================================
