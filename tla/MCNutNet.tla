------------------------------ MODULE MCNutNet ------------------------------
(***************************************************************************)
(* Small instances of network buffers, the ARP cache, a PPP device with any *)
(* peer, and two PPP devices on a line.  They share no state, so a          *)
(* behaviour is one of them.                                                *)
(***************************************************************************)
EXTENDS NutNetBuf, NutArp, NutPppLink

VARIABLE part   \* the part that runs

netVars == <<part, bufVars, arpVars, pppVars, linkVars>>

NetInit ==
    /\ part \in {"netbuf", "arpcache", "ppp", "link"}
    /\ BufInit /\ ArpInit /\ PppInit /\ LinkInit

NetNext ==
    /\ \/ part = "netbuf" /\ BufNext /\ UNCHANGED <<arpVars, pppVars, linkVars>>
       \/ part = "arpcache" /\ ArpNext /\ UNCHANGED <<bufVars, pppVars, linkVars>>
       \/ part = "ppp" /\ PppNext /\ UNCHANGED <<bufVars, arpVars, linkVars>>
       \/ part = "link" /\ LinkNext /\ UNCHANGED <<bufVars, arpVars, pppVars>>
    /\ UNCHANGED part

(* In the initial states of the other parts nothing is waiting to be fair:  *)
(* no query runs, no layer has sent a request and no driver is attached.    *)
NetSpec == NetInit /\ [][NetNext]_netVars /\ ArpFairness /\ PppFairness /\ LinkFairness
=============================================================================
