------------------------------- MODULE NutArp -------------------------------
(***************************************************************************)
(* net/arpcache.c: the ARP cache of one Ethernet interface, shared by the   *)
(* threads that send IP packets and the one that receives ARP packets.      *)
(*                                                                          *)
(* Entries are addresses of memory, freed and allocated again.  A thread    *)
(* gives up the CPU in NutArpCacheQuery() while the driver sends a request  *)
(* and while it sleeps on the entry's queue; events of that queue are only  *)
(* broadcast, so it never remembers one.  A step is what happens between.   *)
(***************************************************************************)
EXTENDS Integers, FiniteSets

CONSTANTS
    Sender,         \* threads that send IP packets
    Ip,             \* addresses they send to
    Entry,          \* memory for ARPENTRY structures
    MaxArpAge,      \* MAX_ARPAGE
    MaxArpRequests  \* MAX_ARPREQUESTS

ASSUME ArpAssumption == {MaxArpAge, MaxArpRequests} \subseteq Nat \ {0}

Nothing == [kind |-> "nothing"]

VARIABLES
    table,    \* arpTable: what is stored at each address of Entry
    query,    \* the query in progress of each thread, if any
    wait,     \* the entry in whose queue a thread sleeps
    minute,   \* a minute has passed since the last aging
    slow      \* history: the queries that were already in progress then

arpVars == <<table, query, wait, minute, slow>>

InTable == {e \in Entry : table[e] # Nothing}

NoEntry == "no entry"

ArpInit ==
    /\ table = [e \in Entry |-> Nothing]
    /\ query = [t \in Sender |-> Nothing]
    /\ wait = [t \in Sender |-> NoEntry]
    /\ minute = FALSE
    /\ slow = {}

-----------------------------------------------------------------------------
(* The table.                                                               *)

(* The table becomes tab; threads that slept on the entries rem, removed    *)
(* by ArpCacheFlush(), wake up.                                             *)
Flushed_Quietly(tab, rem) == table' = tab /\ UNCHANGED wait   \* fault: the threads sleep on

Flushed(tab, rem) ==
    /\ table' = tab
    /\ wait' = [t \in Sender |-> IF wait[t] \in rem THEN NoEntry ELSE wait[t]]

(* ArpCacheFlush() after the entries rem of the table were marked.          *)
ArpCacheFlush(rem) == Flushed([e \in Entry |-> IF e \in rem THEN Nothing ELSE table[e]], rem)

Found(tab, ip) == {e \in Entry : tab[e] # Nothing /\ tab[e].ip = ip}

Outdated == {e \in InTable : minute /\ table[e].outdated >= MaxArpAge}

(* What ArpCacheAging() leaves of the table.                                *)
Aged ==
    [e \in Entry |-> IF e \in Outdated THEN Nothing
                     ELSE IF minute /\ e \in InTable THEN [table[e] EXCEPT !.outdated = @ + 1]
                     ELSE table[e]]

NewEntry(ip, complete) == [kind |-> "entry", ip |-> ip, complete |-> complete, outdated |-> 0]

-----------------------------------------------------------------------------
(* NutArpCacheQuery().                                                      *)

Returned(t) ==
    /\ query' = [query EXCEPT ![t] = Nothing]
    /\ slow' = slow \ {t}

(* The head of the loop, for a thread with query q; the table is tab, and   *)
(* rem was removed from it.                                                 *)
Loop_Uncounted(t, q, tab, rem) ==   \* fault: only requests are counted, not waits
    IF tab[q.entry].complete \/ (q.retries = 0 /\ ~q.nb) THEN Returned(t) /\ Flushed(tab, rem)
    ELSE IF q.retries = 0
      THEN Returned(t) /\ Flushed([tab EXCEPT ![q.entry] = Nothing], rem \cup {q.entry})
    ELSE /\ query' = [query EXCEPT ![t] = [q EXCEPT !.retries = IF q.nb THEN @ - 1 ELSE @,
                                                    !.at = IF q.nb THEN "output" ELSE "wait"]]
         /\ table' = tab
         /\ wait' = [u \in Sender |-> IF u = t /\ ~q.nb THEN q.entry
                                      ELSE IF wait[u] \in rem THEN NoEntry ELSE wait[u]]
         /\ UNCHANGED slow

Loop(t, q, tab, rem) ==
    IF tab[q.entry].complete \/ (q.retries = 0 /\ ~q.nb) THEN Returned(t) /\ Flushed(tab, rem)
    ELSE IF q.retries = 0
      THEN Returned(t) /\ Flushed([tab EXCEPT ![q.entry] = Nothing], rem \cup {q.entry})
    ELSE /\ query' = [query EXCEPT ![t] = [q EXCEPT !.retries = @ - 1,
                                                    !.at = IF q.nb THEN "output" ELSE "wait"]]
         /\ table' = tab
         /\ wait' = [u \in Sender |-> IF u = t /\ ~q.nb THEN q.entry
                                      ELSE IF wait[u] \in rem THEN NoEntry ELSE wait[u]]
         /\ UNCHANGED slow

StartedQuery(ip, e, nb) ==
    [kind |-> "query", ip |-> ip, entry |-> e, nb |-> nb, retries |-> MaxArpRequests, at |-> "start"]

(* Without memory for an entry or a request the query fails at once.        *)
NutArpCacheQuery(t, ip) ==
    /\ query[t] = Nothing
    /\ minute' = FALSE
    /\ \/ \E e \in Found(Aged, ip) : Loop(t, StartedQuery(ip, e, FALSE), Aged, Outdated)
       \/ /\ Found(Aged, ip) = {}
          /\ \E e \in Entry :
               /\ Aged[e] = Nothing
               /\ Loop(t, StartedQuery(ip, e, TRUE), [Aged EXCEPT ![e] = NewEntry(ip, FALSE)], Outdated)
       \/ /\ Found(Aged, ip) = {}
          /\ Flushed(Aged, Outdated)
          /\ UNCHANGED <<query, slow>>

(* The driver has sent the request, or failed.                              *)
OutputSent(t) ==
    /\ query[t] # Nothing /\ query[t].at = "output"
    /\ query' = [query EXCEPT ![t].at = "wait"]
    /\ wait' = [wait EXCEPT ![t] = query[t].entry]
    /\ UNCHANGED <<table, minute, slow>>

OutputFailed_KeepsEntry(t) ==   \* fault: the entry is not removed
    /\ query[t] # Nothing /\ query[t].at = "output"
    /\ Returned(t)
    /\ UNCHANGED <<table, wait, minute>>

OutputFailed(t) ==
    /\ query[t] # Nothing /\ query[t].at = "output"
    /\ ArpCacheFlush({e \in Found(table, query[t].ip) : ~table[e].complete})
    /\ Returned(t)
    /\ UNCHANGED minute

(* The thread goes on after its sleep, with the entry that it finds then.   *)
Resumes(t) ==
    /\ query[t] # Nothing /\ query[t].at = "wait" /\ wait[t] = NoEntry
    /\ \/ Found(table, query[t].ip) = {} /\ Returned(t) /\ UNCHANGED <<table, wait>>
       \/ \E e \in Found(table, query[t].ip) : Loop(t, [query[t] EXCEPT !.entry = e], table, {})
    /\ UNCHANGED minute

SleepTimeout(t) ==
    /\ wait[t] # NoEntry
    /\ wait' = [wait EXCEPT ![t] = NoEntry]
    /\ UNCHANGED <<table, query, minute, slow>>

(* An ARP packet of address ip comes in; no memory, no new entry.           *)
NutArpCacheUpdate(ip) ==
    /\ \/ \E e \in Found(table, ip) :
            /\ table' = [table EXCEPT ![e].complete = TRUE, ![e].outdated = 0]
            /\ wait' = [t \in Sender |-> IF wait[t] = e THEN NoEntry ELSE wait[t]]
            /\ UNCHANGED minute
       \/ /\ Found(table, ip) = {}
          /\ minute' = FALSE
          /\ \/ \E e \in Entry :
                  /\ Aged[e] = Nothing
                  /\ Flushed([Aged EXCEPT ![e] = NewEntry(ip, TRUE)], Outdated)
             \/ Flushed(Aged, Outdated)
    /\ UNCHANGED <<query, slow>>

(* A query lasts less than a minute: 500 ms for each request, doubled.      *)
Minute ==
    /\ ~minute /\ slow = {}
    /\ minute' = TRUE
    /\ slow' = {t \in Sender : query[t] # Nothing}
    /\ UNCHANGED <<table, query, wait>>

ArpNext ==
    \/ \E t \in Sender :
         \/ \E ip \in Ip : NutArpCacheQuery(t, ip)
         \/ OutputSent(t) \/ OutputFailed(t) \/ Resumes(t) \/ SleepTimeout(t)
    \/ \E ip \in Ip : NutArpCacheUpdate(ip)
    \/ Minute

(* The driver comes back, timeouts elapse and woken threads run.            *)
ArpFairness ==
    \A t \in Sender : /\ WF_arpVars(OutputSent(t) \/ OutputFailed(t))
                      /\ WF_arpVars(Resumes(t))
                      /\ WF_arpVars(SleepTimeout(t))

ArpSpec == ArpInit /\ [][ArpNext]_arpVars /\ ArpFairness

-----------------------------------------------------------------------------
(* Properties.                                                              *)

(* An address has one entry at most, and every incomplete entry has one     *)
(* thread that sends requests for it, and removes it or sees it completed:  *)
(* otherwise no further query would ever send a request for this address.   *)
IncompleteOwned ==
    \A e \in InTable :
        /\ Found(table, table[e].ip) = {e}
        /\ ~table[e].complete =>
             Cardinality({t \in Sender : query[t] # Nothing /\ query[t].nb /\ query[t].entry = e}) = 1

(* The entry in whose queue a thread sleeps, or whose request the driver    *)
(* sends for it, is in the table: not freed, and not another address's.     *)
EntriesAlive ==
    \A t \in Sender :
        /\ wait[t] # NoEntry => wait[t] \in InTable /\ table[wait[t]].ip = query[t].ip
        /\ query[t] # Nothing /\ query[t].at = "output" =>
             query[t].entry \in InTable /\ table[query[t].entry].ip = query[t].ip

(* Every query ends, with or without an answer.                             *)
QueryReturns == \A t \in Sender : query[t] # Nothing ~> query[t] = Nothing
=============================================================================
