------------------------------- MODULE NutList -------------------------------
(***************************************************************************)
(* The two singly or doubly linked list idioms of the Nut/OS kernel, as    *)
(* operators on sequences.  A list is the sequence of the nodes met when    *)
(* its links are followed from the root.                                    *)
(***************************************************************************)
EXTENDS Integers, Sequences, SequencesExt

(***************************************************************************)
(* The place where the insertion walks of NutThreadAddPriQueue() and        *)
(* NutTimerInsert() stop: behind every leading node whose key is not        *)
(* greater than k, in front of the first node whose key is greater.         *)
(***************************************************************************)
IsInsertPos_InFront(s, key, k, p) ==   \* fault: in front of equal keys
    /\ \A j \in 1..(p - 1) : key[s[j]] < k
    /\ p <= Len(s) => key[s[p]] >= k

IsInsertPos(s, key, k, p) ==
    /\ \A j \in 1..(p - 1) : key[s[j]] <= k
    /\ p <= Len(s) => key[s[p]] > k

InsertPos(s, key, k) ==
    CHOOSE p \in 1..(Len(s) + 1) : IsInsertPos(s, key, k, p)

(* Insertion of node e by its own key.  *)
InsertBy(s, e, key) == InsertAt(s, InsertPos(s, key, key[e]), e)

(* The index of a node in the list, and the list with the node unlinked;   *)
(* a node that is not in the list is not found and nothing is unlinked.     *)
IsIn(s, e) == \E i \in 1..Len(s) : s[i] = e

IndexIn(s, e) == CHOOSE i \in 1..Len(s) : s[i] = e

Unlink(s, e) == IF IsIn(s, e) THEN RemoveAt(s, IndexIn(s, e)) ELSE s

(* No node is linked twice, and keys ascend along the list.                *)
NoDup(s) == \A i, j \in 1..Len(s) : s[i] = s[j] => i = j

Ascending(s, key) == \A i, j \in 1..Len(s) : i < j => key[s[i]] <= key[s[j]]
=============================================================================
