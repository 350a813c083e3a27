------------------------------- MODULE NutHeap -------------------------------
(***************************************************************************)
(* os/heap.c: the list of free nodes of a heap, best fit with splitting,    *)
(* release with merging, and reallocation.  Heap calls do not give up the   *)
(* CPU and interrupts do not make any, so each is a step.                   *)
(*                                                                          *)
(* Addresses and sizes are in units of NUTMEM_ALIGNMENT.  Guard patterns    *)
(* and the list of allocated nodes of the debug version are left out.       *)
(***************************************************************************)
EXTENDS Integers, Sequences, FiniteSets

CONSTANTS
    Region,     \* the memory given to NutHeapRootAdd(): records of addr and size
    Sizes,      \* the sizes applications ask for
    Overhead,   \* NUT_HEAP_OVERHEAD, the part of a node's header a user keeps
    Node,       \* sizeof(HEAPNODE), also NUTMEM_HEAPNODE_MIN
    HeapWord    \* sizes are computed modulo HeapWord, that of a size_t

End(b) == b.addr + b.size

ASSUME HeaderAssumption ==
    Overhead \in Nat /\ Node \in Nat /\ Overhead < Node /\ HeapWord \in Nat
ASSUME SizesAssumption == Sizes \subseteq Nat \ {0}
ASSUME RegionAssumption ==
    /\ Region \subseteq [addr : Nat, size : Nat]
    /\ \A r \in Region : r.size >= Node /\ End(r) < HeapWord
    /\ \A r, s \in Region : r # s => End(r) <= s.addr \/ End(s) <= r.addr

VARIABLES
    freeList,   \* the list at root
    used,       \* the allocated nodes, and the size asked for last
    regions     \* history: the regions added

heapVars == <<freeList, used, regions>>

HeapInit == freeList = <<>> /\ used = {} /\ regions = {}

(* The size of a node for size units of user memory.                        *)
Need(size) == IF size + Overhead < Node THEN Node ELSE size + Overhead

-----------------------------------------------------------------------------
(* Allocation.                                                              *)

Fitting(list, need) == {i \in DOMAIN list : list[i].size >= need}

(* The first of the smallest nodes that fit.                                *)
BestFit(list, need) ==
    CHOOSE i \in Fitting(list, need) :
        \A j \in Fitting(list, need) :
            list[i].size < list[j].size \/ (list[i].size = list[j].size /\ i <= j)

Splits(node, need) == node.size - need >= Node

Without(list, i) == SubSeq(list, 1, i - 1) \o SubSeq(list, i + 1, Len(list))

(* The node given to the user, and what stays in the list.                  *)
TakenNode(list, i, need) ==
    [addr |-> list[i].addr, size |-> IF Splits(list[i], need) THEN need ELSE list[i].size]

Rest(list, i, need) ==
    IF Splits(list[i], need)
      THEN [list EXCEPT ![i] = [addr |-> @.addr + need, size |-> @.size - need]]
      ELSE Without(list, i)

-----------------------------------------------------------------------------
(* Release.  The loop stops at the first node that ends at the released one *)
(* or behind its start.                                                     *)

Stops(list, addr) == {i \in DOMAIN list : End(list[i]) >= addr}

StopAt(list, addr) == CHOOSE i \in Stops(list, addr) : \A j \in Stops(list, addr) : i <= j

(* The memory at addr is free already: the release is refused.              *)
Refused(list, addr) ==
    /\ Stops(list, addr) # {}
    /\ LET node == list[StopAt(list, addr)] IN node.addr <= addr /\ addr < End(node)

(* Node f is put in front of node i, and merged with it if they touch.      *)
InFront(list, i, f) ==
    IF End(f) = list[i].addr
      THEN [list EXCEPT ![i] = [addr |-> f.addr, size |-> f.size + @.size]]
      ELSE SubSeq(list, 1, i - 1) \o <<f>> \o SubSeq(list, i, Len(list))

Behind_OneSide(list, i, f) ==   \* fault: not merged with the node that follows
    [list EXCEPT ![i].size = @ + f.size]

(* Node f is merged into node i, and then with the one that follows if they *)
(* touch.                                                                   *)
Behind(list, i, f) ==
    LET joined == [list EXCEPT ![i].size = @ + f.size]
    IN  IF i < Len(list) /\ End(joined[i]) = list[i + 1].addr
          THEN Without([joined EXCEPT ![i].size = @ + list[i + 1].size], i + 1)
          ELSE joined

Released(list, f) ==
    IF Refused(list, f.addr) THEN list
    ELSE IF Stops(list, f.addr) = {} THEN Append(list, f)
    ELSE LET i == StopAt(list, f.addr)
         IN  IF End(list[i]) = f.addr THEN Behind(list, i, f) ELSE InFront(list, i, f)

-----------------------------------------------------------------------------

NutHeapAdd(r) ==
    /\ r \in Region \ regions
    /\ freeList' = Released(freeList, r)
    /\ regions' = regions \cup {r}
    /\ UNCHANGED used

Asked(node, size) == [addr |-> node.addr, size |-> node.size, asked |-> size]

NutHeapAlloc(size) ==
    LET need == Need(size)
        i == BestFit(freeList, need)
    IN  /\ Fitting(freeList, need) # {}
        /\ freeList' = Rest(freeList, i, need)
        /\ used' = used \cup {Asked(TakenNode(freeList, i, need), size)}
        /\ UNCHANGED regions

NutHeapFree(b) ==
    /\ freeList' = Released(freeList, [addr |-> b.addr, size |-> b.size])
    /\ used' = used \ {b}
    /\ UNCHANGED regions

(* The place of a free node right behind node b with at least the missing   *)
(* size.                                                                    *)
Extension(b, missing) ==
    {i \in DOMAIN freeList : freeList[i].addr = End(b) /\ freeList[i].size >= missing}

Expand_RestOverlaps(b, need, size) ==   \* fault: the rest starts where the node did
    \E i \in Extension(b, need - b.size) :
        LET missing == need - b.size
            whole == freeList[i].size
        IN  /\ used' = (used \ {b}) \cup
                 {[addr |-> b.addr, asked |-> size,
                   size |-> b.size + IF Splits(freeList[i], missing) THEN missing ELSE whole]}
            /\ freeList' = IF Splits(freeList[i], missing)
                             THEN [freeList EXCEPT ![i].size = @ - missing]
                             ELSE Without(freeList, i)

Expand(b, need, size) ==
    \E i \in Extension(b, need - b.size) :
        LET missing == need - b.size
        IN  /\ freeList' = Rest(freeList, i, missing)
            /\ used' = (used \ {b}) \cup
                 {[addr |-> b.addr, asked |-> size,
                   size |-> b.size + TakenNode(freeList, i, missing).size]}

(* The size given to NutHeapRootAlloc() includes the overhead, which is     *)
(* added once more.                                                         *)
Relocate(b, need, size) ==
    LET i == BestFit(freeList, Need(need))
    IN  /\ Extension(b, need - b.size) = {}
        /\ Fitting(freeList, Need(need)) # {}
        /\ freeList' = Released(Rest(freeList, i, Need(need)), [addr |-> b.addr, size |-> b.size])
        /\ used' = (used \ {b}) \cup {Asked(TakenNode(freeList, i, Need(need)), size)}

Reduce(b, need, size) ==
    /\ need < (b.size - Node) % HeapWord
    /\ freeList' = Released(freeList, [addr |-> b.addr + need, size |-> b.size - need])
    /\ used' = (used \ {b}) \cup {[addr |-> b.addr, size |-> need, asked |-> size]}

Keep(b, need, size) ==
    /\ need >= (b.size - Node) % HeapWord
    /\ used' = (used \ {b}) \cup {Asked(b, size)}
    /\ UNCHANGED freeList

NutHeapRealloc(b, size) ==
    LET need == Need(size)
    IN  /\ \/ need > b.size /\ (Expand(b, need, size) \/ Relocate(b, need, size))
           \/ need <= b.size /\ (Reduce(b, need, size) \/ Keep(b, need, size))
        /\ UNCHANGED regions

HeapNext ==
    \/ \E r \in Region : NutHeapAdd(r)
    \/ \E size \in Sizes : NutHeapAlloc(size)
    \/ \E b \in used : NutHeapFree(b)
    \/ \E b \in used, size \in Sizes : NutHeapRealloc(b, size)

HeapSpec == HeapInit /\ [][HeapNext]_heapVars

(* NutHeapRootRegionAvailable().                                            *)
RegionAvailable ==
    LET largest == IF freeList = <<>> THEN 0
                   ELSE CHOOSE n \in {freeList[i].size : i \in DOMAIN freeList} :
                            \A i \in DOMAIN freeList : freeList[i].size <= n
    IN  (largest - Overhead) % HeapWord

-----------------------------------------------------------------------------

FreeNodes == {freeList[i] : i \in DOMAIN freeList}
Span(b) == b.addr..(End(b) - 1)
Memory == UNION {Span(r) : r \in regions}

HeapTypeOK ==
    /\ \A b \in FreeNodes \cup used : b.addr \in Nat /\ b.size \in Node..HeapWord
    /\ \A b \in used : b.asked \in Sizes
    /\ regions \subseteq Region

(* The nodes, free and allocated, do not overlap, and together are all the  *)
(* memory there is: nothing is lost, however nodes are split, merged,       *)
(* expanded and reduced (os/heap.c:246, 369, 572, 614), and each user has   *)
(* the memory asked for.                                                    *)
MemoryPartitioned ==
    /\ \A b \in used : b.size >= b.asked + Overhead
    /\ \A a \in Memory : Cardinality({b \in FreeNodes \cup used : a \in Span(b)}) = 1
    /\ \A b \in FreeNodes \cup used : Span(b) \subseteq Memory

(* The list is ordered by address and free nodes that touch are one, so     *)
(* that releasing everything restores the regions (os/heap.c:313).          *)
FreeMerged ==
    \A i \in 1..(Len(freeList) - 1) : End(freeList[i]) < freeList[i + 1].addr

(* The size returned is that of the largest block available, also when all  *)
(* is allocated (os/heap.c:466).                                            *)
RegionIsAvailable ==
    regions # {} /\ RegionAvailable > 0 => Fitting(freeList, RegionAvailable) # {}
=============================================================================
