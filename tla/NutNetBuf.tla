------------------------------ MODULE NutNetBuf ------------------------------
(***************************************************************************)
(* dev/netbuf.c: network buffers, whose parts are allocated separately and  *)
(* may be shared with clones.  The flags of a buffer count its clones, and  *)
(* when its holder releases it first, the last clone releases it.           *)
(*                                                                          *)
(* TCP clones each segment it may have to send again, IP each packet it     *)
(* broadcasts; buffers then belong to different threads, which release them *)
(* in any order.  No function gives up the CPU.                             *)
(***************************************************************************)
EXTENDS Integers, FiniteSets

CONSTANTS
    Buf,      \* memory for NETBUF structures
    Block,    \* memory for parts
    Part,     \* the parts: datalink, network, transport, application
    RefMax    \* NBAF_REFCNT, the largest count of references: 7

Null == "null"

ASSUME NetBufAssumption ==
    RefMax \in Nat \ {0} /\ IsFiniteSet(Buf) /\ Null \notin Buf /\ Null \notin Block

Unused == [part |-> [p \in Part |-> Null], own |-> {}, refs |-> 0, ref |-> Null, used |-> FALSE]

VARIABLES
    buf,      \* the structures: the parts' memory, which parts the buffer has
              \* allocated itself, nb_flags & NBAF_REFCNT, and nb_ref
    memory,   \* blocks that are allocated
    held      \* the buffers that some thread has and will release

bufVars == <<buf, memory, held>>

BufInit ==
    /\ buf = [b \in Buf |-> Unused]
    /\ memory = {}
    /\ held = {}

-----------------------------------------------------------------------------
(* NutNetBufFree() of buffer b, followed by that of nb_ref, if b goes: the  *)
(* structures, the allocated blocks and the next buffer to release.         *)
Release(f) ==
    IF f.next = Null THEN f
    ELSE LET b == f.buf[f.next]
         IN  IF b.refs > 0 THEN [f EXCEPT !.buf[f.next].refs = @ - 1, !.next = Null]
             ELSE [buf |-> [f.buf EXCEPT ![f.next] = Unused],
                   memory |-> f.memory \ {b.part[p] : p \in b.own},
                   next |-> b.ref]

Freed(bufs, mem, b) ==
    LET f[i \in 0..Cardinality(Buf)] ==
            IF i = 0 THEN [buf |-> bufs, memory |-> mem, next |-> b] ELSE Release(f[i - 1])
    IN  f[Cardinality(Buf)]

NutNetBufFree(b) ==
    /\ b \in held
    /\ buf' = Freed(buf, memory, b).buf
    /\ memory' = Freed(buf, memory, b).memory
    /\ held' = held \ {b}

(* A new buffer with part p; without memory there is none.                  *)
NutNetBufAllocNew(b, p) ==
    /\ ~buf[b].used
    /\ \E m \in Block \ memory :
         /\ buf' = [buf EXCEPT ![b] = [Unused EXCEPT !.part[p] = m, !.own = {p}, !.used = TRUE]]
         /\ memory' = memory \cup {m}
    /\ held' = held \cup {b}

(* Part p is allocated, or allocated again larger: callers do this for a    *)
(* buffer of which there is no clone.  Without memory the buffer is gone.   *)
NutNetBufAlloc(b, p) ==
    /\ b \in held /\ buf[b].refs = 0
    /\ LET old == IF p \in buf[b].own THEN {buf[b].part[p]} ELSE {}
       IN  \/ /\ \E m \in Block \ (memory \ old) :
                   /\ buf' = [buf EXCEPT ![b].part[p] = m, ![b].own = @ \cup {p}]
                   /\ memory' = (memory \ old) \cup {m}
              /\ UNCHANGED held
           \/ /\ buf' = Freed(buf, memory, b).buf
              /\ memory' = Freed(buf, memory, b).memory
              /\ held' = held \ {b}

Parts(b) == {p \in Part : buf[b].part[p] # Null}

(* Clone c of b copies the parts in inserts and shares the others.  When    *)
(* the references cannot be counted it shares none.                         *)
Copied_AtLimit(b, inserts) == Parts(b) \cap inserts   \* fault: one reference too many is made

Copied(b, inserts) == IF buf[b].refs = RefMax THEN Parts(b) ELSE Parts(b) \cap inserts

NutNetBufClonePart(b, c, inserts) ==
    /\ b \in held /\ ~buf[c].used
    /\ LET copied == Copied(b, inserts)
           shares == Parts(b) \ copied # {}
       IN  \E new \in [copied -> Block \ memory] :
             /\ \A p, q \in copied : p # q => new[p] # new[q]
             /\ buf' = [buf EXCEPT
                  ![c] = [part |-> [p \in Part |-> IF p \in copied THEN new[p] ELSE buf[b].part[p]],
                          own |-> copied, refs |-> 0, ref |-> IF shares THEN b ELSE Null, used |-> TRUE],
                  ![b].refs = IF shares THEN (@ + 1) % (RefMax + 1) ELSE @]
             /\ memory' = memory \cup {new[p] : p \in copied}
    /\ held' = held \cup {c}

(* The application data of received buffers b and next is put into one      *)
(* block of b, and next is released.                                        *)
NutNetBufCollect(b, next, p) ==
    /\ b \in held /\ next \in held \ {b} /\ {b, next} \subseteq {x \in held : p \in Parts(x)}
    /\ buf[b].refs = 0
    /\ \E m \in Block \ memory :
         LET f == Freed(buf, memory \cup {m}, next)
         IN  /\ buf' = [f.buf EXCEPT ![b].part[p] = m, ![b].own = @ \cup {p}]
             /\ memory' = f.memory \ (IF p \in buf[b].own THEN {buf[b].part[p]} ELSE {})
    /\ held' = held \ {next}

BufNext ==
    \E b \in Buf :
        \/ NutNetBufFree(b)
        \/ \E p \in Part : NutNetBufAllocNew(b, p) \/ NutNetBufAlloc(b, p)
        \/ \E c \in Buf : \/ \E inserts \in SUBSET Part : NutNetBufClonePart(b, c, inserts)
                          \/ \E p \in Part : NutNetBufCollect(b, c, p)

BufSpec == BufInit /\ [][BufNext]_bufVars

-----------------------------------------------------------------------------
(* Properties.                                                              *)

Using == {b \in Buf : buf[b].used}

(* Whoever has a buffer may use its parts: their memory is allocated, in    *)
(* whatever order the buffer and its clones are released.                   *)
PartsAlive == \A b \in held : b \in Using /\ \A p \in Parts(b) : buf[b].part[p] \in memory

(* Memory is allocated once and for a buffer in use, and a structure is in  *)
(* use as long as somebody has it or a clone of it: when all buffers are    *)
(* released nothing is left.                                                *)
NothingLeaked ==
    /\ memory = UNION {{buf[b].part[p] : p \in buf[b].own} : b \in Using}
    /\ \A b, c \in Using : \A p \in buf[b].own, q \in buf[c].own :
         buf[b].part[p] = buf[c].part[q] => b = c /\ p = q
    /\ \A b \in Using : b \in held \/ \E c \in Using : buf[c].ref = b

(* NutNetBufFree() and the counts of references keep the memory of network  *)
(* buffers for exactly as long as it is used.                               *)
BuffersKept == PartsAlive /\ NothingLeaked
=============================================================================
