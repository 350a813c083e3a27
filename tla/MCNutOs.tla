------------------------------- MODULE MCNutOs -------------------------------
(***************************************************************************)
(* Small instances of what no other module composes: the mutex, the         *)
(* condition variable over it, the semaphore, the heap, the segmented       *)
(* buffer and the serial device.  They share no state, so a behaviour is    *)
(* one of them.                                                             *)
(***************************************************************************)
EXTENDS NutCondition, NutSemaphore, NutHeap, NutSegBuf, NutUsart

VARIABLE part   \* the part that runs

osVars == <<part, allVars, semVars, heapVars, segVars, usartVars>>

OsInit ==
    /\ part \in {"mutex", "condition", "semaphore", "heap", "bankmem", "usart"}
    /\ CondInit /\ SemInit /\ HeapInit /\ SegInit /\ UsartInit

OsNext ==
    /\ \/ part = "mutex" /\ Next /\ UNCHANGED <<condVars, semVars, heapVars, segVars, usartVars>>
       \/ part = "condition" /\ CondNext /\ UNCHANGED <<semVars, heapVars, segVars, usartVars>>
       \/ part = "semaphore" /\ SemNext /\ UNCHANGED <<allVars, heapVars, segVars, usartVars>>
       \/ part = "heap" /\ HeapNext /\ UNCHANGED <<allVars, semVars, segVars, usartVars>>
       \/ part = "bankmem" /\ SegNext /\ UNCHANGED <<allVars, semVars, heapVars, usartVars>>
       \/ part = "usart" /\ UsartNext /\ UNCHANGED <<allVars, semVars, heapVars, segVars>>
    /\ UNCHANGED part

OsSpec == OsInit /\ [][OsNext]_osVars

(* Two regions with a gap, one that touches, in words of the ARM port.      *)
Regions == {[addr |-> 0, size |-> 9], [addr |-> 9, size |-> 3], [addr |-> 13, size |-> 4]}
=============================================================================
