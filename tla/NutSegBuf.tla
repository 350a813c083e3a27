------------------------------ MODULE NutSegBuf ------------------------------
(***************************************************************************)
(* os/bankmem.c: the segmented buffer, a ring over banks of memory of which *)
(* one at a time is enabled, as the decoder drivers and players use it: a   *)
(* thread fills it, the interrupt handler (arch/avr/dev/vs1001k.c,          *)
(* VsPlayerFeed()) empties it.  The thread keeps the interrupt off during   *)
(* each call, but not between them, while it fills what it requested.       *)
(*                                                                          *)
(* Units are numbered as they are filled, modulo Number.                    *)
(***************************************************************************)
EXTENDS Integers

CONSTANTS
    Banks,   \* NUTBANK_COUNT, or 1 without banked memory
    Size     \* units in a bank: segbuf_end - segbuf_start

ASSUME SegBufAssumption == {Banks, Size} \subseteq Nat \ {0}

Total == Banks * Size
Number == Total + 1

VARIABLES
    ws, wp, rs, rp, segbuf_empty, segbuf_used,   \* segbuf_ws and so on
    enabled,   \* the bank that memory accesses go to
    mem,       \* the contents of the banks
    room,      \* units the thread may still fill of those it requested
    filled,    \* and those it has filled since
    feed,      \* <<>> or, in the interrupt, <<available, consumed>>
    put, got   \* history: the number to fill next, and to be read next

segVars == <<ws, wp, rs, rp, segbuf_empty, segbuf_used, enabled, mem, room, filled, feed, put, got>>

writeVars == <<ws, wp, room, filled, put>>
readVars == <<rs, rp, feed, got>>

(* NutSegBufReset().                                                        *)
SegInit ==
    /\ ws = 0 /\ wp = 0 /\ rs = 0 /\ rp = 0 /\ segbuf_empty = TRUE /\ segbuf_used = 0 /\ enabled = 0
    /\ mem = [b \in 0..(Banks - 1) |-> [i \in 0..(Size - 1) |-> 0]]
    /\ room = 0 /\ filled = 0 /\ feed = <<>> /\ put = 0 /\ got = 0

-----------------------------------------------------------------------------
(* The thread.                                                              *)

NotInterrupted == feed = <<>>

WriteRoom_WhenFull ==   \* fault: a full buffer has room
    IF segbuf_empty \/ ws # rs \/ wp >= rp THEN Size - wp ELSE rp - wp

WriteRoom == IF segbuf_empty \/ ws # rs \/ wp > rp THEN Size - wp ELSE rp - wp

NutSegBufWriteRequest ==
    /\ NotInterrupted /\ room = 0 /\ filled = 0
    /\ room' = WriteRoom
    /\ enabled' = ws
    /\ UNCHANGED <<ws, wp, segbuf_empty, segbuf_used, mem, filled, put, readVars>>

Fill ==
    /\ NotInterrupted /\ filled < room
    /\ mem' = [mem EXCEPT ![enabled][wp + filled] = put]
    /\ put' = (put + 1) % Number
    /\ filled' = filled + 1
    /\ UNCHANGED <<ws, wp, segbuf_empty, segbuf_used, enabled, room, readVars>>

(* The write position after what is filled.                                 *)
WriteCommitted ==
    /\ NotInterrupted /\ filled > 0
    /\ segbuf_empty' = FALSE /\ segbuf_used' = segbuf_used + filled
    /\ wp' = (wp + filled) % Size
    /\ ws' = IF wp + filled = Size THEN (ws + 1) % Banks ELSE ws
    /\ filled' = 0

NutSegBufWriteCommit ==
    /\ WriteCommitted
    /\ enabled' = IF wp + filled = Size THEN ws' ELSE enabled
    /\ room' = room - filled
    /\ UNCHANGED <<mem, put, readVars>>

NutSegBufWriteLast ==
    /\ WriteCommitted \/ (NotInterrupted /\ filled = 0 /\ UNCHANGED <<ws, wp, segbuf_empty, segbuf_used, filled>>)
    /\ enabled' = rs
    /\ room' = 0
    /\ UNCHANGED <<mem, put, readVars>>

-----------------------------------------------------------------------------
(* The interrupt.                                                           *)

ReadAvailable ==
    IF segbuf_empty THEN 0 ELSE IF ws # rs \/ rp >= wp THEN Size - rp ELSE wp - rp

NutSegBufReadRequest ==
    /\ feed \in {<<>>, <<0, 0>>}
    /\ feed' = <<ReadAvailable, 0>>
    /\ enabled' = rs
    /\ UNCHANGED <<rs, rp, segbuf_empty, segbuf_used, mem, got, writeVars>>

Feed ==
    /\ feed # <<>> /\ feed[2] < feed[1]
    /\ got' = (mem[enabled][rp + feed[2]] + 1) % Number
    /\ feed' = [feed EXCEPT ![2] = @ + 1]
    /\ UNCHANGED <<rs, rp, segbuf_empty, segbuf_used, enabled, mem, writeVars>>

ReadCommitted ==
    /\ segbuf_used' = segbuf_used - feed[2]
    /\ rp' = (rp + feed[2]) % Size
    /\ rs' = IF rp + feed[2] = Size THEN (rs + 1) % Banks ELSE rs
    /\ segbuf_empty' = (rp' = wp /\ rs' = ws)

(* All that was available has been consumed.                                *)
NutSegBufReadCommit ==
    /\ feed # <<>> /\ feed[2] > 0 /\ feed[2] = feed[1]
    /\ ReadCommitted
    /\ enabled' = IF rp + feed[2] = Size THEN rs' ELSE enabled
    /\ feed' = <<0, 0>>
    /\ UNCHANGED <<mem, got, writeVars>>

(* The decoder is full, or the buffer empty: the interrupt ends.            *)
NutSegBufReadLast ==
    /\ feed # <<>>
    /\ IF feed[2] > 0 THEN ReadCommitted ELSE UNCHANGED <<rs, rp, segbuf_empty, segbuf_used>>
    /\ enabled' = ws
    /\ feed' = <<>>
    /\ UNCHANGED <<mem, got, writeVars>>

SegNext ==
    \/ NutSegBufWriteRequest \/ Fill \/ NutSegBufWriteCommit \/ NutSegBufWriteLast
    \/ NutSegBufReadRequest \/ Feed \/ NutSegBufReadCommit \/ NutSegBufReadLast

SegSpec == SegInit /\ [][SegNext]_segVars

-----------------------------------------------------------------------------
(* Properties.                                                              *)

(* The unit i behind the read position.                                     *)
UnitAt(i) == LET n == (rs * Size + rp + i) % Total IN mem[n \div Size][n % Size]

(* The buffer is a queue: what is committed and not yet read is there, in   *)
(* order and never overwritten, over the ends of banks and of the ring, and *)
(* the count says how much it is; whatever interrupts come between request, *)
(* filling and commit.                                                      *)
QueueKept ==
    LET consumed == IF feed = <<>> THEN 0 ELSE feed[2]
    IN  /\ segbuf_used <= Total /\ (segbuf_empty <=> segbuf_used = 0)
        /\ (ws * Size + wp - rs * Size - rp - segbuf_used) % Total = 0
        /\ put = (got + (segbuf_used - consumed) + filled) % Number
        /\ \A i \in consumed..(segbuf_used - 1) : UnitAt(i) = (got + i - consumed) % Number
=============================================================================
