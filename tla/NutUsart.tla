------------------------------ MODULE NutUsart ------------------------------
(***************************************************************************)
(* dev/usart.c with arch/avr/dev/usartavr.c: a serial device whose ring     *)
(* buffers one thread that reads and one that writes share with the         *)
(* interrupt handlers, with software handshake.                             *)
(*                                                                          *)
(* An interrupt may come between any two steps; the other thread runs only  *)
(* when the first sleeps or has returned.  Characters are numbered in the   *)
(* order in which they enter a buffer, modulo Modulus.                      *)
(***************************************************************************)
EXTENDS Integers

CONSTANTS
    RingSize,       \* USART_RXBUFSIZ, USART_TXBUFSIZ
    LowMark,        \* USART_RXLOWMARK, USART_TXLOWMARK
    HighMark,       \* USART_RXHIWMARK, USART_TXHIWMARK
    PutMax,         \* bound: the characters of one UsartWrite()
    Modes,          \* how the device is opened: for reading, writing or both
    Handshake,      \* USART_MF_XONXOFF is set
    Hasty           \* the output is closed or discarded with characters left

ASSUME MarkAssumption ==
    /\ {RingSize, LowMark, HighMark, PutMax} \subseteq Nat /\ PutMax > 0
    /\ LowMark < HighMark /\ HighMark <= RingSize
ASSUME UsartAssumption ==
    /\ Modes \subseteq {{"r"}, {"w"}, {"r", "w"}}
    /\ Handshake \in BOOLEAN /\ Hasty \in BOOLEAN

Modulus == 2 * RingSize

VARIABLES
    rx, tx,       \* dcb_rx_rbf and dcb_tx_rbf, with what they remember of events
    flow,         \* the flags of flow_control
    udr, udrie,   \* the data register, and whether its interrupt is enabled
    remote,       \* the other end: may it send
    reader,       \* the call of UsartRead() in progress
    writer,       \* and that of UsartPut() or UsartIOCtl()
    heard, taken, \* history: numbers of the next character received, read,
    wrote, sent   \* written and sent

usartVars == <<rx, tx, flow, udr, udrie, remote, reader, writer, heard, taken, wrote, sent>>

rxVars == <<rx, reader, heard, taken>>
txVars == <<tx, udrie, writer, wrote, sent>>
lineVars == <<flow, udr, remote>>

NoRing == [siz |-> 0, head |-> 0, tail |-> 0, cnt |-> 0, signaled |-> FALSE,
           mem |-> [i \in 0..(RingSize - 1) |-> 0]]

(* UsartResetBuffer(); a buffer that is only emptied goes through the same  *)
(* steps, one at a time.                                                    *)
NewRing(r) == [NoRing EXCEPT !.siz = RingSize, !.signaled = r.signaled]
ClosedRing(r) == [NoRing EXCEPT !.cnt = r.cnt, !.signaled = r.signaled]

Idle == [at |-> "idle", avail |-> 0, n |-> 0, size |-> 0]

(* The device is open.  The first read is to send XON.                      *)
UsartInit ==
    /\ \E mode \in Modes : /\ rx = IF "r" \in mode THEN NewRing(NoRing) ELSE NoRing
                          /\ tx = IF "w" \in mode THEN NewRing(NoRing) ELSE NoRing
    /\ flow = IF Handshake THEN {"XOFF_SENT"} ELSE {}
    /\ udr = "empty" /\ udrie = FALSE
    /\ remote = "runs"
    /\ reader = Idle /\ writer = Idle
    /\ heard = 0 /\ taken = 0 /\ wrote = 0 /\ sent = 0

-----------------------------------------------------------------------------
(* Rings and events.                                                        *)

After(i) == (i + 1) % RingSize
Next1(n) == (n + 1) % Modulus

(* NutEventPostFromIrq() of the queue of a ring, on which only the thread   *)
(* in call c may sleep.                                                     *)
FromIrq(r, c) == [r EXCEPT !.signaled = (c.at # "asleep")]
Woken(c) == IF c.at = "asleep" THEN [c EXCEPT !.at = "look"] ELSE c

Stored(r, n) == [r EXCEPT !.mem[r.head] = n, !.head = After(@)]

(* What is removed is not kept, for fewer states.                           *)
Removed(r) == [r EXCEPT !.mem[r.tail] = 0, !.tail = After(@)]

-----------------------------------------------------------------------------
(* The interrupt handlers.                                                  *)

(* Above the high watermark XOFF is sent, at once or later.                 *)
SendXoff(cnt) ==
    IF ~Handshake \/ cnt < HighMark \/ "XOFF_SENT" \in flow THEN UNCHANGED <<flow, udr>>
    ELSE IF udr = "empty"
      THEN udr' = "XOFF" /\ flow' = (flow \cup {"XOFF_SENT"}) \ {"XOFF_PENDING"}
      ELSE flow' = flow \cup {"XOFF_PENDING"} /\ UNCHANGED udr

(* AvrUsartRxComplete() receives a character, which is lost without room.   *)
RxComplete ==
    /\ remote = "runs"
    /\ IF rx.cnt >= rx.siz THEN UNCHANGED <<rx, reader, heard, flow, udr>>
       ELSE LET r == [Stored(rx, heard) EXCEPT !.cnt = @ + 1]
            IN  /\ heard' = Next1(heard)
                /\ IF rx.cnt = 0 THEN /\ rx' = FromIrq(r, reader)
                                      /\ reader' = Woken(reader)
                                      /\ UNCHANGED <<flow, udr>>
                                 ELSE rx' = r /\ UNCHANGED reader /\ SendXoff(r.cnt)
    /\ UNCHANGED <<taken, remote, txVars>>

(* AvrUsartRxComplete() receives XOFF or XON.                               *)
RxControl ==
    /\ Handshake
    /\ \/ udrie' = FALSE /\ flow' = flow \cup {"XOFF_RCVD"}
       \/ udrie' = TRUE /\ flow' = flow \ {"XOFF_RCVD"}
    /\ UNCHANGED <<tx, writer, wrote, sent, udr, remote, rxVars>>

(* AvrUsartTxEmpty(): a pending XON or XOFF, the next character, or the end.*)
TxControl ==
    /\ flow \cap {"XON_PENDING", "XOFF_PENDING"} # {}
    /\ IF "XON_PENDING" \in flow
         THEN udr' = "XOFF" /\ flow' = (flow \ {"XON_PENDING", "XOFF_PENDING"}) \cup {"XOFF_SENT"}
         ELSE udr' = "XON" /\ flow' = flow \ {"XOFF_PENDING", "XOFF_SENT"}
    /\ UNCHANGED txVars

TxStopped ==
    /\ udrie' = FALSE
    /\ UNCHANGED <<tx, writer, wrote, sent, udr, flow>>

TxNext_NoPost ==   \* fault: the low watermark is passed without an event
    /\ udr' = "data"
    /\ sent' = Next1(tx.mem[tx.tail])
    /\ tx' = [Removed(tx) EXCEPT !.cnt = @ - 1]
    /\ UNCHANGED <<writer, udrie, wrote, flow>>

TxNext ==
    LET r == [Removed(tx) EXCEPT !.cnt = @ - 1]
    IN  /\ udr' = "data"
        /\ sent' = Next1(tx.mem[tx.tail])
        /\ IF r.cnt = LowMark THEN tx' = FromIrq(r, writer) /\ writer' = Woken(writer)
                              ELSE tx' = r /\ UNCHANGED writer
        /\ UNCHANGED <<udrie, wrote, flow>>

TxDone ==
    /\ udrie' = FALSE
    /\ tx' = FromIrq(tx, writer) /\ writer' = Woken(writer)
    /\ UNCHANGED <<wrote, sent, udr, flow>>

TxEmpty ==
    /\ udrie /\ udr = "empty"
    /\ \/ TxControl
       \/ /\ flow \cap {"XON_PENDING", "XOFF_PENDING"} = {}
          /\ IF "XOFF_RCVD" \in flow THEN TxStopped
             ELSE IF tx.cnt > 0 THEN TxNext ELSE TxDone
    /\ UNCHANGED <<remote, rxVars>>

(* The hardware has transmitted the data register; XOFF stops the remote.   *)
Transmitted ==
    /\ udr # "empty"
    /\ udr' = "empty"
    /\ remote' = CASE udr = "XOFF" -> "stopped" [] udr = "XON" -> "runs" [] OTHER -> remote
    /\ UNCHANGED <<flow, rxVars, txVars>>

-----------------------------------------------------------------------------
(* UsartRead().                                                             *)

Busy(c) == c.at \notin {"idle", "asleep", "look"}

(* A thread that was woken runs when the other one sleeps or has returned.  *)
ReaderAt(p) == reader.at = p /\ ~Busy(writer)
WriterAt(p) == writer.at = p /\ ~Busy(reader)

ReadTo(p) == reader' = [reader EXCEPT !.at = p]

RxStart ==
    IF "XOFF_SENT" \notin flow THEN UNCHANGED <<flow, udr>>
    ELSE IF udr = "empty"
      THEN udr' = "XON" /\ flow' = flow \ {"XON_PENDING", "XOFF_SENT", "XOFF_PENDING"}
      ELSE flow' = (flow \cup {"XON_PENDING"}) \ {"XOFF_SENT", "XOFF_PENDING"} /\ UNCHANGED udr

UsartRead ==
    /\ ReaderAt("idle") /\ rx.siz > 0
    /\ \/ \E n \in 1..RingSize : reader' = [Idle EXCEPT !.at = "count", !.size = n]
       \/ reader' = [Idle EXCEPT !.at = "off"]
    /\ UNCHANGED <<rx, heard, taken, lineVars, txVars>>

(* Back from the wait, the device may have been closed.                     *)
ReadLook ==
    /\ ReaderAt("look")
    /\ IF rx.siz = 0 THEN reader' = Idle ELSE ReadTo("count")
    /\ UNCHANGED <<rx, heard, taken, lineVars, txVars>>

ReadCount ==
    /\ ReaderAt("count")
    /\ reader' = [reader EXCEPT !.avail = rx.cnt, !.at = IF rx.cnt > 0 THEN "copy" ELSE "start"]
    /\ UNCHANGED <<rx, heard, taken, lineVars, txVars>>

ReadStart ==
    /\ ReaderAt("start")
    /\ RxStart
    /\ ReadTo("wait")
    /\ UNCHANGED <<rx, heard, taken, remote, txVars>>

ReadWait ==
    /\ ReaderAt("wait")
    /\ ReadTo(IF rx.signaled THEN "look" ELSE "asleep")
    /\ rx' = [rx EXCEPT !.signaled = FALSE]
    /\ UNCHANGED <<heard, taken, lineVars, txVars>>

ReadTimeout ==
    /\ reader.at = "asleep"
    /\ reader' = Idle
    /\ UNCHANGED <<rx, heard, taken, lineVars, txVars>>

ReadCopy ==
    /\ ReaderAt("copy") /\ reader.n < reader.size /\ reader.n < reader.avail
    /\ taken' = Next1(rx.mem[rx.tail])
    /\ rx' = Removed(rx)
    /\ reader' = [reader EXCEPT !.n = @ + 1]
    /\ UNCHANGED <<heard, lineVars, txVars>>

ReadDone_OldCount ==   \* fault: characters that came meanwhile are not counted
    /\ ReaderAt("copy") /\ (reader.n = reader.size \/ reader.n = reader.avail)
    /\ rx' = [rx EXCEPT !.cnt = reader.avail - reader.n]
    /\ ReadTo("mark")
    /\ UNCHANGED <<heard, taken, lineVars, txVars>>

ReadDone ==
    /\ ReaderAt("copy") /\ (reader.n = reader.size \/ reader.n = reader.avail)
    /\ rx' = [rx EXCEPT !.cnt = @ - reader.n]
    /\ ReadTo("mark")
    /\ UNCHANGED <<heard, taken, lineVars, txVars>>

ReadReturns ==
    /\ ReaderAt("mark")
    /\ reader' = IF rx.cnt < LowMark THEN [reader EXCEPT !.at = "kick"] ELSE Idle
    /\ UNCHANGED <<rx, heard, taken, lineVars, txVars>>

ReadKick ==
    /\ ReaderAt("kick")
    /\ RxStart
    /\ reader' = Idle
    /\ UNCHANGED <<rx, heard, taken, remote, txVars>>

(* Without a place to copy to, what is received is discarded.               *)
ReadDiscard ==
    /\ \/ ReaderAt("off") /\ rx' = [rx EXCEPT !.siz = 0] /\ ReadTo("head") /\ UNCHANGED taken
       \/ ReaderAt("head") /\ rx' = [rx EXCEPT !.head = 0] /\ ReadTo("tail") /\ UNCHANGED taken
       \/ ReaderAt("tail") /\ rx' = [rx EXCEPT !.tail = 0] /\ ReadTo("cnt") /\ taken' = heard
       \/ ReaderAt("cnt") /\ rx' = [rx EXCEPT !.cnt = 0] /\ ReadTo("on") /\ UNCHANGED taken
       \/ ReaderAt("on") /\ rx' = [rx EXCEPT !.siz = RingSize] /\ ReadTo("kick") /\ UNCHANGED taken
    /\ UNCHANGED <<heard, lineVars, txVars>>

-----------------------------------------------------------------------------
(* UsartPut() and UsartFlushOutput().                                       *)

WriteTo(p) == writer' = [writer EXCEPT !.at = p]

(* size characters are to be written, or for none the buffer is flushed.    *)
(* n of them are in the buffer but not in its count; avail is the count as  *)
(* it was read last.                                                        *)
UsartWrite ==
    /\ WriterAt("idle") /\ tx.siz > 0
    /\ \E n \in 0..PutMax :
         writer' = [Idle EXCEPT !.at = IF n > 0 THEN "put" ELSE "flush", !.size = n, !.avail = tx.cnt]
    /\ UNCHANGED <<tx, udrie, wrote, sent, lineVars, rxVars>>

PutCharacter ==
    /\ WriterAt("put") /\ writer.size > 0 /\ writer.avail + writer.n < HighMark
    /\ tx' = Stored(tx, wrote)
    /\ wrote' = Next1(wrote)
    /\ writer' = [writer EXCEPT !.n = @ + 1, !.size = @ - 1]
    /\ UNCHANGED <<udrie, sent, lineVars, rxVars>>

PutFlush ==
    /\ WriterAt("put") /\ writer.size > 0 /\ writer.avail + writer.n >= HighMark
    /\ WriteTo("flush")
    /\ UNCHANGED <<tx, udrie, wrote, sent, lineVars, rxVars>>

Remaining == IF writer.size = 0 THEN 0 ELSE LowMark

(* The new characters are counted; is there more in the buffer than left.   *)
Flush ==
    /\ WriterAt("flush")
    /\ LET cnt == tx.cnt + writer.n
       IN  /\ tx' = [tx EXCEPT !.cnt = cnt]
           /\ writer' = [writer EXCEPT !.n = 0, !.avail = cnt,
                         !.at = IF cnt > Remaining THEN "start" ELSE IF writer.size = 0 THEN "idle" ELSE "put"]
    /\ UNCHANGED <<udrie, wrote, sent, lineVars, rxVars>>

FlushStart ==
    /\ WriterAt("start")
    /\ udrie' = TRUE
    /\ WriteTo("wait")
    /\ UNCHANGED <<tx, wrote, sent, lineVars, rxVars>>

FlushWait ==
    /\ WriterAt("wait")
    /\ WriteTo(IF tx.signaled THEN "look" ELSE "asleep")
    /\ tx' = [tx EXCEPT !.signaled = FALSE]
    /\ UNCHANGED <<udrie, wrote, sent, lineVars, rxVars>>

FlushLook ==
    /\ WriterAt("look")
    /\ WriteTo("flush")
    /\ UNCHANGED <<tx, udrie, wrote, sent, lineVars, rxVars>>

(* The timeout: the rest is not written.                                    *)
WriteTimeout ==
    /\ writer.at = "asleep"
    /\ writer' = Idle
    /\ UNCHANGED <<tx, udrie, wrote, sent, lineVars, rxVars>>

WriteDone ==
    /\ WriterAt("put") /\ writer.size = 0
    /\ tx' = [tx EXCEPT !.cnt = @ + writer.n]
    /\ writer' = [Idle EXCEPT !.at = "kick"]
    /\ UNCHANGED <<udrie, wrote, sent, lineVars, rxVars>>

WriteReturns ==
    /\ WriterAt("kick")
    /\ udrie' = TRUE
    /\ writer' = Idle
    /\ UNCHANGED <<tx, wrote, sent, lineVars, rxVars>>

(* UsartIOCtl() with UART_TXBUFFEREMPTY.                                    *)
UsartIOCtl ==
    /\ WriterAt("idle") /\ tx.siz > 0
    /\ Hasty \/ tx.cnt = 0
    /\ WriteTo("off")
    /\ UNCHANGED <<tx, udrie, wrote, sent, lineVars, rxVars>>

WriteDiscard ==
    /\ \/ WriterAt("off") /\ tx' = [tx EXCEPT !.siz = 0] /\ WriteTo("head") /\ UNCHANGED sent
       \/ WriterAt("head") /\ tx' = [tx EXCEPT !.head = 0] /\ WriteTo("tail") /\ UNCHANGED sent
       \/ WriterAt("tail") /\ tx' = [tx EXCEPT !.tail = 0] /\ WriteTo("cnt") /\ sent' = wrote
       \/ WriterAt("cnt") /\ tx' = [tx EXCEPT !.cnt = 0] /\ WriteTo("on") /\ UNCHANGED sent
       \/ WriterAt("on") /\ tx' = [tx EXCEPT !.siz = RingSize] /\ writer' = Idle /\ UNCHANGED sent
    /\ UNCHANGED <<udrie, wrote, lineVars, rxVars>>

-----------------------------------------------------------------------------
(* UsartClose() and UsartOpen() by some third thread.                       *)

UsartClose ==
    /\ ~Busy(reader) /\ ~Busy(writer) /\ rx.siz + tx.siz > 0
    /\ Hasty \/ (tx.cnt = 0 /\ writer.at = "idle")
    /\ tx' = ClosedRing(tx)
    /\ rx' = [ClosedRing(rx) EXCEPT !.signaled = FALSE]
    /\ reader' = Woken(reader)
    /\ heard' = 0 /\ taken' = 0 /\ wrote' = 0 /\ sent' = 0
    /\ UNCHANGED <<udrie, writer, lineVars>>

UsartOpen ==
    /\ ~Busy(reader) /\ ~Busy(writer) /\ rx.siz + tx.siz = 0
    /\ \E mode \in Modes :
         /\ rx' = IF "r" \in mode THEN NewRing(rx) ELSE rx
         /\ tx' = IF "w" \in mode THEN NewRing(tx) ELSE tx
         /\ IF "r" \in mode THEN RxStart ELSE UNCHANGED <<flow, udr>>
    /\ heard' = 0 /\ taken' = 0 /\ wrote' = 0 /\ sent' = 0
    /\ UNCHANGED <<udrie, reader, writer, remote>>

Interrupt == RxComplete \/ RxControl \/ TxEmpty \/ Transmitted

ReaderRuns ==
    \/ ReadLook \/ ReadCount \/ ReadStart \/ ReadWait
    \/ ReadCopy \/ ReadDone \/ ReadReturns \/ ReadKick \/ ReadDiscard

WriterRuns ==
    \/ PutCharacter \/ PutFlush \/ Flush \/ FlushStart \/ FlushWait \/ FlushLook
    \/ WriteDone \/ WriteReturns \/ WriteDiscard

UsartNext ==
    \/ Interrupt
    \/ UsartRead \/ ReadTimeout \/ ReaderRuns
    \/ UsartWrite \/ UsartIOCtl \/ WriteTimeout \/ WriterRuns
    \/ UsartClose \/ UsartOpen

UsartSpec == UsartInit /\ [][UsartNext]_usartVars

(* The line transmits, and the interrupts and the threads run.  Nothing is  *)
(* said of the other end and of timeouts.                                   *)
UsartFairSpec ==
    /\ UsartSpec
    /\ WF_usartVars(Transmitted) /\ WF_usartVars(TxEmpty)
    /\ WF_usartVars(ReaderRuns) /\ WF_usartVars(WriterRuns)

-----------------------------------------------------------------------------
(* Properties.                                                              *)

(* n characters are in ring r, the first of them number first.              *)
Holds(r, n, first) ==
    /\ n \in 0..RingSize
    /\ (r.head - r.tail - n) % RingSize = 0
    /\ \A i \in 0..(n - 1) : r.mem[(r.tail + i) % RingSize] = (first + i) % Modulus

(* Both rings are queues: what is in them comes out in order, once and not  *)
(* overwritten, whenever interrupts change the counts that UsartRead() and  *)
(* UsartPut() have read before, and bring up to date later.                 *)
RingsKept ==
    /\ rx.siz > 0 =>
         LET n == rx.cnt - (IF reader.at = "copy" THEN reader.n ELSE 0)
         IN  Holds(rx, n, taken) /\ heard = (taken + n) % Modulus
    /\ tx.siz > 0 =>
         LET n == tx.cnt + writer.n
         IN  Holds(tx, n, sent) /\ wrote = (sent + n) % Modulus

(* No thread sleeps for what is already there: a reader with characters or  *)
(* without a device, a writer with room, or any for an interrupt that is    *)
(* off although the other end accepts characters.                           *)
SleepersTold ==
    /\ reader.at = "asleep" => rx.siz > 0 /\ rx.cnt = 0
    /\ writer.at = "asleep" => /\ udrie \/ "XOFF_RCVD" \in flow
                               /\ writer.size > 0 => tx.cnt > LowMark

(* "Disable further buffer usage": while a buffer is disabled the interrupt *)
(* takes nothing from it.                                                   *)
DisabledUnused == [][tx.siz = 0 => tx'.tail = tx.tail \/ writer.at = "tail"]_usartVars

(* Waiting for a character "will re-enable the remote transmitter by        *)
(* sending a XON character".                                                *)
RemoteEnabled == remote = "stopped" /\ reader.at = "asleep" ~> remote = "runs" \/ reader.at # "asleep"
=============================================================================
