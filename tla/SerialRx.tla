------------------------------ MODULE SerialRx ------------------------------
(***************************************************************************)
(* Interrupt-driven reception of one UART of the alarm host: the UART's    *)
(* data register, the serial framework's ISR and software FIFO             *)
(* (components/drivers/serial/serial.c), the rx_indicate callback that     *)
(* releases a semaphore, and the reader thread that alternates             *)
(* rt_device_read and rt_sem_take (uart3_rx_thread_entry).                 *)
(*                                                                         *)
(* One action is one stretch of code that nothing relevant can preempt: a  *)
(* critical section of the thread, or an iteration of the ISR (during      *)
(* which no thread runs: one core).  The remote chip sends at any moment,  *)
(* between two ISR iterations too.                                         *)
(***************************************************************************)
EXTENDS Integers, Sequences

CONSTANTS
    BufSz,      \* serial->config.bufsz, 64 in the firmware
    SemMod,     \* sem->value is an rt_uint16_t: 65536
    Streams     \* the byte streams the remote chip may send

Byte == 0..255
NoByte == -1    \* what getc returns when RXNE is clear

ASSUME BufSzAssumption == BufSz \in Nat /\ BufSz >= 2

(* A stream shorter than the semaphore's range: value ++ does not wrap.    *)
ASSUME StreamsAssumption ==
    /\ SemMod \in Nat /\ SemMod > 0
    /\ Streams \subseteq Seq(Byte)
    /\ \A s \in Streams : Len(s) < SemMod

VARIABLES
    line,       \* bytes the chip has still to send
    rdr,        \* the UART's one-byte receive data register
    isr,        \* TRUE inside rt_hw_serial_isr, once a byte was fetched
    hooked,     \* rt_device_set_rx_indicate has run
    buffer, put_index, get_index, is_full,      \* the rt_serial_rx_fifo
    value,      \* m_rx_sem->value
    pc,         \* where the reader thread is
    ch,         \* the reader's local variable
    out,        \* history: bytes handed to the code below the read loop
    dropped     \* history: bytes lost by the UART or evicted from the FIFO

fifo   == <<buffer, put_index, get_index, is_full>>
reader == <<pc, ch, out>>
vars   == <<line, rdr, isr, hooked, fifo, value, reader, dropped>>

Index == 0..BufSz-1

PC == {"off",       \* not started yet
       "read",      \* about to call rt_device_read
       "take",      \* read returned 0, about to call rt_sem_take
       "blocked",   \* suspended on the semaphore
       "got"}       \* read returned 1: ch holds a byte

TypeOK ==
    /\ line \in Seq(Byte)
    /\ rdr \in Byte \cup {NoByte}
    /\ isr \in BOOLEAN
    /\ hooked \in BOOLEAN
    /\ buffer \in [Index -> Byte]
    /\ put_index \in Index
    /\ get_index \in Index
    /\ is_full \in BOOLEAN
    /\ value \in 0..SemMod-1
    /\ pc \in PC
    /\ ch \in Byte
    /\ out \in Seq(Byte)
    /\ dropped \in Nat

-----------------------------------------------------------------------------
(* rt_serial_open with INT_RX has built an empty FIFO and enabled the RXNE *)
(* interrupt; the callback is not registered and the reader not created.   *)
Init ==
    /\ line \in Streams
    /\ rdr = NoByte
    /\ isr = FALSE
    /\ hooked = FALSE
    /\ buffer = [i \in Index |-> 0]
    /\ put_index = 0
    /\ get_index = 0
    /\ is_full = FALSE
    /\ value = 0
    /\ pc = "off"
    /\ ch = 0
    /\ out = <<>>
    /\ dropped = 0

(* Mutant: the wrap test is ">" instead of ">=".                           *)
SuccPastEnd(i) == IF i + 1 > BufSz THEN 0 ELSE i + 1

(* Index arithmetic of the FIFO: "+= 1; if (>= bufsz) = 0".                *)
Succ(i) == IF i + 1 >= BufSz THEN 0 ELSE i + 1

(* rx_length as the ISR computes it.                                       *)
RxLength == IF put_index >= get_index THEN put_index - get_index
                                      ELSE BufSz - (get_index - put_index)

FifoEmpty == get_index = put_index /\ is_full = FALSE

-----------------------------------------------------------------------------
(* The wire: the next byte reaches the data register, or is lost to an     *)
(* overrun when the previous one has not been fetched.                     *)
ChipSend ==
    /\ line # <<>>
    /\ line' = Tail(line)
    /\ IF rdr = NoByte
       THEN rdr' = Head(line) /\ UNCHANGED dropped
       ELSE dropped' = dropped + 1 /\ UNCHANGED rdr
    /\ UNCHANGED <<isr, hooked, fifo, value, reader>>

(* Mutant: on overrun the flag is set but the oldest byte is not skipped.  *)
IsrGetcNoEvict ==
    /\ rdr # NoByte
    /\ rdr' = NoByte
    /\ isr' = TRUE
    /\ buffer' = [buffer EXCEPT ![put_index] = rdr]
    /\ put_index' = Succ(put_index)
    /\ is_full' = (is_full \/ Succ(put_index) = get_index)
    /\ UNCHANGED <<get_index, dropped, line, hooked, value, reader>>

(* One iteration of the ISR's loop: fetch a byte and put it in the FIFO;   *)
(* when put catches up with get, the oldest byte is dropped.               *)
IsrGetc ==
    /\ rdr # NoByte
    /\ rdr' = NoByte
    /\ isr' = TRUE
    /\ buffer' = [buffer EXCEPT ![put_index] = rdr]
    /\ put_index' = Succ(put_index)
    /\ IF Succ(put_index) = get_index
       THEN /\ get_index' = Succ(get_index)
            /\ is_full' = TRUE
            /\ dropped' = dropped + 1
       ELSE UNCHANGED <<get_index, is_full, dropped>>
    /\ UNCHANGED <<line, hooked, value, reader>>

(* Mutant: a release that finds no waiter is forgotten.                    *)
SemReleaseNoCount ==
    /\ pc' = IF pc = "blocked" THEN "read" ELSE pc
    /\ UNCHANGED value

(* rt_sem_release by the callback: resume the waiting reader, whose        *)
(* rt_sem_take then returns RT_EOK, or count.                              *)
SemRelease ==
    IF pc = "blocked"
    THEN pc' = "read" /\ UNCHANGED value
    ELSE /\ value' = IF value + 1 = SemMod THEN 0 ELSE value + 1
         /\ UNCHANGED pc

(* Mutant: the callback is made only for the FIFO's first byte.            *)
IsrIndicateFirstOnly ==
    /\ isr
    /\ rdr = NoByte
    /\ isr' = FALSE
    /\ IF hooked /\ RxLength = 1
       THEN SemRelease
       ELSE UNCHANGED <<value, pc>>
    /\ UNCHANGED <<line, rdr, hooked, fifo, ch, out, dropped>>

(* getc returned -1: call rx_indicate if there is one and the FIFO holds   *)
(* something, then return from the interrupt.                              *)
IsrIndicate ==
    /\ isr
    /\ rdr = NoByte
    /\ isr' = FALSE
    /\ IF hooked /\ RxLength # 0
       THEN SemRelease
       ELSE UNCHANGED <<value, pc>>
    /\ UNCHANGED <<line, rdr, hooked, fifo, ch, out, dropped>>

-----------------------------------------------------------------------------
(* Start-up: dev_uart3_init registers the callback after the open; main    *)
(* starts the reader thread later.                                         *)
SetRxIndicate ==
    /\ ~isr /\ ~hooked
    /\ hooked' = TRUE
    /\ UNCHANGED <<line, rdr, isr, fifo, value, reader, dropped>>

StartReader ==
    /\ ~isr /\ hooked /\ pc = "off"
    /\ pc' = "read"
    /\ UNCHANGED <<line, rdr, isr, hooked, fifo, value, ch, out, dropped>>

(* rt_device_read of one byte: the critical section of _serial_int_rx.     *)
ReadByte ==
    /\ ~isr /\ pc = "read"
    /\ IF FifoEmpty
       THEN pc' = "take" /\ UNCHANGED <<fifo, ch>>
       ELSE /\ pc' = "got"
            /\ ch' = buffer[get_index]
            /\ get_index' = Succ(get_index)
            /\ is_full' = FALSE
            /\ UNCHANGED <<buffer, put_index>>
    /\ UNCHANGED <<line, rdr, isr, hooked, value, out, dropped>>

(* rt_sem_take(m_rx_sem, RT_WAITING_FOREVER).                              *)
SemTake ==
    /\ ~isr /\ pc = "take"
    /\ IF value > 0
       THEN value' = value - 1 /\ pc' = "read"
       ELSE pc' = "blocked" /\ UNCHANGED value
    /\ UNCHANGED <<line, rdr, isr, hooked, fifo, ch, out, dropped>>

(* The body of the read loop uses ch and goes back to rt_device_read.      *)
UseByte ==
    /\ ~isr /\ pc = "got"
    /\ out' = Append(out, ch)
    /\ pc' = "read"
    /\ UNCHANGED <<line, rdr, isr, hooked, fifo, value, ch, dropped>>

Isr    == IsrGetc \/ IsrIndicate
Reader == ReadByte \/ SemTake \/ UseByte
Boot   == SetRxIndicate \/ StartReader
Next   == ChipSend \/ Isr \/ Boot \/ Reader

(* The hardware serves a pending interrupt, and nothing above the reader's *)
(* priority (3, the highest of the application) runs for ever.  Nothing is *)
(* assumed of the chip.                                                    *)
Fairness == WF_vars(Isr) /\ WF_vars(Boot) /\ WF_vars(Reader)

Spec     == Init /\ [][Next]_vars
FairSpec == Spec /\ Fairness

-----------------------------------------------------------------------------
(* No lost wakeup: whatever the interleaving of the ISR with the window    *)
(* between the failed read and the take, a reader that sleeps, or is going *)
(* to sleep for want of a token, leaves no byte behind it in the FIFO      *)
(* unless the interrupt that will wake it is already running.              *)
NoLostWakeup ==
    (pc = "blocked" \/ (pc = "take" /\ value = 0)) /\ ~isr => FifoEmpty

(* The FIFO's contents, oldest first.                                      *)
Slot(i) == IF i >= BufSz THEN i - BufSz ELSE i
Content == [i \in 1..RxLength |-> buffer[Slot(get_index + i - 1)]]

(* The driver, the ISR and the reader implement a byte channel that evicts *)
(* the oldest byte when full: bytes are read in order, each at most once,  *)
(* never a stale slot of the ring.                                         *)
Channel == INSTANCE ByteChannel WITH
    Capacity <- BufSz - 1,
    queue    <- Content,
    taken    <- IF pc = "got" THEN Append(out, ch) ELSE out
ChannelSpec == Channel!Spec

(* Once the chip pauses, every byte that reached the FIFO and was not      *)
(* evicted is used, and the reader sleeps on a drained FIFO: no release of *)
(* the semaphore is lost, whatever the ISR batched into one callback.      *)
Drained ==
    <>[](rdr = NoByte /\ RxLength = 0 /\ pc = "blocked")
=============================================================================
