# Formal models of the sensoro alarm host (`sss_alarm_host`)

The repository is an alarm host on an STM32F407: an RT-Thread 4.0.3 kernel
(`src/src`), its device framework (`src/components`), STM32 drivers
(`src/stm32/libraries/HAL_Drivers`) and an application
(`src/stm32/stm32f407-sensoro/applications`) that receives frames from an
"alpha" radio chip over UART3, plays voice clips from flash over I2S, polls
buttons, and talks to an NB-IoT modem and, over Ethernet, to lwIP.  Most of the 6111 files are
vendored (lwIP, DFS, HAL, CMSIS, packages); the models are about the program's
own concurrency: interrupts, threads, kernel objects and DMA.

Paths below are relative to the repository root; `app/` abbreviates
`stm32/stm32f407-sensoro/applications/`.

## 1. Inventory

| component | state | operations | talks to | hard because |
|---|---|---|---|---|
| Serial reception: `components/drivers/serial/serial.c`, `drv_usart.c`, `app/fun_handler/alpha_handler.c` | data register, software ring (`put_index`, `get_index`, `is_full`), `rx_indicate`, `m_rx_sem` | RXNE interrupt, `rt_device_read`, `rt_sem_take` | UART hardware, the reader thread | the interrupt may come between a failed read and the take; it batches bytes; the ring overruns |
| Message queue: `src/ipc.c` | slots on a free list and a message list, two lists of suspended threads | send, send_wait, urgent, recv, reset, timeouts | every thread, thread timers | slots are owned by no list while they are copied with interrupts on; wakeups race timeouts |
| Alpha receive path: `alpha_handler.c`, `alpha_tasks.c` | framer's flag, index, length, buffer; `gp_alpha_rx_mq` | store a byte, complete a frame, send, dispatch | the two above | no resynchronisation, unsigned widths, a queue that fills |
| Voice player: `app/fun_handler/voice_handler.c`, `app/i2s_dma.c` | two buffers, remaining size, `m_using_mem_buff`; DMA stream's EN, CT, NDTR, TCIF | `play_voice_start`, transfer-complete interrupt | DMA1 stream 4, SPI flash | software follows hardware's buffer switch by counting only |
| Mailbox, event: `src/ipc.c` | pool of mails, in and out offsets, two wait lists; a set of flags, wait list | send, send_wait, recv, reset, timeouts; send, recv (AND, OR, CLEAR), reset | threads, interrupts | a resumed caller tries again and may find nothing; one send resumes several, each of which may clear flags |
| Semaphore, mutex: `src/ipc.c` | value, owner, hold, wait lists | take, release, reset, timeouts | all threads | priority inheritance, 16-bit counters, timeouts |
| Threads, scheduler, tick, timers: `thread.c`, `scheduler.c`, `clock.c`, `timer.c`, `idle.c` | ready lists, current thread, status and YIELD, slices, the sorted timer list, the tick | create, startup, exit, delete, sleep, yield, suspend, resume, `rt_schedule`, the tick interrupt | everything | interrupts between a suspension and its `rt_schedule`; tick wraparound; timers that race wakeups and deletion |
| Ethernet: `HAL_Drivers/drv_eth.c`, `netif/ethernetif.c`, the HAL's `eth.c`, lwIP's `tcpip.c` | descriptors and the DMA's status bit, `EthHandle.Lock`, `link_changed`/`link_status`, the mailboxes of erx, etx and tcpip, `tx_ack`, the core lock | receive interrupt, PHY poll, `eth_rx_thread_entry`, `eth_tx_thread_entry`, `ethernetif_linkoutput` | MAC, PHY, lwIP | one message for many frames, a refused post, messages on senders' stacks, a lock that is no lock |
| Start-up: `app/main.c` | thread handles | create and start six threads | init and voice threads | a started thread of higher priority runs at once |
| AT client: `components/net/at/src/at_client.c`, `nb_bc26_handler.c` | `resp`, `resp_notice`, `resp_status`, lock | `at_obj_exec_cmd`, parser thread | a modem | late answers after a timeout |
| Button package, UDP/TCP demonstrations, PWM, ADC, codec, flash, file system | small | polled or sequential | hardware | little concurrency of their own |

What makes each correct: *reception* reads every byte that was not evicted once,
in order, and never sleeps beside one; *the queue* and *the mailbox* are one and
the same bounded FIFO, which loses no slot and no wakeup; *the event* gives a
flag that is cleared to one waiter and lets nobody wait for flags that are
there; *the receive path* dispatches on exactly the frames the chip sent; *the
player* plays a clip in order, never refills the buffer being played and stops;
*the semaphore* leaves nobody asleep beside a token; *mutexes* exclude and restore
priorities; *the scheduler* keeps a thread on exactly the list its status says
and a most urgent one on the processor, and gives equals their turns; *timers*
end a wait at its tick, not before and not after; *start-up* starts nothing that does not
exist yet; *the AT client* pairs answers with commands; *the Ethernet path* forgets
no frame and no change of the link, and no message outlives the stack it is on.

## 2. Modules

```
ByteChannel (abstract)  <--refines--  SerialRx  --+
                                                  +-- AlphaRx EXTENDS the one and INSTANCEs the other
MsgFifo (abstract)      <--refines--  RtMq     ---+
                        <--refines--  RtMailbox
RtThread EXTENDS RtSem and uses TickList
IpcList   -- the list of waiters of RtMq, RtMailbox, RtEvent, RtSem and RtMutex
VoicePlayer, AtClient, EthIf
AlphaRx_proofs (and SerialRx), VoicePlayer_proofs, EthIf_proofs, RtThread_proofs (and RtSem),
          RtMutex_proofs, AtClient_proofs EXTEND the module they prove about;
          AlphaRx_proofs also INSTANCEs RtIpc_proofs, for its queue
RtIpc_proofs  EXTENDS MCRtIpc, for RtMq, RtMailbox and RtEvent
SeqLemmas -- what the proofs need about lists, sequences and recursive functions
MCSerialRx, MCRtIpc, MCAlphaRx, MCVoicePlayer, MCRtThread, MCRtMutex, MCAtClient, MCEthIf: values for TLC
```

**SerialRx** models UART3 from the wire to the reader.  `ChipSend` is the
remote chip (a byte that finds the data register occupied is lost);
`IsrGetc` is one iteration of the getc loop of `rt_hw_serial_isr`, with the
ring's drop-oldest rule; `IsrIndicate` is the rest of that interrupt,
`rx_indicate` and the `rt_sem_release` in it included; `ReadByte` and `SemTake`
are the critical sections of `_serial_int_rx` and `rt_sem_take`;
`SetRxIndicate` and `StartReader` are the start-up order of `dev_uart3_init` and
`main`.  One core: no thread acts while `isr` is TRUE.  Logging is left out; so
is `rt_device_read`'s framing of an error code.  The refinement `ChannelSpec`
maps the ring to `ByteChannel`, a FIFO of `bufsz - 1` bytes that evicts its
oldest.

**RtMq** is the kernel's queue at the level of `next` links.  One action is one
critical section or one copy; `mq_pc` says where each thread is.  `TrySend` and
`TryRecv` are the two wait loops, shared by the first try and by a resumed
caller (`SendRetry`, `RecvRetry`), which may find its finite timeout used up.
`Timeout` is `rt_thread_timeout`; `Reset` is `rt_mq_control`.  A payload is a
sequence; a copy overlays a slot, so stale bytes behind a short message are
there as in the code.  `rt_mq_recv` is modelled for callers that offer a whole
message (every caller does).  Scheduling is any interleaving, so the model holds
whatever the priorities.  `IpcList` is `rt_ipc_list_suspend`: `Place` finds the first less urgent
waiter, `Enlist` inserts before it, `Delist` takes one thread off.  `FifoSpec` maps the lists to `MsgFifo`.

**RtMailbox** is `rt_mb_`: a circular pool of words with its offsets, and the two wait
lists.  Each iteration of a wait loop is one critical section; a resumed caller
is in `send_woken` or `recv_woken` until it tries again.  Its `FifoSpec` maps the
pool to the same `MsgFifo`, with words of one mail.

**RtEvent** is `rt_event_`: `Recv` with AND, OR and CLEAR, and `Send`, whose walk
over the waiters is one critical section.  `Gives` is what one waiter gets of the
flags it finds and the flags it leaves, `Given` the walk, a recursive function over
the list, and `Remain` the list after the resumed waiters are off it.

**AlphaRx** extends SerialRx, whose reader is its receive thread, and composes it
with an instance `Mq` of RtMq, the framer of
`uart3_rx_thread_entry` (`StoreByte`, `SendFrame`, `FinishSend`) and the parsing
thread (`ParserRecv`, `ParserContinue`, `Dispatch`).  A script in
`PacedScripts` is sent by a chip that leaves the receiver time; with any other
one the chip may overrun it, and only `HandledInOrder` is promised.  The framer's
8-bit index and 16-bit length wrap as in the code; a store beyond `rx_frame_pkg`
is undefined behaviour, entered as `at = "undefined"` and followed no further.

**VoicePlayer** models one clip.  `Transfer` is the DMA stream moving one
half-word, switching buffers and raising TCIF; `Interrupt` is the handler with
its branches `Refill(0)`, `Refill(1)` and `Stop`.  A write to NDTR while the
stream is enabled has no effect (the hardware's rule).  Flash reads may fail.
`MaxSize` bounds the clips and makes the samples a finite set; `heard` stops
growing at `HeardMax`, which `VoicePlayer_proofs` shows is never reached.
The amplifier switch and the codec are left out.

**RtSem** is the kernel's semaphore: `Take`, `Release`, `Timeout`, `Drop` (a waiter
is deleted) and `Reset` are its critical sections, on a FIFO or PRIO list
(`flag`, chosen in `Init`).  It knows no scheduler and has no run of its own:
`RtThread` takes its actions and says when they can happen.

**RtThread** puts that semaphore under the scheduler and the clock.  `sched` is the scheduler's
state (current thread, statuses, ready lists, YIELD), and `Ready`, `Unready`,
`Suspended` and `Schedule` are the scheduler's functions on it.  A call of a thread
is its critical section (`TakeCall`, `ReleaseCall`, `ResetCall`, `Sleep`, `Startup`) and,
as a step of its own, the `rt_schedule` that follows it (`ScheduleCall`), because any
interrupt may come between: a thread can be resumed before it has left the
processor.  The tick interrupt is `Tick` (count, end of slice), one `Expire` for each timer that
has expired and `TickReturn`; `ReleaseIsr` is any other interrupt that releases.
`Exit`, `Delete`, `DeleteTimer`, `DeleteClose` and `IdleFree` are a thread's end, and the
idle thread's clean-up.  `Makes` says which calls each thread makes.  `TimedDelete`
says whether a thread with a running timer may be deleted: in the run it may not (see *Seen while
modelling*).  `left` is history: the ticks a wait has still to last.

**TickList** is the ordered timer list, with comparisons modulo the
tick's range and the rule that a timeout is less than half of it.

**RtMutex** is the recursive mutex with priority inheritance *under the
scheduler*: only `current` acts, `Reschedule` is `rt_schedule` (the switch to one
of the most urgent ready threads) and stands exactly where the code calls it, so
that a thread of middle urgency can hold the processor.  The branches of
`rt_mutex_take` are `TakeAgain`, `TakeFree` and `TakeBlock`; those of
`rt_mutex_release` are `ReleaseInner` and `ReleaseLast` (`HandOver`,
`MakeAvailable`).  `Sleep`, `Wake` and `Tick` are delays and time slices.
Which of several equally urgent threads runs is left open.

**AtClient** is the AT client: `Parse`, `ReadNothing`, `ResetNotice` and
`TakeNotice` are the parser thread, `Receive` its callback in the interrupt,
`Enter` to `Finish` a call of `at_obj_exec_cmd`, `Expire` the timer of its wait.
The parser (priority 9) preempts the callers (20), so a caller's step needs a
sleeping parser (`Runs`); interrupts need nothing.  A line is one item: its
earlier bytes only move the parser inside `at_recv_readline`.  The modem answers
commands in order, at any later time or never, and sends URCs at will.

**EthIf** is the way of a frame between the MAC and lwIP.  `Arrive` is the DMA,
`IrqPost` and `IrqEnd` are `HAL_ETH_IRQHandler` (the message to erx, then the clearing of the
status bit and `__HAL_UNLOCK`); `PhyPoll` is the timer `phylnk`; `ErxRecv` to `RxInput` are
`eth_rx_thread_entry` with `rt_stm32_eth_rx`; `TxRecv` to `TxAck` are `eth_tx_thread_entry`
with `rt_stm32_eth_tx`; `Enter`, `Output`, `Acked` and `Leave` are what erx (for a link
change) and the tcpip thread do under lwIP's core lock.  The HAL's lock is a test
and an assignment, two steps, as it is compiled.  The mailboxes are counters and
sequences: that `rt_mb_` is a bounded FIFO is `RtMailbox`'s result.

## 3. Runs

| run | instance | checks |
|---|---|---|
| `serial_rx` | ring of 3, streams of 4 and 5 bytes | `TypeOK`, `NoLostWakeup`, `ChannelSpec`, `Drained` |
| `ipc` | a queue (2 slots) or a mailbox (2 mails) with 3 threads, 2 that send and 2 that receive, or an event of 2 flags with 2; FIFO lists | `IpcTypeOK`; queue: `SlotsConserved`, `WaitersWoken`, `FifoSpec`, `NoIdleReceiver`; mailbox: `NobodyForgotten`, `MailboxSpec`; event: `NobodySatisfied`, `FlagsGivenOnce` |
| `alpha_rx` | 2 or 3 frames of 2 and 3 bytes, queue of 1; paced and overrun | `FramingExact`, `HandledInOrder`, `RejectedOnlyWhenFull`, `AllHandled` |
| `voice_player` | buffers of 3, clips of 1 to 10 | `PlayedInOrder`, `NoTornRefill`, `PlayEnds` |
| `voice_stop` | the same | `StoppedWhenPlayed` is violated |
| `thread` | main thread, a more urgent and an equally urgent one, idle; a tick of 7 values; FIFO and PRIO semaphore of 1 bit | `ThreadTypeOK`, `OneListEach`, `MostUrgentRuns`, `InTime`, `NoWaiterBesideToken`, `RoundRobin`, `NoStarvation` |
| `mutex` | 3 threads of different urgency, 1 or 2 mutexes, nesting of 2, FIFO and PRIO, released last-taken-first | `Ownership`, `PriorityRestored`, `NoPriorityReversion`, `MostUrgentFirst`, `MostUrgentProceeds` |
| `at_client` | 2 callers, 3 commands, answers of 0, 1 and 3 lines, a buffer too short for the last | `RespOwned`, `AnswersMatch`, `ExecReturns` |
| `at_return` | the same | `AutoReturn` is violated |
| `at_success` | the same | `SuccessMeansResponse` is violated |
| `eth` | 2 descriptors, mailboxes of 1 message, a pbuf pool that may be empty | `MsgAlive`, `LinkKnown`, `NoFrameForgotten`, `LinkFollows`, `OutputReturns` |
| `eth_busy` | the same, pbufs never run out | `AllReceived` is violated |

In the runs that do not list it, `TypeOK` is the first conjunct of `HandledInOrder`,
`PlayedInOrder`, `Ownership`, `RespOwned` and `MsgAlive`.

*Bounds.*  A ring of 3 holds 2 bytes, so 4 or 5 bytes wrap both indices and
overrun; its full and empty states are one index apart, as with 64.  `SemMod`
only has to exceed the stream's length; the proofs say so in general.  Two slots
and three threads let slots be free, queued, and held by a sender and a receiver
at once, and two threads wait on one list while the third serves it.  Three
clips' worth of chunks exercise both refill branches and both parities.  Three
threads are the smallest number with a middle urgency; two mutexes let a waiter
own what another waits for.  A tick of 7 values makes half of it 3: waits of 2
and sleeps of 1 reach both sides of the comparison's boundary and straddle the
wraparound, two timers can be armed in either order, and slices of 1 and 2 let an
equal wait its turn through a tick in which the current thread keeps the
processor.  Mailboxes of one message are full whenever a second post comes, so
that every refusal and every coalescing happens; with two descriptors a frame
arrives while erx holds another.  Three commands let a late answer or a left-over
token of the first disturb the second and show in the third.  All models are
finite without state constraints: scripts and clips are finite, calls are
reusable.

*Deadlock* checking is on in `thread`, `eth` and `eth_busy` (an interrupt, a cable or a
frame can always come) and off in the others, because the modelled systems come to rest: the chip has sent its script, a clip has ended, the
commands are used up, and in the `ipc` run every thread may be asleep waiting
forever, which is legal (in `RtMutex`, too: the program may take two mutexes in
opposite orders).  `Drained`,
`NoIdleReceiver`, `AllHandled` and `PlayEnds` say what rest must look like.

*Fairness.*  Weak fairness of the interrupt (the NVIC serves a pending one), of
start-up, and of a thread that can run: the reader has priority 3, the most
urgent of the application's, nothing above it loops, and the parsing thread (9)
runs when the others sleep.  In `RtMq`, of a call that can go on; never of
starting a call, of a timeout or of a reset.  The chip is never assumed to send.
In `VoicePlayer`, of the I2S clock and of the interrupt.  In `RtThread`, the clock goes on
and an interrupt keeps releasing the semaphore; no thread is assumed to make any
further call.  In `EthIf`, interrupts and the poll are served, threads that can run
again and again do (all of them have slices; a lock that is free again and again is got),
and who holds the core lock leaves it; nothing is assumed to arrive.  In `RtMutex`, delays and time slices end, and a thread that runs again
and again while it owns a mutex releases it in the end; a thread need not ever
give up the processor.  In `AtClient`, the parser again and again has read
everything and sleeps (a line takes milliseconds to arrive at 115200 baud and
microseconds to be read), timers expire, and a caller that can run again and
again does; without the first, a flood of URCs would keep the less urgent shell
from running for ever, as it would on the board.

### Findings

`voice_stop`: `voice_handler.c:231` and `:272` say of `m_using_mem_buff = 2`,
set when nothing remains to be read, that "the next one can stop i2s_dma"
(下次即可停止 i2s_dma).  The interrupt that reads the last chunk arrives when the
*other* buffer starts to play; the next interrupt ends that buffer and stops the
stream as the last chunk begins.  Every clip longer than two buffers (2 KB)
loses its last chunk.  `PlayedInOrder` states what is guaranteed instead.

`at_return`: `at_client_getchar` resets `rx_notice` *after* the read that found
nothing.  The token of an interrupt in between is wiped out, the parser sleeps
beside the received line, and the call it answers times out, although "the
response data will auto return when received 'OK' or 'ERROR'" (`at.h:132`).  (The
reader of UART3, which does not reset, is proved free of this.)

`at_success`: if a wait's timer expires while the parser is about to handle the
answer, the parser's release leaves a token in `resp_notice`, which
`at_obj_exec_cmd` never resets.  The next call takes it and returns "0 : success"
(`at_client.c:273`) with an empty response.

`eth_busy`: `ethernetif.c:689` says of erx's loop "receive all of buffer".
`rt_stm32_eth_rx` returns NULL for `HAL_BUSY` as for an empty ring, so when etx has been
preempted inside `HAL_ETH_TransmitFrame` (by the end of its slice, or by the tcpip thread), erx takes the ring
for empty and sleeps until the *next* frame brings an interrupt.
`NoFrameForgotten` states that this, and an empty pbuf pool, are the only ways.

Seen while modelling, with no run of their own:

- Mutexes.  "change the owner thread to original priority" (`ipc.c:833`) sets the
  priority the mutex was *taken* with: with `Lifo = FALSE`, a thread that inherits
  through A, takes B and releases A before B keeps the inherited priority although it
  holds nothing, and `PriorityRestored` fails.  On a FIFO mutex the owner that is
  handed the mutex does not inherit from those still waiting, although "mutex
  objects use inherited priority to prevent priority reversion" (`kernel.h`).
  On a PRIO list a boosted waiter is not moved (`thread.c:657`), so with nested
  mutexes a less urgent waiter may be served first; an inner release drops a
  priority inherited through the outer mutex; a release that lowers the running
  thread's priority and resumes nobody does not reschedule (`ipc.c:877`) until the
  time slice ends.
- Threads.  `rt_thread_delete` takes its victim off its list and detaches its timer in
  two critical sections (`thread.c:443` and `:447`): a timer that expires between
  them puts the victim back on a ready list, and it is closed there.  With
  `TimedDelete = TRUE`, `OneListEach` fails.  The application's one
  deletion is of `init_thread`, which waits for no time by then, hence the bound.
  `rt_thread_yield` only calls `rt_schedule`, which lets the caller run on
  beside its equals: nothing sets its YIELD status but the end of a slice.
- A semaphore at 65535 wraps to 0 (`ipc.c:461`).
- The AT client.  `AT_RESP_OK` overrides `AT_RESP_BUFF_FULL` (`at_client.c:753`); a failed
  `at_send` leaks its response object.
- Ethernet.  `phy_linkchange` reads the PHY's second register into the variable that
  receives the call's result (`drv_eth.c:418`), so speed and duplex never appear to change.
  `__HAL_LOCK` is not atomic, and the interrupt unlocks the handle whoever holds it.

## 4. Proofs

`AlphaRx_proofs` proves of `SerialRx`, for every ring size of at least 2, every semaphore
range and every set of streams shorter than that range (`BufSzAssumption`,
`StreamsAssumption`):

- `TypeCorrect`: `Spec => []TypeOK`.
- `Invariance`: `Spec => []IInv`, the inductive invariant
  `TokensBounded /\ FullMeansFull /\ HookedFirst /\ NoLostWakeup`.
  `NoLostWakeup` is not inductive alone.  A release must not wrap the 16-bit
  value to 0, so the tokens are bounded by the bytes that can have raised them
  (`TokensBounded`); bytes that arrive before the callback is registered are
  safe because the reader is not started before it (`HookedFirst`);
  the reader's emptiness test reads `is_full`, so it must agree with the indices
  (`FullMeansFull`).
- `WakeupNeverLost`: `Spec => []NoLostWakeup`.
- `ImplementsChannel`: `Spec => Channel!Spec`, the refinement.  The ring read
  from `get_index` on is a sequence (`ContentSeq`); an ISR iteration appends
  (`PutAppends`) or evicts and appends (`PutEvicts`), a read takes the head
  (`ReadTakesHead`), every other step leaves both alone (`ContentUnchanged`).

and of `AlphaRx`, for every queue, every frame buffer of 2 to 255 bytes, and every set of
scripts whose payloads are at least 2 bytes long and fit the buffer and the queue
(`AlphaAssumption`), whatever the interleaving of chip, ISR and the two threads:

- `AlphaInvariant`: `AlphaSpec => []AlphaInv`. Every step of the receive path is a step or a
  stutter of the serial device, so `IInv` above is kept (`SerialStep`), and a step or a
  stutter of the queue (`MqStep`). The queue's invariant is therefore that of `RtIpc_proofs`,
  instantiated as `Ipc` for one sender and one receiver; its assumptions are
  proved of this instance (`Assumed`). `FramerOK` keeps the index inside `rx_frame_pkg`,
  `RxCalls` and `ParserCalls` tell where in the queue's code each thread is, and
  `DeliveryOK` where each accepted payload is: dispatched on, in the parsing
  thread's hands, queued, or being linked (`Delivers`), in this order.
- `AcceptedHandledInOrder`: `HandledInOrder`, which `DeliveryOK` implies.
- `FramingInvariant`: `AlphaSpec => []FramingInv`, about the behaviours that have lost no
  byte. `NothingLost`: what the reader has taken, the FIFO, the data register and the line
  together are the wire. `Framed`: the framer has passed a number of frames, and what
  it holds (`index`, `len`, `pkg`) is what was sent of the next one
  (`Assembling`); where that starts on the wire is the length of the frames before it
  (`Sent`), which the model's concatenation of the encoded frames is shown to be
  (`FlattenIsJoined`, `WireFacts`). The wrapping of the 8-bit index and the 16-bit length
  is shown to have no effect on such streams (`Max16Is`, `StoreFramed`).
- `FramesExact`: `FramingExact`, from both invariants.
- `RejectedFull`: `RejectedOnlyWhenFull`. A frame is refused when no slot is free; then all
  but the one the parsing thread may hold are queued (`FullQueue` of `RtIpc_proofs`), and
  `DeliveryOK` counts them.

`VoicePlayer_proofs` proves, for every buffer length and every clip of 1 to
`MaxSize` half-words (`VoiceAssumption`: the code has no guard against a clip of
size 0, which never ends):

- `Invariance`: `Spec => []IInv`.  Neither property is inductive.  `InStep` ties the
  count `m_using_mem_buff` to the hardware's CT and pending TCIF, and what has been read
  to the number of samples heard before the current buffer (`Base`); `Extent` bounds
  `Base`, so that the player has got far enough when the stop comes; `Whole` says that a
  clip longer than a buffer is played in whole buffers; `Contents` says what the buffers
  hold from `Base` on, unless a flash read failed.
- `ClipInOrder`: `Spec => []PlayedInOrder`.  When the stop comes, the count of whole
  buffers heard reaches to within one buffer of the end (`LastChunk`).
- `RefillsUntorn`: `Spec => NoTornRefill`: a refill happens with
  `using = 1 - ct`, by `InStep` (`RefillStep`).

`EthIf_proofs` proves, for every number of descriptors and every mailbox size that
`EthAssumption` allows:

- `Invariance`: `Spec => []IInv`: the types and program counters; the core lock is
  held by the thread that is in lwIP's core (`CoreHeld`), and etx has a message in hand
  while it is not waiting for one (`InHand`); at most one message is under way, in the mailbox,
  in etx's hands or acknowledged, and its sender waits (`OneMessage`); when erx rests or
  has found the ring empty, a frame in it has its status bit set or a message in the
  mailbox, unless an `eth_rx` failed (`FramesAnnounced`); a change of the link that erx has
  not taken is announced by a message, by the poll about to post one, or by erx
  being about to look (`LinkAnnounced`).
- `MessageAlive`: `Spec => []MsgAlive`, `FramesNotForgotten`: `Spec => []NoFrameForgotten`
  and `LinkNotForgotten`: `Spec => []LinkKnown`.  The last two need the announcements because
  a full mailbox refuses posts: what is in it has to serve for both kinds of news.

`RtThread_proofs` proves, for every set of threads, priorities, slices, calls (`Makes`)
and every tick counter of more than 4 values (`ThreadAssumption`):

- `SemCorrect`: `Spec => [](TypeOK /\ NoWaiterBesideToken)` of `RtSem`, which is
  inductive.
- `ThreadCorrect`: `ThreadTypeOK`, `OneListEach` and `MostUrgentRuns`, from `ThreadInv`:
  the ready lists hold exactly the threads that are READY, each once, on the list of its
  priority (`ListsOK`); who is suspended is on the semaphore's list, on the timer list,
  or, in a timed take, on both (`SleepersOK`); one thread at a time deletes the victim,
  which is then on no list (`DeleterOK`, `Gone`); only the running thread may be
  suspended and still executing, until its `rt_schedule` (`RunnerOK`); and the running
  thread is a most urgent one unless it is on its way to `rt_schedule` (`Urgent`).
  `ThreadTyped` and `ProcessorToMostUrgent` state two of the three by themselves.
- `ThreadImplementsSem`: `ThreadSpec => Spec`, the refinement of `RtSem`.
- `WaitsEndInTime`: `InTime`, from `TimesOK`: the timer list is in the order in which
  its timers are due *modulo the tick's range*, each is less than half of it ahead, and
  the history variable `left` is what remains. The sorted insertion of `rt_timer_start`
  keeps the order because no timer on the list is further ahead than that.

All but the first are about `~TimedDelete`: without it `OneListEach` is false (see *Seen while
modelling*). The constant is a hypothesis of the theorems, not an assumption.

`RtMutex_proofs` proves, for every set of threads, every finite set of mutexes, all
priorities and FIFO or PRIO lists (`MutexAssumption`):

- `MutexOwnership`: `Ownership`, from `MutexInv`: a mutex is free, or owned by a thread
  that has it in `held` and is not on its list (`OwnersOK`, `HeldOK`); a blocked thread
  is on exactly one list, once (`WaitersOK`); the current thread is ready.
- `PriorityGivenBack`: `Lifo => (Spec => []PriorityRestored)`. The priority comes back
  with the mutex that was taken first, so `RestoredInv` says that *its* `orig` is the
  thread's own priority, whatever the thread inherits and restores in between.
- `NoReversionEver`: `NoPriorityReversion` for a program with one PRIO mutex, and
  `HandedToMostUrgent`: `MostUrgentFirst`. `UrgentInv`: the list is in the order of the
  priorities, none of the waiters is more urgent than the owner has become, and a ready
  owner is kept from the processor only by threads at least as urgent as the waiters.
  Inheritance keeps the order, because with one mutex a thread that waits holds none and
  inherits nothing.

`RtIpc_proofs` proves, for every finite set of threads, any number and size of slots
(`MqAssumption`: messages are sequences of bytes and not empty, as `rt_mq_send_wait`
asserts), all priorities, both kinds of list, and any mails and flags, of the object
that `IpcSpec` chooses:

- `QueueKeepsItsSlots`, `QueueWakesItsWaiters`: `SlotsConserved` and `WaitersWoken`,
  from `MqInv`: which calls hold a slot and what they send (`MqCalls`); the two lists
  are the suspended threads (`MqLists`); a slot about to be linked already carries its
  message, and ends the list if it will be the last (`MqPool`); and *there are*
  sequences q and f of slots, linked from `head` and from `free` (`Links`), that with
  the slots held by calls make up all of them, disjointly (`Partition`), where `entry`
  is the length of q and `tail` its last. `SlotsConserved` speaks of a walk along the
  links, so it is shown that the walk from the head of a linked sequence is that
  sequence (`WalkFacts`). `WaitersWoken` counts the resumed callers, which needs the
  sets of threads to be finite.
- `QueueIsFifo`: `IpcSpec => FifoSpec`. A message enters the abstract queue when its
  slot is linked, at the end or (urgent) at the front, and leaves it when its slot is
  unlinked, *before* it has been copied: `got` of a receiver in `recv_copy` is the
  slot's content, which nothing overwrites until the slot is freed. Every other step is
  a stutter.
- `MailboxNeverForgets`: `NobodyForgotten`, and `MailboxIsFifo`: `MailboxSpec`, from
  `MbInv`: `in` is `out` and `entry` apart on the ring (`MbRing`), and calls and lists
  agree (`MbCalls`, `MbLists`).
- `EventSatisfiesItsWaiters`: `NobodySatisfied`, and `EventGivesFlagsOnce`:
  `FlagsGivenOnce`, from `EvInv`. The flags that remain behind each waiter only become
  fewer along the walk (`RestShrinks`), so a waiter that was passed over is not
  satisfied by those left at the end, and what one clears nobody behind it finds
  (`WalkStep`).
- `IpcTyped`: `IpcTypeOK`.

`AtClient_proofs` proves, for every set of callers, all replies of the modem that end
with their only final line (`AtAssumption`; 3GPP 27.007 result codes do), every size of the
response buffer, and any number of lines the FIFO holds:

- `ResponseOwned`: `Spec => []RespOwned`, from `ClientInv`: `lock` is a queue without
  repetitions, and whoever is past `enter` is its head (`LockOK`); a response object is
  registered only by that head (`RespOK`).  `TypeOK` itself needs two counts: how many
  commands the callers on the queue have still to write (`CommandsOK`), and that a call
  leaves at most one token of `resp_notice` behind, so it never exceeds 2 (`NoticeOK`).
- `AnswersOwn`: `Spec => []AnswersMatch`.  A call begun with no answer outstanding is at
  first `Fresh` (nothing but URCs is under way), after its command `Waiting` for the rest
  of its own answer, which is what is under way (`UnderWay`: a map from the FIFO's lines
  into the answer that skips URCs), and in the end `Answered`, with the lines it has
  `Kept`.  Between the two it may time out; then it claims nothing.  A call can only
  be woken in `Answered`, for while it waits for the rest no token is there: that is
  where `NoticeOK` comes in again.

*Recursive functions.* The walks (`Chain`, `Given`, `Remain`, `ReadyAll`, `DisarmAll`)
are recursive functions on an interval. That such a function exists and satisfies its
equation is `Iteration` of `SeqLemmas`, proved there by induction in the form of a
statement about a set of numbers (`SetInduction`, `IntervalInduction`), because the
library's induction theorems, which take a predicate as a parameter, cannot be
instantiated by the provers used here.

Only model-checked: the liveness properties (`Drained`, `NoIdleReceiver`, `AllHandled`,
`PlayEnds`, `RoundRobin`, `NoStarvation`, `MostUrgentProceeds`, `ExecReturns`,
`LinkFollows`, `OutputReturns`), which need fairness and ENABLED, out of this prover's
reach. Every invariant, action property and refinement that a passing run checks is proved,
under the hypotheses named above.

## 5. Not modelled, and why

Vendored code (lwIP, DFS, HAL, SFUD, packages), register set-up, shell
demonstrations and threads compiled out of `main.c` (`#if 0`, `DEBUG_LWIP`).
Detaching or deleting a queue, mailbox, event, semaphore or mutex while threads
wait, SMP (`RT_USING_SMP` is off), signals (`RT_USING_SIGNALS` is off) and hooks.
`rt_thread_detach`, the suspension of another thread, the scheduler's lock, and
`rt_thread_delay_until`, which nothing in the application calls.  Application
timers, except the Ethernet driver's poll.  A second voice clip: no caller plays one.
In the AT client: CLI mode, calls without a response object or with a line
count, `at_client_obj_wait_connect` (never called) and URC callbacks.
The time the code takes: the DMA interrupt is assumed to be served before the
next buffer ends (23 ms).

## 6. Plan

In this order; each with an MC module, a run, a mutant for each property, and a
proof where one is named.

1. **Startup**: `main`, init and voice threads under preemption.
2. Application timers, one-shot and periodic, on `TickList`.
3. **RtMempool**: the memory pools' free list and waiters.
4. **SerialDma** and the ring buffer and workqueue of the device framework.
