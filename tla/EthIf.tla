------------------------------- MODULE EthIf -------------------------------
(***************************************************************************)
(* The Ethernet path between the MAC and lwIP: the driver drv_eth.c with   *)
(* the HAL functions it calls, the threads erx and etx of ethernetif.c,    *)
(* and lwIP's tcpip thread as the other thread that transmits.  Mailboxes  *)
(* are the bounded FIFOs that RtMailbox implements.  The threads' slices   *)
(* and priorities allow any interleaving; no thread acts in an interrupt.  *)
(***************************************************************************)
EXTENDS Integers, Sequences

CONSTANTS
    RxBufs,     \* ETH_RXBUFNB
    MbSize,     \* the size of erx's and etx's mailboxes
    InSize,     \* the size of the tcpip thread's mailbox
    PoolEmpties \* whether pbuf_alloc may fail

Callers == {"erx", "tcpip"}     \* the threads that call ethernetif_linkoutput
Threads == Callers \cup {"etx"}

ASSUME EthAssumption ==
    /\ {RxBufs, MbSize, InSize} \subseteq Nat \ {0}
    /\ PoolEmpties \in BOOLEAN

VARIABLES
    phy,        \* whether the PHY has a link
    link,       \* .speed: phy_linkchange's phy_speed; .changed, .status: the
                \* device's link_changed and link_status; .seen: erx's local
                \* status; .up: the netif's NETIF_FLAG_LINK_UP
    monitor,    \* the PHY monitor thread: "start", "post", "polling"
    ring,       \* the frames in Rx descriptors the CPU owns
    rbit,       \* the DMA's receive status bit, which requests an interrupt
    isr,        \* HAL_ETH_IRQHandler: "none", "posted" (callback made)
    lock,       \* EthHandle.Lock
    rxmb,       \* eth_rx_thread_mb: the number of messages, all the device
    txmb,       \* eth_tx_thread_mb: whose messages (on their stacks) it holds
    inmb,       \* the tcpip thread's mailbox: the number of packets
    ack,        \* the value of tx_ack
    core,       \* the owner of lwIP's core lock, or "none"
    pc,         \* where each thread is
    msg,        \* the caller whose message etx handles, or "none"
    gaveup      \* history: the last eth_rx failed instead of finding no frame

macVars == <<ring, rbit, lock>>
mbVars  == <<rxmb, txmb, inmb>>
txVars  == <<ack, core, msg>>
vars    == <<phy, link, monitor, isr, pc, gaveup, macVars, mbVars, txVars>>

PC == [erx   |-> {"recv", "check", "take", "wait", "core", "ack",
                  "rx", "rx_lock", "scan", "found", "empty", "copy", "input"},
       etx   |-> {"recv", "spin", "test", "tx_lock", "send", "done"},
       tcpip |-> {"fetch", "wait", "core", "ack"}]

TypeOK ==
    /\ {phy, rbit, lock, gaveup} \subseteq BOOLEAN
    /\ link \in [{"speed", "changed", "status", "seen", "up"} -> BOOLEAN]
    /\ monitor \in {"start", "post", "polling"} /\ isr \in {"none", "posted"}
    /\ ring \in 0..RxBufs /\ rxmb \in 0..MbSize /\ inmb \in 0..InSize /\ ack \in 0..1
    /\ txmb \in Seq(Callers) /\ Len(txmb) <= 1
    /\ core \in Callers \cup {"none"} /\ msg \in Callers \cup {"none"}
    /\ pc \in [Threads -> UNION {PC[t] : t \in Threads}]
    /\ \A t \in Threads : pc[t] \in PC[t]

(* eth_device_init and eth_system_device_init_private; the link is down.   *)
Init ==
    /\ phy \in BOOLEAN
    /\ link = [f \in {"speed", "changed", "status", "seen", "up"} |-> FALSE]
    /\ monitor = "start" /\ isr = "none"
    /\ ring = 0 /\ rbit = FALSE /\ lock = FALSE
    /\ rxmb = 0 /\ txmb = <<>> /\ inmb = 0
    /\ ack = 0 /\ core = "none" /\ msg = "none"
    /\ pc = [t \in Threads |-> IF t = "tcpip" THEN "fetch" ELSE "recv"]
    /\ gaveup = FALSE

Goto(t, l) == pc' = [pc EXCEPT ![t] = l]

(* Thread t is at label l and may execute.                                 *)
At(t, l) == isr = "none" /\ pc[t] = l

(* rt_mb_send of the device to erx, which a full mailbox refuses; nobody   *)
(* looks at the result.                                                    *)
PostDevice == rxmb' = IF rxmb < MbSize THEN rxmb + 1 ELSE rxmb

-----------------------------------------------------------------------------
(* The hardware and the Ethernet interrupt.                                *)

(* The cable is plugged or unplugged.                                      *)
Plug ==
    /\ phy' = ~phy
    /\ UNCHANGED <<link, monitor, isr, pc, gaveup, macVars, mbVars, txVars>>

(* The DMA writes a frame into a descriptor; erx may have one in hand.     *)
Arrive ==
    /\ phy
    /\ ring + (IF pc["erx"] \in {"found", "copy"} THEN 1 ELSE 0) < RxBufs
    /\ ring' = ring + 1
    /\ rbit' = TRUE
    /\ UNCHANGED <<phy, link, monitor, isr, pc, gaveup, lock, mbVars, txVars>>

(* Mutant: nothing is posted while erx has a message or is awake.          *)
IrqPostAsleep ==
    /\ isr = "none" /\ rbit
    /\ isr' = "posted"
    /\ IF pc["erx"] = "recv" THEN PostDevice ELSE UNCHANGED rxmb
    /\ UNCHANGED <<phy, link, monitor, pc, gaveup, macVars, txmb, inmb, txVars>>

(* HAL_ETH_IRQHandler: HAL_ETH_RxCpltCallback and eth_device_ready.        *)
IrqPost ==
    /\ isr = "none" /\ rbit
    /\ isr' = "posted"
    /\ PostDevice
    /\ UNCHANGED <<phy, link, monitor, pc, gaveup, macVars, txmb, inmb, txVars>>

(* The rest of it: the bit is cleared, whatever has arrived since, and the *)
(* handle unlocked, whoever has locked it.                                 *)
IrqEnd ==
    /\ isr = "posted"
    /\ isr' = "none"
    /\ rbit' = FALSE
    /\ lock' = FALSE
    /\ UNCHANGED <<phy, link, monitor, pc, gaveup, ring, mbVars, txVars>>

-----------------------------------------------------------------------------
(* phy_linkchange.  The PHY's second register is read into a variable that *)
(* the call's own result overwrites (drv_eth.c, SR), so that the link is   *)
(* all that is ever found to change.                                       *)

(* eth_device_linkchange's critical section.                               *)
LinkChange == link' = [link EXCEPT !.speed = phy, !.changed = TRUE, !.status = phy]

(* The monitor thread calls it once, and starts the timer "phylnk".        *)
MonitorStart ==
    /\ isr = "none" /\ monitor = "start"
    /\ IF phy # link.speed THEN LinkChange /\ monitor' = "post"
       ELSE monitor' = "polling" /\ UNCHANGED link
    /\ UNCHANGED <<phy, isr, pc, gaveup, macVars, mbVars, txVars>>

MonitorPost ==
    /\ isr = "none" /\ monitor = "post"
    /\ PostDevice
    /\ monitor' = "polling"
    /\ UNCHANGED <<phy, link, isr, pc, gaveup, macVars, txmb, inmb, txVars>>

(* Mutant: the change is dropped if erx's mailbox is full.                 *)
PhyPollFull ==
    /\ isr = "none" /\ monitor = "polling" /\ phy # link.speed
    /\ IF rxmb < MbSize THEN LinkChange ELSE link' = [link EXCEPT !.speed = phy]
    /\ PostDevice
    /\ UNCHANGED <<phy, monitor, isr, pc, gaveup, macVars, txmb, inmb, txVars>>

(* The timer calls it in the tick interrupt, with interrupts disabled.     *)
PhyPoll ==
    /\ isr = "none" /\ monitor = "polling" /\ phy # link.speed
    /\ LinkChange
    /\ PostDevice
    /\ UNCHANGED <<phy, monitor, isr, pc, gaveup, macVars, txmb, inmb, txVars>>

-----------------------------------------------------------------------------
(* eth_rx_thread_entry.                                                    *)

ErxRecv ==
    /\ At("erx", "recv") /\ rxmb > 0
    /\ rxmb' = rxmb - 1
    /\ gaveup' = FALSE
    /\ Goto("erx", "check")
    /\ UNCHANGED <<phy, link, monitor, isr, macVars, txmb, inmb, txVars>>

ErxCheck ==
    /\ At("erx", "check")
    /\ Goto("erx", IF link.changed THEN "take" ELSE "rx")
    /\ UNCHANGED <<phy, link, monitor, isr, gaveup, macVars, mbVars, txVars>>

ErxTake ==
    /\ At("erx", "take")
    /\ link' = [link EXCEPT !.seen = link.status, !.changed = FALSE]
    /\ Goto("erx", "wait")
    /\ UNCHANGED <<phy, monitor, isr, gaveup, macVars, mbVars, txVars>>

(* HAL_ETH_GetReceivedFrame_IT gives up if the handle is locked (the test  *)
(* and the locking are not atomic), and so does eth_rx_thread_entry.       *)
RxTest ==
    /\ At("erx", "rx")
    /\ gaveup' = lock
    /\ Goto("erx", IF lock THEN "recv" ELSE "rx_lock")
    /\ UNCHANGED <<phy, link, monitor, isr, macVars, mbVars, txVars>>

RxLock ==
    /\ At("erx", "rx_lock")
    /\ lock' = TRUE
    /\ Goto("erx", "scan")
    /\ UNCHANGED <<phy, link, monitor, isr, gaveup, ring, rbit, mbVars, txVars>>

RxScan ==
    /\ At("erx", "scan")
    /\ IF ring > 0 THEN ring' = ring - 1 /\ Goto("erx", "found")
                   ELSE Goto("erx", "empty") /\ UNCHANGED ring
    /\ UNCHANGED <<phy, link, monitor, isr, gaveup, rbit, lock, mbVars, txVars>>

RxUnlock ==
    /\ pc["erx"] \in {"found", "empty"} /\ isr = "none"
    /\ lock' = FALSE
    /\ Goto("erx", IF pc["erx"] = "found" THEN "copy" ELSE "recv")
    /\ UNCHANGED <<phy, link, monitor, isr, gaveup, ring, rbit, mbVars, txVars>>

(* The rest of rt_stm32_eth_rx: copy the frame to a pbuf, if there is one, *)
(* and give the descriptor back.  Without a pbuf it returns no frame.      *)
RxCopy ==
    /\ At("erx", "copy")
    /\ \/ Goto("erx", "input") /\ UNCHANGED gaveup
       \/ PoolEmpties /\ Goto("erx", "recv") /\ gaveup' = TRUE
    /\ UNCHANGED <<phy, link, monitor, isr, macVars, mbVars, txVars>>

(* tcpip_input: the packet is freed if the tcpip thread's mailbox is full. *)
RxInput ==
    /\ At("erx", "input")
    /\ inmb' = IF inmb < InSize THEN inmb + 1 ELSE inmb
    /\ Goto("erx", "rx")
    /\ UNCHANGED <<phy, link, monitor, isr, gaveup, macVars, rxmb, txmb, txVars>>

-----------------------------------------------------------------------------
(* lwIP.  Under the core lock, erx sets the link's state and reports that  *)
(* it is up, and the tcpip thread handles packets and timeouts.            *)

Fetch ==
    /\ At("tcpip", "fetch")
    /\ inmb' \in {inmb, inmb - 1} \cap Nat
    /\ Goto("tcpip", "wait")
    /\ UNCHANGED <<phy, link, monitor, isr, gaveup, macVars, rxmb, txmb, txVars>>

(* Mutant: the core is not locked.                                         *)
EnterUnlocked(c) ==
    /\ At(c, "wait")
    /\ link' = IF c = "erx" THEN [link EXCEPT !.up = link.seen] ELSE link
    /\ Goto(c, "core")
    /\ UNCHANGED <<phy, monitor, isr, gaveup, macVars, mbVars, txVars>>

(* LOCK_TCPIP_CORE; netif_set_link_up or netif_set_link_down in erx.       *)
Enter(c) ==
    /\ At(c, "wait") /\ core = "none"
    /\ core' = c
    /\ link' = IF c = "erx" THEN [link EXCEPT !.up = link.seen] ELSE link
    /\ Goto(c, "core")
    /\ UNCHANGED <<phy, monitor, isr, gaveup, macVars, mbVars, ack, msg>>

(* ethernetif_linkoutput: post a message that is on the caller's stack,    *)
(* and wait for the acknowledgement.                                       *)
Output(c) ==
    /\ At(c, "core") /\ (c = "erx" => link.seen)
    /\ Len(txmb) < MbSize       \* otherwise the frame is dropped
    /\ txmb' = Append(txmb, c)
    /\ Goto(c, "ack")
    /\ UNCHANGED <<phy, link, monitor, isr, gaveup, macVars, rxmb, inmb, txVars>>

Acked(c) ==
    /\ At(c, "ack") /\ ack > 0
    /\ ack' = ack - 1
    /\ Goto(c, "core")
    /\ UNCHANGED <<phy, link, monitor, isr, gaveup, macVars, mbVars, core, msg>>

(* UNLOCK_TCPIP_CORE.                                                      *)
Leave(c) ==
    /\ At(c, "core")
    /\ core' = "none"
    /\ Goto(c, IF c = "erx" THEN "rx" ELSE "fetch")
    /\ UNCHANGED <<phy, link, monitor, isr, gaveup, macVars, mbVars, ack, msg>>

-----------------------------------------------------------------------------
(* eth_tx_thread_entry.                                                    *)

(* A Tx descriptor that the DMA still owns ends rt_stm32_eth_tx at once.   *)
TxRecv ==
    /\ At("etx", "recv") /\ txmb # <<>>
    /\ msg' = Head(txmb)
    /\ txmb' = Tail(txmb)
    /\ \E l \in {"spin", "done"} : Goto("etx", l)
    /\ UNCHANGED <<phy, link, monitor, isr, gaveup, macVars, rxmb, inmb, ack, core>>

(* while (EthHandle.Lock == HAL_LOCKED);                                   *)
TxSpin ==
    /\ At("etx", "spin") /\ ~lock
    /\ Goto("etx", "test")
    /\ UNCHANGED <<phy, link, monitor, isr, gaveup, macVars, mbVars, txVars>>

(* HAL_ETH_TransmitFrame tests again, and loses the frame if it is locked. *)
TxTest ==
    /\ At("etx", "test")
    /\ Goto("etx", IF lock THEN "done" ELSE "tx_lock")
    /\ UNCHANGED <<phy, link, monitor, isr, gaveup, macVars, mbVars, txVars>>

TxLock ==
    /\ At("etx", "tx_lock")
    /\ lock' = TRUE
    /\ Goto("etx", "send")
    /\ UNCHANGED <<phy, link, monitor, isr, gaveup, ring, rbit, mbVars, txVars>>

(* Mutant: the handle stays locked.                                        *)
TxSendLocked ==
    /\ At("etx", "send")
    /\ Goto("etx", "done")
    /\ UNCHANGED <<phy, link, monitor, isr, gaveup, macVars, mbVars, txVars>>

TxSend ==
    /\ At("etx", "send")
    /\ lock' = FALSE
    /\ Goto("etx", "done")
    /\ UNCHANGED <<phy, link, monitor, isr, gaveup, ring, rbit, mbVars, txVars>>

(* rt_sem_release(tx_ack).                                                 *)
TxAck ==
    /\ At("etx", "done")
    /\ ack' = ack + 1
    /\ msg' = "none"
    /\ Goto("etx", "recv")
    /\ UNCHANGED <<phy, link, monitor, isr, gaveup, macVars, mbVars, core>>

-----------------------------------------------------------------------------
Irq == IrqPost \/ IrqEnd
Monitor == MonitorStart \/ MonitorPost \/ PhyPoll
Erx == \/ ErxRecv \/ ErxCheck \/ ErxTake \/ Enter("erx") \/ Acked("erx")
       \/ RxTest \/ RxLock \/ RxScan \/ RxUnlock \/ RxCopy \/ RxInput
Etx == TxRecv \/ TxSpin \/ TxTest \/ TxLock \/ TxSend \/ TxAck
Tcpip == Enter("tcpip") \/ Acked("tcpip")

Next == \/ Plug \/ Arrive \/ Irq \/ Monitor \/ Erx \/ Etx \/ Tcpip \/ Fetch
        \/ \E c \in Callers : Output(c) \/ Leave(c)

Spec == Init /\ [][Next]_vars

(* Interrupts and the timer are served, threads run (one that waits for a  *)
(* lock gets it if it is free again and again), and a thread that handles  *)
(* a packet or a link change finishes.                                     *)
FairSpec ==
    /\ Spec
    /\ WF_vars(Irq) /\ SF_vars(Monitor)
    /\ SF_vars(Erx) /\ SF_vars(Etx) /\ SF_vars(Tcpip)
    /\ \A c \in Callers : SF_vars(Leave(c))

-----------------------------------------------------------------------------
(* Nothing is on its way to erx.                                           *)
ErxRests == pc["erx"] = "recv" /\ rxmb = 0 /\ ~rbit /\ isr = "none"

(* A message for etx stays on its sender's stack: while it is in the       *)
(* mailbox or in etx's hands, its sender waits for the acknowledgement.    *)
(* The variables keep their types.                                         *)
MsgAlive ==
    /\ TypeOK
    /\ \A c \in Callers : msg = c \/ (\E i \in 1..Len(txmb) : txmb[i] = c) =>
          pc[c] = "ack" /\ ack = 0

(* No link change is lost, though a full mailbox refuses its message: when *)
(* erx rests, the netif has the link state that was found last.            *)
LinkKnown ==
    ErxRests /\ monitor # "post" => ~link.changed /\ link.up = link.speed

(* No frame is left in the ring by coalesced interrupts and messages: when *)
(* erx rests the ring is empty, or the last eth_rx gave up.                *)
NoFrameForgotten == ErxRests => ring = 0 \/ gaveup

(* "receive all of buffer" (ethernetif.c, eth_rx_thread_entry).            *)
AllReceived == ErxRests => ring = 0

(* The netif's link state follows the PHY's.  (Frames that never leave the *)
(* ring empty keep erx from looking at the link.)                          *)
LinkFollows ==
    /\ (<>[]phy /\ []<>(pc["erx"] = "recv")) => <>[]link.up
    /\ <>[]~phy => <>[]~link.up

(* Whoever calls ethernetif_linkoutput returns from it.                    *)
OutputReturns == \A c \in Callers : []<>(pc[c] # "ack")
=============================================================================
