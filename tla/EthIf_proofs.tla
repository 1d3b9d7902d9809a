---------------------------- MODULE EthIf_proofs ----------------------------
(***************************************************************************)
(* Proofs about EthIf, for every number of descriptors and every size of   *)
(* the mailboxes: a message is not handled once its sender has gone on, no *)
(* frame and no change of the link is forgotten.                           *)
(***************************************************************************)
EXTENDS EthIf, SequenceTheorems, TLAPS

(* The core lock is held by the caller that is in lwIP's core.             *)
CoreHeld == \A c \in Callers : pc[c] \in {"core", "ack"} <=> core = c

(* etx has a message in hand while it is not waiting for one.              *)
InHand == msg = "none" <=> pc["etx"] = "recv"

(* One message is under way for a caller that waits, in the mailbox, in    *)
(* etx's hands or acknowledged, and none if nobody waits.                  *)
OneMessage ==
    \/ /\ \A c \in Callers : pc[c] # "ack"
       /\ txmb = <<>> /\ msg = "none" /\ ack = 0
    \/ \E c \in Callers :
          /\ pc[c] = "ack"
          /\ \/ txmb = <<c>> /\ msg = "none" /\ ack = 0
             \/ txmb = <<>>  /\ msg = c      /\ ack = 0
             \/ txmb = <<>>  /\ msg = "none" /\ ack = 1

MsgInv == CoreHeld /\ InHand /\ OneMessage

(* The interrupt posts before it clears the bit; when erx rests or has     *)
(* found the ring empty, a frame in it is one that will be announced.      *)
FramesAnnounced ==
    /\ isr = "posted" => rxmb > 0
    /\ ring > 0 /\ pc["erx"] \in {"recv", "empty"} /\ ~gaveup => rbit \/ rxmb > 0

(* A change is announced until erx takes it, and erx hands on what it took.*)
LinkAnnounced ==
    /\ link.status = link.speed
    /\ link.changed => \/ rxmb > 0 \/ monitor = "post"
                       \/ pc["erx"] \in {"check", "take"}
    /\ ~link.changed => link.seen = link.status
    /\ pc["erx"] # "wait" => link.up = link.seen

IInv == TypeOK /\ MsgInv /\ FramesAnnounced /\ LinkAnnounced

(* Every thread is at a place of its own code.                             *)
PcOK == /\ pc \in [Threads -> UNION {PC[t] : t \in Threads}]
        /\ \A t \in Threads : pc[t] \in PC[t]

LEMMA GotoPlace ==
    ASSUME PcOK, NEW t \in Threads, NEW l \in PC[t], Goto(t, l)
    PROVE  PcOK'
BY DEF PcOK, Goto

(* The system starts with nothing under way.                               *)
LEMMA InitHolds == Init => IInv
<1> SUFFICES ASSUME Init PROVE IInv
  OBVIOUS
<1>1. TypeOK
  <2>1. txmb \in Seq(Callers) /\ Len(txmb) <= 1
    BY EmptySeq DEF Init
  <2>2. PcOK
    <3>1. PC["erx"] = {"recv", "check", "take", "wait", "core", "ack",
                       "rx", "rx_lock", "scan", "found", "empty", "copy", "input"}
      BY DEF PC
    <3>2. "recv" \in PC["etx"] /\ "fetch" \in PC["tcpip"]
      BY DEF PC
    <3>3. \A t \in Threads : pc[t] \in PC[t]
      BY <3>1, <3>2 DEF Init, Threads, Callers
    <3>4. QED BY <3>3 DEF Init, PcOK
  <2>3. {phy, rbit, lock, gaveup} \subseteq BOOLEAN
    BY DEF Init
  <2>4. link \in [{"speed", "changed", "status", "seen", "up"} -> BOOLEAN]
    BY DEF Init
  <2>5. /\ ring \in 0..RxBufs /\ rxmb \in 0..MbSize
        /\ inmb \in 0..InSize /\ ack \in 0..1
    BY EthAssumption DEF Init
  <2>6. QED BY <2>1, <2>2, <2>3, <2>4, <2>5 DEF Init, TypeOK, PcOK
<1>2. MsgInv
  BY DEF Init, MsgInv, CoreHeld, InHand, OneMessage, Callers, Threads
<1>3. FramesAnnounced /\ LinkAnnounced
  BY DEF Init, FramesAnnounced, LinkAnnounced, Threads, Callers
<1>4. QED BY <1>1, <1>2, <1>3 DEF IInv

(* The mailbox of erx is not empty after a post and never holds more than  *)
(* its size.                                                               *)
LEMMA PostHolds ==
    ASSUME rxmb \in 0..MbSize, PostDevice
    PROVE  rxmb' \in 0..MbSize /\ rxmb' > 0 /\ rxmb' >= rxmb
BY EthAssumption DEF PostDevice

(* A step of the protocol leaves the messages of the transmit side alone,  *)
(* or is one of these.                                                     *)
Transmits ==
    \/ \E c \in Callers : Enter(c) \/ Output(c) \/ Acked(c) \/ Leave(c)
    \/ TxRecv \/ TxAck

(* Every step that does not transmit moves erx, etx or tcpip at most from  *)
(* a place outside the core to another one.                                *)
LEMMA OthersQuiet ==
    ASSUME TypeOK, [Next]_vars, ~Transmits
    PROVE  /\ UNCHANGED <<txmb, msg, ack, core>>
           /\ \A c \in Callers : /\ pc'[c] \in {"core", "ack"} <=> pc[c] \in {"core", "ack"}
                                 /\ pc'[c] = "ack" <=> pc[c] = "ack"
           /\ pc'["etx"] = "recv" <=> pc["etx"] = "recv"
<1> USE DEF TypeOK, Threads, Callers, macVars, mbVars, txVars
<1>1. CASE Plug \/ Arrive \/ Irq \/ Monitor
  BY <1>1 DEF Plug, Arrive, Irq, IrqPost, IrqEnd, Monitor, MonitorStart, MonitorPost, PhyPoll
<1>2. CASE ErxRecv \/ ErxCheck \/ ErxTake \/ RxTest
  BY <1>2 DEF ErxRecv, ErxCheck, ErxTake, RxTest, Goto, At
<1>3. CASE RxLock \/ RxScan \/ RxUnlock \/ RxCopy \/ RxInput
  BY <1>3 DEF RxLock, RxScan, RxUnlock, RxCopy, RxInput, Goto, At
<1>4. CASE TxSpin \/ TxTest \/ TxLock \/ TxSend \/ Fetch
  BY <1>4 DEF TxSpin, TxTest, TxLock, TxSend, Fetch, Goto, At
<1>5. CASE UNCHANGED vars
  BY <1>5 DEF vars
<1>6. QED BY <1>1, <1>2, <1>3, <1>4, <1>5 DEF Next, Erx, Etx, Tcpip, Transmits

(* The discipline of the transmit side: the core lock has one owner, who   *)
(* has at most one message under way.                                      *)
LEMMA MsgStep ==
    ASSUME TypeOK, MsgInv, [Next]_vars
    PROVE  MsgInv'
<1> USE DEF TypeOK, MsgInv, CoreHeld, InHand, OneMessage, Threads, Callers
<1>1. CASE ~Transmits
  BY <1>1, OthersQuiet
<1>2. ASSUME NEW c \in Callers, Enter(c) PROVE MsgInv'
  BY <1>2 DEF Enter, Goto, At, macVars, mbVars
<1>3. ASSUME NEW c \in Callers, Output(c) PROVE MsgInv'
  <2>1. txmb = <<>> /\ msg = "none" /\ ack = 0 /\ core = c
    BY <1>3 DEF Output, At
  <2>2. txmb' = <<c>>
    BY <1>3, <2>1 DEF Output
  <2>3. QED BY <1>3, <2>1, <2>2 DEF Output, Goto, At, txVars
<1>4. ASSUME NEW c \in Callers, Acked(c) PROVE MsgInv'
  BY <1>4 DEF Acked, Goto, At, mbVars
<1>5. ASSUME NEW c \in Callers, Leave(c) PROVE MsgInv'
  BY <1>5 DEF Leave, Goto, At, mbVars
<1>6. CASE TxRecv
  <2>1. PICK c \in Callers : pc[c] = "ack" /\ txmb = <<c>> /\ ack = 0
    BY <1>6 DEF TxRecv
  <2>2. txmb' = <<>> /\ msg' = c /\ c # "none"
    BY <1>6, <2>1 DEF TxRecv
  <2>3. QED BY <1>6, <2>1, <2>2 DEF TxRecv, Goto, At
<1>7. CASE TxAck
  BY <1>7 DEF TxAck, Goto, At, mbVars
<1>8. QED BY <1>1, <1>2, <1>3, <1>4, <1>5, <1>6, <1>7 DEF Transmits
LEMMA PcStep ==
    ASSUME PcOK, [Next]_vars
    PROVE  PcOK'
<1>1. CASE Plug \/ Arrive \/ Irq \/ Monitor
  BY <1>1 DEF Plug, Arrive, Irq, IrqPost, IrqEnd, Monitor, MonitorStart, MonitorPost,
              PhyPoll, PcOK
<1>2. CASE Erx
  <2>1. "erx" \in Threads
    BY DEF Threads, Callers
  <2>2. PC["erx"] = {"recv", "check", "take", "wait", "core", "ack",
                        "rx", "rx_lock", "scan", "found", "empty", "copy", "input"}
    BY DEF PC
  <2>3. CASE ErxRecv \/ ErxCheck \/ ErxTake \/ Enter("erx") \/ Acked("erx")
    BY <2>1, <2>2, <2>3, GotoPlace DEF ErxRecv, ErxCheck, ErxTake, Enter, Acked
  <2>4. CASE RxTest \/ RxLock \/ RxScan \/ RxUnlock \/ RxCopy \/ RxInput
    BY <2>1, <2>2, <2>4, GotoPlace DEF RxTest, RxLock, RxScan, RxUnlock, RxCopy, RxInput
  <2>5. QED BY <1>2, <2>3, <2>4 DEF Erx
<1>3. CASE Etx
  <2>1. "etx" \in Threads
    BY DEF Threads
  <2>2. PC["etx"] = {"recv", "spin", "test", "tx_lock", "send", "done"}
    BY DEF PC
  <2>3. QED BY <1>3, <2>1, <2>2, GotoPlace
            DEF Etx, TxRecv, TxSpin, TxTest, TxLock, TxSend, TxAck
<1>4. ASSUME NEW c \in Callers, Tcpip \/ Fetch \/ Output(c) \/ Leave(c)
      PROVE  PcOK'
  <2>1. "tcpip" \in Threads /\ "erx" \in Threads
    BY DEF Threads, Callers
  <2>2. PC["tcpip"] = {"fetch", "wait", "core", "ack"}
    BY DEF PC
  <2>3. "rx" \in PC["erx"] /\ "ack" \in PC["erx"]
    BY DEF PC
  <2>4. QED BY <1>4, <2>1, <2>2, <2>3, GotoPlace
            DEF Tcpip, Enter, Acked, Fetch, Output, Leave, Callers
<1>5. CASE UNCHANGED vars
  BY <1>5 DEF vars, PcOK
<1>6. QED BY <1>1, <1>2, <1>3, <1>4, <1>5 DEF Next, Callers

(* The counters, flags and the mailbox of etx.  A mailbox that holds a     *)
(* message of every waiting caller holds no more than one.                 *)
MbOK ==
    /\ txmb \in Seq(Callers) /\ Len(txmb) <= 1
    /\ ack \in 0..1
    /\ core \in Callers \cup {"none"} /\ msg \in Callers \cup {"none"}

LEMMA MbStep ==
    ASSUME TypeOK, MsgInv, [Next]_vars
    PROVE  MbOK'
<1> USE DEF TypeOK, MbOK
<1>1. CASE ~Transmits
  BY <1>1, OthersQuiet
<1>2. ASSUME NEW c \in Callers, Enter(c) \/ Leave(c) PROVE MbOK'
  BY <1>2 DEF Enter, Leave, mbVars
<1>3. ASSUME NEW c \in Callers, Output(c) PROVE MbOK'
  <2>1. txmb = <<>>
    BY <1>3 DEF Output, At, MsgInv, CoreHeld, OneMessage
  <2>2. txmb' = <<c>> /\ txmb' \in Seq(Callers) /\ Len(txmb') = 1
    BY <1>3, <2>1 DEF Output
  <2>3. QED BY <1>3, <2>2 DEF Output, txVars
<1>4. ASSUME NEW c \in Callers, Acked(c) PROVE MbOK'
  BY <1>4 DEF Acked, mbVars
<1>5. CASE TxRecv
  <2>1. /\ Head(txmb) \in Callers /\ Tail(txmb) \in Seq(Callers)
        /\ Len(Tail(txmb)) <= 1
    BY <1>5, HeadTailProperties DEF TxRecv
  <2>2. QED BY <1>5, <2>1 DEF TxRecv
<1>6. CASE TxAck
  <2>1. ack = 0
    BY <1>6 DEF TxAck, At, MsgInv, InHand, OneMessage
  <2>2. QED BY <1>6, <2>1 DEF TxAck, mbVars
<1>7. QED BY <1>1, <1>2, <1>3, <1>4, <1>5, <1>6 DEF Transmits

(* The flags, the link and the counters.                                   *)
FlagsOK == {phy, rbit, lock, gaveup} \subseteq BOOLEAN
LinkOK  == link \in [{"speed", "changed", "status", "seen", "up"} -> BOOLEAN]
CountOK == /\ monitor \in {"start", "post", "polling"} /\ isr \in {"none", "posted"}
           /\ ring \in 0..RxBufs /\ rxmb \in 0..MbSize /\ inmb \in 0..InSize

LEMMA FieldsStep ==
    ASSUME FlagsOK, LinkOK, CountOK, [Next]_vars
    PROVE  FlagsOK' /\ LinkOK' /\ CountOK'
<1> USE EthAssumption DEF macVars, mbVars, txVars
<1>1. CASE Plug \/ Arrive
  <2>1. FlagsOK' /\ LinkOK'
    BY <1>1 DEF Plug, Arrive, FlagsOK, LinkOK
  <2>2. CountOK'
    BY <1>1 DEF Plug, Arrive, CountOK
  <2>3. QED BY <2>1, <2>2
<1>2. CASE Irq
  <2>1. FlagsOK' /\ LinkOK'
    BY <1>2 DEF Irq, IrqPost, IrqEnd, FlagsOK, LinkOK
  <2>2. CountOK'
    BY <1>2, PostHolds DEF Irq, IrqPost, IrqEnd, CountOK
  <2>3. QED BY <2>1, <2>2
<1>3. CASE Monitor
  <2>1. FlagsOK' /\ CountOK'
    BY <1>3, PostHolds DEF Monitor, MonitorStart, MonitorPost, PhyPoll, FlagsOK, CountOK
  <2>2. LinkOK'
    BY <1>3 DEF Monitor, MonitorStart, MonitorPost, PhyPoll, LinkChange, FlagsOK, LinkOK
  <2>3. QED BY <2>1, <2>2
<1>4. CASE ErxRecv \/ ErxCheck \/ ErxTake \/ RxTest
  <2>1. FlagsOK'
    BY <1>4 DEF ErxRecv, ErxCheck, ErxTake, RxTest, FlagsOK
  <2>2. LinkOK'
    BY <1>4 DEF ErxRecv, ErxCheck, ErxTake, RxTest, LinkOK
  <2>3. CountOK'
    BY <1>4 DEF ErxRecv, ErxCheck, ErxTake, RxTest, CountOK
  <2>4. QED BY <2>1, <2>2, <2>3
<1>5. CASE RxLock \/ RxScan \/ RxUnlock \/ RxCopy \/ RxInput
  <2>1. FlagsOK' /\ LinkOK'
    BY <1>5 DEF RxLock, RxScan, RxUnlock, RxCopy, RxInput, FlagsOK, LinkOK
  <2>2. CountOK'
    BY <1>5 DEF RxLock, RxScan, RxUnlock, RxCopy, RxInput, CountOK
  <2>3. QED BY <2>1, <2>2
<1>6. CASE Etx \/ Fetch
  <2>1. FlagsOK' /\ LinkOK'
    BY <1>6 DEF Etx, TxRecv, TxSpin, TxTest, TxLock, TxSend, TxAck, Fetch, FlagsOK, LinkOK
  <2>2. CountOK'
    BY <1>6 DEF Etx, TxRecv, TxSpin, TxTest, TxLock, TxSend, TxAck, Fetch, CountOK
  <2>3. QED BY <2>1, <2>2
<1>7. ASSUME NEW c \in Callers, Enter(c) \/ Output(c) \/ Acked(c) \/ Leave(c)
      PROVE  FlagsOK' /\ LinkOK' /\ CountOK'
  <2>1. FlagsOK' /\ CountOK'
    BY <1>7 DEF Enter, Output, Acked, Leave, FlagsOK, CountOK
  <2>2. LinkOK'
    BY <1>7 DEF Enter, Output, Acked, Leave, LinkOK
  <2>3. QED BY <2>1, <2>2
<1>8. CASE UNCHANGED vars
  BY <1>8 DEF vars, FlagsOK, LinkOK, CountOK
<1>9. QED BY <1>1, <1>2, <1>3, <1>4, <1>5, <1>6, <1>7, <1>8
          DEF Next, Erx, Tcpip, Callers

LEMMA TypeStep ==
    ASSUME TypeOK, MsgInv, [Next]_vars
    PROVE  TypeOK'
<1>1. PcOK'
  BY PcStep DEF PcOK, TypeOK
<1>2. MbOK'
  BY MbStep
<1>3. FlagsOK' /\ LinkOK' /\ CountOK'
  BY FieldsStep DEF TypeOK, FlagsOK, LinkOK, CountOK
<1>4. QED BY <1>1, <1>2, <1>3 DEF TypeOK, PcOK, MbOK, FlagsOK, LinkOK, CountOK

(* A frame in the ring is announced, or erx is looking for it.             *)
LEMMA FramesStep ==
    ASSUME TypeOK, FramesAnnounced, [Next]_vars
    PROVE  FramesAnnounced'
<1> USE EthAssumption DEF TypeOK, FramesAnnounced, Threads, Callers, macVars, mbVars, txVars
<1>1. CASE Plug \/ Arrive
  BY <1>1 DEF Plug, Arrive
<1>2. CASE Irq
  BY <1>2, PostHolds DEF Irq, IrqPost, IrqEnd
<1>3. CASE Monitor
  BY <1>3, PostHolds DEF Monitor, MonitorStart, MonitorPost, PhyPoll
<1>4. CASE ErxRecv \/ ErxCheck \/ ErxTake \/ RxTest
  BY <1>4 DEF ErxRecv, ErxCheck, ErxTake, RxTest, Goto, At
<1>5. CASE RxLock \/ RxScan \/ RxUnlock \/ RxCopy \/ RxInput
  BY <1>5 DEF RxLock, RxScan, RxUnlock, RxCopy, RxInput, Goto, At
<1>6. CASE Etx \/ Fetch
  BY <1>6 DEF Etx, TxRecv, TxSpin, TxTest, TxLock, TxSend, TxAck, Fetch, Goto
<1>7. ASSUME NEW c \in Callers, Enter(c) \/ Output(c) \/ Acked(c) \/ Leave(c)
      PROVE  FramesAnnounced'
  BY <1>7 DEF Enter, Output, Acked, Leave, Goto
<1>8. CASE UNCHANGED vars
  BY <1>8 DEF vars
<1>9. QED BY <1>1, <1>2, <1>3, <1>4, <1>5, <1>6, <1>7, <1>8 DEF Next, Erx, Tcpip, Callers

(* A change of the link is announced until erx has taken it.               *)
LEMMA LinkStep ==
    ASSUME TypeOK, LinkAnnounced, [Next]_vars
    PROVE  LinkAnnounced'
<1> USE EthAssumption DEF TypeOK, LinkAnnounced, Threads, Callers, macVars, mbVars, txVars
<1>1. CASE Plug \/ Arrive
  BY <1>1 DEF Plug, Arrive
<1>2. CASE Irq
  BY <1>2, PostHolds DEF Irq, IrqPost, IrqEnd
<1>3. CASE Monitor
  BY <1>3, PostHolds DEF Monitor, MonitorStart, MonitorPost, PhyPoll, LinkChange
<1>4. CASE ErxRecv \/ ErxCheck \/ ErxTake \/ RxTest
  BY <1>4 DEF ErxRecv, ErxCheck, ErxTake, RxTest, Goto, At
<1>5. CASE RxLock \/ RxScan \/ RxUnlock \/ RxCopy \/ RxInput
  BY <1>5 DEF RxLock, RxScan, RxUnlock, RxCopy, RxInput, Goto, At
<1>6. CASE Etx \/ Fetch
  BY <1>6 DEF Etx, TxRecv, TxSpin, TxTest, TxLock, TxSend, TxAck, Fetch, Goto
<1>7. ASSUME NEW c \in Callers, Enter(c) \/ Output(c) \/ Acked(c) \/ Leave(c)
      PROVE  LinkAnnounced'
  BY <1>7 DEF Enter, Output, Acked, Leave, Goto, At
<1>8. CASE UNCHANGED vars
  BY <1>8 DEF vars
<1>9. QED BY <1>1, <1>2, <1>3, <1>4, <1>5, <1>6, <1>7, <1>8 DEF Next, Erx, Tcpip, Callers

(* The inductive invariant: types, the discipline of the transmit side,    *)
(* and the announcements to erx, for every size of ring and mailboxes.     *)
THEOREM Invariance == Spec => []IInv
<1>1. IInv /\ [Next]_vars => IInv'
  BY TypeStep, MsgStep, FramesStep, LinkStep DEF IInv
<1>2. QED BY InitHolds, <1>1, PTL DEF Spec

(* ethernetif_linkoutput's message, which is on its caller's stack, is in  *)
(* the mailbox or in etx's hands only while the caller waits for the       *)
(* acknowledgement, whatever the sizes of the mailboxes.                   *)
THEOREM MessageAlive == Spec => []MsgAlive
<1>1. IInv => MsgAlive
  <2> SUFFICES ASSUME IInv PROVE MsgAlive
    OBVIOUS
  <2>1. TypeOK /\ OneMessage
    BY DEF IInv, MsgInv
  <2>2. ASSUME NEW c \in Callers, msg = c \/ (\E i \in 1..Len(txmb) : txmb[i] = c)
        PROVE  pc[c] = "ack" /\ ack = 0
    BY <2>1, <2>2 DEF OneMessage, Callers
  <2>3. QED BY <2>1, <2>2 DEF MsgAlive
<1>2. QED BY Invariance, <1>1, PTL

(* eth_rx_thread_entry leaves a frame in the ring beside an empty mailbox  *)
(* only after an eth_rx that failed, however interrupts and messages are   *)
(* coalesced or refused.                                                   *)
THEOREM FramesNotForgotten == Spec => []NoFrameForgotten
<1>1. IInv => NoFrameForgotten
  BY EthAssumption DEF IInv, TypeOK, FramesAnnounced, NoFrameForgotten, ErxRests
<1>2. QED BY Invariance, <1>1, PTL

(* phy_linkchange's last finding reaches the netif although its message    *)
(* may be refused.                                                         *)
THEOREM LinkNotForgotten == Spec => []LinkKnown
<1>1. IInv => LinkKnown
  BY EthAssumption DEF IInv, LinkAnnounced, LinkKnown, ErxRests
<1>2. QED BY Invariance, <1>1, PTL

=============================================================================
