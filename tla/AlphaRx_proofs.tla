--------------------------- MODULE AlphaRx_proofs ---------------------------
(***************************************************************************)
(* Proofs about the alpha radio's receive path, first of its serial device *)
(* (SerialRx) - the types, that no wakeup is lost, that it implements      *)
(* ByteChannel -, for every ring size, every range of the semaphore and    *)
(* every set of streams; then of the framer, the queue and the parsing     *)
(* thread around it (AlphaRx).                                             *)
(***************************************************************************)
EXTENDS AlphaRx, SeqLemmas

(* The semaphore counts no more than the interrupts that can have raised   *)
(* it, so its 16 bits do not wrap on a stream of fewer than SemMod bytes.  *)
TokensBounded ==
    value + Len(line) + (IF rdr = NoByte THEN 0 ELSE 1) + (IF isr THEN 1 ELSE 0)
        < SemMod

(* is_full is only set together with a FIFO of bufsz-1 bytes.              *)
FullMeansFull == is_full => RxLength = BufSz - 1

(* The reader runs only once the callback is registered.                   *)
HookedFirst == ~hooked => pc = "off"

IInv == TokensBounded /\ FullMeansFull /\ HookedFirst /\ NoLostWakeup

LEMMA InitTyped == Init => TypeOK
<1> USE BufSzAssumption, StreamsAssumption DEF TypeOK, Index
<1> SUFFICES ASSUME Init PROVE TypeOK
  OBVIOUS
<1>1. line \in Seq(Byte) /\ out \in Seq(Byte)
  BY EmptySeq DEF Init
<1>2. buffer \in [Index -> Byte] /\ ch \in Byte
  BY DEF Init, Byte
<1>3. QED BY <1>1, <1>2 DEF Init, PC

LEMMA NextTyped == TypeOK /\ [Next]_vars => TypeOK'
<1> USE BufSzAssumption, StreamsAssumption DEF TypeOK, Index
<1> SUFFICES ASSUME TypeOK, [Next]_vars PROVE TypeOK'
  OBVIOUS
<1>1. CASE ChipSend
  <2>1. Head(line) \in Byte /\ Tail(line) \in Seq(Byte)
    BY <1>1, HeadTailProperties DEF ChipSend
  <2>2. rdr' \in Byte \cup {NoByte} /\ dropped' \in Nat
    BY <1>1, <2>1 DEF ChipSend
  <2>3. QED BY <1>1, <2>1, <2>2 DEF ChipSend, fifo, reader
<1>2. CASE IsrGetc
  <2>1. Succ(put_index) \in Index /\ Succ(get_index) \in Index
    BY DEF Succ
  <2>2. buffer' \in [Index -> Byte]
    BY <1>2 DEF IsrGetc
  <2>3. get_index' \in Index /\ is_full' \in BOOLEAN /\ dropped' \in Nat
    <3>1. CASE Succ(put_index) = get_index
      BY <1>2, <2>1, <3>1 DEF IsrGetc
    <3>2. CASE Succ(put_index) # get_index
      BY <1>2, <3>2 DEF IsrGetc
    <3>3. QED BY <3>1, <3>2
  <2>4. QED BY <1>2, <2>1, <2>2, <2>3 DEF IsrGetc, reader
<1>3. CASE IsrIndicate
  <2>1. value' \in 0..SemMod-1 /\ pc' \in PC
    BY <1>3 DEF IsrIndicate, SemRelease, PC
  <2>2. QED BY <1>3, <2>1 DEF IsrIndicate, fifo
<1>4. CASE SetRxIndicate
  BY <1>4 DEF SetRxIndicate, fifo, reader
<1>5. CASE StartReader
  BY <1>5 DEF StartReader, fifo, PC
<1>6. CASE ReadByte
  <2>1. CASE FifoEmpty
    BY <1>6, <2>1 DEF ReadByte, fifo, PC
  <2>2. CASE ~FifoEmpty
    <3>1. Succ(get_index) \in Index /\ buffer[get_index] \in Byte
      BY DEF Succ
    <3>2. QED BY <1>6, <2>2, <3>1 DEF ReadByte, PC
  <2>3. QED BY <2>1, <2>2
<1>7. CASE SemTake
  <2>1. value' \in 0..SemMod-1 /\ pc' \in PC
    BY <1>7 DEF SemTake, PC
  <2>2. QED BY <1>7, <2>1 DEF SemTake, fifo
<1>8. CASE UseByte
  BY <1>8 DEF UseByte, fifo, PC
<1>9. CASE UNCHANGED vars
  BY <1>9 DEF vars, fifo, reader
<1>10. QED
  BY <1>1, <1>2, <1>3, <1>4, <1>5, <1>6, <1>7, <1>8, <1>9
     DEF Next, Isr, Boot, Reader

(* Type correctness of the reception path: the FIFO's indices stay inside  *)
(* the ring and the semaphore inside its 16 bits, whatever the ISR and the *)
(* reader do.                                                              *)
THEOREM TypeCorrect == Spec => []TypeOK
BY InitTyped, NextTyped, PTL DEF Spec

-----------------------------------------------------------------------------
(* The ISR's rx_length is the number of bytes in the ring; it is 0 exactly *)
(* when the indices meet.                                                  *)
LEMMA RxLengthRange ==
    ASSUME TypeOK
    PROVE  RxLength \in 0..BufSz-1 /\ (RxLength = 0 <=> put_index = get_index)
BY BufSzAssumption DEF TypeOK, RxLength, Index

(* IInv is preserved by every step: the heart of the wakeup argument.      *)
LEMMA IInvStep ==
    ASSUME TypeOK, TypeOK', IInv, [Next]_vars
    PROVE  IInv'
<1> USE BufSzAssumption, StreamsAssumption
<1>1. CASE ChipSend
  <2>1. Len(Tail(line)) = Len(line) - 1 /\ Len(line) \in Nat
    BY <1>1, HeadTailProperties, LenProperties DEF ChipSend, TypeOK
  <2>2. TokensBounded'
    BY <1>1, <2>1 DEF ChipSend, TokensBounded, IInv, TypeOK, NoByte
  <2>3. QED
    BY <1>1, <2>2 DEF ChipSend, IInv, FullMeansFull, HookedFirst, NoLostWakeup,
                      FifoEmpty, RxLength, fifo, reader
<1>2. CASE IsrGetc
  <2>1. TokensBounded'
    <3>1. Len(line) \in Nat
      BY LenProperties DEF TypeOK
    <3>2. QED BY <1>2, <3>1 DEF IsrGetc, TokensBounded, IInv, TypeOK
  <2>2. FullMeansFull'
    <3>1. CASE Succ(put_index) = get_index
      <4>1. put_index' = get_index /\ get_index' = Succ(get_index)
        BY <1>2, <3>1 DEF IsrGetc
      <4>2. RxLength' = BufSz - 1
        BY <4>1 DEF RxLength, Succ, TypeOK, Index
      <4>3. QED BY <4>2 DEF FullMeansFull
    <3>2. CASE Succ(put_index) # get_index
      <4>1. RxLength < BufSz - 1
        BY <3>2 DEF RxLength, Succ, TypeOK, Index
      <4>2. ~is_full
        BY <4>1, RxLengthRange DEF IInv, FullMeansFull
      <4>3. QED BY <1>2, <3>2, <4>2 DEF IsrGetc, FullMeansFull
    <3>3. QED BY <3>1, <3>2
  <2>3. HookedFirst' /\ NoLostWakeup'
    BY <1>2 DEF IsrGetc, IInv, HookedFirst, NoLostWakeup, reader
  <2>4. QED BY <2>1, <2>2, <2>3 DEF IInv
<1>3. CASE IsrIndicate
  <2>1. value + 1 < SemMod \/ ~isr
    <3>1. Len(line) \in Nat
      BY LenProperties DEF TypeOK
    <3>2. QED BY <1>3, <3>1 DEF TokensBounded, IInv, TypeOK, IsrIndicate
  <2>2. isr
    BY <1>3 DEF IsrIndicate
  <2>3. value + 1 # SemMod
    BY <2>1, <2>2 DEF TypeOK
  <2>4. TokensBounded'
    <3>1. Len(line) \in Nat
      BY LenProperties DEF TypeOK
    <3>2. QED
      BY <1>3, <2>3, <3>1 DEF TokensBounded, IInv, TypeOK, IsrIndicate, SemRelease
  <2>5. FullMeansFull'
    BY <1>3 DEF IsrIndicate, IInv, FullMeansFull, RxLength, fifo
  <2>6. HookedFirst'
    BY <1>3 DEF IsrIndicate, SemRelease, IInv, HookedFirst
  <2>7. NoLostWakeup'
    <3>1. CASE ~hooked
      BY <1>3, <3>1 DEF IsrIndicate, IInv, HookedFirst, NoLostWakeup
    <3>2. CASE hooked /\ RxLength = 0
      <4>1. put_index = get_index /\ ~is_full
        BY <3>2, RxLengthRange DEF IInv, FullMeansFull
      <4>2. QED
        BY <1>3, <4>1 DEF IsrIndicate, NoLostWakeup, FifoEmpty, fifo, TypeOK
    <3>3. CASE hooked /\ RxLength # 0
      <4>1. SemRelease
        BY <1>3, <3>3 DEF IsrIndicate
      <4>2. CASE pc = "blocked"
        BY <4>1, <4>2 DEF SemRelease, NoLostWakeup
      <4>3. CASE pc # "blocked"
        BY <2>3, <4>1, <4>3 DEF SemRelease, NoLostWakeup, TypeOK
      <4>4. QED BY <4>2, <4>3
    <3>4. QED BY <3>1, <3>2, <3>3
  <2>8. QED BY <2>4, <2>5, <2>6, <2>7 DEF IInv
<1>4. CASE SetRxIndicate
  BY <1>4 DEF SetRxIndicate, IInv, TokensBounded, FullMeansFull, HookedFirst,
              NoLostWakeup, FifoEmpty, RxLength, fifo, reader
<1>5. CASE StartReader
  BY <1>5 DEF StartReader, IInv, TokensBounded, FullMeansFull, HookedFirst,
              NoLostWakeup, RxLength, fifo
<1>6. CASE ReadByte
  <2>1. TokensBounded' /\ HookedFirst'
    BY <1>6 DEF ReadByte, IInv, TokensBounded, HookedFirst, fifo
  <2>2. FullMeansFull'
    BY <1>6 DEF ReadByte, IInv, FullMeansFull, RxLength, fifo
  <2>3. NoLostWakeup'
    BY <1>6 DEF ReadByte, NoLostWakeup, FifoEmpty, fifo
  <2>4. QED BY <2>1, <2>2, <2>3 DEF IInv
<1>7. CASE SemTake
  <2>1. TokensBounded'
    <3>1. Len(line) \in Nat
      BY LenProperties DEF TypeOK
    <3>2. QED BY <1>7, <3>1 DEF SemTake, IInv, TokensBounded, TypeOK
  <2>2. FullMeansFull' /\ HookedFirst'
    BY <1>7 DEF SemTake, IInv, FullMeansFull, HookedFirst, RxLength, fifo
  <2>3. NoLostWakeup'
    BY <1>7 DEF SemTake, IInv, NoLostWakeup, FifoEmpty, fifo, TypeOK
  <2>4. QED BY <2>1, <2>2, <2>3 DEF IInv
<1>8. CASE UseByte
  BY <1>8 DEF UseByte, IInv, TokensBounded, FullMeansFull, HookedFirst,
              NoLostWakeup, RxLength, fifo
<1>9. CASE UNCHANGED vars
  BY <1>9 DEF vars, IInv, TokensBounded, FullMeansFull, HookedFirst,
              NoLostWakeup, FifoEmpty, RxLength, fifo, reader
<1>10. QED
  BY <1>1, <1>2, <1>3, <1>4, <1>5, <1>6, <1>7, <1>8, <1>9
     DEF Next, Isr, Boot, Reader

(* IInv holds at power-on: the ring and the data register are empty.       *)
LEMMA IInvInit == Init => IInv
<1> SUFFICES ASSUME Init PROVE IInv
  OBVIOUS
<1>1. Len(line) \in Nat /\ Len(line) < SemMod
  BY StreamsAssumption, LenProperties DEF Init
<1>2. QED
  BY <1>1, BufSzAssumption
     DEF Init, IInv, TokensBounded, FullMeansFull, HookedFirst, NoLostWakeup,
         RxLength, NoByte

(* The inductive invariant behind the wakeup: tokens stay within the       *)
(* semaphore's width, is_full agrees with the indices, and the reader      *)
(* starts only after rx_indicate is registered.                            *)
THEOREM Invariance == Spec => []IInv
<1>1. TypeOK /\ TypeOK' /\ IInv /\ [Next]_vars => IInv'
  BY IInvStep
<1>2. QED BY TypeCorrect, IInvInit, <1>1, PTL DEF Spec

(* No lost wakeup: a reader asleep, or about to sleep for want of a token, *)
(* leaves no byte in the FIFO outside an interrupt, for every ring size    *)
(* and every stream shorter than the semaphore's range.                    *)
THEOREM WakeupNeverLost == Spec => []NoLostWakeup
<1>1. IInv => NoLostWakeup
  BY DEF IInv
<1>2. QED BY Invariance, <1>1, PTL

-----------------------------------------------------------------------------
(* The n occupied slots of a ring, read from index g, form a sequence.     *)
LEMMA RingSeq ==
    ASSUME NEW buf \in [Index -> Byte], NEW g \in Index, NEW n \in 0..BufSz-1
    PROVE  /\ [i \in 1..n |-> buf[Slot(g + i - 1)]] \in Seq(Byte)
           /\ Len([i \in 1..n |-> buf[Slot(g + i - 1)]]) = n
<1> DEFINE s == [i \in 1..n |-> buf[Slot(g + i - 1)]]
<1>1. \A i \in 1..n : Slot(g + i - 1) \in Index
  BY BufSzAssumption DEF Slot, Index
<1>2. s \in [1..n -> Byte]
  BY <1>1
<1>3. n \in Nat
  BY BufSzAssumption
<1>4. s \in Seq(Byte)
  BY <1>2, <1>3, SeqDef
<1>5. QED BY <1>2, <1>3, <1>4, LenProperties

(* Content, before and after a step, is the sequence of occupied slots.    *)
LEMMA ContentSeq ==
    ASSUME TypeOK
    PROVE  Content \in Seq(Byte) /\ Len(Content) = RxLength
<1>1. PICK n : n = RxLength
  OBVIOUS
<1>2. buffer \in [Index -> Byte] /\ get_index \in Index /\ n \in 0..BufSz-1
  BY <1>1, RxLengthRange DEF TypeOK
<1>3. Content = [i \in 1..n |-> buffer[Slot(get_index + i - 1)]]
  BY <1>1 DEF Content
<1>4. QED BY <1>1, <1>2, <1>3, RingSeq

LEMMA ContentSeqPrime ==
    ASSUME TypeOK'
    PROVE  Content' \in Seq(Byte) /\ Len(Content') = RxLength'
<1>1. RxLength' \in 0..BufSz-1
  BY BufSzAssumption DEF TypeOK, RxLength, Index
<1>2. QED BY <1>1, RingSeq DEF Content, TypeOK

(* Storing a byte where put does not catch up with get appends it.         *)
LEMMA PutAppends ==
    ASSUME TypeOK, TypeOK', IsrGetc, Succ(put_index) # get_index
    PROVE  RxLength < BufSz - 1 /\ Content' = Append(Content, rdr)
<1> USE BufSzAssumption
<1>1. /\ put_index' = Succ(put_index)
      /\ get_index' = get_index
      /\ buffer' = [buffer EXCEPT ![put_index] = rdr]
      /\ rdr \in Byte
  BY DEF IsrGetc, TypeOK
<1>2. RxLength' = RxLength + 1 /\ RxLength < BufSz - 1 /\ RxLength \in Nat
  BY <1>1 DEF RxLength, Succ, TypeOK, Index
<1>3. Slot(get_index + RxLength) = put_index
  BY DEF Slot, RxLength, TypeOK, Index
<1>4. \A i \in 1..RxLength :
         /\ Slot(get_index + i - 1) \in Index
         /\ Slot(get_index + i - 1) # put_index
  BY <1>2 DEF Slot, RxLength, TypeOK, Index
<1>5. Content'[RxLength + 1] = rdr
  <2>1. Content'[RxLength + 1] = buffer'[Slot(get_index + RxLength)]
    BY <1>1, <1>2 DEF Content
  <2>2. QED BY <1>1, <1>3, <2>1 DEF TypeOK
<1>6. \A i \in 1..RxLength : Content'[i] = Content[i]
  <2> TAKE i \in 1..RxLength
  <2>1. Content'[i] = buffer'[Slot(get_index + i - 1)]
    BY <1>1, <1>2 DEF Content
  <2>2. Content[i] = buffer[Slot(get_index + i - 1)]
    BY DEF Content
  <2>3. QED BY <1>1, <1>4, <2>1, <2>2 DEF TypeOK
<1>7. /\ Append(Content, rdr) \in Seq(Byte)
      /\ Len(Append(Content, rdr)) = RxLength + 1
      /\ \A i \in 1..RxLength : Append(Content, rdr)[i] = Content[i]
      /\ Append(Content, rdr)[RxLength + 1] = rdr
  BY <1>1, <1>2, ContentSeq, AppendProperties
<1>8. \A i \in 1..RxLength + 1 : Content'[i] = Append(Content, rdr)[i]
  BY <1>2, <1>5, <1>6, <1>7
<1>9. Content' = Append(Content, rdr)
  BY <1>2, <1>7, <1>8, ContentSeqPrime, SeqEqual
<1>10. QED BY <1>2, <1>9

(* Storing a byte where put catches up with get drops the oldest one.      *)
LEMMA PutEvicts ==
    ASSUME TypeOK, TypeOK', IsrGetc, Succ(put_index) = get_index
    PROVE  /\ RxLength = BufSz - 1
           /\ Content # <<>>
           /\ Content' = Append(Tail(Content), rdr)
<1> USE BufSzAssumption
<1>1. /\ put_index' = get_index
      /\ get_index' = Succ(get_index)
      /\ buffer' = [buffer EXCEPT ![put_index] = rdr]
      /\ rdr \in Byte
  BY DEF IsrGetc, TypeOK
<1>2. RxLength = BufSz - 1 /\ RxLength' = BufSz - 1
  BY <1>1 DEF RxLength, Succ, TypeOK, Index
<1>3. /\ Content \in Seq(Byte) /\ Len(Content) = BufSz - 1
      /\ Content' \in Seq(Byte) /\ Len(Content') = BufSz - 1
  BY <1>2, ContentSeq, ContentSeqPrime
<1>4. Content # <<>>
  BY <1>3, EmptySeq
<1>5. /\ Tail(Content) \in Seq(Byte)
      /\ Len(Tail(Content)) = BufSz - 2
      /\ \A i \in 1..BufSz - 2 : Tail(Content)[i] = Content[i + 1]
  BY <1>3, <1>4, HeadTailProperties
<1>6. /\ Append(Tail(Content), rdr) \in Seq(Byte)
      /\ Len(Append(Tail(Content), rdr)) = BufSz - 1
      /\ \A i \in 1..BufSz - 2 : Append(Tail(Content), rdr)[i] = Content[i + 1]
      /\ Append(Tail(Content), rdr)[BufSz - 1] = rdr
  BY <1>1, <1>5, AppendProperties
<1>7. \A i \in 1..BufSz - 2 : Content'[i] = Content[i + 1]
  <2> TAKE i \in 1..BufSz - 2
  <2>1. Content'[i] = buffer'[Slot(Succ(get_index) + i - 1)]
    BY <1>1, <1>2 DEF Content
  <2>2. Content[i + 1] = buffer[Slot(get_index + i)]
    BY <1>2 DEF Content
  <2>3. /\ Slot(Succ(get_index) + i - 1) = Slot(get_index + i)
        /\ Slot(get_index + i) \in Index
        /\ Slot(get_index + i) # put_index
    BY DEF Slot, Succ, TypeOK, Index
  <2>4. QED BY <1>1, <2>1, <2>2, <2>3 DEF TypeOK
<1>8. Content'[BufSz - 1] = rdr
  <2>1. Content'[BufSz - 1] = buffer'[Slot(Succ(get_index) + BufSz - 2)]
    BY <1>1, <1>2 DEF Content
  <2>2. Slot(Succ(get_index) + BufSz - 2) = put_index
    BY DEF Slot, Succ, TypeOK, Index
  <2>3. QED BY <1>1, <2>1, <2>2 DEF TypeOK
<1>9. \A i \in 1..BufSz - 1 : Content'[i] = Append(Tail(Content), rdr)[i]
  BY <1>6, <1>7, <1>8
<1>10. Content' = Append(Tail(Content), rdr)
  BY <1>3, <1>6, <1>9, SeqEqual
<1>11. QED BY <1>2, <1>4, <1>10

(* A read of a non-empty FIFO takes the head of its contents.              *)
LEMMA ReadTakesHead ==
    ASSUME TypeOK, TypeOK', IInv, ReadByte, ~FifoEmpty
    PROVE  /\ Content # <<>>
           /\ ch' = Head(Content)
           /\ Content' = Tail(Content)
<1> USE BufSzAssumption
<1>1. /\ get_index' = Succ(get_index)
      /\ buffer' = buffer /\ put_index' = put_index
      /\ ch' = buffer[get_index]
  BY DEF ReadByte
<1>2. put_index # get_index
  BY RxLengthRange DEF FifoEmpty, IInv, FullMeansFull, TypeOK
<1>3. RxLength \in 1..BufSz-1 /\ RxLength' = RxLength - 1
  BY <1>1, <1>2 DEF RxLength, Succ, TypeOK, Index
<1>4. Content # <<>>
  BY <1>3, ContentSeq, EmptySeq
<1>5. /\ Tail(Content) \in Seq(Byte)
      /\ Len(Tail(Content)) = RxLength - 1
      /\ \A i \in 1..RxLength - 1 : Tail(Content)[i] = Content[i + 1]
  BY <1>4, ContentSeq, HeadTailProperties
<1>6. \A i \in 1..RxLength - 1 : Content'[i] = Tail(Content)[i]
  <2> TAKE i \in 1..RxLength - 1
  <2>1. Content'[i] = buffer[Slot(Succ(get_index) + i - 1)]
    BY <1>1, <1>3 DEF Content
  <2>2. Content[i + 1] = buffer[Slot(get_index + i)]
    BY <1>3 DEF Content
  <2>3. Slot(Succ(get_index) + i - 1) = Slot(get_index + i)
    BY <1>3 DEF Slot, Succ, TypeOK, Index
  <2>4. QED BY <1>5, <2>1, <2>2, <2>3
<1>7. Content' = Tail(Content)
  BY <1>3, <1>5, <1>6, ContentSeqPrime, SeqEqual
<1>8. ch' = Head(Content)
  <2>1. Head(Content) = Content[1]
    BY <1>4, ContentSeq
  <2>2. Content[1] = buffer[Slot(get_index)]
    BY <1>3 DEF Content, TypeOK, Index
  <2>3. Slot(get_index) = get_index
    BY DEF Slot, TypeOK, Index
  <2>4. QED BY <1>1, <2>1, <2>2, <2>3
<1>9. QED BY <1>4, <1>7, <1>8

(* Steps that leave the ring alone leave its contents alone.               *)
LEMMA ContentUnchanged == UNCHANGED fifo => UNCHANGED Content
BY DEF fifo, Content, RxLength

(* The driver implements a drop-oldest byte channel: the reader obtains    *)
(* the received bytes in order, none twice, none invented, whatever the    *)
(* interleaving of interrupts and reads, for every ring size.              *)
THEOREM ImplementsChannel == Spec => ChannelSpec
<1> USE BufSzAssumption
<1>1. Init => Channel!Init
  <2> SUFFICES ASSUME Init PROVE Channel!Init
    OBVIOUS
  <2>1. RxLength = 0
    BY DEF Init, RxLength
  <2>2. Content = <<>>
    BY <2>1 DEF Content
  <2>3. QED BY <2>2 DEF Init, Channel!Init
<1>2. TypeOK /\ TypeOK' /\ IInv /\ [Next]_vars => [Channel!Next]_(Channel!vars)
  <2> SUFFICES ASSUME TypeOK, TypeOK', IInv, [Next]_vars
               PROVE  [Channel!Next]_(Channel!vars)
    OBVIOUS
  <2>1. CASE IsrGetc
    <3>1. rdr \in Byte /\ UNCHANGED reader
      BY <2>1 DEF IsrGetc, TypeOK
    <3>2. Content' = IF Len(Content) < BufSz - 1 THEN Append(Content, rdr)
                                                ELSE Append(Tail(Content), rdr)
      <4>1. CASE Succ(put_index) # get_index
        BY <2>1, <4>1, PutAppends, ContentSeq
      <4>2. CASE Succ(put_index) = get_index
        BY <2>1, <4>2, PutEvicts, ContentSeq
      <4>3. QED BY <4>1, <4>2
    <3>3. Channel!Put(rdr)
      BY <3>1, <3>2 DEF Channel!Put, reader
    <3>4. QED BY <3>1, <3>3 DEF Channel!Next
  <2>2. CASE ReadByte
    <3>1. CASE FifoEmpty
      <4>1. UNCHANGED fifo /\ pc = "read" /\ pc' = "take" /\ UNCHANGED out
        BY <2>2, <3>1 DEF ReadByte, fifo
      <4>2. QED BY <4>1, ContentUnchanged DEF Channel!vars
    <3>2. CASE ~FifoEmpty
      <4>1. pc = "read" /\ pc' = "got" /\ out' = out
        BY <2>2, <3>2 DEF ReadByte
      <4>2. Channel!Take
        BY <2>2, <3>2, <4>1, ReadTakesHead DEF Channel!Take
      <4>3. QED BY <4>2 DEF Channel!Next
    <3>3. QED BY <3>1, <3>2
  <2>3. CASE UseByte
    BY <2>3, ContentUnchanged DEF UseByte, Channel!vars
  <2>4. CASE IsrIndicate
    <3>1. (pc = "got" <=> pc' = "got") /\ UNCHANGED <<ch, out, fifo>>
      BY <2>4 DEF IsrIndicate, SemRelease
    <3>2. QED BY <3>1, ContentUnchanged DEF Channel!vars
  <2>5. CASE SemTake
    <3>1. pc # "got" /\ pc' # "got" /\ UNCHANGED <<out, fifo>>
      BY <2>5 DEF SemTake
    <3>2. QED BY <3>1, ContentUnchanged DEF Channel!vars
  <2>6. CASE StartReader
    <3>1. pc # "got" /\ pc' # "got" /\ UNCHANGED <<out, fifo>>
      BY <2>6 DEF StartReader
    <3>2. QED BY <3>1, ContentUnchanged DEF Channel!vars
  <2>7. CASE ChipSend \/ SetRxIndicate \/ UNCHANGED vars
    <3>1. UNCHANGED <<reader, fifo>>
      BY <2>7 DEF ChipSend, SetRxIndicate, vars
    <3>2. QED BY <3>1, ContentUnchanged DEF Channel!vars, reader
  <2>8. QED
    BY <2>1, <2>2, <2>3, <2>4, <2>5, <2>6, <2>7 DEF Next, Isr, Boot, Reader
<1>3. QED
  BY <1>1, <1>2, TypeCorrect, Invariance, PTL DEF Spec, ChannelSpec, Channel!Spec

-----------------------------------------------------------------------------
(* The receive path.  Its queue is the one of RtIpc_proofs with one sender *)
(* and one receiver (the mailbox and the event there are of no use).       *)
Ipc == INSTANCE RtIpc_proofs WITH
    Senders   <- {RxThread},
    Receivers <- {ParserThread},
    Messages  <- {p \in Seq(Byte) : Len(p) \in 1..MsgSize},
    NoByte    <- 0,
    Flag      <- "FIFO",
    Prio      <- [t \in {RxThread, ParserThread} |-> IF t = RxThread THEN 3 ELSE 9],
    t1 <- RxThread, t2 <- ParserThread, t3 <- ParserThread,
    Mails <- {}, NoMail <- NULL, Flags <- {}, kind <- "queue",
    mb_pool <- NULL, mb_entry <- NULL, mb_in <- NULL, mb_out <- NULL,
    mb_receivers <- NULL, mb_senders <- NULL, mb_call <- NULL, mb_got <- NULL,
    ev_set <- NULL, ev_waiters <- NULL, ev_call <- NULL, ev_got <- NULL

Payloads == {p \in Seq(Byte) : Len(p) \in 1..MsgSize}

(* The byte being assembled lies inside rx_frame_pkg; a frame that is      *)
(* about to be sent is as long as its length says.                         *)
FramerOK ==
    /\ index <= PkgSz
    /\ at = "send" => done /\ index >= 3 /\ len = index - 2

(* The receive thread is in the queue's code while it is "sending", and    *)
(* never waits there; the parsing thread waits for ever or not at all.     *)
RxCalls ==
    mq_pc[RxThread] \in IF at = "sending" THEN {"send_copy", "send_link"} ELSE {"idle"}

ParserCalls ==
    /\ mq_pc[ParserThread] \in
          IF parser = "wait" THEN {"recv_wait", "recv_woken", "recv_copy", "recv_free"}
                             ELSE {"idle"}
    /\ mq_pc[ParserThread] \in {"recv_wait", "recv_woken"} =>
          mq_wait[ParserThread] = "forever"

(* The payloads accepted are, in order: those dispatched on, the one the   *)
(* parsing thread has in hand (g is 1 if it has), those queued and the one *)
(* being linked (s is 1 if there is one, sent).  Each of them begins the   *)
(* word that carries it.                                                   *)
Delivers(acc, han, g, given, q, s, sent) ==
    /\ acc \in Seq(Payloads) /\ han \in Seq(Mq!Words) /\ q \in Seq(Mq!Words)
    /\ Len(acc) = Len(han) + g + Len(q) + s
    /\ \A i \in 1..Len(han) : IsPrefix(acc[i], han[i])
    /\ g = 1 => IsPrefix(acc[Len(han) + 1], given)
    /\ \A i \in 1..Len(q) : IsPrefix(acc[Len(han) + g + i], q[i])
    /\ s = 1 => acc[Len(acc)] = sent

Queued  == Ipc!QueuedWords
Given   == Ipc!FifoGot[ParserThread]
InHand  == mq_pc[ParserThread] \in {"recv_copy", "recv_free"} \/ parser = "dispatch"
Linking == at = "sending"
Count(b) == IF b THEN 1 ELSE 0

DeliveryOK ==
    Delivers(accepted, handled, Count(InHand), Given, Queued, Count(Linking), mq_sent[RxThread])

AlphaInv ==
    /\ AlphaTypeOK /\ IInv
    /\ Ipc!MqInv
    /\ FramerOK /\ RxCalls /\ ParserCalls
    /\ DeliveryOK

-----------------------------------------------------------------------------
(* The queue of RtIpc_proofs is the queue of AlphaRx.                      *)
LEMMA Assumed ==
    /\ Ipc!IsFiniteSet(Ipc!Threads)
    /\ MaxMsgs \in Nat \ {0}
    /\ MsgSize \in Nat \ {0}
    /\ NULL \notin Ipc!Slots
    /\ \A m \in {p \in Seq(Byte) : Len(p) \in 1..MsgSize} : m \in Seq(Ipc!Bytes) /\ Len(m) > 0
<1>1. Ipc!IsFiniteSet(Ipc!Threads)
  <2>1. PICK s : s = <<RxThread, ParserThread>>
    OBVIOUS
  <2>2. s \in Seq({RxThread, ParserThread}) /\ Len(s) = 2 /\ s[1] = RxThread /\ s[2] = ParserThread
    BY <2>1
  <2>3. \A t \in {RxThread, ParserThread} : \E n \in 1..Len(s) : s[n] = t
    BY <2>2
  <2>4. QED BY <2>2, <2>3 DEF Ipc!Threads, Ipc!IsFiniteSet
<1>2. NULL \notin Ipc!Slots
  BY AlphaAssumption DEF Ipc!Slots
<1>3. ASSUME NEW m \in {p \in Seq(Byte) : Len(p) \in 1..MsgSize}
      PROVE  m \in Seq(Ipc!Bytes) /\ Len(m) > 0
  <2>1. m \in Seq(Byte) /\ Len(m) \in 1..MsgSize
    OBVIOUS
  <2>2. \A i \in 1..Len(m) : m[i] \in Ipc!Bytes
    BY <2>1, LenProperties DEF Ipc!Bytes
  <2>3. m = [i \in 1..Len(m) |-> m[i]]
    BY <2>1, LenProperties
  <2>4. m \in Seq(Ipc!Bytes)
    BY <2>1, <2>2, <2>3, SeqDef
  <2>5. QED BY <2>1, <2>4, AlphaAssumption
<1>4. QED BY <1>1, <1>2, <1>3, AlphaAssumption

LEMMA Threads ==
    /\ Ipc!Threads = {RxThread, ParserThread} /\ Mq!Threads = {RxThread, ParserThread}
    /\ RxThread # ParserThread /\ Mq!Words = Ipc!Words
    /\ RxThread \in Ipc!Threads /\ ParserThread \in Ipc!Threads
BY DEF Ipc!Threads, Mq!Threads, RxThread, ParserThread, Mq!Words, Ipc!Words, Mq!Bytes, Ipc!Bytes

LEMMA SameList == \A l, t : Mq!Enlist(l, t) = Ipc!Enlist(l, t)
BY DEF Mq!Enlist, Ipc!Enlist, Mq!Place, Ipc!Place

LEMMA SameTrySend ==
    \A t, m, w : Mq!TrySend(t, m, w) <=> Ipc!TrySend(t, m, w)
BY SameList DEF Mq!TrySend, Ipc!TrySend, Mq!Fail, Ipc!Fail, Mq!pool, Ipc!pool

LEMMA SameTryRecv ==
    \A t, w : Mq!TryRecv(t, w) <=> Ipc!TryRecv(t, w)
BY SameList DEF Mq!TryRecv, Ipc!TryRecv, Mq!Fail, Ipc!Fail, Mq!pool, Ipc!pool,
                Mq!TailAfterUnlink, Ipc!TailAfterUnlink

LEMMA SameCopy ==
    \A t : /\ Mq!SendCopy(t) <=> Ipc!SendCopy(t)
           /\ Mq!RecvCopy(t) <=> Ipc!RecvCopy(t)
BY DEF Mq!SendCopy, Ipc!SendCopy, Mq!Overlay, Ipc!Overlay, Mq!RecvCopy, Ipc!RecvCopy,
       Mq!pool, Ipc!pool, Mq!object, Ipc!object, Mq!lists, Ipc!lists, Mq!calls, Ipc!calls

LEMMA SameLink ==
    \A t : /\ Mq!SendLink(t) <=> Ipc!SendLink(t)
           /\ Mq!RecvFree(t) <=> Ipc!RecvFree(t)
BY DEF Mq!SendLink, Ipc!SendLink, Mq!Linked, Ipc!Linked, Mq!Rest, Ipc!Rest,
       Mq!GotoAndResume, Ipc!GotoAndResume, Mq!RecvFree, Ipc!RecvFree

(* A step of the queue keeps the queue's invariant.                        *)
LEMMA MqStep ==
    ASSUME Ipc!MqInv, Ipc!Next \/ UNCHANGED mqvars
    PROVE  Ipc!MqInv'
<1>1. CASE Ipc!Next
  <2>1. Ipc!IpcNext
    BY <1>1 DEF Ipc!IpcNext, Ipc!mbVars, Ipc!evVars
  <2>2. QED BY <2>1, Ipc!MqNextInv, Assumed
<1>2. CASE UNCHANGED mqvars
  <2>1. UNCHANGED Ipc!ipcVars
    BY <1>2 DEF Ipc!ipcVars, Ipc!vars, Ipc!mbVars, Ipc!evVars, mqvars, Ipc!pool, Ipc!object,
                Ipc!lists, Ipc!calls
  <2>2. QED BY <2>1, Ipc!MqNextInv, Assumed
<1>3. QED BY <1>1, <1>2

(* What is queued and given, in the words of the refinement.               *)
LEMMA FifoVars ==
    UNCHANGED Ipc!Fifo!vars => UNCHANGED <<Queued, Given>>
BY DEF Ipc!Fifo!vars, Queued, Given, Ipc!FifoGot

LEMMA Typed ==
    ASSUME Ipc!MqInv
    PROVE  /\ mq_pc \in [{RxThread, ParserThread} -> Ipc!PC]
           /\ mq_msg \in [{RxThread, ParserThread} -> Ipc!Slots \cup {NULL}]
           /\ mq_sent \in [{RxThread, ParserThread} -> Payloads \cup {<<>>}]
           /\ mq_wait \in [{RxThread, ParserThread} -> Ipc!Waits]
           /\ mq_got \in [{ParserThread} -> Ipc!Words]
           /\ Queued \in Seq(Ipc!Words) /\ Len(Queued) \in Nat /\ Given \in Ipc!Words
BY Ipc!QueueTyped, Threads, Assumed, LenProperties DEF Ipc!MqInv, Ipc!MqCalls, Queued, Given, Payloads

(* A payload is a message: at "send" it lies inside rx_frame_pkg.          *)
LEMMA PayloadFacts ==
    ASSUME AlphaTypeOK, FramerOK, at = "send"
    PROVE  /\ Payload \in Seq(Byte) /\ Len(Payload) = len /\ len \in 1..PkgSz-2
           /\ \A i \in 1..len : Payload[i] = pkg[i + 1]
<1>1. len \in 1..PkgSz-2 /\ PkgSz \in 2..255
  BY AlphaAssumption DEF AlphaTypeOK, FramerOK
<1>2. \A i \in 1..len : pkg[i + 1] \in Byte
  BY <1>1 DEF AlphaTypeOK
<1>3. Payload \in [1..len -> Byte] /\ len \in Nat
  BY <1>1, <1>2 DEF Payload
<1>4. QED BY <1>1, <1>3, FunctionIsSeq DEF Payload

(* rt_mq_send reserves a slot, or finds none.                              *)
LEMMA ReserveStep ==
    ASSUME AlphaTypeOK, FramerOK, Ipc!MqInv, at = "send",
           Mq!SendWait(RxThread, Payload, "none")
    PROVE  /\ Ipc!MqInv' /\ UNCHANGED <<Queued, Given>>
           /\ Payload \in Payloads
           /\ mq_pc'[ParserThread] = mq_pc[ParserThread]
           /\ mq_wait'[ParserThread] = mq_wait[ParserThread]
           /\ mq_got' = mq_got
           /\ \/ /\ mq_pc'[RxThread] = "send_copy"
                 /\ mq_sent'[RxThread] = Payload
              \/ /\ mq_pc'[RxThread] = "idle"
                 /\ mq_free = NULL
<1>1. Payload \in Payloads
  BY PayloadFacts DEF Payloads, Mq!SendWait
<1>2. /\ mq_pc[RxThread] = "idle" /\ Len(Payload) <= MsgSize
      /\ Ipc!TrySend(RxThread, Payload, "none")
  BY SameTrySend DEF Mq!SendWait
<1>3. Ipc!Next
  <2>1. Ipc!SendWait(RxThread, Payload, "none") /\ "none" \in Ipc!Waits
    BY <1>2 DEF Ipc!SendWait, Ipc!Waits
  <2>2. Ipc!Begin(RxThread)
    BY <1>1, <2>1 DEF Ipc!Begin, Payloads
  <2>3. QED BY <2>2, Threads DEF Ipc!Next
<1>4. Ipc!MqInv'
  BY <1>3, MqStep
<1>5. UNCHANGED <<Queued, Given>>
  <2>1. UNCHANGED Ipc!Fifo!vars
    BY <1>2, Ipc!TrySendStep, Threads, Assumed
  <2>2. QED BY <2>1, FifoVars
<1>6. mq_got' = mq_got
  BY <1>2 DEF Ipc!TrySend
<1>7. /\ mq_pc \in [{RxThread, ParserThread} -> Ipc!PC]
      /\ mq_sent \in [{RxThread, ParserThread} -> Payloads \cup {<<>>}]
      /\ mq_wait \in [{RxThread, ParserThread} -> Ipc!Waits]
  BY Typed
<1>8. CASE mq_free # NULL
  <2>1. /\ mq_pc' = [mq_pc EXCEPT ![RxThread] = "send_copy"]
        /\ mq_sent' = [mq_sent EXCEPT ![RxThread] = Payload]
        /\ mq_wait' = [mq_wait EXCEPT ![RxThread] = "none"]
    BY <1>2, <1>8 DEF Ipc!TrySend
  <2>2. QED BY <1>1, <1>4, <1>5, <1>6, <1>7, <2>1, Threads
<1>9. CASE mq_free = NULL
  <2>1. /\ mq_pc' = [mq_pc EXCEPT ![RxThread] = "idle"]
        /\ mq_wait' = [mq_wait EXCEPT ![RxThread] = "none"]
    BY <1>2, <1>9 DEF Ipc!TrySend, Ipc!Fail
  <2>2. QED BY <1>1, <1>4, <1>5, <1>6, <1>7, <1>9, <2>1, Threads
<1>10. QED BY <1>8, <1>9

(* The copy into the slot.                                                 *)
LEMMA CopyStep ==
    ASSUME Ipc!MqInv, RxCalls, Mq!SendCopy(RxThread)
    PROVE  /\ Ipc!MqInv' /\ UNCHANGED <<Queued, Given>>
           /\ mq_pc[RxThread] = "send_copy" /\ mq_pc'[RxThread] = "send_link"
           /\ mq_pc'[ParserThread] = mq_pc[ParserThread]
           /\ UNCHANGED <<mq_wait, mq_sent, mq_got>>
<1>1. Ipc!SendCopy(RxThread)
  BY SameCopy
<1>2. Ipc!MqInv'
  <2>1. Ipc!Next
    BY <1>1, Threads DEF Ipc!Next, Ipc!Continue
  <2>2. QED BY <2>1, MqStep
<1>3. UNCHANGED <<Queued, Given>>
  <2>1. UNCHANGED Ipc!Fifo!vars
    BY <1>1, Ipc!SendCopyStep, Threads, Assumed
  <2>2. QED BY <2>1, FifoVars
<1>4. /\ mq_pc[RxThread] = "send_copy"
      /\ mq_pc' = [mq_pc EXCEPT ![RxThread] = "send_link"]
      /\ UNCHANGED <<mq_wait, mq_sent, mq_got>>
  BY DEF RxCalls, Mq!SendCopy, Mq!calls
<1>5. QED BY <1>2, <1>3, <1>4, Typed, Threads

(* A parsing thread that sleeps may be resumed; nothing else happens to it. *)
Resumed(woken) ==
    \/ mq_pc'[ParserThread] = mq_pc[ParserThread]
    \/ mq_pc[ParserThread] = "recv_wait" /\ mq_pc'[ParserThread] = woken

(* The message is linked: a word that begins with what was sent joins the  *)
(* queue.                                                                  *)
LEMMA LinkStep ==
    ASSUME Ipc!MqInv, Mq!SendLink(RxThread)
    PROVE  /\ Ipc!MqInv' /\ Given' = Given
           /\ \E w \in Ipc!Words : /\ IsPrefix(mq_sent[RxThread], w)
                                   /\ Queued' = Append(Queued, w)
           /\ mq_pc'[RxThread] = "idle" /\ Resumed("recv_woken")
           /\ UNCHANGED <<mq_wait, mq_got>>
<1>1. Ipc!SendLink(RxThread)
  BY SameLink
<1>2. Ipc!MqInv'
  <2>1. Ipc!Next
    BY <1>1, Threads DEF Ipc!Next, Ipc!Continue
  <2>2. QED BY <2>1, MqStep
<1>3. /\ Given' = Given
      /\ \E w \in Ipc!Words : /\ IsPrefix(mq_sent[RxThread], w)
                              /\ Queued' = Append(Queued, w)
  <2>1. PICK w \in Ipc!Words :
           /\ Ipc!IsPrefix(mq_sent[RxThread], w)
           /\ Ipc!QueuedWords' = Append(Ipc!QueuedWords, w)
           /\ Ipc!FifoGot' = Ipc!FifoGot
    BY <1>1, Ipc!LinkedWord, Threads, Assumed
  <2>2. IsPrefix(mq_sent[RxThread], w)
    BY <2>1 DEF IsPrefix, Ipc!IsPrefix
  <2>3. QED BY <2>1, <2>2 DEF Queued, Given
<1>4. /\ mq_pc[RxThread] = "send_link"
      /\ mq_pc' = IF mq_receivers = <<>> THEN [mq_pc EXCEPT ![RxThread] = "idle"]
                  ELSE [mq_pc EXCEPT ![RxThread] = "idle", ![Head(mq_receivers)] = "recv_woken"]
      /\ UNCHANGED <<mq_wait, mq_got>>
  BY DEF Mq!SendLink, Mq!Linked, Mq!GotoAndResume
<1>5. mq_receivers # <<>> => Head(mq_receivers) = ParserThread /\ mq_pc[ParserThread] = "recv_wait"
  <2>1. /\ mq_receivers \in Seq({RxThread, ParserThread})
        /\ \A t \in {RxThread, ParserThread} :
              t \in Ipc!Elements(mq_receivers) <=> mq_pc[t] = "recv_wait"
    BY Threads DEF Ipc!MqInv, Ipc!MqLists
  <2>2. mq_receivers # <<>> => /\ Head(mq_receivers) \in {RxThread, ParserThread}
                               /\ Head(mq_receivers) = mq_receivers[1] /\ Len(mq_receivers) \in Nat
                               /\ Len(mq_receivers) # 0
    BY <2>1, HeadTailProperties, EmptySeq, LenProperties
  <2>3. mq_receivers # <<>> => Head(mq_receivers) \in Ipc!Elements(mq_receivers)
    BY <2>2 DEF Ipc!Elements
  <2>4. QED BY <1>4, <2>1, <2>2, <2>3
<1>6. QED BY <1>2, <1>3, <1>4, <1>5, Typed, Threads DEF Resumed

(* rt_mq_recv unlinks the first message, or waits for ever.                *)
TakesOrWaits ==
    \/ /\ Queued # <<>> /\ Queued' = Tail(Queued) /\ Given' = Head(Queued)
       /\ mq_pc'[ParserThread] = "recv_copy"
    \/ /\ UNCHANGED <<Queued, Given>>
       /\ mq_pc'[ParserThread] = "recv_wait" /\ mq_wait'[ParserThread] = "forever"

LEMMA TakeStep ==
    ASSUME Ipc!MqInv, mq_pc[ParserThread] \in {"idle", "recv_woken"},
           mq_pc[ParserThread] = "recv_woken" => mq_wait[ParserThread] = "forever",
           Mq!TryRecv(ParserThread, "forever")
    PROVE  /\ Ipc!MqInv' /\ TakesOrWaits
           /\ mq_pc'[RxThread] = mq_pc[RxThread]
           /\ UNCHANGED <<mq_sent, mq_got>>
<1>1. Ipc!TryRecv(ParserThread, "forever")
  BY SameTryRecv
<1>2. Ipc!MqInv'
  <2>1. CASE mq_pc[ParserThread] = "idle"
    <3>1. Ipc!Recv(ParserThread, "forever") /\ "forever" \in Ipc!Waits
      BY <1>1, <2>1 DEF Ipc!Recv, Ipc!Waits
    <3>2. Ipc!Next
      BY <3>1, Threads DEF Ipc!Next, Ipc!Begin
    <3>3. QED BY <3>2, MqStep
  <2>2. CASE mq_pc[ParserThread] = "recv_woken"
    <3>1. Ipc!RecvRetry(ParserThread)
      BY <1>1, <2>2 DEF Ipc!RecvRetry, Ipc!Remaining
    <3>2. Ipc!Next
      BY <3>1, Threads DEF Ipc!Next, Ipc!Continue
    <3>3. QED BY <3>2, MqStep
  <2>3. QED BY <2>1, <2>2
<1>3. UNCHANGED <<mq_sent, mq_got>>
  BY DEF Mq!TryRecv, Mq!Fail
<1>4. CASE mq_entry > 0
  <2>1. /\ Ipc!QueuedWords # <<>> /\ Ipc!QueuedWords' = Tail(Ipc!QueuedWords)
        /\ Ipc!FifoGot' = [Ipc!FifoGot EXCEPT ![ParserThread] = Head(Ipc!QueuedWords)]
    BY <1>1, <1>4, Ipc!UnlinkedWord, Threads, Assumed
  <2>2. Ipc!FifoGot \in [{ParserThread} -> Ipc!Words]
    BY Ipc!QueueTyped, Assumed
  <2>3. Queued # <<>> /\ Queued' = Tail(Queued) /\ Given' = Head(Queued)
    BY <2>1, <2>2 DEF Queued, Given
  <2>4. mq_pc' = [mq_pc EXCEPT ![ParserThread] = "recv_copy"]
    BY <1>4, Typed, Ipc!QueueTyped, Assumed DEF Mq!TryRecv
  <2>5. QED BY <1>2, <1>3, <2>3, <2>4, Typed, Threads DEF TakesOrWaits
<1>5. CASE ~(mq_entry > 0)
  <2>1. /\ mq_pc' = [mq_pc EXCEPT ![ParserThread] = "recv_wait"]
        /\ mq_wait' = [mq_wait EXCEPT ![ParserThread] = "forever"]
        /\ mq_msg' = mq_msg
        /\ UNCHANGED <<mq_next, mq_data, mq_head, mq_entry, mq_got>>
    BY <1>5 DEF Mq!TryRecv, Mq!pool
  <2>2. UNCHANGED Ipc!Fifo!vars
    <3>1. "recv_wait" \in Ipc!PC \ {"recv_copy"} /\ mq_pc[ParserThread] # "recv_copy"
      BY DEF Ipc!PC
    <3>2. QED BY <2>1, <3>1, Ipc!OutsideStep, Threads, Assumed
  <2>3. UNCHANGED <<Queued, Given>>
    BY <2>2, FifoVars
  <2>4. QED BY <1>2, <1>3, <2>1, <2>3, Typed, Threads DEF TakesOrWaits
<1>6. QED BY <1>4, <1>5

(* The copy out of the slot, and the slot's return.                        *)
LEMMA ReadStep ==
    ASSUME Ipc!MqInv, Mq!RecvCopy(ParserThread)
    PROVE  /\ Ipc!MqInv' /\ UNCHANGED <<Queued, Given>>
           /\ mq_pc[ParserThread] = "recv_copy" /\ mq_pc'[ParserThread] = "recv_free"
           /\ mq_pc'[RxThread] = mq_pc[RxThread] /\ mq_sent' = mq_sent
<1>1. Ipc!RecvCopy(ParserThread)
  BY SameCopy
<1>2. Ipc!MqInv'
  <2>1. Ipc!Next
    BY <1>1, Threads DEF Ipc!Next, Ipc!Continue
  <2>2. QED BY <2>1, MqStep
<1>3. UNCHANGED <<Queued, Given>>
  <2>1. UNCHANGED Ipc!Fifo!vars
    BY <1>1, Ipc!RecvCopyStep, Threads, Assumed
  <2>2. QED BY <2>1, FifoVars
<1>4. /\ mq_pc[ParserThread] = "recv_copy"
      /\ mq_pc' = [mq_pc EXCEPT ![ParserThread] = "recv_free"]
      /\ mq_sent' = mq_sent
  BY DEF Mq!RecvCopy
<1>5. QED BY <1>2, <1>3, <1>4, Typed, Threads

LEMMA FreeStep ==
    ASSUME Ipc!MqInv, RxCalls, Mq!RecvFree(ParserThread)
    PROVE  /\ Ipc!MqInv' /\ UNCHANGED <<Queued, Given>>
           /\ mq_pc[ParserThread] = "recv_free" /\ mq_pc'[ParserThread] = "idle"
           /\ mq_pc'[RxThread] = mq_pc[RxThread] /\ mq_sent' = mq_sent
<1>1. Ipc!RecvFree(ParserThread)
  BY SameLink
<1>2. Ipc!MqInv'
  <2>1. Ipc!Next
    BY <1>1, Threads DEF Ipc!Next, Ipc!Continue
  <2>2. QED BY <2>1, MqStep
<1>3. UNCHANGED <<Queued, Given>>
  <2>1. UNCHANGED Ipc!Fifo!vars
    BY <1>1, Ipc!FreeStep, Threads, Assumed
  <2>2. QED BY <2>1, FifoVars
<1>4. mq_pc[ParserThread] = "recv_free" /\ mq_sent' = mq_sent
  BY DEF Mq!RecvFree
<1>5. mq_senders = <<>>
  <2>1. /\ mq_senders \in Seq({RxThread, ParserThread})
        /\ \A t \in {RxThread, ParserThread} :
              t \in Ipc!Elements(mq_senders) <=> mq_pc[t] = "send_wait"
    BY Threads DEF Ipc!MqInv, Ipc!MqLists
  <2>2. mq_senders # <<>> => /\ Head(mq_senders) \in {RxThread, ParserThread}
                             /\ Head(mq_senders) = mq_senders[1] /\ Len(mq_senders) \in Nat
                             /\ Len(mq_senders) # 0
    BY <2>1, HeadTailProperties, EmptySeq, LenProperties
  <2>3. mq_senders # <<>> => Head(mq_senders) \in Ipc!Elements(mq_senders)
    BY <2>2 DEF Ipc!Elements
  <2>4. QED BY <1>4, <2>1, <2>2, <2>3 DEF RxCalls
<1>6. mq_pc' = [mq_pc EXCEPT ![ParserThread] = "idle"]
  BY <1>5 DEF Mq!RecvFree, Mq!GotoAndResume
<1>7. QED BY <1>2, <1>3, <1>4, <1>6, Typed, Threads

-----------------------------------------------------------------------------
(* The invariant, initially.                                               *)
LEMMA AlphaInitInv == AlphaInit => AlphaInv
<1> SUFFICES ASSUME AlphaInit PROVE AlphaInv
  OBVIOUS
<1>1. TypeOK /\ IInv
  BY InitTyped, IInvInit DEF AlphaInit
<1>2. AlphaTypeOK
  <2>1. pkg \in [0..PkgSz-1 -> Byte]
    BY DEF AlphaInit, Byte
  <2>2. QED BY <1>1, <2>1 DEF AlphaInit, AlphaTypeOK, Max16
<1>3. Mq!Init
  BY DEF AlphaInit
<1>4. Ipc!Init
  BY <1>3 DEF Mq!Init, Ipc!Init, Mq!Slots, Ipc!Slots, Mq!Threads, Ipc!Threads
<1>5. Ipc!MqInv
  BY <1>4, Ipc!MqInitInv, Assumed
<1>6. FramerOK
  BY AlphaAssumption DEF AlphaInit, FramerOK
<1>7. \A t \in {RxThread, ParserThread} : mq_pc[t] = "idle"
  BY <1>4, Threads DEF Ipc!Init
<1>8. RxCalls /\ ParserCalls
  BY <1>7 DEF AlphaInit, RxCalls, ParserCalls
<1>9. DeliveryOK
  <2>1. /\ accepted = <<>> /\ handled = <<>> /\ at = "rx" /\ parser = "off"
        /\ <<>> \in Seq(Payloads) /\ <<>> \in Seq(Mq!Words) /\ Len(<<>>) = 0
    BY EmptySeq DEF AlphaInit
  <2>2. Queued = <<>>
    <3>1. mq_entry = 0
      BY <1>4 DEF Ipc!Init
    <3>2. QED BY <1>5, <3>1, Ipc!QueueTyped, Assumed, EmptySeq DEF Queued
  <2>3. Count(InHand) = 0 /\ Count(Linking) = 0
    BY <1>7, <2>1 DEF InHand, Linking, Count
  <2>4. QED BY <2>1, <2>2, <2>3 DEF DeliveryOK, Delivers
<1>10. QED BY <1>1, <1>2, <1>5, <1>6, <1>8, <1>9 DEF AlphaInv

(* Every step is one of the serial device's, or none of its.               *)
LEMMA SerialStep ==
    ASSUME AlphaTypeOK, IInv, [AlphaNext]_alphaVars
    PROVE  [Next]_vars /\ TypeOK' /\ IInv'
<1>1. [Next]_vars
  BY DEF AlphaNext, AlphaSend, Interrupt, Receiver, Parser, Fetch, StoreByte, SendFrame,
         FinishSend, StartParser, ParserRecv, ParserContinue, Dispatch, alphaVars,
         Next, Isr, Boot, Reader
<1>2. TypeOK'
  BY <1>1, NextTyped DEF AlphaTypeOK
<1>3. QED BY <1>1, <1>2, IInvStep DEF AlphaTypeOK

LEMMA Max16Is == Max16 \in Nat /\ Max16 > 255 + 256 * 255
BY DEF Max16

(* The framer's byte: it stays inside rx_frame_pkg, or the model ends.     *)
LEMMA StoreTyped ==
    ASSUME AlphaTypeOK, FramerOK, StoreByte
    PROVE  /\ at' \in {"rx", "send", "undefined"}
           /\ done' \in BOOLEAN /\ index' \in 0..255 /\ len' \in 0..Max16-1
           /\ pkg' \in [0..PkgSz-1 -> Byte]
           /\ FramerOK'
<1>1. /\ at \in {"rx", "send", "sending", "undefined"} /\ done \in BOOLEAN
      /\ index \in 0..255 /\ len \in 0..Max16-1 /\ pkg \in [0..PkgSz-1 -> Byte]
      /\ ch \in Byte /\ PkgSz \in 2..255 /\ index <= PkgSz
  BY AlphaAssumption DEF AlphaTypeOK, TypeOK, FramerOK
<1>2. CASE Start >= PkgSz
  <2>1. ~(Start < PkgSz)
    BY <1>1, <1>2 DEF Start
  <2>2. at' = "undefined" /\ UNCHANGED <<done, index, len, pkg>>
    BY <2>1 DEF StoreByte
  <2>3. QED BY <1>1, <2>2 DEF FramerOK
<1>3. CASE ~(Start >= PkgSz)
  <2>1. /\ len' = LenAt(Start) /\ index' = (Start + 1) % 256
        /\ pkg' = [pkg EXCEPT ![Start] = ch]
        /\ done' = Complete(len', index') /\ at' = IF done' THEN "send" ELSE "rx"
    BY <1>3 DEF StoreByte
  <2>2. Start \in 0..PkgSz-1
    BY <1>1, <1>3 DEF Start
  <2>3. index' = Start + 1 /\ index' \in 0..255 /\ index' <= PkgSz
    BY <1>1, <2>1, <2>2
  <2>4. len' \in 0..Max16-1
    <3>1. CASE Start = 2
      <4>1. pkg[0] \in 0..255 /\ pkg[1] \in 0..255
        BY <1>1 DEF Byte
      <4>2. len' = pkg[0] + 256 * pkg[1]
        BY <2>1, <3>1 DEF LenAt
      <4>3. PICK x \in 0..255, y \in 0..255 : len' = x + 256 * y
        BY <4>1, <4>2
      <4>4. len' \in Nat /\ len' <= 255 + 256 * 255
        BY <4>3
      <4>5. QED BY <4>4, Max16Is
    <3>2. CASE Start # 2
      <4>1. len' \in {0, len}
        BY <2>1, <3>2 DEF LenAt
      <4>2. QED BY <1>1, <4>1, Max16Is
    <3>3. QED BY <3>1, <3>2
  <2>5. pkg' \in [0..PkgSz-1 -> Byte]
    BY <1>1, <2>1, <2>2
  <2>6. at' = "send" => done' /\ index' >= 3 /\ len' = index' - 2
    <3>1. at' = "send" => done' /\ len' # 0 /\ index' >= 2 /\ len' = index' - 2
      BY <2>1 DEF Complete
    <3>2. QED BY <2>3, <3>1
  <2>7. done' \in BOOLEAN /\ at' \in {"rx", "send", "undefined"}
    BY <2>1 DEF Complete
  <2>8. QED BY <2>3, <2>4, <2>5, <2>6, <2>7 DEF FramerOK
<1>4. QED BY <1>2, <1>3

LEMMA AlphaTyped ==
    ASSUME AlphaTypeOK, FramerOK, TypeOK', [AlphaNext]_alphaVars
    PROVE  AlphaTypeOK' /\ FramerOK'
<1>1. CASE StoreByte
  <2>1. UNCHANGED <<parser, rejected>>
    BY <1>1 DEF StoreByte, trace
  <2>2. QED BY <1>1, <2>1, StoreTyped DEF AlphaTypeOK
<1>2. CASE SendFrame
  <2>1. /\ at' \in {"rx", "sending"} /\ rejected' \in {rejected, rejected + 1}
        /\ UNCHANGED <<done, index, len, pkg, parser>>
    BY <1>2 DEF SendFrame
  <2>2. QED BY <2>1 DEF AlphaTypeOK, FramerOK
<1>3. CASE FinishSend
  <2>1. /\ at' \in {"rx", "sending"} /\ UNCHANGED <<done, index, len, pkg, parser, rejected>>
    BY <1>3 DEF FinishSend, trace
  <2>2. QED BY <2>1 DEF AlphaTypeOK, FramerOK
<1>4. CASE ~StoreByte /\ ~SendFrame /\ ~FinishSend
  <2>1. parser' \in {"off", "recv", "wait", "dispatch"} /\ UNCHANGED <<framer, rejected>>
    BY <1>4 DEF AlphaNext, AlphaSend, Interrupt, Receiver, Parser, Fetch, StartParser, ParserRecv,
                ParserContinue, Dispatch, alphaVars, trace, AlphaTypeOK
  <2>2. QED BY <2>1 DEF AlphaTypeOK, FramerOK, framer
<1>5. QED BY <1>1, <1>2, <1>3, <1>4

-----------------------------------------------------------------------------
(* The queue, the calls and the payloads under way, action by action.      *)
DeliveryInv == Ipc!MqInv /\ RxCalls /\ ParserCalls /\ DeliveryOK

(* How the payloads under way move on.                                     *)
LEMMA Joins ==
    ASSUME NEW acc, NEW han, NEW g \in 0..1, NEW given, NEW q, NEW x, NEW p \in Payloads,
           Delivers(acc, han, g, given, q, 0, x)
    PROVE  Delivers(Append(acc, p), han, g, given, q, 1, p)
<1>1. /\ acc \in Seq(Payloads) /\ Len(acc) = Len(han) + g + Len(q)
      /\ han \in Seq(Mq!Words) /\ q \in Seq(Mq!Words)
      /\ Len(han) \in Nat /\ Len(q) \in Nat /\ Len(acc) \in Nat
  BY LenProperties DEF Delivers
<1>2. PICK a : a = Append(acc, p)
  OBVIOUS
<1>3. /\ a \in Seq(Payloads) /\ Len(a) = Len(acc) + 1 /\ a[Len(a)] = p
      /\ \A i \in 1..Len(acc) : a[i] = acc[i]
  BY <1>1, <1>2, AppendProperties
<1>4. ASSUME NEW i \in 1..Len(han) PROVE IsPrefix(a[i], han[i])
  <2>1. i \in 1..Len(acc)
    BY <1>1
  <2>2. a[i] = acc[i] /\ IsPrefix(acc[i], han[i])
    BY <1>3, <2>1 DEF Delivers
  <2>3. QED BY <2>2
<1>5. ASSUME g = 1 PROVE IsPrefix(a[Len(han) + 1], given)
  <2>1. Len(han) + 1 \in 1..Len(acc)
    BY <1>1, <1>5
  <2>2. a[Len(han) + 1] = acc[Len(han) + 1] /\ IsPrefix(acc[Len(han) + 1], given)
    BY <1>3, <1>5, <2>1 DEF Delivers
  <2>3. QED BY <2>2
<1>6. ASSUME NEW i \in 1..Len(q) PROVE IsPrefix(a[Len(han) + g + i], q[i])
  <2>1. Len(han) + g + i \in 1..Len(acc)
    BY <1>1
  <2>2. a[Len(han) + g + i] = acc[Len(han) + g + i] /\ IsPrefix(acc[Len(han) + g + i], q[i])
    BY <1>3, <2>1 DEF Delivers
  <2>3. QED BY <2>2
<1>7. Len(a) = Len(han) + g + Len(q) + 1
  BY <1>1, <1>3
<1>8. Delivers(a, han, g, given, q, 1, p)
  BY <1>1, <1>3, <1>4, <1>5, <1>6, <1>7 DEF Delivers
<1>9. QED BY <1>2, <1>8

LEMMA IsLinked ==
    ASSUME NEW acc, NEW han, NEW g \in 0..1, NEW given, NEW q, NEW x, NEW p, NEW w \in Mq!Words,
           Delivers(acc, han, g, given, q, 1, p), IsPrefix(p, w)
    PROVE  Delivers(acc, han, g, given, Append(q, w), 0, x)
<1>1. /\ acc \in Seq(Payloads) /\ Len(acc) = Len(han) + g + Len(q) + 1
      /\ han \in Seq(Mq!Words) /\ q \in Seq(Mq!Words) /\ acc[Len(acc)] = p
      /\ Len(han) \in Nat /\ Len(q) \in Nat /\ Len(acc) \in Nat
  BY LenProperties DEF Delivers
<1>2. PICK r : r = Append(q, w)
  OBVIOUS
<1>3. /\ r \in Seq(Mq!Words) /\ Len(r) = Len(q) + 1 /\ r[Len(q) + 1] = w
      /\ \A i \in 1..Len(q) : r[i] = q[i]
  BY <1>1, <1>2, AppendProperties
<1>4. ASSUME NEW i \in 1..Len(r) PROVE IsPrefix(acc[Len(han) + g + i], r[i])
  <2>1. CASE i = Len(q) + 1
    <3>1. Len(han) + g + i = Len(acc)
      BY <1>1, <2>1
    <3>2. QED BY <1>1, <1>3, <2>1, <3>1
  <2>2. CASE i # Len(q) + 1
    <3>1. i \in 1..Len(q)
      BY <1>1, <1>3, <2>2
    <3>2. QED BY <1>3, <3>1 DEF Delivers
  <2>3. QED BY <2>1, <2>2
<1>5. Len(acc) = Len(han) + g + Len(r) + 0
  BY <1>1, <1>3
<1>6. Delivers(acc, han, g, given, r, 0, x)
  BY <1>1, <1>3, <1>4, <1>5 DEF Delivers
<1>7. QED BY <1>2, <1>6

LEMMA IsTaken ==
    ASSUME NEW acc, NEW han, NEW given, NEW q, NEW s \in 0..1, NEW p,
           Delivers(acc, han, 0, given, q, s, p), q # <<>>
    PROVE  Delivers(acc, han, 1, Head(q), Tail(q), s, p)
<1>1. /\ acc \in Seq(Payloads) /\ Len(acc) = Len(han) + Len(q) + s
      /\ han \in Seq(Mq!Words) /\ q \in Seq(Mq!Words)
      /\ Len(han) \in Nat /\ Len(q) \in Nat /\ Len(acc) \in Nat /\ Len(q) # 0
  BY LenProperties, EmptySeq DEF Delivers
<1>2. PICK r, h : r = Tail(q) /\ h = Head(q)
  OBVIOUS
<1>3. /\ r \in Seq(Mq!Words) /\ Len(r) = Len(q) - 1 /\ h = q[1]
      /\ \A i \in 1..Len(r) : r[i] = q[i + 1]
  BY <1>1, <1>2, HeadTailProperties
<1>4. IsPrefix(acc[Len(han) + 1], h)
  <2>1. 1 \in 1..Len(q) /\ Len(han) + 0 + 1 = Len(han) + 1
    BY <1>1
  <2>2. QED BY <1>3, <2>1 DEF Delivers
<1>5. ASSUME NEW i \in 1..Len(r) PROVE IsPrefix(acc[Len(han) + 1 + i], r[i])
  <2>1. i + 1 \in 1..Len(q) /\ Len(han) + 0 + (i + 1) = Len(han) + 1 + i
    BY <1>1, <1>3
  <2>2. r[i] = q[i + 1] /\ IsPrefix(acc[Len(han) + 0 + (i + 1)], q[i + 1])
    BY <1>3, <2>1 DEF Delivers
  <2>3. QED BY <2>1, <2>2
<1>6. Len(acc) = Len(han) + 1 + Len(r) + s
  BY <1>1, <1>3
<1>7. Delivers(acc, han, 1, h, r, s, p)
  BY <1>1, <1>3, <1>4, <1>5, <1>6 DEF Delivers
<1>8. QED BY <1>2, <1>7

LEMMA IsDispatched ==
    ASSUME NEW acc, NEW han, NEW given \in Mq!Words, NEW q, NEW s \in 0..1, NEW p, NEW x,
           Delivers(acc, han, 1, given, q, s, p)
    PROVE  Delivers(acc, Append(han, given), 0, x, q, s, p)
<1>1. /\ acc \in Seq(Payloads) /\ Len(acc) = Len(han) + 1 + Len(q) + s
      /\ han \in Seq(Mq!Words) /\ q \in Seq(Mq!Words)
      /\ Len(han) \in Nat /\ Len(q) \in Nat /\ Len(acc) \in Nat
  BY LenProperties DEF Delivers
<1>2. PICK h : h = Append(han, given)
  OBVIOUS
<1>3. /\ h \in Seq(Mq!Words) /\ Len(h) = Len(han) + 1 /\ h[Len(han) + 1] = given
      /\ \A i \in 1..Len(han) : h[i] = han[i]
  BY <1>1, <1>2, AppendProperties
<1>4. ASSUME NEW i \in 1..Len(h) PROVE IsPrefix(acc[i], h[i])
  <2>1. CASE i = Len(han) + 1
    BY <1>3, <2>1 DEF Delivers
  <2>2. CASE i # Len(han) + 1
    <3>1. i \in 1..Len(han)
      BY <1>1, <1>3, <2>2
    <3>2. QED BY <1>3, <3>1 DEF Delivers
  <2>3. QED BY <2>1, <2>2
<1>5. ASSUME NEW i \in 1..Len(q) PROVE IsPrefix(acc[Len(h) + 0 + i], q[i])
  <2>1. Len(h) + 0 + i = Len(han) + 1 + i
    BY <1>1, <1>3
  <2>2. QED BY <2>1 DEF Delivers
<1>6. Len(acc) = Len(h) + 0 + Len(q) + s
  BY <1>1, <1>3
<1>7. Delivers(acc, h, 0, x, q, s, p)
  BY <1>1, <1>3, <1>4, <1>5, <1>6 DEF Delivers
<1>8. QED BY <1>2, <1>7

(* A queue no one touches keeps its words.                                 *)
LEMMA StandStill ==
    ASSUME Ipc!MqInv, UNCHANGED mqvars
    PROVE  Ipc!MqInv' /\ UNCHANGED <<Queued, Given>>
<1>1. Ipc!MqInv'
  BY MqStep
<1>2. UNCHANGED Ipc!FifoGot
  BY DEF Ipc!FifoGot, mqvars
<1>3. UNCHANGED Ipc!QueuedWords
  BY DEF Ipc!QueuedWords, Ipc!Chain, mqvars
<1>4. QED BY <1>1, <1>2, <1>3 DEF Queued, Given

(* The calls after a step that moves neither thread's call.                *)
LEMMA DeliveryAside ==
    ASSUME DeliveryInv, UNCHANGED <<mqvars, trace>>,
           (at = "sending") = (at' = "sending"),
           (parser = "wait") = (parser' = "wait"), (parser = "dispatch") = (parser' = "dispatch")
    PROVE  DeliveryInv'
<1>1. Ipc!MqInv' /\ UNCHANGED <<Queued, Given>>
  BY StandStill DEF DeliveryInv
<1>2. RxCalls' /\ ParserCalls'
  BY DEF DeliveryInv, RxCalls, ParserCalls, mqvars
<1>3. UNCHANGED <<Count(InHand), Count(Linking), mq_sent, accepted, handled>>
  BY DEF InHand, Linking, Count, mqvars, trace
<1>4. DeliveryOK'
  BY <1>1, <1>3 DEF DeliveryInv, DeliveryOK, Delivers, Mq!Words, Mq!Bytes
<1>5. QED BY <1>1, <1>2, <1>4 DEF DeliveryInv

(* A refused frame leaves no trace in the queue; an accepted one is the    *)
(* one being linked.                                                       *)
LEMMA DeliverySend ==
    ASSUME AlphaTypeOK, FramerOK, DeliveryInv, SendFrame
    PROVE  DeliveryInv'
<1>1. /\ at = "send" /\ UNCHANGED <<parser, handled>>
      /\ mq_pc[RxThread] = "idle" /\ Count(Linking) = 0
  BY DEF SendFrame, DeliveryInv, RxCalls, Linking, Count
<1>2. CASE len > MsgSize
  <2>1. ~(len <= MsgSize)
    BY <1>2, AlphaAssumption DEF AlphaTypeOK
  <2>2. UNCHANGED <<mqvars, accepted>> /\ at' = "rx"
    BY <2>1 DEF SendFrame
  <2>3. Ipc!MqInv' /\ UNCHANGED <<Queued, Given>>
    BY <2>2, StandStill DEF DeliveryInv
  <2>4. RxCalls' /\ ParserCalls'
    BY <1>1, <2>2 DEF DeliveryInv, RxCalls, ParserCalls, mqvars
  <2>5. UNCHANGED <<Count(InHand), Count(Linking), mq_sent>>
    BY <1>1, <2>2 DEF InHand, Linking, Count, mqvars
  <2>6. DeliveryOK'
    BY <1>1, <2>2, <2>3, <2>5 DEF DeliveryInv, DeliveryOK, Delivers, Mq!Words, Mq!Bytes
  <2>7. QED BY <2>3, <2>4, <2>6 DEF DeliveryInv
<1>3. CASE ~(len > MsgSize)
  <2>1. /\ Mq!SendWait(RxThread, Payload, "none")
        /\ IF mq_pc'[RxThread] = "idle" THEN at' = "rx" /\ UNCHANGED accepted
           ELSE at' = "sending" /\ accepted' = Append(accepted, Payload)
    BY <1>3 DEF SendFrame
  <2>2. /\ Ipc!MqInv' /\ UNCHANGED <<Queued, Given>>
        /\ Payload \in Payloads
        /\ mq_pc'[ParserThread] = mq_pc[ParserThread]
        /\ mq_wait'[ParserThread] = mq_wait[ParserThread]
        /\ \/ mq_pc'[RxThread] = "send_copy" /\ mq_sent'[RxThread] = Payload
           \/ mq_pc'[RxThread] = "idle"
    BY <1>1, <2>1, ReserveStep DEF DeliveryInv
  <2>3. Count(InHand)' = Count(InHand) /\ Count(InHand) \in 0..1
    BY <1>1, <2>2 DEF InHand, Count
  <2>4. RxCalls' /\ ParserCalls'
    BY <1>1, <2>1, <2>2 DEF DeliveryInv, RxCalls, ParserCalls
  <2>5. Delivers(accepted, handled, Count(InHand), Given, Queued, 0, mq_sent[RxThread])
    BY <1>1 DEF DeliveryInv, DeliveryOK
  <2>6. DeliveryOK'
    <3>1. CASE mq_pc'[RxThread] = "idle"
      <4>1. Count(Linking)' = 0 /\ UNCHANGED <<accepted, handled>>
        BY <1>1, <2>1, <3>1 DEF Linking, Count
      <4>2. QED BY <2>2, <2>3, <2>5, <4>1 DEF DeliveryOK, Delivers, Mq!Words, Mq!Bytes
    <3>2. CASE mq_pc'[RxThread] # "idle"
      <4>1. /\ Count(Linking)' = 1 /\ accepted' = Append(accepted, Payload)
            /\ handled' = handled /\ mq_sent'[RxThread] = Payload
        BY <1>1, <2>1, <2>2, <3>2 DEF Linking, Count
      <4>2. Delivers(Append(accepted, Payload), handled, Count(InHand), Given, Queued, 1, Payload)
        BY <2>2, <2>3, <2>5, Joins
      <4>3. QED BY <2>2, <2>3, <4>1, <4>2 DEF DeliveryOK, Delivers, Mq!Words, Mq!Bytes
    <3>3. QED BY <3>1, <3>2
  <2>7. QED BY <2>2, <2>4, <2>6 DEF DeliveryInv
<1>4. QED BY <1>2, <1>3

(* The rest of rt_mq_send.                                                 *)
LEMMA DeliveryFinish ==
    ASSUME DeliveryInv, FinishSend
    PROVE  DeliveryInv'
<1>1. /\ at = "sending" /\ UNCHANGED <<parser, accepted, handled>>
      /\ mq_pc[RxThread] \in {"send_copy", "send_link"} /\ Count(Linking) = 1
      /\ at' = IF mq_pc'[RxThread] = "idle" THEN "rx" ELSE "sending"
  BY DEF FinishSend, DeliveryInv, RxCalls, Linking, Count, trace
<1>2. Mq!SendCopy(RxThread) \/ Mq!SendLink(RxThread)
  BY <1>1 DEF FinishSend, Mq!Continue, Mq!SendRetry, Mq!UrgentLink, Mq!RecvRetry, Mq!RecvCopy,
              Mq!RecvFree
<1>3. Delivers(accepted, handled, Count(InHand), Given, Queued, 1, mq_sent[RxThread])
  BY <1>1 DEF DeliveryInv, DeliveryOK
<1>4. CASE Mq!SendCopy(RxThread)
  <2>1. /\ Ipc!MqInv' /\ UNCHANGED <<Queued, Given>>
        /\ mq_pc'[RxThread] = "send_link"
        /\ mq_pc'[ParserThread] = mq_pc[ParserThread]
        /\ UNCHANGED <<mq_wait, mq_sent, mq_got>>
    BY <1>4, CopyStep DEF DeliveryInv
  <2>2. RxCalls' /\ ParserCalls'
    BY <1>1, <2>1 DEF DeliveryInv, RxCalls, ParserCalls
  <2>3. Count(InHand)' = Count(InHand) /\ Count(Linking)' = 1
    BY <1>1, <2>1 DEF InHand, Linking, Count
  <2>4. DeliveryOK'
    BY <1>1, <1>3, <2>1, <2>3 DEF DeliveryOK, Delivers, Mq!Words, Mq!Bytes
  <2>5. QED BY <2>1, <2>2, <2>4 DEF DeliveryInv
<1>5. CASE Mq!SendLink(RxThread)
  <2>1. /\ Ipc!MqInv' /\ Given' = Given
        /\ mq_pc'[RxThread] = "idle" /\ Resumed("recv_woken")
        /\ UNCHANGED <<mq_wait, mq_got>>
    BY <1>5, LinkStep DEF DeliveryInv
  <2>2. PICK w \in Mq!Words : IsPrefix(mq_sent[RxThread], w) /\ Queued' = Append(Queued, w)
    BY <1>5, LinkStep, Threads DEF DeliveryInv
  <2>3. RxCalls' /\ ParserCalls'
    BY <1>1, <2>1 DEF DeliveryInv, RxCalls, ParserCalls, Resumed
  <2>4. /\ Count(InHand)' = Count(InHand) /\ Count(InHand) \in 0..1 /\ Count(Linking)' = 0
    BY <1>1, <2>1 DEF InHand, Linking, Count, Resumed
  <2>5. PICK x : x = mq_sent'[RxThread]
    OBVIOUS
  <2>6. Delivers(accepted, handled, Count(InHand), Given, Append(Queued, w), 0, x)
    BY <1>3, <2>2, <2>4, IsLinked
  <2>7. DeliveryOK'
    BY <1>1, <2>1, <2>2, <2>4, <2>5, <2>6 DEF DeliveryOK, Delivers, Mq!Words, Mq!Bytes
  <2>8. QED BY <2>1, <2>3, <2>7 DEF DeliveryInv
<1>6. QED BY <1>2, <1>4, <1>5

(* A first or a repeated attempt to receive.                               *)
LEMMA DeliveryTake ==
    ASSUME DeliveryInv, mq_pc[ParserThread] \in {"idle", "recv_woken"}, parser # "dispatch",
           Mq!TryRecv(ParserThread, "forever"), parser' = "wait",
           UNCHANGED <<at, trace>>
    PROVE  DeliveryInv'
<1>1. /\ Ipc!MqInv' /\ TakesOrWaits
      /\ mq_pc'[RxThread] = mq_pc[RxThread]
      /\ UNCHANGED <<mq_sent, mq_got>>
  BY TakeStep DEF DeliveryInv, ParserCalls
<1>2. /\ Count(Linking)' = Count(Linking) /\ Count(Linking) \in 0..1
      /\ Count(InHand) = 0 /\ UNCHANGED <<accepted, handled>>
  BY DEF InHand, Linking, Count, trace
<1>3. RxCalls'
  BY <1>1 DEF DeliveryInv, RxCalls
<1>4. Delivers(accepted, handled, 0, Given, Queued, Count(Linking), mq_sent[RxThread])
  BY <1>2 DEF DeliveryInv, DeliveryOK
<1>5. CASE /\ Queued # <<>> /\ Queued' = Tail(Queued) /\ Given' = Head(Queued)
           /\ mq_pc'[ParserThread] = "recv_copy"
  <2>1. ParserCalls' /\ Count(InHand)' = 1
    BY <1>5 DEF ParserCalls, InHand, Count
  <2>2. Delivers(accepted, handled, 1, Head(Queued), Tail(Queued), Count(Linking), mq_sent[RxThread])
    BY <1>2, <1>4, <1>5, IsTaken
  <2>3. DeliveryOK'
    BY <1>1, <1>2, <1>5, <2>1, <2>2 DEF DeliveryOK, Delivers, Mq!Words, Mq!Bytes
  <2>4. QED BY <1>1, <1>3, <2>1, <2>3 DEF DeliveryInv
<1>6. CASE /\ UNCHANGED <<Queued, Given>>
           /\ mq_pc'[ParserThread] = "recv_wait" /\ mq_wait'[ParserThread] = "forever"
  <2>1. ParserCalls' /\ Count(InHand)' = 0
    BY <1>6 DEF ParserCalls, InHand, Count
  <2>2. DeliveryOK'
    BY <1>1, <1>2, <1>4, <1>6, <2>1 DEF DeliveryOK, Delivers, Mq!Words, Mq!Bytes
  <2>3. QED BY <1>1, <1>3, <2>1, <2>2 DEF DeliveryInv
<1>7. QED BY <1>1, <1>5, <1>6 DEF TakesOrWaits

LEMMA DeliveryRecv ==
    ASSUME DeliveryInv, ParserRecv \/ ParserContinue
    PROVE  DeliveryInv'
<1>1. UNCHANGED <<at, trace>>
  BY DEF ParserRecv, ParserContinue, framer
<1>2. CASE ParserRecv
  <2>1. /\ mq_pc[ParserThread] = "idle" /\ parser = "recv" /\ parser' = "wait"
        /\ Mq!TryRecv(ParserThread, "forever")
    BY <1>2 DEF ParserRecv, Mq!Recv
  <2>2. QED BY <1>1, <2>1, DeliveryTake
<1>3. CASE ParserContinue
  <2>1. /\ parser = "wait" /\ mq_pc[ParserThread] \in {"recv_wait", "recv_woken", "recv_copy", "recv_free"}
        /\ parser' = IF mq_pc'[ParserThread] = "idle" THEN "dispatch" ELSE "wait"
    BY <1>3 DEF ParserContinue, DeliveryInv, ParserCalls
  <2>2. \/ Mq!RecvRetry(ParserThread) \/ Mq!RecvCopy(ParserThread) \/ Mq!RecvFree(ParserThread)
    BY <1>3, <2>1 DEF ParserContinue, Mq!Continue, Mq!SendRetry, Mq!SendCopy, Mq!SendLink, Mq!UrgentLink
  <2>3. CASE Mq!RecvRetry(ParserThread)
    <3>1. mq_pc[ParserThread] = "recv_woken" /\ mq_wait[ParserThread] = "forever"
      BY <2>3 DEF Mq!RecvRetry, DeliveryInv, ParserCalls
    <3>2. Mq!TryRecv(ParserThread, "forever")
      BY <2>3, <3>1 DEF Mq!RecvRetry, Mq!Remaining
    <3>3. mq_pc'[ParserThread] \in {"recv_copy", "recv_wait"}
      BY <3>1, <3>2, TakeStep DEF TakesOrWaits, DeliveryInv
    <3>4. QED BY <1>1, <2>1, <3>1, <3>2, <3>3, DeliveryTake
  <2>4. CASE Mq!RecvCopy(ParserThread)
    <3>1. /\ Ipc!MqInv' /\ UNCHANGED <<Queued, Given>>
          /\ mq_pc[ParserThread] = "recv_copy" /\ mq_pc'[ParserThread] = "recv_free"
          /\ mq_pc'[RxThread] = mq_pc[RxThread] /\ mq_sent' = mq_sent
      BY <2>4, ReadStep DEF DeliveryInv
    <3>2. RxCalls' /\ ParserCalls'
      BY <1>1, <2>1, <3>1 DEF DeliveryInv, RxCalls, ParserCalls
    <3>3. UNCHANGED <<Count(InHand), Count(Linking), accepted, handled>>
      BY <1>1, <2>1, <3>1 DEF InHand, Linking, Count, trace
    <3>4. DeliveryOK'
      BY <3>1, <3>3 DEF DeliveryInv, DeliveryOK, Delivers, Mq!Words, Mq!Bytes
    <3>5. QED BY <3>1, <3>2, <3>4 DEF DeliveryInv
  <2>5. CASE Mq!RecvFree(ParserThread)
    <3>1. /\ Ipc!MqInv' /\ UNCHANGED <<Queued, Given>>
          /\ mq_pc[ParserThread] = "recv_free" /\ mq_pc'[ParserThread] = "idle"
          /\ mq_pc'[RxThread] = mq_pc[RxThread] /\ mq_sent' = mq_sent
      BY <2>5, FreeStep DEF DeliveryInv
    <3>2. RxCalls' /\ ParserCalls'
      BY <1>1, <2>1, <3>1 DEF DeliveryInv, RxCalls, ParserCalls
    <3>3. UNCHANGED <<Count(InHand), Count(Linking), accepted, handled>>
      BY <1>1, <2>1, <3>1 DEF InHand, Linking, Count, trace
    <3>4. DeliveryOK'
      BY <3>1, <3>3 DEF DeliveryInv, DeliveryOK, Delivers, Mq!Words, Mq!Bytes
    <3>5. QED BY <3>1, <3>2, <3>4 DEF DeliveryInv
  <2>6. QED BY <2>2, <2>3, <2>4, <2>5
<1>4. QED BY <1>2, <1>3

(* The frame in hand is dispatched on.                                     *)
LEMMA DeliveryDispatch ==
    ASSUME DeliveryInv, Dispatch
    PROVE  DeliveryInv'
<1>1. /\ parser = "dispatch" /\ parser' = "recv" /\ UNCHANGED <<mqvars, at, accepted>>
      /\ handled' = Append(handled, mq_got[ParserThread])
  BY DEF Dispatch, framer
<1>2. mq_pc[ParserThread] = "idle"
  BY <1>1 DEF DeliveryInv, ParserCalls
<1>3. Given = mq_got[ParserThread] /\ Given \in Mq!Words
  <2>1. Ipc!FifoGot[ParserThread] = mq_got[ParserThread]
    BY <1>2 DEF Ipc!FifoGot
  <2>2. QED BY <2>1, Typed, Threads DEF Given, DeliveryInv
<1>4. Ipc!MqInv' /\ UNCHANGED <<Queued, Given>>
  BY <1>1, StandStill DEF DeliveryInv
<1>5. RxCalls' /\ ParserCalls'
  BY <1>1, <1>2 DEF DeliveryInv, RxCalls, ParserCalls, mqvars
<1>6. /\ Count(InHand) = 1 /\ Count(InHand)' = 0 /\ Count(Linking) \in 0..1
      /\ UNCHANGED <<Count(Linking), mq_sent>>
  BY <1>1, <1>2 DEF InHand, Linking, Count, mqvars
<1>7. Delivers(accepted, handled, 1, Given, Queued, Count(Linking), mq_sent[RxThread])
  BY <1>6 DEF DeliveryInv, DeliveryOK
<1>8. Delivers(accepted, Append(handled, Given), 0, Given, Queued, Count(Linking), mq_sent[RxThread])
  BY <1>3, <1>6, <1>7, IsDispatched
<1>9. DeliveryOK'
  BY <1>1, <1>3, <1>4, <1>6, <1>8 DEF DeliveryOK, Delivers, Mq!Words, Mq!Bytes
<1>10. QED BY <1>4, <1>5, <1>9 DEF DeliveryInv

(* The inductive invariant of the receive path.                            *)
LEMMA AlphaInvStep ==
    ASSUME AlphaInv, [AlphaNext]_alphaVars
    PROVE  AlphaInv'
<1>1. [Next]_vars /\ TypeOK' /\ IInv'
  BY SerialStep DEF AlphaInv
<1>2. AlphaTypeOK' /\ FramerOK'
  BY <1>1, AlphaTyped DEF AlphaInv
<1>3. DeliveryInv
  BY DEF AlphaInv, DeliveryInv
<1>4. CASE AlphaSend \/ Interrupt \/ Fetch \/ UNCHANGED alphaVars
  <2>1. UNCHANGED <<mqvars, trace, at, parser>>
    BY <1>4 DEF AlphaSend, Interrupt, Fetch, alphaVars, framer
  <2>2. QED BY <1>1, <1>2, <1>3, <2>1, DeliveryAside DEF AlphaInv, DeliveryInv
<1>5. CASE StoreByte \/ StartParser
  <2>1. /\ UNCHANGED <<mqvars, trace>> /\ at' \in {at, "rx", "send", "undefined"}
        /\ at = at' \/ at = "rx"
        /\ parser' = parser \/ (parser = "off" /\ parser' = "recv")
    BY <1>5 DEF StoreByte, StartParser, framer
  <2>2. /\ (at = "sending") = (at' = "sending")
        /\ (parser = "wait") = (parser' = "wait")
        /\ (parser = "dispatch") = (parser' = "dispatch")
    BY <2>1
  <2>3. QED BY <1>1, <1>2, <1>3, <2>1, <2>2, DeliveryAside DEF AlphaInv, DeliveryInv
<1>6. CASE SendFrame
  BY <1>1, <1>2, <1>3, <1>6, DeliverySend DEF AlphaInv, DeliveryInv
<1>7. CASE FinishSend
  BY <1>1, <1>2, <1>3, <1>7, DeliveryFinish DEF AlphaInv, DeliveryInv
<1>8. CASE ParserRecv \/ ParserContinue
  BY <1>1, <1>2, <1>3, <1>8, DeliveryRecv DEF AlphaInv, DeliveryInv
<1>9. CASE Dispatch
  BY <1>1, <1>2, <1>3, <1>9, DeliveryDispatch DEF AlphaInv, DeliveryInv
<1>10. QED
  BY <1>4, <1>5, <1>6, <1>7, <1>8, <1>9 DEF AlphaNext, Receiver, Parser

THEOREM AlphaInvariant == AlphaSpec => []AlphaInv
BY AlphaInitInv, AlphaInvStep, PTL DEF AlphaSpec

(* Whatever is lost on the wire, the parsing thread dispatches on exactly  *)
(* the frames the queue accepted, in the order they were sent, for every   *)
(* queue, every frame buffer, every set of scripts and every interleaving. *)
THEOREM AcceptedHandledInOrder == AlphaSpec => []HandledInOrder
<1>1. ASSUME AlphaInv PROVE HandledInOrder
  <2>1. PICK g, s, p : /\ g \in 0..1 /\ s \in 0..1
                       /\ Delivers(accepted, handled, g, Given, Queued, s, p)
    BY <1>1 DEF AlphaInv, DeliveryOK, Count
  <2>2. Len(handled) \in Nat /\ Len(Queued) \in Nat
    BY <2>1, LenProperties DEF Delivers
  <2>3. Len(handled) <= Len(accepted)
    BY <2>1, <2>2 DEF Delivers
  <2>4. \A i \in 1..Len(handled) : IsPrefix(accepted[i], handled[i])
    BY <2>1 DEF Delivers
  <2>5. QED BY <1>1, <2>3, <2>4 DEF AlphaInv, HandledInOrder
<1>2. QED BY <1>1, AlphaInvariant, PTL

-----------------------------------------------------------------------------
(* The first k of n sequences, one after the other.                        *)
Joined(n, f) == LET w[k \in 0..n] == IF k = 0 THEN <<>> ELSE w[k-1] \o f[k] IN w

LEMMA Iterated ==
    ASSUME NEW A, NEW a \in A, NEW n \in Nat, NEW g \in [1..n -> [A -> A]], NEW i \in 1..n
    PROVE  Iterate(A, n, a, g)[i] = g[i][Iterate(A, n, a, g)[i-1]]
BY Iteration

LEMMA JoinedFacts ==
    ASSUME NEW S, NEW n \in Nat, NEW f \in [1..n -> Seq(S)]
    PROVE  /\ Joined(n, f) \in [0..n -> Seq(S)]
           /\ Joined(n, f)[0] = <<>>
           /\ \A k \in 1..n : Joined(n, f)[k] = Joined(n, f)[k-1] \o f[k]
<1> DEFINE A == Seq(S)
           g == [i \in 1..n |-> [x \in A |-> x \o f[i]]]
           z == <<>>
           h == Iterate(A, n, z, g)
<1>1. z \in A /\ z = <<>> /\ g \in [1..n -> [A -> A]]
  <2>1. ASSUME NEW i \in 1..n, NEW x \in A PROVE x \o f[i] \in A
    <3>1. f[i] \in Seq(S)
      OBVIOUS
    <3>2. QED BY <3>1, ConcatProperties
  <2>2. QED BY <2>1, EmptySeq
<1>2. \A i \in 1..n : \A x \in A : g[i][x] = x \o f[i]
  OBVIOUS
<1> HIDE DEF A, g, z
<1>3. h \in [0..n -> A] /\ h[0] = z
  BY <1>1, Iteration
<1>4. ASSUME NEW i \in 1..n PROVE h[i] = h[i-1] \o f[i]
  <2>1. h[i] = g[i][h[i-1]]
    BY <1>1, Iterated
  <2>2. h[i-1] \in A
    BY <1>3
  <2>3. QED BY <1>2, <2>1, <2>2
<1> HIDE DEF h
<1>5. h = [k \in 0..n |-> IF k = 0 THEN <<>> ELSE h[k-1] \o f[k]]
  <2>1. h = [k \in 0..n |-> h[k]]
    BY <1>3
  <2>2. ASSUME NEW k \in 0..n PROVE h[k] = IF k = 0 THEN <<>> ELSE h[k-1] \o f[k]
    <3>1. k # 0 => k \in 1..n
      OBVIOUS
    <3>2. QED BY <1>1, <1>3, <1>4, <3>1
  <2>3. QED BY <2>1, <2>2, Zenon
<1> DEFINE w == CHOOSE u : u = [k \in 0..n |-> IF k = 0 THEN <<>> ELSE u[k-1] \o f[k]]
<1>6. w = [k \in 0..n |-> IF k = 0 THEN <<>> ELSE w[k-1] \o f[k]]
  BY <1>5
<1>7. Joined(n, f) = w
  BY DEF Joined
<1> HIDE DEF w
<1>8. w[0] = <<>> /\ \A k \in 1..n : w[k] = w[k-1] \o f[k]
  <2>1. \A k \in 0..n : w[k] = IF k = 0 THEN <<>> ELSE w[k-1] \o f[k]
    BY <1>6, Zenon
  <2>2. 0 \in 0..n /\ \A k \in 1..n : k \in 0..n /\ k # 0
    OBVIOUS
  <2>3. QED BY <2>1, <2>2, Zenon
<1> DEFINE T == {k \in 0..n : w[k] = h[k]}
<1>9. 0 \in T
  BY <1>1, <1>3, <1>8
<1>10. ASSUME NEW k \in 0..n-1, k \in T PROVE k + 1 \in T
  <2>1. k + 1 \in 1..n /\ k + 1 \in 0..n /\ (k + 1) - 1 = k
    OBVIOUS
  <2>2. w[k + 1] = w[k] \o f[k + 1] /\ h[k + 1] = h[k] \o f[k + 1]
    BY <1>4, <1>8, <2>1
  <2>3. QED BY <1>10, <2>1, <2>2
<1>11. \A k \in 0..n : k \in T
  <2> HIDE DEF T
  <2>1. QED BY <1>9, <1>10, IntervalInduction
<1>12. w = h
  BY <1>3, <1>6, <1>11
<1>13. QED BY <1>1, <1>3, <1>7, <1>8, <1>12 DEF A

(* The whole of it is what FlattenSeq builds.                              *)
LEMMA FlattenIsJoined ==
    ASSUME NEW S, NEW n \in Nat, NEW f \in [1..n -> Seq(S)]
    PROVE  FlattenSeq(f) = Joined(n, f)[n]
<1> DEFINE w == Joined(n, f)
<1>1. Len(f) = n /\ f \in Seq(Seq(S))
  BY FunctionIsSeq
<1>2. w \in [0..n -> Seq(S)] /\ w[0] = <<>> /\ \A k \in 1..n : w[k] = w[k-1] \o f[k]
  BY JoinedFacts
<1> HIDE DEF w
<1>3. CASE n = 0
  <2>1. f = <<>> /\ FlattenSeq(f) = f
    BY <1>1, <1>3, EmptySeq DEF FlattenSeq
  <2>2. QED BY <1>2, <1>3, <2>1 DEF w
<1>4. CASE n # 0
  <2> DEFINE e == CHOOSE u : u = [i \in 1..n |-> IF i = 1 THEN f[i] ELSE u[i-1] \o f[i]]
             d == [i \in 1..n |-> w[i]]
  <2>1. FlattenSeq(f) = e[n]
    BY <1>1, <1>4 DEF FlattenSeq
  <2>2. ASSUME NEW i \in 1..n PROVE d[i] = IF i = 1 THEN f[i] ELSE d[i-1] \o f[i]
    <3>1. CASE i = 1
      <4>1. i - 1 = 0 /\ f[i] \in Seq(S)
        BY <3>1
      <4>2. w[i] = w[i-1] \o f[i] /\ w[i-1] = <<>>
        BY <1>2, <4>1, Zenon
      <4>3. w[i] = f[i]
        BY <4>1, <4>2, ConcatEmptySeq
      <4>4. QED BY <3>1, <4>3
    <3>2. CASE i # 1
      <4>1. i - 1 \in 1..n
        BY <3>2
      <4>2. d[i] = d[i-1] \o f[i]
        BY <1>2, <4>1
      <4> HIDE DEF d
      <4>3. QED BY <3>2, <4>2
    <3>3. QED BY <3>1, <3>2
  <2>3. d = [i \in 1..n |-> IF i = 1 THEN f[i] ELSE d[i-1] \o f[i]]
    <3>1. d = [i \in 1..n |-> d[i]]
      OBVIOUS
    <3> HIDE DEF d
    <3>2. QED BY <2>2, <3>1
  <2>4. \A i \in 1..n : d[i] = w[i]
    OBVIOUS
  <2> HIDE DEF d
  <2>5. e = [i \in 1..n |-> IF i = 1 THEN f[i] ELSE e[i-1] \o f[i]]
    BY <2>3
  <2> HIDE DEF e
  <2> DEFINE T == {k \in 0..n : k = 0 \/ e[k] = w[k]}
  <2>6. 0 \in T
    OBVIOUS
  <2>7. ASSUME NEW k \in 0..n-1, k \in T PROVE k + 1 \in T
    <3>1. k + 1 \in 1..n /\ k + 1 \in 0..n /\ (k + 1) - 1 = k
      OBVIOUS
    <3>2. e[k + 1] = IF k + 1 = 1 THEN f[k + 1] ELSE e[k] \o f[k + 1]
      BY <2>5, <3>1
    <3>3. d[k + 1] = IF k + 1 = 1 THEN f[k + 1] ELSE d[k] \o f[k + 1]
      BY <2>2, <3>1
    <3>4. d[k + 1] = w[k + 1] /\ (k # 0 => d[k] = w[k] /\ e[k] = w[k])
      <4>1. k # 0 => k \in 1..n
        OBVIOUS
      <4>2. QED BY <2>4, <2>7, <3>1, <4>1
    <3>5. e[k + 1] = w[k + 1]
      <4>1. CASE k = 0
        BY <3>2, <3>3, <3>4, <4>1
      <4>2. CASE k # 0
        BY <3>2, <3>3, <3>4, <4>2
      <4>3. QED BY <4>1, <4>2
    <3>6. QED BY <3>1, <3>5
  <2>8. \A k \in 0..n : k \in T
    <3> HIDE DEF T
    <3>1. QED BY <2>6, <2>7, IntervalInduction
  <2>9. n \in 0..n /\ n \in T
    BY <2>8
  <2>10. QED BY <1>4, <2>1, <2>9 DEF w
<1>5. QED BY <1>3, <1>4

(* Each of the n sequences is found in the whole, behind those before it.  *)
PartsOf(n, f, w) ==
    \A k \in 1..n : \A j \in 1..Len(f[k]) :
       /\ Len(w[k-1]) + j \in 1..Len(w[n])
       /\ w[n][Len(w[k-1]) + j] = f[k][j]

LEMMA JoinedParts ==
    ASSUME NEW S, NEW n \in Nat, NEW f \in [1..n -> Seq(S)]
    PROVE  PartsOf(n, f, Joined(n, f))
<1> SUFFICES ASSUME NEW k \in 1..n, NEW j \in 1..Len(f[k])
             PROVE  /\ Len(Joined(n, f)[k-1]) + j \in 1..Len(Joined(n, f)[n])
                    /\ Joined(n, f)[n][Len(Joined(n, f)[k-1]) + j] = f[k][j]
  BY DEF PartsOf
<1> DEFINE w == Joined(n, f)
<1>1. w \in [0..n -> Seq(S)] /\ \A i \in 1..n : w[i] = w[i-1] \o f[i]
  BY JoinedFacts
<1> HIDE DEF w
<1>2. PICK p : p = Len(w[k-1]) + j
  OBVIOUS
<1>3. /\ f[k] \in Seq(S) /\ w[k-1] \in Seq(S) /\ Len(w[k-1]) \in Nat /\ Len(f[k]) \in Nat
  <2>1. k - 1 \in 0..n
    OBVIOUS
  <2>2. QED BY <1>1, <2>1, LenProperties
<1>4. p \in 1..Len(w[k]) /\ w[k][p] = f[k][j]
  <2>1. /\ w[k] = w[k-1] \o f[k]
        /\ Len(w[k]) = Len(w[k-1]) + Len(f[k])
    BY <1>1, <1>3, ConcatProperties
  <2>2. p \in 1..Len(w[k-1]) + Len(f[k]) /\ ~(p <= Len(w[k-1])) /\ p - Len(w[k-1]) = j
    BY <1>2, <1>3
  <2>3. w[k][p] = f[k][p - Len(w[k-1])]
    BY <1>3, <2>1, <2>2, ConcatProperties
  <2>4. QED BY <2>1, <2>2, <2>3
<1> DEFINE T == {m \in 0..n : m < k \/ (p \in 1..Len(w[m]) /\ w[m][p] = f[k][j])}
<1>5. 0 \in T
  OBVIOUS
<1>6. ASSUME NEW m \in 0..n-1, m \in T PROVE m + 1 \in T
  <2>1. m + 1 \in 1..n /\ m + 1 \in 0..n /\ m \in 0..n /\ (m + 1) - 1 = m
    OBVIOUS
  <2>2. CASE m + 1 < k
    BY <2>1, <2>2
  <2>3. CASE m + 1 = k
    BY <1>4, <2>1, <2>3
  <2>4. CASE m + 1 > k
    <3>1. p \in 1..Len(w[m]) /\ w[m][p] = f[k][j]
      BY <1>6, <2>4
    <3>2. /\ w[m + 1] = w[m] \o f[m + 1] /\ w[m] \in Seq(S) /\ f[m + 1] \in Seq(S)
      BY <1>1, <2>1
    <3>3. PICK a, b, c \in Seq(S) : a = w[m] /\ b = f[m + 1] /\ c = w[m + 1]
      <4>1. w[m + 1] \in Seq(S)
        BY <1>1, <2>1
      <4>2. QED BY <3>2, <4>1
    <3>4. Len(a) \in Nat /\ Len(b) \in Nat /\ p \in 1..Len(a)
      BY <3>1, <3>3, LenProperties
    <3>5. /\ Len(c) = Len(a) + Len(b)
          /\ \A i \in 1..Len(a) + Len(b) : c[i] = IF i <= Len(a) THEN a[i] ELSE b[i - Len(a)]
      <4>1. c = a \o b
        BY <3>2, <3>3, Zenon
      <4>2. QED BY <4>1, ConcatProperties, Zenon
    <3>6. p \in 1..Len(c) /\ c[p] = a[p]
      <4>1. p \in 1..Len(a) + Len(b) /\ p <= Len(a)
        BY <3>4
      <4>2. c[p] = a[p]
        BY <3>5, <4>1, Zenon
      <4>3. QED BY <3>5, <4>1, <4>2
    <3>7. QED BY <2>1, <3>1, <3>3, <3>6
  <2>5. QED BY <2>2, <2>3, <2>4
<1>7. \A m \in 0..n : m \in T
  <2> HIDE DEF T
  <2>1. QED BY <1>5, <1>6, IntervalInduction
<1>8. n \in T /\ ~(n < k)
  BY <1>7
<1>9. QED BY <1>2, <1>8 DEF w

-----------------------------------------------------------------------------
(* What the chip puts on the wire: of a frame, and of the script.          *)
LEMMA EncodeFacts ==
    ASSUME NEW p \in Seq(Byte), Len(p) < 256
    PROVE  /\ Encode(p) \in Seq(Byte) /\ Len(Encode(p)) = Len(p) + 2
           /\ Encode(p)[1] = Len(p) /\ Encode(p)[2] = 0
           /\ \A i \in 1..Len(p) : Encode(p)[i + 2] = p[i]
<1>1. PICK n : n = Len(p)
  OBVIOUS
<1>2. n \in 0..255 /\ n % 256 = n /\ n \div 256 = 0
  <2>1. n \in Nat /\ n < 256
    BY <1>1, LenProperties
  <2>2. n % 256 = n
    BY <2>1
  <2>3. n \div 256 = 0
    BY <2>1
  <2>4. QED BY <2>1, <2>2, <2>3
<1>3. PICK h : h = <<n, 0>>
  OBVIOUS
<1>4. h \in Seq(Byte) /\ Len(h) = 2 /\ h[1] = n /\ h[2] = 0
  BY <1>2, <1>3 DEF Byte
<1>5. Encode(p) = h \o p
  BY <1>1, <1>2, <1>3 DEF Encode
<1>6. PICK w : w = h \o p
  OBVIOUS
<1>7. /\ w \in Seq(Byte) /\ Len(w) = 2 + n
      /\ \A i \in 1..2 + n : w[i] = IF i <= 2 THEN h[i] ELSE p[i - 2]
  <2>1. /\ w \in Seq(Byte) /\ Len(w) = Len(h) + Len(p)
        /\ \A i \in 1..Len(h) + Len(p) : w[i] = IF i <= Len(h) THEN h[i] ELSE p[i - Len(h)]
    BY <1>4, <1>6, ConcatProperties, Zenon
  <2>2. QED BY <1>1, <1>4, <2>1
<1>8. w[1] = n /\ w[2] = 0
  BY <1>2, <1>4, <1>7
<1>9. ASSUME NEW i \in 1..n PROVE w[i + 2] = p[i]
  <2>1. i + 2 \in 1..2 + n /\ ~(i + 2 <= 2) /\ (i + 2) - 2 = i
    BY <1>2
  <2>2. QED BY <1>7, <2>1
<1>10. Encode(p) = w
  BY <1>5, <1>6
<1>11. Len(w) = n + 2
  BY <1>2, <1>7
<1>12. QED BY <1>1, <1>7, <1>8, <1>9, <1>10, <1>11

Frames == [i \in 1..Len(script) |-> Encode(script[i])]
Wire   == EncodeAll(script)

(* The bytes of the first k frames.                                        *)
Sent == Joined(Len(script), Frames)

LEMMA ScriptFacts ==
    ASSUME script \in Scripts
    PROVE  /\ Len(script) \in Nat /\ PkgSz \in 2..255 /\ MsgSize \in Nat
           /\ script \in Seq(Seq(Byte))
           /\ \A k \in 1..Len(script) :
                 /\ script[k] \in Seq(Byte) /\ Len(script[k]) \in Nat
                 /\ Len(script[k]) >= 2 /\ Len(script[k]) <= PkgSz - 2
                 /\ Len(script[k]) <= MsgSize
<1>1. script \in Seq(Seq(Byte)) /\ PkgSz \in 2..255 /\ MsgSize \in Nat
  BY AlphaAssumption
<1>2. Len(script) \in Nat /\ \A k \in 1..Len(script) : script[k] \in Seq(Byte)
  BY <1>1, LenProperties, ElementOfSeq
<1>3. \A k \in 1..Len(script) : Len(script[k]) \in Nat
  BY <1>2, LenProperties
<1>4. QED BY <1>1, <1>2, <1>3, AlphaAssumption

LEMMA WireFacts ==
    ASSUME script \in Scripts
    PROVE  /\ Wire \in Seq(Byte) /\ Len(Wire) = Len(Sent[Len(script)])
           /\ Sent[0] = <<>>
           /\ \A k \in 0..Len(script) : Sent[k] \in Seq(Byte) /\ Len(Sent[k]) \in Nat
           /\ \A k \in 1..Len(script) : Len(Sent[k]) = Len(Sent[k-1]) + Len(script[k]) + 2
           /\ \A k \in 1..Len(script), j \in 1..PkgSz :
                 j <= Len(script[k]) + 2 =>
                    /\ Len(Sent[k-1]) + j <= Len(Wire)
                    /\ Wire[Len(Sent[k-1]) + j] = Encode(script[k])[j]
<1>1. PICK n, f : n = Len(script) /\ f = Frames
  OBVIOUS
<1>2. ASSUME NEW k \in 1..n
      PROVE  /\ f[k] = Encode(script[k]) /\ f[k] \in Seq(Byte)
             /\ Len(f[k]) = Len(script[k]) + 2 /\ Len(script[k]) \in Nat
  <2>1. script[k] \in Seq(Byte) /\ Len(script[k]) \in Nat /\ Len(script[k]) < 256
    <3>1. k \in 1..Len(script)
      BY <1>1
    <3>2. /\ script[k] \in Seq(Byte) /\ Len(script[k]) \in Nat
          /\ Len(script[k]) <= PkgSz - 2 /\ PkgSz \in 2..255
      BY <3>1, ScriptFacts
    <3>3. QED BY <3>2
  <2>2. f[k] = Encode(script[k])
    BY <1>1 DEF Frames
  <2>3. QED BY <2>1, <2>2, EncodeFacts
<1>3. n \in Nat /\ f \in [1..n -> Seq(Byte)]
  <2>1. f = [i \in 1..n |-> f[i]]
    BY <1>1 DEF Frames
  <2>2. QED BY <1>1, <1>2, <2>1, ScriptFacts
<1>4. PICK w : w = Joined(n, f)
  OBVIOUS
<1>5. /\ w \in [0..n -> Seq(Byte)] /\ w[0] = <<>>
      /\ \A k \in 1..n : w[k] = w[k-1] \o f[k]
  BY <1>3, <1>4, JoinedFacts
<1>6. \A k \in 0..n : w[k] \in Seq(Byte) /\ Len(w[k]) \in Nat
  <2>1. \A k \in 0..n : w[k] \in Seq(Byte)
    BY <1>5
  <2>2. QED BY <2>1, LenProperties
<1>7. Wire = w[n]
  <2>1. Wire = FlattenSeq(f)
    BY <1>1 DEF Wire, EncodeAll, Frames
  <2>2. QED BY <1>3, <1>4, <2>1, FlattenIsJoined
<1>8. ASSUME NEW k \in 1..n PROVE Len(w[k]) = Len(w[k-1]) + Len(script[k]) + 2
  <2>1. w[k-1] \in Seq(Byte) /\ Len(w[k-1]) \in Nat
    <3>1. k - 1 \in 0..n
      BY <1>3
    <3>2. QED BY <1>6, <3>1
  <2>2. PICK a, b : a = w[k-1] /\ b = f[k]
    OBVIOUS
  <2>3. a \in Seq(Byte) /\ b \in Seq(Byte) /\ w[k] = a \o b
    BY <1>2, <1>5, <2>1, <2>2
  <2>4. Len(w[k]) = Len(a) + Len(b)
    BY <2>3, ConcatProperties
  <2>5. Len(b) = Len(script[k]) + 2 /\ Len(script[k]) \in Nat
    BY <1>2, <2>2
  <2>6. PICK x, y : x = Len(w[k-1]) /\ y = Len(script[k])
    OBVIOUS
  <2>7. x \in Nat /\ y \in Nat /\ Len(w[k]) = x + (y + 2)
    BY <2>1, <2>2, <2>4, <2>5, <2>6
  <2>8. Len(w[k]) = x + y + 2
    BY <2>7
  <2>9. QED BY <2>6, <2>8
<1>9. ASSUME NEW k \in 1..n, NEW j \in 1..PkgSz, j <= Len(script[k]) + 2
      PROVE  Len(w[k-1]) + j <= Len(Wire) /\ Wire[Len(w[k-1]) + j] = Encode(script[k])[j]
  <2>1. j \in 1..Len(f[k])
    BY <1>2, <1>9, ScriptFacts
  <2>2. Len(w[k-1]) + j \in 1..Len(w[n]) /\ w[n][Len(w[k-1]) + j] = f[k][j]
    <3>1. PartsOf(n, f, w)
      BY <1>3, <1>4, JoinedParts
    <3>2. QED BY <2>1, <3>1 DEF PartsOf
  <2>3. Len(w[n]) \in Nat
    BY <1>3, <1>6
  <2>4. QED BY <1>2, <1>7, <2>2, <2>3
<1>10. Sent = w
  BY <1>1, <1>4 DEF Sent
<1>11. Wire \in Seq(Byte) /\ Len(Wire) = Len(w[n])
  BY <1>3, <1>6, <1>7
<1>12. QED BY <1>1, <1>5, <1>6, <1>8, <1>9, <1>10, <1>11

-----------------------------------------------------------------------------
(* Where the bytes of the wire are while none is lost: taken by the        *)
(* reader, in the FIFO, in the data register, or still to be sent.         *)
Taken   == IF pc = "got" THEN Append(out, ch) ELSE out
Fetched == IF rdr = NoByte THEN <<>> ELSE <<rdr>>

NothingLost == (Taken \o Content) \o (Fetched \o line) = Wire

LEMMA MovesOn ==
    ASSUME NEW S, NEW a \in Seq(S), NEW b \in Seq(S), b # <<>>
    PROVE  Append(a, Head(b)) \o Tail(b) = a \o b
<1>1. PICK x, t, c : x = Head(b) /\ t = Tail(b) /\ c = <<x>>
  OBVIOUS
<1>2. x \in S /\ t \in Seq(S) /\ Len(b) \in Nat \ {0} /\ x = b[1] /\ Len(t) = Len(b) - 1
      /\ \A i \in 1..Len(t) : t[i] = b[i + 1]
  BY <1>1, HeadTailProperties, EmptySeq, LenProperties
<1>3. c \in Seq(S) /\ Len(c) = 1 /\ c[1] = x
  BY <1>1, <1>2
<1>4. Append(a, x) = a \o c
  BY <1>1, <1>2, AppendIsConcat
<1>5. (a \o c) \o t = a \o (c \o t)
  BY <1>2, <1>3, ConcatAssociative
<1>6. c \o t = b
  <2>1. PICK d : d = c \o t
    OBVIOUS
  <2>2. /\ d \in Seq(S) /\ Len(d) = Len(c) + Len(t)
        /\ \A i \in 1..Len(c) + Len(t) : d[i] = IF i <= Len(c) THEN c[i] ELSE t[i - Len(c)]
    BY <1>2, <1>3, <2>1, ConcatProperties, Zenon
  <2>3. ASSUME NEW i \in 1..Len(b) PROVE d[i] = b[i]
    <3>1. CASE i = 1
      BY <1>2, <1>3, <2>2, <3>1
    <3>2. CASE i # 1
      <4>1. i \in 1..Len(c) + Len(t) /\ ~(i <= Len(c)) /\ i - Len(c) = i - 1
        BY <1>2, <1>3, <3>2
      <4>2. d[i] = t[i - 1] /\ i - 1 \in 1..Len(t) /\ (i - 1) + 1 = i
        BY <1>2, <1>3, <2>2, <3>2, <4>1
      <4>3. QED BY <1>2, <4>2
    <3>3. QED BY <3>1, <3>2
  <2>4. Len(d) = Len(b)
    BY <1>2, <1>3, <2>2
  <2>5. QED BY <2>1, <2>2, <2>3, <2>4, SeqEqual
<1>7. QED BY <1>1, <1>4, <1>5, <1>6

LEMMA IsStored ==
    ASSUME NEW S, NEW t \in Seq(S), NEW c \in Seq(S), NEW b \in Seq(S), NEW l \in Seq(S)
    PROVE  (t \o (c \o b)) \o l = (t \o c) \o (b \o l)
<1>1. PICK a \in Seq(S) : a = t \o c
  BY ConcatProperties
<1>2. t \o (c \o b) = a \o b
  BY <1>1, ConcatAssociative
<1>3. (a \o b) \o l = a \o (b \o l)
  BY <1>1, ConcatAssociative
<1>4. QED BY <1>1, <1>2, <1>3

LEMMA LossKept ==
    ASSUME TypeOK, [Next]_vars, dropped' = 0
    PROVE  dropped = 0
<1>1. dropped' = dropped \/ dropped' = dropped + 1
  BY DEF Next, Isr, Boot, Reader, ChipSend, IsrGetc, IsrIndicate, SetRxIndicate, StartReader,
         ReadByte, SemTake, UseByte, vars
<1>2. QED BY <1>1 DEF TypeOK

LEMMA NothingLostStep ==
    ASSUME TypeOK, TypeOK', IInv, [Next]_vars, script' = script, dropped' = 0, NothingLost
    PROVE  NothingLost'
<1>1. Wire' = Wire
  BY DEF Wire
<1>2. /\ line \in Seq(Byte) /\ out \in Seq(Byte) /\ ch \in Byte /\ Content \in Seq(Byte)
      /\ rdr \in Byte \cup {NoByte} /\ NoByte \notin Byte /\ dropped = 0
  <2>1. line \in Seq(Byte) /\ out \in Seq(Byte) /\ ch \in Byte /\ rdr \in Byte \cup {NoByte}
    BY DEF TypeOK
  <2>2. NoByte \notin Byte
    BY DEF NoByte, Byte
  <2>3. QED BY <2>1, <2>2, ContentSeq, LossKept
<1>3. Taken \in Seq(Byte)
  BY <1>2, AppendProperties DEF Taken
<1>4. CASE ChipSend
  <2>1. rdr = NoByte /\ rdr' = Head(line) /\ line # <<>> /\ line' = Tail(line)
        /\ UNCHANGED <<fifo, pc, out, ch>>
    BY <1>2, <1>4 DEF ChipSend, reader
  <2>2. Fetched = <<>> /\ Fetched' = <<Head(line)>>
    BY <1>2, <2>1, HeadTailProperties DEF Fetched
  <2>3. Fetched' \o line' = Fetched \o line
    <3>1. Append(<<>>, Head(line)) \o Tail(line) = <<>> \o line
      BY <1>2, <2>1, EmptySeq, MovesOn
    <3>2. Append(<<>>, Head(line)) = <<Head(line)>>
      OBVIOUS
    <3>3. QED BY <2>1, <2>2, <3>1, <3>2
  <2>4. Content' = Content /\ Taken' = Taken
    BY <2>1, ContentUnchanged DEF Taken
  <2>5. QED BY <1>1, <2>3, <2>4 DEF NothingLost
<1>5. CASE IsrGetc
  <2>1. Succ(put_index) # get_index
    BY <1>2, <1>5 DEF IsrGetc
  <2>2. Content' = Append(Content, rdr) /\ rdr \in Byte
    BY <1>2, <1>5, <2>1, PutAppends DEF IsrGetc
  <2>3. Fetched = <<rdr>> /\ Fetched' = <<>> /\ line' = line /\ Taken' = Taken
    BY <1>2, <1>5, <2>2 DEF IsrGetc, Fetched, Taken, reader
  <2>4. (Taken \o Append(Content, rdr)) \o line = (Taken \o Content) \o (Fetched \o line)
    <3>1. PICK t, c, l, b : t = Taken /\ c = Content /\ l = line /\ b = Fetched
      OBVIOUS
    <3>2. t \in Seq(Byte) /\ c \in Seq(Byte) /\ l \in Seq(Byte) /\ rdr \in Byte /\ b = <<rdr>>
      BY <1>2, <1>3, <2>2, <2>3, <3>1
    <3>3. b \in Seq(Byte) /\ Append(c, rdr) = c \o b
      BY <3>2, AppendIsConcat
    <3>4. (t \o (c \o b)) \o l = (t \o c) \o (b \o l)
      BY <3>2, <3>3, IsStored
    <3>5. QED BY <3>1, <3>3, <3>4
  <2>5. Fetched' \o line' = line
    BY <1>2, <2>3, ConcatEmptySeq
  <2>6. QED BY <1>1, <2>2, <2>3, <2>4, <2>5 DEF NothingLost
<1>6. CASE ReadByte /\ ~FifoEmpty
  <2>1. Content # <<>> /\ ch' = Head(Content) /\ Content' = Tail(Content)
    BY <1>6, ReadTakesHead
  <2>2. /\ Taken = out /\ Taken' = Append(out, Head(Content)) /\ UNCHANGED <<Fetched, line>>
    BY <1>6, <2>1 DEF ReadByte, Taken, Fetched
  <2>3. Append(out, Head(Content)) \o Tail(Content) = out \o Content
    BY <1>2, <2>1, MovesOn
  <2>4. QED BY <1>1, <2>1, <2>2, <2>3 DEF NothingLost
<1>7. CASE \/ IsrIndicate \/ SetRxIndicate \/ StartReader \/ SemTake \/ UseByte
           \/ (ReadByte /\ FifoEmpty) \/ UNCHANGED vars
  <2>1. UNCHANGED <<rdr, line, fifo>>
    BY <1>7 DEF IsrIndicate, SetRxIndicate, StartReader, SemTake, UseByte, ReadByte, vars, fifo
  <2>2. Taken' = Taken
    BY <1>7 DEF IsrIndicate, SemRelease, SetRxIndicate, StartReader, SemTake, UseByte, ReadByte,
                vars, reader, Taken
  <2>3. Content' = Content /\ Fetched' = Fetched
    BY <2>1, ContentUnchanged DEF Fetched
  <2>4. QED BY <1>1, <2>1, <2>2, <2>3 DEF NothingLost
<1>8. QED BY <1>4, <1>5, <1>6, <1>7 DEF Next, Isr, Boot, Reader

-----------------------------------------------------------------------------
(* The framer keeps in step with the chip: it has passed a number of       *)
(* frames, and what it holds of the next one is what was sent.             *)
Passed == Len(accepted) + rejected

Assembling ==
    /\ Passed < Len(script)
    /\ Len(out) = Len(Sent[Passed]) + index
    /\ index \in 1..Len(script[Passed + 1]) + 2
    /\ \A j \in 0..index-1 : pkg[j] = Encode(script[Passed + 1])[j + 1]
    /\ len = IF index <= 2 THEN 0 ELSE Len(script[Passed + 1])

Framed ==
    /\ at # "undefined"
    /\ Passed <= Len(script)
    /\ at # "send" /\ done => Len(out) = Len(Sent[Passed])
    /\ at = "send" \/ ~done => Assembling
    /\ at = "send" => index = Len(script[Passed + 1]) + 2
    /\ ~done => at = "rx" /\ index < Len(script[Passed + 1]) + 2
    /\ rejected = 0 => \A i \in 1..Len(accepted) : accepted[i] = script[i]

FramingInv == script \in Scripts /\ (dropped = 0 => NothingLost /\ Framed)

(* The byte the reader has taken is the next one on the wire.              *)
LEMMA NextByte ==
    ASSUME TypeOK, NothingLost, pc = "got"
    PROVE  Len(out) \in Nat /\ Len(out) + 1 <= Len(Wire) /\ ch = Wire[Len(out) + 1]
<1>1. PICK n, t, a, b : /\ n = Len(out) /\ t = Taken /\ a = Taken \o Content /\ b = Fetched \o line
  OBVIOUS
<1>2. /\ out \in Seq(Byte) /\ ch \in Byte /\ line \in Seq(Byte) /\ Content \in Seq(Byte)
      /\ Fetched \in Seq(Byte)
  <2>1. out \in Seq(Byte) /\ ch \in Byte /\ line \in Seq(Byte) /\ rdr \in Byte \cup {NoByte}
    BY DEF TypeOK
  <2>2. Fetched \in Seq(Byte)
    BY <2>1, EmptySeq DEF Fetched
  <2>3. QED BY <2>1, <2>2, ContentSeq
<1>3. n \in Nat /\ t \in Seq(Byte) /\ Len(t) = n + 1 /\ t[n + 1] = ch
  <2>1. t = Append(out, ch)
    BY <1>1 DEF Taken
  <2>2. QED BY <1>1, <1>2, <2>1, AppendProperties, LenProperties
<1>4. b \in Seq(Byte) /\ Len(b) \in Nat
  BY <1>1, <1>2, ConcatProperties, LenProperties
<1>5. PICK c : c = Content
  OBVIOUS
<1>6. c \in Seq(Byte) /\ Len(c) \in Nat /\ a = t \o c
  BY <1>1, <1>2, <1>5, LenProperties
<1>7. /\ a \in Seq(Byte) /\ Len(a) = Len(t) + Len(c)
      /\ \A i \in 1..Len(t) + Len(c) : a[i] = IF i <= Len(t) THEN t[i] ELSE c[i - Len(t)]
  BY <1>3, <1>6, ConcatProperties, Zenon
<1>8. PICK w : w = a \o b
  OBVIOUS
<1>9. /\ w \in Seq(Byte) /\ Len(w) = Len(a) + Len(b)
      /\ \A i \in 1..Len(a) + Len(b) : w[i] = IF i <= Len(a) THEN a[i] ELSE b[i - Len(a)]
  <2>1. a \in Seq(Byte) /\ b \in Seq(Byte)
    BY <1>4, <1>7
  <2>2. QED BY <1>8, <2>1, ConcatProperties, Zenon
<1>10. a[n + 1] = ch /\ n + 1 <= Len(a) /\ Len(a) \in Nat
  BY <1>3, <1>6, <1>7
<1>11. w[n + 1] = ch /\ n + 1 <= Len(w)
  BY <1>3, <1>4, <1>9, <1>10
<1>12. w = Wire
  BY <1>1, <1>8 DEF NothingLost
<1>13. QED BY <1>1, <1>3, <1>11, <1>12

(* A byte joins the frame.                                                 *)
LEMMA StoreFramed ==
    ASSUME AlphaTypeOK, FramerOK, script \in Scripts, NothingLost, Framed,
           Passed \in Nat, StoreByte
    PROVE  Framed'
<1>1. PICK k, p, e, o : k = Passed /\ p = script[k + 1] /\ e = Encode(p) /\ o = Len(Sent[k])
  OBVIOUS
<1>2. /\ at = "rx" /\ pc = "got" /\ out' = Append(out, ch)
      /\ UNCHANGED <<accepted, rejected, script>>
  BY DEF StoreByte, UseByte, trace
<1>3. /\ Len(out) \in Nat /\ Len(out) + 1 <= Len(Wire) /\ ch = Wire[Len(out) + 1]
      /\ Len(out') = Len(out) + 1
  <2>1. TypeOK /\ out \in Seq(Byte) /\ ch \in Byte
    BY DEF AlphaTypeOK, TypeOK
  <2>2. QED BY <1>2, <2>1, NextByte, AppendProperties
<1>4. k \in Nat /\ k <= Len(script) /\ Len(script) \in Nat
  BY <1>1, ScriptFacts DEF Framed
<1>5. k < Len(script)
  <2>1. CASE done
    <3>1. Len(out) = o
      BY <1>1, <1>2, <2>1 DEF Framed
    <3>2. k = Len(script) => Len(Wire) = o
      BY <1>1, WireFacts
    <3>3. QED BY <1>3, <1>4, <3>1, <3>2
  <2>2. CASE ~done
    BY <1>1, <2>2 DEF Framed, Assembling
  <2>3. QED BY <2>1, <2>2
<1>6. /\ p \in Seq(Byte) /\ Len(p) \in Nat /\ Len(p) >= 2 /\ Len(p) <= PkgSz - 2
      /\ PkgSz \in 2..255 /\ o \in Nat
  <2>1. k + 1 \in 1..Len(script) /\ k \in 0..Len(script)
    BY <1>4, <1>5
  <2>2. /\ p \in Seq(Byte) /\ Len(p) \in Nat /\ Len(p) >= 2 /\ Len(p) <= PkgSz - 2
        /\ PkgSz \in 2..255
    BY <1>1, <2>1, ScriptFacts
  <2>3. QED BY <1>1, <2>1, <2>2, WireFacts
<1>7. /\ Len(e) = Len(p) + 2 /\ e[1] = Len(p) /\ e[2] = 0
  BY <1>1, <1>6, EncodeFacts
<1>8. /\ Start \in 0..Len(p) + 1 /\ Len(out) = o + Start
      /\ \A j \in 0..Start-1 : pkg[j] = e[j + 1]
      /\ ~done => len = IF Start <= 2 THEN 0 ELSE Len(p)
  <2>1. CASE done
    <3>1. Start = 0 /\ Len(out) = o
      BY <1>1, <1>2, <2>1 DEF Start, Framed
    <3>2. QED BY <1>6, <2>1, <3>1
  <2>2. CASE ~done
    <3>1. Start = index
      BY <2>2 DEF Start
    <3>2. /\ Len(out) = o + index /\ index \in 1..Len(p) + 2 /\ index < Len(p) + 2
          /\ \A j \in 0..index-1 : pkg[j] = e[j + 1]
          /\ len = IF index <= 2 THEN 0 ELSE Len(p)
      BY <1>1, <2>2 DEF Framed, Assembling
    <3>3. QED BY <1>6, <3>1, <3>2
  <2>3. QED BY <2>1, <2>2
<1>9. PICK s : s = Start
  OBVIOUS
<1>10. s \in 0..Len(p) + 1 /\ s < PkgSz /\ s + 1 \in 1..PkgSz
  BY <1>6, <1>8, <1>9
<1>11. ch = e[s + 1]
  <2>1. k + 1 \in 1..Len(script) /\ (k + 1) - 1 = k /\ s + 1 <= Len(p) + 2
    BY <1>4, <1>5, <1>6, <1>10
  <2>2. Wire[Len(Sent[(k + 1) - 1]) + (s + 1)] = Encode(script[k + 1])[s + 1]
    BY <1>1, <1>10, <2>1, WireFacts
  <2>3. Wire[o + (s + 1)] = e[s + 1]
    BY <1>1, <2>1, <2>2
  <2>4. o + (s + 1) = Len(out) + 1
    BY <1>6, <1>8, <1>9, <1>10
  <2>5. QED BY <1>3, <2>3, <2>4
<1>12. /\ len' = LenAt(s) /\ index' = s + 1
       /\ pkg' = [pkg EXCEPT ![s] = ch]
       /\ done' = Complete(len', index') /\ at' = IF done' THEN "send" ELSE "rx"
  <2>1. /\ len' = LenAt(s) /\ index' = (s + 1) % 256
        /\ pkg' = [pkg EXCEPT ![s] = ch]
        /\ done' = Complete(len', index') /\ at' = IF done' THEN "send" ELSE "rx"
    <3>1. Start < PkgSz /\ ~(Start >= PkgSz)
      BY <1>6, <1>9, <1>10
    <3>2. QED BY <1>9, <3>1 DEF StoreByte
  <2>2. (s + 1) % 256 = s + 1
    BY <1>6, <1>10
  <2>3. QED BY <2>1, <2>2
<1>13. len' = IF index' <= 2 THEN 0 ELSE Len(p)
  <2>1. CASE s = 2
    <3>1. pkg[0] = Len(p) /\ pkg[1] = 0
      BY <1>7, <1>8, <1>9, <2>1
    <3>2. LenAt(s) = Len(p) + 256 * 0
      BY <2>1, <3>1 DEF LenAt
    <3>3. QED BY <1>6, <1>12, <2>1, <3>2
  <2>2. CASE s # 2
    <3>1. done => s = 0
      BY <1>9 DEF Start
    <3>2. LenAt(s) = IF done THEN 0 ELSE len
      BY <2>2 DEF LenAt
    <3>3. QED BY <1>6, <1>8, <1>9, <1>10, <1>12, <2>2, <3>1, <3>2
  <2>3. QED BY <2>1, <2>2
<1>14. ASSUME NEW j \in 0..index'-1 PROVE pkg'[j] = e[j + 1]
  <2>1. pkg \in [0..PkgSz-1 -> Byte] /\ j \in 0..s /\ j \in 0..PkgSz-1
    BY <1>6, <1>10, <1>12 DEF AlphaTypeOK
  <2>2. CASE j = s
    BY <1>11, <1>12, <2>1, <2>2
  <2>3. CASE j # s
    <3>1. j \in 0..Start-1
      BY <1>9, <1>10, <2>1, <2>3
    <3>2. pkg'[j] = pkg[j]
      BY <1>12, <2>1, <2>3
    <3>3. QED BY <1>8, <3>1, <3>2
  <2>4. QED BY <2>2, <2>3
<1>15. done' <=> index' = Len(p) + 2
  <2>1. done' <=> len' # 0 /\ index' >= 2 /\ len' = index' - 2
    BY <1>12 DEF Complete
  <2>2. QED BY <1>6, <1>10, <1>12, <1>13, <2>1
<1>16. index' \in 1..Len(p) + 2 /\ Len(out') = o + index'
  BY <1>3, <1>6, <1>8, <1>9, <1>10, <1>12
<1>17. /\ Passed' = k /\ Sent' = Sent /\ script' = script /\ Len(Sent'[Passed']) = o
       /\ script'[Passed' + 1] = p /\ Encode(script'[Passed' + 1]) = e
  BY <1>1, <1>2 DEF Passed, Sent, Frames
<1>18. Assembling'
  BY <1>5, <1>13, <1>14, <1>16, <1>17 DEF Assembling
<1>19. at' # "undefined" /\ (at' = "send" <=> done') /\ (~done' => at' = "rx")
  BY <1>12
<1>20. ~done' => index' < Len(p) + 2
  BY <1>6, <1>15, <1>16
<1>21. (rejected = 0 => \A i \in 1..Len(accepted) : accepted[i] = script[i])'
  BY <1>2 DEF Framed
<1>22. QED BY <1>4, <1>15, <1>17, <1>18, <1>19, <1>20, <1>21 DEF Framed

(* The frame is handed to the queue: one more frame is behind the framer.  *)
LEMMA FrameSent ==
    ASSUME AlphaTypeOK, FramerOK, script \in Scripts, Framed, Passed \in Nat, at = "send"
    PROVE  /\ Passed + 1 \in 1..Len(script) /\ len = Len(script[Passed + 1])
           /\ Payload = script[Passed + 1]
           /\ Len(out) = Len(Sent[Passed + 1])
<1>1. PICK k, p, e : k = Passed /\ p = script[k + 1] /\ e = Encode(p)
  OBVIOUS
<1>2. k + 1 \in 1..Len(script) /\ (k + 1) - 1 = k
  BY <1>1, ScriptFacts DEF Framed, Assembling
<1>3. /\ p \in Seq(Byte) /\ Len(p) \in Nat /\ Len(p) >= 2 /\ Len(p) <= PkgSz - 2
      /\ PkgSz \in 2..255
  BY <1>1, <1>2, ScriptFacts
<1>4. \A i \in 1..Len(p) : e[i + 2] = p[i]
  <2>1. p \in Seq(Byte) /\ Len(p) < 256
    BY <1>3
  <2>2. \A i \in 1..Len(p) : Encode(p)[i + 2] = p[i]
    BY <2>1, EncodeFacts
  <2>3. QED BY <1>1, <2>2
<1>5. /\ index = Len(p) + 2 /\ len = Len(p) /\ Len(out) = Len(Sent[k]) + index
      /\ \A j \in 0..index-1 : pkg[j] = e[j + 1]
  BY <1>1, <1>3 DEF Framed, Assembling
<1>6. Payload = p
  <2>1. Payload \in Seq(Byte) /\ Len(Payload) = Len(p) /\ \A i \in 1..Len(p) : Payload[i] = pkg[i + 1]
    BY <1>5, PayloadFacts
  <2>2. ASSUME NEW i \in 1..Len(p) PROVE Payload[i] = p[i]
    <3>1. i + 1 \in 0..index-1 /\ (i + 1) + 1 = i + 2
      BY <1>3, <1>5
    <3>2. pkg[i + 1] = e[i + 2]
      BY <1>5, <3>1
    <3>3. QED BY <1>4, <2>1, <3>2
  <2>3. QED BY <1>3, <2>1, <2>2, SeqEqual
<1>7. Len(out) = Len(Sent[k + 1])
  <2>1. Len(Sent[k + 1]) = Len(Sent[(k + 1) - 1]) + Len(script[k + 1]) + 2
    BY <1>2, WireFacts
  <2>2. k \in 0..Len(script)
    BY <1>1, <1>2, ScriptFacts
  <2>3. Len(Sent[k]) \in Nat
    BY <2>2, WireFacts
  <2>4. PICK x, y : x = Len(Sent[k]) /\ y = Len(p)
    OBVIOUS
  <2>5. x \in Nat /\ y \in Nat /\ Len(Sent[k + 1]) = x + y + 2 /\ Len(out) = x + (y + 2)
    BY <1>1, <1>2, <1>3, <1>5, <2>1, <2>3, <2>4
  <2>6. x + y + 2 = x + (y + 2)
    BY <2>5
  <2>7. QED BY <2>5, <2>6
<1>8. QED BY <1>1, <1>2, <1>5, <1>6, <1>7

LEMMA SendFramed ==
    ASSUME AlphaTypeOK, FramerOK, script \in Scripts, Framed, accepted \in Seq(Payloads), SendFrame
    PROVE  Framed'
<1>1. /\ at = "send" /\ at' \in {"rx", "sending"} /\ UNCHANGED <<out, done, index, len, pkg, script>>
  BY DEF SendFrame, vars, reader
<1>2. \/ accepted' = Append(accepted, Payload) /\ rejected' = rejected
      \/ accepted' = accepted /\ rejected' = rejected + 1
  BY DEF SendFrame
<1>3. Passed \in Nat /\ Len(accepted) \in Nat /\ rejected \in Nat
  BY LenProperties DEF Passed, AlphaTypeOK
<1>4. PICK n : n = Len(accepted)
  OBVIOUS
<1>5. /\ Passed + 1 \in 1..Len(script) /\ Payload = script[Passed + 1]
      /\ Len(out) = Len(Sent[Passed + 1]) /\ done
  BY <1>1, <1>3, FrameSent DEF FramerOK
<1>6. Passed' = Passed + 1
  <2>1. Len(accepted') \in {n, n + 1} /\ (accepted' = Append(accepted, Payload) => Len(accepted') = n + 1)
    BY <1>2, <1>4, LenProperties
  <2>2. CASE accepted' = Append(accepted, Payload) /\ rejected' = rejected
    BY <1>3, <1>4, <2>1, <2>2 DEF Passed
  <2>3. CASE accepted' = accepted /\ rejected' = rejected + 1
    BY <1>3, <1>4, <2>3 DEF Passed
  <2>4. QED BY <1>2, <2>2, <2>3
<1>7. ASSUME rejected' = 0, NEW i \in 1..Len(accepted') PROVE accepted'[i] = script'[i]
  <2>1. accepted' = Append(accepted, Payload) /\ rejected = 0
    BY <1>2, <1>3, <1>7
  <2>2. Passed = n
    BY <1>3, <1>4, <2>1 DEF Passed
  <2>3. Len(accepted') = n + 1 /\ accepted'[n + 1] = Payload /\ \A j \in 1..n : accepted'[j] = accepted[j]
    BY <1>4, <2>1, LenProperties
  <2>4. CASE i = n + 1
    BY <1>1, <1>5, <2>2, <2>3, <2>4
  <2>5. CASE i # n + 1
    <3>1. i \in 1..n
      BY <1>3, <1>4, <2>3, <2>5
    <3>2. accepted[i] = script[i]
      BY <1>4, <2>1, <3>1 DEF Framed
    <3>3. QED BY <1>1, <2>3, <3>1, <3>2
  <2>6. QED BY <2>4, <2>5
<1>8. Sent' = Sent /\ Passed' <= Len(script')
  BY <1>1, <1>3, <1>5, <1>6, ScriptFacts DEF Sent, Frames
<1>9. Len(out') = Len(Sent'[Passed'])
  BY <1>1, <1>5, <1>6, <1>8
<1>10. QED BY <1>1, <1>5, <1>7, <1>8, <1>9 DEF Framed

(* Every other step leaves the framer and what is behind it alone.         *)
LEMMA FramedAside ==
    ASSUME Framed, UNCHANGED <<done, index, len, pkg, out, accepted, rejected, script>>,
           at' = at \/ (at = "sending" /\ at' \in {"rx", "sending"})
    PROVE  Framed'
<1>1. UNCHANGED <<Passed, Sent, Assembling>>
  BY DEF Passed, Sent, Frames, Assembling
<1>2. QED BY <1>1 DEF Framed

LEMMA FramingStep ==
    ASSUME AlphaInv, AlphaInv', FramingInv, [AlphaNext]_alphaVars
    PROVE  FramingInv'
<1>1. script' = script
  BY DEF AlphaNext, AlphaSend, Interrupt, Receiver, Parser, Fetch, StoreByte, SendFrame,
         FinishSend, StartParser, ParserRecv, ParserContinue, Dispatch, alphaVars
<1>2. [Next]_vars
  BY SerialStep DEF AlphaInv
<1>3. SUFFICES ASSUME dropped' = 0 PROVE NothingLost' /\ Framed'
  BY <1>1 DEF FramingInv
<1>4. /\ AlphaTypeOK /\ TypeOK /\ TypeOK' /\ IInv /\ FramerOK /\ accepted \in Seq(Payloads)
  BY DEF AlphaInv, AlphaTypeOK, DeliveryOK, Delivers
<1>5. dropped = 0 /\ NothingLost /\ Framed /\ script \in Scripts
  BY <1>2, <1>3, <1>4, LossKept DEF FramingInv
<1>6. NothingLost'
  BY <1>1, <1>2, <1>3, <1>4, <1>5, NothingLostStep
<1>7. Passed \in Nat
  BY <1>4, LenProperties DEF Passed, AlphaTypeOK
<1>8. CASE StoreByte
  BY <1>4, <1>5, <1>6, <1>7, <1>8, StoreFramed
<1>9. CASE SendFrame
  BY <1>4, <1>5, <1>6, <1>9, SendFramed
<1>10. CASE ~StoreByte /\ ~SendFrame
  <2>1. UNCHANGED <<done, index, len, pkg, accepted, rejected>>
    BY <1>10 DEF AlphaNext, AlphaSend, Interrupt, Receiver, Parser, Fetch, FinishSend, StartParser,
                 ParserRecv, ParserContinue, Dispatch, alphaVars, framer, trace
  <2>2. out' = out
    BY <1>10 DEF AlphaNext, AlphaSend, Interrupt, Receiver, Parser, Fetch, FinishSend, StartParser,
                 ParserRecv, ParserContinue, Dispatch, alphaVars, vars, reader, ChipSend, Isr, Boot,
                 IsrGetc, IsrIndicate, SetRxIndicate, StartReader, ReadByte, SemTake
  <2>3. at' = at \/ (at = "sending" /\ at' \in {"rx", "sending"})
    BY <1>10 DEF AlphaNext, AlphaSend, Interrupt, Receiver, Parser, Fetch, FinishSend, StartParser,
                 ParserRecv, ParserContinue, Dispatch, alphaVars, framer
  <2>4. QED BY <1>1, <1>5, <1>6, <2>1, <2>2, <2>3, FramedAside
<1>11. QED BY <1>8, <1>9, <1>10

LEMMA FramingInit == AlphaInit => FramingInv
<1> SUFFICES ASSUME AlphaInit PROVE FramingInv
  OBVIOUS
<1>1. /\ script \in Scripts /\ line = Wire /\ rdr = NoByte /\ pc = "off" /\ out = <<>>
      /\ at = "rx" /\ done = TRUE /\ accepted = <<>> /\ rejected = 0
      /\ RxLength = 0
  BY DEF AlphaInit, Init, Wire, RxLength
<1>2. Taken = <<>> /\ Fetched = <<>> /\ Content = <<>>
  BY <1>1 DEF Taken, Fetched, Content
<1>3. NothingLost
  <2>1. PICK w \in Seq(Byte) : w = Wire
    BY <1>1, WireFacts
  <2>2. <<>> \o w = w /\ <<>> \o <<>> = <<>>
    BY <2>1, EmptySeq, ConcatEmptySeq
  <2>3. QED BY <1>1, <1>2, <2>1, <2>2 DEF NothingLost
<1>4. Framed
  <2>1. Passed = 0
    BY <1>1 DEF Passed
  <2>2. Sent[0] = <<>> /\ Len(script) \in Nat
    BY <1>1, WireFacts, ScriptFacts
  <2>3. QED BY <1>1, <2>1, <2>2 DEF Framed
<1>5. QED BY <1>1, <1>3, <1>4 DEF FramingInv

(* The framing invariant needs that of the receive path.                   *)
THEOREM FramingInvariant == AlphaSpec => []FramingInv
BY FramingInit, FramingStep, AlphaInvariant, PTL DEF AlphaSpec

(* While the wire loses no byte the framer cuts the stream into exactly    *)
(* the payloads the chip sent, and never stores a byte beyond              *)
(* rx_frame_pkg, for every script of frames that fit.                      *)
THEOREM FramesExact == AlphaSpec => []FramingExact
<1>1. ASSUME AlphaInv, FramingInv, dropped = 0
      PROVE  /\ at # "undefined"
             /\ Len(accepted) + rejected <= Len(script)
             /\ rejected = 0 => IsPrefix(accepted, script)
             /\ at = "send" => Payload = script[Len(accepted) + rejected + 1]
  <2>1. /\ AlphaTypeOK /\ FramerOK /\ accepted \in Seq(Payloads) /\ script \in Scripts /\ Framed
    BY <1>1 DEF AlphaInv, DeliveryOK, Delivers, FramingInv
  <2>2. Passed \in Nat /\ Len(accepted) \in Nat
    BY <2>1, LenProperties DEF Passed, AlphaTypeOK
  <2>3. at = "send" => Payload = script[Passed + 1]
    BY <2>1, <2>2, FrameSent
  <2>4. ASSUME rejected = 0 PROVE IsPrefix(accepted, script)
    <3>1. PICK n : n = Len(accepted)
      OBVIOUS
    <3>2. n \in Nat /\ n <= Len(script) /\ \A i \in 1..n : accepted[i] = script[i]
      BY <2>1, <2>2, <2>4, <3>1 DEF Framed, Passed
    <3>3. SubSeq(accepted, 1, n) = SubSeq(script, 1, n)
      <4>1. /\ SubSeq(accepted, 1, n) = [i \in 1..n |-> accepted[i]]
            /\ SubSeq(script, 1, n) = [i \in 1..n |-> script[i]]
        BY <2>1, <3>1, <3>2, ScriptFacts
      <4>2. QED BY <3>2, <4>1
    <3>4. QED BY <3>1, <3>2, <3>3 DEF IsPrefix
  <2>5. QED BY <2>1, <2>3, <2>4 DEF Framed, Passed
<1>2. AlphaInv /\ FramingInv => FramingExact
  BY <1>1 DEF FramingExact
<1>3. QED BY <1>2, AlphaInvariant, FramingInvariant, PTL

(* A frame is lost on its way to the parsing thread only when that thread  *)
(* is a full queue behind.                                                 *)
THEOREM RejectedFull == AlphaSpec => RejectedOnlyWhenFull
<1>1. ASSUME AlphaInv, FramingInv, AlphaNext, dropped = 0, rejected' > rejected
      PROVE  Len(accepted) - Len(handled) >= MaxMsgs
  <2>1. /\ AlphaTypeOK /\ FramerOK /\ Ipc!MqInv /\ RxCalls /\ ParserCalls /\ DeliveryOK
        /\ script \in Scripts /\ Framed
    BY <1>1 DEF AlphaInv, FramingInv
  <2>2. rejected \in Nat /\ accepted \in Seq(Payloads) /\ handled \in Seq(Mq!Words)
    BY <2>1 DEF AlphaTypeOK, DeliveryOK, Delivers
  <2>3. SendFrame /\ rejected' = rejected + 1
    BY <1>1, <2>2 DEF AlphaNext, AlphaSend, Interrupt, Receiver, Parser, Fetch, StoreByte,
       SendFrame, FinishSend, StartParser, ParserRecv, ParserContinue, Dispatch, trace
  <2>4. at = "send"
    BY <2>3 DEF SendFrame
  <2>5. len <= MsgSize
    <3>1. Passed \in Nat
      BY <2>1, <2>2, LenProperties DEF Passed
    <3>2. Passed + 1 \in 1..Len(script) /\ len = Len(script[Passed + 1])
      BY <2>1, <2>4, <3>1, FrameSent
    <3>3. QED BY <2>1, <3>2, ScriptFacts
  <2>6. Mq!SendWait(RxThread, Payload, "none") /\ mq_pc'[RxThread] = "idle"
    <3>1. ~(len > MsgSize)
      BY <2>1, <2>5, ScriptFacts DEF AlphaTypeOK
    <3>2. QED BY <2>2, <2>3, <3>1 DEF SendFrame
  <2>7. mq_free = NULL
    BY <2>1, <2>4, <2>6, ReserveStep
  <2>8. mq_msg[RxThread] = NULL /\ (mq_msg[ParserThread] = NULL \/ Count(InHand) = 1)
    <3>1. \A t \in {RxThread, ParserThread} : mq_msg[t] # NULL <=> mq_pc[t] \in Ipc!Holding
      BY <2>1, Threads DEF Ipc!MqInv, Ipc!MqCalls
    <3>2. mq_pc[RxThread] = "idle"
      BY <2>1, <2>4 DEF RxCalls
    <3>3. mq_pc[ParserThread] \in Ipc!Holding => mq_pc[ParserThread] \in {"recv_copy", "recv_free"}
      BY <2>1 DEF ParserCalls, Ipc!Holding
    <3>4. QED BY <3>1, <3>2, <3>3 DEF Ipc!Holding, InHand, Count
  <2>9. MaxMsgs <= Len(Queued) + (IF mq_msg[ParserThread] = NULL THEN 0 ELSE 1)
    <3>1. \A u \in Ipc!Threads \ {ParserThread} : mq_msg[u] = NULL
      BY <2>8, Threads
    <3>2. QED BY <2>1, <2>7, <3>1, Ipc!FullQueue, Threads, Assumed DEF Queued
  <2>10. Len(Queued) \in Nat /\ Len(handled) \in Nat /\ Len(accepted) \in Nat /\ MaxMsgs \in Nat
    BY <2>1, <2>2, Typed, LenProperties, AlphaAssumption
  <2>11. Count(InHand) \in 0..1 /\ Count(Linking) = 0
    BY <2>4 DEF Count, Linking
  <2>12. Len(accepted) = Len(handled) + Count(InHand) + Len(Queued) + Count(Linking)
    BY <2>1 DEF DeliveryOK, Delivers
  <2>13. MaxMsgs <= Len(Queued) + Count(InHand)
    BY <2>8, <2>9, <2>10, <2>11
  <2>14. QED BY <2>10, <2>11, <2>12, <2>13
<1>2. AlphaInv /\ FramingInv /\ [AlphaNext]_alphaVars =>
         [dropped = 0 /\ rejected' > rejected => Len(accepted) - Len(handled) >= MaxMsgs]_alphaVars
  BY <1>1
<1>3. QED BY <1>2, AlphaInvariant, FramingInvariant, PTL DEF AlphaSpec, RejectedOnlyWhenFull
=============================================================================
