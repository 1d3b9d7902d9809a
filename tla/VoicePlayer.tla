---------------------------- MODULE VoicePlayer ----------------------------
(***************************************************************************)
(* Playing one voice clip from flash (fun_handler/voice_handler.c over     *)
(* i2s_dma.c): play_voice_start fills two buffers and starts a double-     *)
(* buffered, circular DMA to I2S; each transfer-complete interrupt refills *)
(* the buffer just played, and the last one stops the DMA.  The software   *)
(* follows the hardware's buffer switch only by counting interrupts        *)
(* (m_using_mem_buff); it never reads the stream's CT bit.                 *)
(*                                                                         *)
(* The unit of data is the DMA's half-word; sample i of a clip is the      *)
(* number i, and 0 is silence.                                             *)
(***************************************************************************)
EXTENDS Integers, Sequences

CONSTANTS
    BufLen,     \* I2S_BUFF_SIZE in half-words: 512
    MaxSize,    \* the greatest size of a clip
    Sizes       \* the clip sizes (m_voice_head.info[].size) in half-words

(* A clip of size 0 would program a transfer of 0 items, which never ends. *)
ASSUME VoiceAssumption ==
    BufLen \in Nat \ {0} /\ MaxSize \in Nat /\ Sizes \subseteq 1..MaxSize

VARIABLES
    size,       \* m_voice_param.voice_total_size
    remain,     \* m_voice_param.voice_remain_size
    using,      \* m_using_mem_buff: 0 or 1, the buffer to refill; 2, to stop
    buf,        \* m_i2s_buffer0 and m_i2s_buffer1
    stop_flag,  \* m_i2s_stop_flag
    en, ct, ndtr, pos, tc,  \* the stream: EN, CT, NDTR as programmed, items
                            \* done of this buffer, TCIF
    phase,      \* "ready", "playing" or "stopped"
    failed,     \* history: a flash read has failed
    heard       \* history: the samples sent to the codec, the first HeardMax

stream == <<en, ct, ndtr, pos, tc>>
vars   == <<size, remain, using, buf, stop_flag, stream, phase, failed, heard>>

Samples  == 0..MaxSize
HeardMax == MaxSize + 2 * BufLen        \* more than is heard of any clip

TypeOK ==
    /\ size \in Sizes
    /\ remain \in 0..size
    /\ using \in {0, 1, 2}
    /\ buf \in [{0, 1} -> [1..BufLen -> Samples]]
    /\ {stop_flag, en, tc, failed} \subseteq BOOLEAN
    /\ ct \in {0, 1}
    /\ ndtr \in 1..BufLen
    /\ pos \in 0..ndtr-1
    /\ phase \in {"ready", "playing", "stopped"}
    /\ heard \in Seq(Samples)

Silence == [b \in {0, 1} |-> [i \in 1..BufLen |-> 0]]

(* voice_handler_init: the stream is configured, and disabled again.       *)
Init ==
    /\ size \in Sizes
    /\ remain = 0
    /\ using = 0
    /\ buf = Silence
    /\ stop_flag = FALSE
    /\ en = FALSE /\ ct = 0 /\ ndtr = BufLen /\ pos = 0 /\ tc = FALSE
    /\ phase = "ready"
    /\ failed = FALSE
    /\ heard = <<>>

-----------------------------------------------------------------------------
(* w25qxx_read of n half-words of the clip from offset off into word; the  *)
(* callers go on in the same way when it fails.                            *)
Load(word, off, n, ok) ==
    [i \in 1..BufLen |-> IF ok /\ i <= n THEN off + i ELSE word[i]]

(* dma_transmit_datalength: the NDTR register ignores a write while the    *)
(* stream is enabled.                                                      *)
SetLength(n) == ndtr' = IF en THEN ndtr ELSE n

AtMostBuf(n) == IF n < BufLen THEN n ELSE BufLen

(* The reads of play_voice_start: of the first chunk and, from BufLen on,  *)
(* of the second (as much as there is); ok[b] says whether each succeeds.  *)
Fill ==
    \E ok \in [{0, 1} -> BOOLEAN] :
        /\ buf' = [b \in {0, 1} |->
                      Load(buf[b], BufLen * b, size - BufLen * b, ok[b])]
        /\ failed' = \E b \in {0, 1} : size > BufLen * b /\ ~ok[b]

(* Mutant: the second chunk still counts as to be read.                    *)
RemainAfterFillFirst == IF size <= BufLen THEN 0 ELSE size - BufLen

RemainAfterFill == IF size <= 2 * BufLen THEN 0 ELSE size - 2 * BufLen

(* play_voice_start: fill one buffer or both, then enable the stream.      *)
PlayStart ==
    /\ phase = "ready" /\ phase' = "playing"
    /\ Fill
    /\ remain' = RemainAfterFill
    /\ using' = IF size < BufLen THEN 2 ELSE 0
    /\ SetLength(AtMostBuf(size))
    /\ en' = TRUE /\ stop_flag' = FALSE
    /\ UNCHANGED <<size, ct, pos, tc, heard>>

(* The stream moves one item; after the last of a buffer it raises TCIF,   *)
(* switches to the other buffer and goes on.  The interrupt (priority 0)   *)
(* is served before the next buffer ends.                                  *)
Transfer ==
    /\ en
    /\ tc => pos + 1 < ndtr
    /\ heard' = IF Len(heard) < HeardMax THEN Append(heard, buf[ct][pos + 1])
                                         ELSE heard
    /\ IF pos + 1 = ndtr
       THEN pos' = 0 /\ ct' = 1 - ct /\ tc' = TRUE
       ELSE pos' = pos + 1 /\ UNCHANGED <<ct, tc>>
    /\ UNCHANGED <<size, remain, using, buf, stop_flag, en, ndtr, phase, failed>>

(* Mutants: the buffer refilled does not alternate; nothing arranges for   *)
(* the stop.                                                               *)
NextUsingStuck(b) == IF remain' = 0 THEN 2 ELSE b

NextUsingNoStop(b) == 1 - b

(* m_using_mem_buff after buffer b is refilled.                            *)
NextUsing(b) == IF remain' = 0 THEN 2 ELSE 1 - b

(* i2s_dma_finish_handler, first two branches: refill buffer b.            *)
Refill(b) ==
    /\ using = b
    /\ \E ok \in BOOLEAN :
        /\ buf' = [buf EXCEPT ![b] = Load(@, size - remain, AtMostBuf(remain), ok)]
        /\ failed' = (failed \/ (remain > 0 /\ ~ok))
    /\ remain' = remain - AtMostBuf(remain)
    /\ IF remain < BufLen THEN SetLength(remain) ELSE UNCHANGED ndtr
    /\ using' = NextUsing(b)
    /\ tc' = FALSE
    /\ UNCHANGED <<stop_flag, en, ct, pos, phase>>

(* Its last branch: i2s_play_stop, and both buffers are cleared.  Clearing *)
(* EN makes the hardware raise TCIF once more.                             *)
Stop ==
    /\ using = 2
    /\ stop_flag' = TRUE
    /\ en' = FALSE
    /\ tc' \in BOOLEAN
    /\ buf' = Silence
    /\ phase' = "stopped"
    /\ UNCHANGED <<remain, using, ct, ndtr, pos, failed>>

(* DMA1_Stream4_IRQHandler.                                                *)
Interrupt ==
    /\ tc
    /\ IF stop_flag
       THEN tc' = FALSE /\ UNCHANGED <<remain, using, buf, stop_flag, en, ct, ndtr,
                                       pos, phase, failed>>
       ELSE Refill(0) \/ Refill(1) \/ Stop
    /\ UNCHANGED <<size, heard>>

Next == PlayStart \/ Transfer \/ Interrupt

Spec == Init /\ [][Next]_vars

(* The stream is clocked by I2S, and its interrupt is served.              *)
FairSpec == Spec /\ WF_vars(Transfer) /\ WF_vars(Interrupt)

-----------------------------------------------------------------------------
(* The software's count stays in step with the hardware's switch: while    *)
(* the stream runs, no buffer is written that the stream is reading.       *)
NoTornRefill == [][en /\ en' => buf'[ct] = buf[ct]]_vars

(* How much of a clip is surely heard when the stream stops: all of it if  *)
(* the buffers held it from the start, else all but its last chunk.        *)
Heard == IF size <= 2 * BufLen THEN size ELSE ((size - 1) \div BufLen) * BufLen

(* The clip is heard in order from its first sample, unless a flash read   *)
(* fails: no chunk is repeated, skipped or heard half refilled; and that   *)
(* much of it.  The variables keep their types.                            *)
PlayedInOrder ==
    /\ TypeOK
    /\ ~failed => \A i \in 1..Len(heard) : i <= size => heard[i] = i
    /\ phase = "stopped" => Len(heard) >= Heard

(* A clip that starts comes to an end, and the interrupt is quiet then.    *)
PlayEnds == (phase = "playing") ~> [](phase = "stopped" /\ ~en)

(* What the comment says at the assignment m_using_mem_buff = 2, "nothing  *)
(* is left; the next one can stop i2s_dma": when the stream is stopped the *)
(* clip has been sent to its end.  The code stops when the last chunk it   *)
(* read into a buffer is about to be played.                               *)
StoppedWhenPlayed == ~failed /\ phase = "stopped" => Len(heard) >= size
=============================================================================
