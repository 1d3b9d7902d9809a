------------------------- MODULE VoicePlayer_proofs -------------------------
(***************************************************************************)
(* Proofs about VoicePlayer, for every buffer length and every clip: the   *)
(* software's count stays in step with the hardware's switch, the clip is  *)
(* heard in order, and how much of it is heard.                            *)
(***************************************************************************)
EXTENDS VoicePlayer, SequenceTheorems, TLAPS

(* What has been heard before the buffer that is being played, and what    *)
(* has been read from flash.                                               *)
Base   == Len(heard) - pos
Loaded == size - remain

Lesser(a, b) == IF a < b THEN a ELSE b

Phases ==
    /\ en <=> phase = "playing"
    /\ stop_flag <=> phase = "stopped"
    /\ phase = "ready" => ct = 0 /\ ~tc /\ pos = 0 /\ heard = <<>> /\ ndtr = BufLen

(* The buffer to refill is the one that is being played, until it ends; by *)
(* then two buffers' worth has been read, or the clip.                     *)
InStep ==
    en => /\ using # 2 => using = IF tc THEN 1 - ct ELSE ct
          /\ using = 2 => remain = 0
          /\ ndtr = AtMostBuf(size)
          /\ Loaded = Lesser(size, Base + IF tc THEN BufLen ELSE 2 * BufLen)

(* How far the player gets, at least and at most.                          *)
Extent ==
    en => /\ IF size < BufLen
             THEN using = 2 /\ Base = (IF tc THEN size ELSE 0)
             ELSE Base >= (IF using = 2 THEN BufLen ELSE 0) + (IF tc THEN BufLen ELSE 0)
          /\ using # 2 /\ ~tc => Base = 0 \/ Base + 2 * BufLen < size
          /\ Base <= size + IF using = 2 /\ tc THEN BufLen ELSE 0

(* A clip longer than a buffer is played in whole buffers.                 *)
Whole == en /\ size >= BufLen => \E k \in Nat : Base = k * BufLen

(* The buffers hold the clip from Base on, as far as it goes.              *)
Contents ==
    en /\ ~failed => \A i \in 1..BufLen :
        /\ Base + i <= size => buf[ct][i] = Base + i
        /\ ~tc /\ Base + BufLen + i <= size => buf[1 - ct][i] = Base + BufLen + i

InOrder == ~failed => \A i \in 1..Len(heard) : i <= size => heard[i] = i
Enough  == phase = "stopped" => Len(heard) >= Heard

IInv == TypeOK /\ Phases /\ InStep /\ Extent /\ Whole /\ Contents /\ InOrder /\ Enough

(* The numbers the invariant speaks of.                                    *)
LEMMA Numbers ==
    ASSUME TypeOK
    PROVE  /\ BufLen \in Nat /\ BufLen > 0 /\ MaxSize \in Nat
           /\ size \in Nat /\ size > 0 /\ size <= MaxSize
           /\ remain \in Nat /\ remain <= size
           /\ ndtr \in Nat /\ ndtr <= BufLen /\ pos \in Nat /\ pos < ndtr
           /\ Len(heard) \in Nat /\ Base \in Int
           /\ ct \in {0, 1} /\ using \in {0, 1, 2}
<1>1. Len(heard) \in Nat
  BY LenProperties DEF TypeOK
<1>2. QED BY <1>1, VoiceAssumption DEF TypeOK, Base

(* A read of n samples from offset off puts them where they belong, if it  *)
(* succeeds, and leaves the rest of the buffer alone.                      *)
LEMMA LoadWord ==
    ASSUME NEW w \in [1..BufLen -> Samples], NEW off \in Nat, NEW n \in Int,
           NEW ok \in BOOLEAN, n <= BufLen, n > 0 => off + n <= MaxSize
    PROVE  /\ Load(w, off, n, ok) \in [1..BufLen -> Samples]
           /\ \A i \in 1..BufLen : Load(w, off, n, ok)[i] =
                                     IF ok /\ i <= n THEN off + i ELSE w[i]
BY VoiceAssumption DEF Load, Samples

LEMMA InitHolds == Init => IInv
<1> SUFFICES ASSUME Init PROVE IInv
  OBVIOUS
<1> USE VoiceAssumption DEF Init
<1>1. TypeOK
  <2>1. heard \in Seq(Samples)
    BY EmptySeq
  <2>2. buf \in [{0, 1} -> [1..BufLen -> Samples]]
    BY DEF Silence, Samples
  <2>3. {stop_flag, en, tc, failed} \subseteq BOOLEAN
    OBVIOUS
  <2>4. /\ size \in Sizes /\ remain \in 0..size /\ using \in {0, 1, 2} /\ ct \in {0, 1}
        /\ ndtr \in 1..BufLen /\ pos \in 0..ndtr-1
        /\ phase \in {"ready", "playing", "stopped"}
    OBVIOUS
  <2>5. QED BY <2>1, <2>2, <2>3, <2>4 DEF TypeOK
<1>2. InOrder /\ Enough
  BY DEF InOrder, Enough
<1>3. Phases
  BY DEF Phases
<1>4. InStep /\ Extent /\ Whole /\ Contents
  BY DEF InStep, Extent, Whole, Contents
<1>5. QED BY <1>1, <1>2, <1>3, <1>4 DEF IInv

-----------------------------------------------------------------------------
(* play_voice_start establishes the invariant of playing.                  *)
LEMMA PlayStartStep ==
    ASSUME IInv, PlayStart
    PROVE  IInv'
<1> USE DEF PlayStart, IInv
<1>1. /\ phase = "ready" /\ ~en /\ ~stop_flag /\ ct = 0 /\ ~tc /\ pos = 0
      /\ heard = <<>> /\ Len(heard) = 0 /\ ndtr = BufLen
  BY DEF Phases
<1>2. /\ BufLen \in Nat /\ BufLen > 0 /\ size \in Nat /\ size > 0 /\ size <= MaxSize
      /\ MaxSize \in Nat
  BY Numbers
<1>3. PICK ok \in [{0, 1} -> BOOLEAN] :
         /\ buf' = [b \in {0, 1} |-> Load(buf[b], BufLen * b, size - BufLen * b, ok[b])]
         /\ failed' = \E b \in {0, 1} : size > BufLen * b /\ ~ok[b]
  BY DEF Fill
<1>4. /\ buf'[0] = [i \in 1..BufLen |-> IF ok[0] /\ i <= size THEN i ELSE buf[0][i]]
      /\ buf'[1] = [i \in 1..BufLen |-> IF ok[1] /\ i <= size - BufLen
                                        THEN BufLen + i ELSE buf[1][i]]
  BY <1>2, <1>3 DEF Load
<1>5. buf' \in [{0, 1} -> [1..BufLen -> Samples]]
  <2>1. buf[0] \in [1..BufLen -> Samples] /\ buf[1] \in [1..BufLen -> Samples]
    BY DEF TypeOK
  <2>2. buf'[0] \in [1..BufLen -> Samples] /\ buf'[1] \in [1..BufLen -> Samples]
    BY <1>2, <1>4, <2>1 DEF Samples
  <2>3. QED BY <1>3, <2>2
<1>6. ndtr' = AtMostBuf(size)
  BY <1>1 DEF SetLength
<1>7. TypeOK'
  <2>1. failed' \in BOOLEAN /\ tc' = FALSE /\ en' = TRUE /\ stop_flag' = FALSE
    BY <1>1, <1>3
  <2>2. {stop_flag, en, tc, failed}' \subseteq BOOLEAN
    BY <2>1
  <2>3. /\ remain' \in 0..size' /\ using' \in {0, 1, 2} /\ ct' \in {0, 1}
        /\ ndtr' \in 1..BufLen /\ pos' \in 0..ndtr'-1
    BY <1>1, <1>2, <1>6 DEF RemainAfterFill, AtMostBuf
  <2>4. size' \in Sizes /\ heard' \in Seq(Samples) /\ phase' = "playing"
    BY DEF TypeOK
  <2>5. QED BY <1>5, <2>2, <2>3, <2>4 DEF TypeOK
<1>8. Phases'
  <2>1. en' = TRUE /\ phase' = "playing" /\ stop_flag' = FALSE
    OBVIOUS
  <2>2. QED BY <2>1 DEF Phases
<1>9. /\ Base' = 0
      /\ Loaded' = Lesser(size, 2 * BufLen)
  BY <1>1, <1>2 DEF Base, Loaded, Lesser, RemainAfterFill
<1>10. InStep' /\ Extent'
  BY <1>1, <1>2, <1>6, <1>9 DEF InStep, Extent, RemainAfterFill, Lesser
<1>11. Whole'
  BY <1>2, <1>9 DEF Whole
<1>12. Contents'
  <2>1. ASSUME ~failed' PROVE ok[0] /\ (size > BufLen => ok[1])
    BY <2>1, <1>2, <1>3
  <2>2. QED BY <1>1, <1>2, <1>4, <1>9, <2>1 DEF Contents
<1>13. InOrder' /\ Enough'
  BY <1>1 DEF InOrder, Enough
<1>14. QED BY <1>7, <1>8, <1>10, <1>11, <1>12, <1>13
-----------------------------------------------------------------------------
(* The stream moves an item.                                               *)
LEMMA TransferStep ==
    ASSUME IInv, Transfer
    PROVE  IInv'
<1> USE DEF Transfer, IInv
<1>1. /\ BufLen \in Nat /\ BufLen > 0 /\ MaxSize \in Nat
      /\ size \in Nat /\ size > 0 /\ size <= MaxSize
      /\ remain \in Nat /\ remain <= size
      /\ ndtr \in Nat /\ ndtr <= BufLen /\ pos \in Nat /\ pos < ndtr
      /\ Len(heard) \in Nat /\ Base \in Int
      /\ ct \in {0, 1} /\ using \in {0, 1, 2}
  BY Numbers
<1>2. /\ en /\ phase = "playing" /\ ~stop_flag
  BY DEF Phases
<1>3. Base <= size + BufLen
  BY <1>1, <1>2 DEF Extent
<1>4. Len(heard) = Base + pos /\ Len(heard) < HeardMax
  BY <1>1, <1>3 DEF Base, HeardMax
<1>5. /\ heard \in Seq(Samples) /\ buf[ct][pos + 1] \in Samples /\ pos + 1 \in 1..BufLen
  BY <1>1 DEF TypeOK
<1>6. /\ heard' = Append(heard, buf[ct][pos + 1]) /\ heard' \in Seq(Samples)
      /\ Len(heard') = Len(heard) + 1
      /\ \A i \in 1..Len(heard) : heard'[i] = heard[i]
      /\ heard'[Len(heard) + 1] = buf[ct][pos + 1]
  BY <1>4, <1>5, AppendProperties
<1>7. TypeOK'
  <2>1. {stop_flag, en, tc, failed}' \subseteq BOOLEAN
    BY DEF TypeOK
  <2>2. ct' \in {0, 1} /\ pos' \in 0..ndtr'-1
    BY <1>1
  <2>3. QED BY <1>6, <2>1, <2>2 DEF TypeOK
<1>8. Phases' /\ Enough'
  <2>1. en' /\ phase' = "playing" /\ ~stop_flag'
    BY <1>2
  <2>2. QED BY <2>1 DEF Phases, Enough
<1>9. InOrder'
  <2>1. SUFFICES ASSUME ~failed, NEW i \in 1..Len(heard'), i <= size PROVE heard'[i] = i
    BY DEF InOrder
  <2>2. CASE i \in 1..Len(heard)
    BY <2>1, <2>2, <1>6 DEF InOrder
  <2>3. CASE i = Len(heard) + 1
    <3>1. i = Base + (pos + 1)
      BY <1>1, <1>4, <2>3
    <3>2. buf[ct][pos + 1] = i
      BY <1>2, <1>5, <2>1, <3>1 DEF Contents
    <3>3. QED BY <1>6, <2>3, <3>2
  <2>4. QED BY <1>1, <1>6, <2>2, <2>3
<1>10. CASE pos + 1 # ndtr
  <2>1. Base' = Base /\ Loaded' = Loaded
    BY <1>1, <1>4, <1>6, <1>10 DEF Base, Loaded
  <2>2. InStep'
    BY <1>10, <2>1 DEF InStep, AtMostBuf, Lesser
  <2>3. Extent' /\ Whole' /\ Contents'
    BY <1>10, <2>1 DEF Extent, Whole, Contents
  <2>4. QED BY <1>7, <1>8, <1>9, <2>2, <2>3
<1>11. CASE pos + 1 = ndtr
  <2>1. ~tc /\ tc' /\ ct' = 1 - ct /\ ct' \in {0, 1} /\ 1 - ct' = ct
    BY <1>1, <1>11
  <2>2. Base' = Base + ndtr /\ Loaded' = Loaded
    BY <1>1, <1>4, <1>6, <1>11 DEF Base, Loaded
  <2>3. ndtr = IF size < BufLen THEN size ELSE BufLen
    BY <1>2 DEF InStep, AtMostBuf
  <2>4. size < BufLen => Base = 0
    BY <1>2, <2>1 DEF Extent
  <2>5. Base >= 0
    BY <1>1, <1>2, <2>1 DEF Extent
  <2>6. InStep'
    <3>1. Loaded = Lesser(size, Base + 2 * BufLen)
      BY <1>2, <2>1 DEF InStep
    <3>2. Loaded' = Lesser(size, Base' + BufLen)
      BY <1>1, <2>2, <2>3, <2>4, <3>1 DEF Lesser
    <3>3. QED BY <1>2, <2>1, <3>2 DEF InStep, AtMostBuf
  <2>7. Extent'
    BY <1>1, <1>2, <2>1, <2>2, <2>3, <2>4 DEF Extent
  <2>8. Whole'
    <3>1. SUFFICES ASSUME size >= BufLen PROVE \E k \in Nat : Base' = k * BufLen
      BY DEF Whole
    <3>2. PICK k \in Nat : Base = k * BufLen
      BY <1>2, <3>1 DEF Whole
    <3>3. Base' = (k + 1) * BufLen
      BY <1>1, <2>2, <2>3, <3>1, <3>2
    <3>4. QED BY <3>3
  <2>9. Contents'
    <3>1. SUFFICES ASSUME ~failed, NEW i \in 1..BufLen, Base' + i <= size
                   PROVE  buf[ct'][i] = Base' + i
      BY <2>1 DEF Contents
    <3>2. size >= BufLen /\ Base' = Base + BufLen
      BY <1>1, <2>2, <2>3, <2>4, <3>1
    <3>3. QED BY <1>1, <1>2, <2>1, <3>1, <3>2 DEF Contents
  <2>10. QED BY <1>7, <1>8, <1>9, <2>6, <2>7, <2>8, <2>9
<1>12. QED BY <1>10, <1>11

-----------------------------------------------------------------------------
(* The interrupt refills the buffer that has been played.                  *)
LEMMA RefillStep ==
    ASSUME IInv, tc, ~stop_flag, NEW b \in {0, 1}, Refill(b), UNCHANGED <<size, heard>>
    PROVE  IInv' /\ (en /\ en' => buf'[ct] = buf[ct])
<1> USE DEF IInv
<1>1. /\ BufLen \in Nat /\ BufLen > 0 /\ MaxSize \in Nat
      /\ size \in Nat /\ size > 0 /\ size <= MaxSize
      /\ remain \in Nat /\ remain <= size
      /\ ndtr \in Nat /\ ndtr <= BufLen /\ pos \in Nat /\ pos < ndtr
      /\ Len(heard) \in Nat /\ Base \in Int
      /\ ct \in {0, 1} /\ using \in {0, 1, 2}
  BY Numbers
<1>2. en /\ phase = "playing"
  BY DEF Phases, TypeOK
<1>3. using = b /\ using # 2 /\ b = 1 - ct /\ b # ct /\ ~tc' /\ ct' = ct /\ en' = en
  BY <1>1, <1>2 DEF Refill, InStep
<1>4. Base' = Base /\ size' = size /\ heard' = heard
  BY DEF Refill, Base
<1>5. /\ size >= BufLen /\ Base >= BufLen /\ Base <= size
      /\ Loaded = Lesser(size, Base + BufLen)
  BY <1>1, <1>2, <1>3 DEF Extent, InStep
<1>6. ndtr' = ndtr
  BY <1>2 DEF Refill, SetLength
<1>7. remain' = remain - AtMostBuf(remain) /\ remain' \in 0..size
  BY <1>1 DEF Refill, AtMostBuf
<1>8. Loaded' = Lesser(size, Base + 2 * BufLen)
  BY <1>1, <1>4, <1>5, <1>7 DEF Loaded, Lesser, AtMostBuf
<1>9. using' = IF remain' = 0 THEN 2 ELSE 1 - b
  BY DEF Refill, NextUsing
<1>10. PICK ok \in BOOLEAN :
          /\ buf' = [buf EXCEPT ![b] = Load(@, size - remain, AtMostBuf(remain), ok)]
          /\ failed' = (failed \/ (remain > 0 /\ ~ok))
  BY DEF Refill
<1>11. /\ Load(buf[b], Loaded, AtMostBuf(remain), ok) \in [1..BufLen -> Samples]
       /\ \A i \in 1..BufLen : Load(buf[b], Loaded, AtMostBuf(remain), ok)[i] =
              IF ok /\ i <= AtMostBuf(remain) THEN Loaded + i ELSE buf[b][i]
  <2>1. /\ buf[b] \in [1..BufLen -> Samples]
        /\ Loaded \in Nat /\ AtMostBuf(remain) \in Int /\ AtMostBuf(remain) <= BufLen
        /\ Loaded + AtMostBuf(remain) <= MaxSize
    BY <1>1 DEF TypeOK, Loaded, AtMostBuf
  <2>2. QED BY <2>1, LoadWord
<1>12. /\ buf' \in [{0, 1} -> [1..BufLen -> Samples]]
       /\ buf'[ct] = buf[ct]
       /\ buf'[b] = Load(buf[b], Loaded, AtMostBuf(remain), ok)
  BY <1>1, <1>3, <1>10, <1>11 DEF TypeOK, Loaded
<1>13. TypeOK'
  <2>1. failed' \in BOOLEAN /\ stop_flag' = stop_flag /\ tc' = FALSE
    BY <1>10 DEF Refill, TypeOK
  <2>2. {stop_flag, en, tc, failed}' \subseteq BOOLEAN
    BY <1>3, <2>1 DEF TypeOK
  <2>3. using' \in {0, 1, 2} /\ pos' = pos /\ phase' = phase
    BY <1>9 DEF Refill
  <2>4. QED BY <1>3, <1>4, <1>6, <1>7, <1>12, <2>2, <2>3 DEF TypeOK
<1>14. Phases' /\ Enough'
  BY <1>2, <1>3 DEF Refill, Phases, Enough
<1>15. InStep'
  BY <1>1, <1>2, <1>3, <1>4, <1>6, <1>8, <1>9 DEF InStep, AtMostBuf
<1>16. Extent'
  <2>1. using' # 2 => Base + 2 * BufLen < size
    BY <1>1, <1>4, <1>7, <1>8, <1>9 DEF Loaded, Lesser
  <2>2. QED BY <1>1, <1>3, <1>4, <1>5, <1>9, <2>1 DEF Extent
<1>17. Whole'
  BY <1>2, <1>4, <1>5 DEF Whole
<1>18. Contents'
  <2>1. SUFFICES ASSUME ~failed', NEW i \in 1..BufLen
                 PROVE  /\ Base + i <= size => buf'[ct][i] = Base + i
                        /\ Base + BufLen + i <= size => buf'[b][i] = Base + BufLen + i
    BY <1>3, <1>4 DEF Contents
  <2>2. ~failed /\ (remain > 0 => ok)
    BY <1>1, <1>10, <2>1
  <2>3. Base + i <= size => buf'[ct][i] = Base + i
    BY <1>2, <1>12, <2>1, <2>2 DEF Contents
  <2>4. ASSUME Base + BufLen + i <= size PROVE buf'[b][i] = Base + BufLen + i
    <3>1. Loaded = Base + BufLen /\ i <= remain /\ remain > 0
      BY <1>1, <1>5, <2>4 DEF Loaded, Lesser
    <3>2. i <= AtMostBuf(remain)
      BY <1>1, <3>1 DEF AtMostBuf
    <3>3. QED BY <1>11, <1>12, <2>2, <3>1, <3>2
  <2>5. QED BY <2>3, <2>4
<1>19. InOrder'
  BY <1>4, <1>10 DEF InOrder
<1>20. QED BY <1>12, <1>13, <1>14, <1>15, <1>16, <1>17, <1>18, <1>19

-----------------------------------------------------------------------------
(* Whole buffers that reach within one buffer of the end hold all of the   *)
(* clip but its last chunk.                                                *)
LEMMA LastChunk ==
    ASSUME NEW n \in Nat, n > 0, NEW s \in Nat, s > 0, NEW k \in Nat, k * n + n >= s
    PROVE  ((s - 1) \div n) * n <= k * n
<1> DEFINE q == (s - 1) \div n
<1>1. q \in Int /\ q * n <= s - 1
  BY Z3
<1>2. q * n < (k + 1) * n
  BY <1>1
<1>3. q < k + 1
  <2>1. CASE q >= k + 1
    <3>1. (q - (k + 1)) * n >= 0
      BY <1>1, <2>1
    <3>2. QED BY <1>1, <1>2, <3>1
  <2>2. QED BY <1>1, <2>1
<1>4. (k - q) * n >= 0
  BY <1>1, <1>3
<1>5. QED BY <1>1, <1>4

(* The interrupt stops the stream.                                         *)
LEMMA StopStep ==
    ASSUME IInv, tc, ~stop_flag, Stop, UNCHANGED <<size, heard>>
    PROVE  IInv'
<1> USE DEF IInv, Stop
<1>1. /\ BufLen \in Nat /\ BufLen > 0 /\ MaxSize \in Nat
      /\ size \in Nat /\ size > 0 /\ size <= MaxSize
      /\ remain \in Nat /\ remain <= size
      /\ ndtr \in Nat /\ ndtr <= BufLen /\ pos \in Nat /\ pos < ndtr
      /\ Len(heard) \in Nat /\ Base \in Int
      /\ ct \in {0, 1} /\ using \in {0, 1, 2}
  BY Numbers
<1>2. en
  BY DEF Phases, TypeOK
<1>3. ~en' /\ stop_flag' /\ phase' = "stopped"
  OBVIOUS
<1>4. TypeOK'
  <2>1. {stop_flag, en, tc, failed}' \subseteq BOOLEAN
    BY DEF TypeOK
  <2>2. Silence \in [{0, 1} -> [1..BufLen -> Samples]]
    BY <1>1 DEF Silence, Samples
  <2>3. QED BY <2>1, <2>2 DEF TypeOK
<1>5. Phases' /\ InStep' /\ Extent' /\ Whole' /\ Contents' /\ InOrder'
  BY <1>3 DEF Phases, InStep, Extent, Whole, Contents, InOrder
<1>6. Base + BufLen >= size /\ Len(heard) >= Base
  BY <1>1, <1>2 DEF InStep, Loaded, Lesser, Base
<1>7. Enough'
  <2>1. CASE size <= 2 * BufLen
    BY <1>1, <1>2, <1>6, <2>1 DEF Extent, Enough, Heard
  <2>2. CASE size > 2 * BufLen
    <3>1. PICK k \in Nat : Base = k * BufLen
      BY <1>1, <1>2, <2>2 DEF Whole
    <3>2. ((size - 1) \div BufLen) * BufLen <= k * BufLen
      BY <1>1, <1>6, <3>1, LastChunk
    <3>3. Heard <= Base /\ Heard \in Int
      BY <1>1, <2>2, <3>1, <3>2 DEF Heard
    <3>4. Heard' = Heard /\ heard' = heard
      BY DEF Heard
    <3>5. QED BY <1>1, <1>6, <3>3, <3>4 DEF Enough
  <2>3. QED BY <1>1, <2>1, <2>2
<1>8. QED BY <1>4, <1>5, <1>7

(* A late interrupt after the stop changes nothing but its own flag.       *)
LEMMA IdleStep ==
    ASSUME IInv, stop_flag, tc' = FALSE, UNCHANGED <<size, remain, using, buf,
               stop_flag, en, ct, ndtr, pos, phase, failed, heard>>
    PROVE  IInv' /\ ~en
<1> USE DEF IInv
<1>1. ~en /\ ~en' /\ phase' = "stopped"
  BY DEF Phases
<1>2. TypeOK'
  BY DEF TypeOK
<1>3. Phases' /\ InStep' /\ Extent' /\ Whole' /\ Contents'
  BY <1>1 DEF Phases, InStep, Extent, Whole, Contents
<1>4. InOrder' /\ Enough'
  BY DEF InOrder, Enough, Heard
<1>5. QED BY <1>1, <1>2, <1>3, <1>4

-----------------------------------------------------------------------------
(* Every step keeps the invariant, and writes no buffer that is being read.*)
LEMMA Step ==
    ASSUME IInv, [Next]_vars
    PROVE  IInv' /\ (en /\ en' => buf'[ct] = buf[ct])
<1>1. CASE PlayStart
  <2>1. ~en
    BY <1>1 DEF PlayStart, IInv, Phases
  <2>2. QED BY <1>1, <2>1, PlayStartStep
<1>2. CASE Transfer
  BY <1>2, TransferStep DEF Transfer
<1>3. CASE Interrupt
  <2>1. CASE stop_flag
    BY <1>3, <2>1, IdleStep DEF Interrupt
  <2>2. CASE ~stop_flag
    <3>1. tc /\ UNCHANGED <<size, heard>> /\ (Refill(0) \/ Refill(1) \/ Stop)
      BY <1>3, <2>2 DEF Interrupt
    <3>2. CASE Refill(0)
      BY <2>2, <3>1, <3>2, RefillStep
    <3>3. CASE Refill(1)
      BY <2>2, <3>1, <3>3, RefillStep
    <3>4. CASE Stop
      <4>1. ~en'
        BY <3>4 DEF Stop
      <4>2. QED BY <2>2, <3>1, <3>4, <4>1, StopStep
    <3>5. QED BY <3>1, <3>2, <3>3, <3>4
  <2>3. QED BY <2>1, <2>2
<1>4. CASE UNCHANGED vars
  BY <1>4 DEF vars, stream, IInv, TypeOK, Phases, InStep, Extent, Whole, Contents,
              InOrder, Enough, Heard, Base, Loaded
<1>5. QED BY <1>1, <1>2, <1>3, <1>4 DEF Next

(* The inductive invariant of the player (i2s_dma_finish_handler).         *)
THEOREM Invariance == Spec => []IInv
<1>1. IInv /\ [Next]_vars => IInv'
  BY Step
<1>2. QED BY InitHolds, <1>1, PTL DEF Spec

(* The clip is heard in order from its first sample, and all of it but at  *)
(* most its last chunk: what i2s_dma_finish_handler achieves.              *)
THEOREM ClipInOrder == Spec => []PlayedInOrder
<1>1. IInv => PlayedInOrder
  BY DEF IInv, InOrder, Enough, PlayedInOrder
<1>2. QED BY Invariance, <1>1, PTL

(* i2s_dma_finish_handler, which counts interrupts and never reads CT,     *)
(* writes no buffer that the stream is reading.                            *)
THEOREM RefillsUntorn == Spec => NoTornRefill
<1>1. IInv /\ [Next]_vars => [en /\ en' => buf'[ct] = buf[ct]]_vars
  BY Step
<1>2. QED BY Invariance, <1>1, PTL DEF Spec, NoTornRefill
=============================================================================
