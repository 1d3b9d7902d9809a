------------------------------ MODULE AlphaRx ------------------------------
(***************************************************************************)
(* The alarm host's receive path for its "alpha" radio chip: UART3 and its *)
(* driver (SerialRx), the framer in uart3_rx_thread_entry, the message     *)
(* queue gp_alpha_rx_mq (RtMq) and the thread parsing_rx_alpha_data.       *)
(*                                                                         *)
(* A frame on the wire is a 16-bit little-endian length followed by that   *)
(* many payload bytes (alpha_pkg_to_ser_t).  There is no marker to         *)
(* resynchronise on.                                                       *)
(***************************************************************************)
EXTENDS SerialRx, SequencesExt

CONSTANTS
    MaxMsgs, MsgSize,   \* of gp_alpha_rx_mq: 20 messages of 128 bytes
    PkgSz,              \* size of rx_frame_pkg: 128
    Scripts,            \* the sequences of payloads the chip may send
    PacedScripts,       \* those it sends no faster than they are received
    NULL

(* The wire format of one payload, and of a script.                        *)
Encode(p)     == <<Len(p) % 256, Len(p) \div 256>> \o p
EncodeAll(ps) == FlattenSeq([i \in 1..Len(ps) |-> Encode(ps[i])])

(* alpha_pkg_to_ser_t: a payload has at least its two type bytes, and fits *)
(* rx_frame_pkg behind the length; an rt_uint8_t counts what is in there.  *)
ASSUME AlphaAssumption ==
    /\ MaxMsgs \in Nat \ {0} /\ MsgSize \in Nat \ {0} /\ PkgSz \in 2..255
    /\ NULL \notin 0..MaxMsgs-1
    /\ Scripts \subseteq Seq(Seq(Byte))
    /\ Streams = {EncodeAll(s) : s \in Scripts}
    /\ \A s \in Scripts : \A i \in 1..Len(s) :
          Len(s[i]) >= 2 /\ Len(s[i]) <= PkgSz - 2 /\ Len(s[i]) <= MsgSize

VARIABLES
    mq_next, mq_data, mq_head, mq_tail, mq_free, mq_entry,
    mq_receivers, mq_senders, mq_pc, mq_msg, mq_sent, mq_got, mq_wait,  \* RtMq
    at,             \* where the receive thread is: see AlphaTypeOK
    done,           \* rx_frame_pkg_done
    index,          \* rx_frame_pkg_index, an rt_uint8_t
    len,            \* frame_pkg_len, an rt_uint16_t
    pkg,            \* rx_frame_pkg
    parser,         \* the parsing thread: "off", "recv", "wait" or "dispatch"
    script,         \* the payloads the chip sends in this behaviour
    accepted,       \* history: payloads linked, or being linked, into the queue
    rejected,       \* history: frames rt_mq_send refused
    handled         \* history: buffers the parsing thread dispatched on

mqvars == <<mq_next, mq_data, mq_head, mq_tail, mq_free, mq_entry, mq_receivers,
            mq_senders, mq_pc, mq_msg, mq_sent, mq_got, mq_wait>>
framer == <<at, done, index, len, pkg>>
trace  == <<accepted, rejected, handled>>
alphaVars == <<vars, mqvars, framer, parser, script, trace>>

RxThread     == "alpha_rx_thread"
ParserThread == "parsing_alpha_data_thread"

Mq == INSTANCE RtMq WITH
    Senders   <- {RxThread},
    Receivers <- {ParserThread},
    Messages  <- {p \in Seq(Byte) : Len(p) \in 1..MsgSize},
    NoByte    <- 0,
    Flag      <- "FIFO",
    Prio      <- [t \in {RxThread, ParserThread} |-> IF t = RxThread THEN 3 ELSE 9]

Max16 == 65536

AlphaTypeOK ==
    /\ TypeOK
    /\ at \in {"rx",            \* in its read loop
               "send",          \* about to call rt_mq_send
               "sending",       \* inside rt_mq_send
               "undefined"}     \* it stored a byte beyond rx_frame_pkg
    /\ done \in BOOLEAN
    /\ index \in 0..255
    /\ len \in 0..Max16-1
    /\ pkg \in [0..PkgSz-1 -> Byte]
    /\ parser \in {"off", "recv", "wait", "dispatch"}
    /\ rejected \in Nat

AlphaInit ==
    /\ Init
    /\ Mq!Init
    /\ script \in Scripts /\ line = EncodeAll(script)
    /\ at = "rx"
    /\ done = TRUE
    /\ index = 0
    /\ len = 0
    /\ pkg = [i \in 0..PkgSz-1 |-> 0]
    /\ parser = "off"
    /\ accepted = <<>>
    /\ rejected = 0
    /\ handled = <<>>

-----------------------------------------------------------------------------
(* The wire.  A paced chip leaves room for its next byte, so none is lost. *)
AlphaSend ==
    /\ script \in PacedScripts => rdr = NoByte /\ RxLength < BufSz - 1
    /\ ChipSend
    /\ UNCHANGED <<mqvars, framer, parser, script, trace>>

(* The interrupt, and the start of the receive thread.                     *)
Interrupt ==
    /\ Isr \/ Boot
    /\ UNCHANGED <<mqvars, framer, parser, script, trace>>

(* The receive thread's read loop.                                         *)
Fetch ==
    /\ at = "rx"
    /\ ReadByte \/ SemTake
    /\ UNCHANGED <<mqvars, framer, parser, script, trace>>

(* frame_pkg_len once the byte stored at i is taken into account: decoded  *)
(* from bytes 0 and 1 when byte 2 arrives.                                 *)
LenAt(i) == IF i = 2 THEN pkg[0] + 256 * pkg[1]
            ELSE IF done THEN 0 ELSE len

(* Mutant: the length is taken to count its own two bytes.                 *)
CompleteInclusive(l, i) == l # 0 /\ l = i

(* The completion test, with index i already advanced.  index - 2 is       *)
(* computed unsigned, so it equals no 16-bit length when index < 2.        *)
Complete(l, i) == l # 0 /\ i >= 2 /\ l = i - 2

(* Mutant: a new frame keeps the index of the previous one.                *)
StartKept == index

(* The index the next byte is stored at: 0 when the last frame is done.    *)
Start == IF done THEN 0 ELSE index

(* The loop's body for one byte.  A store beyond rx_frame_pkg is undefined *)
(* behaviour: the model follows the receive thread no further.             *)
StoreByte ==
    /\ at = "rx"
    /\ UseByte
    /\ \/ /\ Start < PkgSz
          /\ len' = LenAt(Start)
          /\ index' = (Start + 1) % 256
          /\ pkg' = [pkg EXCEPT ![Start] = ch]
          /\ done' = Complete(len', index')
          /\ at' = IF done' THEN "send" ELSE "rx"
       \/ /\ Start >= PkgSz
          /\ at' = "undefined"
          /\ UNCHANGED <<done, index, len, pkg>>
    /\ UNCHANGED <<mqvars, parser, script, trace>>

(* The call rt_mq_send(gp_alpha_rx_mq, &rx_frame_pkg[2], frame_pkg_len):   *)
(* refused when longer than a message or when no slot is free (the frame   *)
(* is then lost: the caller only logs it), else a slot is reserved.        *)
Payload == [i \in 1..len |-> pkg[i + 1]]

SendFrame ==
    /\ at = "send"
    /\ ~isr
    /\ \/ /\ len > MsgSize
          /\ at' = "rx"
          /\ rejected' = rejected + 1
          /\ UNCHANGED <<mqvars, accepted>>
       \/ /\ len <= MsgSize
          /\ Mq!SendWait(RxThread, Payload, "none")
          /\ IF mq_pc'[RxThread] = "idle"
             THEN at' = "rx" /\ rejected' = rejected + 1 /\ UNCHANGED accepted
             ELSE /\ at' = "sending"
                  /\ accepted' = Append(accepted, Payload)
                  /\ UNCHANGED rejected
    /\ UNCHANGED <<vars, done, index, len, pkg, parser, script, handled>>

(* The rest of rt_mq_send, then back to the read loop.                     *)
FinishSend ==
    /\ at = "sending"
    /\ ~isr
    /\ Mq!Continue(RxThread)
    /\ at' = IF mq_pc'[RxThread] = "idle" THEN "rx" ELSE "sending"
    /\ UNCHANGED <<vars, done, index, len, pkg, parser, script, trace>>

-----------------------------------------------------------------------------
(* main starts the parsing thread after the receive thread.                *)
StartParser ==
    /\ parser = "off" /\ pc # "off" /\ ~isr
    /\ parser' = "recv"
    /\ UNCHANGED <<vars, mqvars, framer, script, trace>>

(* rt_mq_recv(gp_alpha_rx_mq, buff, 128, RT_WAITING_FOREVER).              *)
ParserRecv ==
    /\ parser = "recv" /\ ~isr
    /\ Mq!Recv(ParserThread, "forever")
    /\ parser' = "wait"
    /\ UNCHANGED <<vars, framer, script, trace>>

ParserContinue ==
    /\ parser = "wait" /\ ~isr
    /\ Mq!Continue(ParserThread)
    /\ parser' = IF mq_pc'[ParserThread] = "idle" THEN "dispatch" ELSE "wait"
    /\ UNCHANGED <<vars, framer, script, trace>>

(* switch (buff[1]): the only case logs that the chip is alive.            *)
Dispatch ==
    /\ parser = "dispatch" /\ ~isr
    /\ handled' = Append(handled, mq_got[ParserThread])
    /\ parser' = "recv"
    /\ UNCHANGED <<vars, mqvars, framer, script, accepted, rejected>>

Receiver == Fetch \/ StoreByte \/ SendFrame \/ FinishSend
Parser   == StartParser \/ ParserRecv \/ ParserContinue \/ Dispatch
AlphaNext == AlphaSend \/ Interrupt \/ Receiver \/ Parser

AlphaFairness ==
    /\ WF_alphaVars(Interrupt)
    /\ WF_alphaVars(Receiver)
    /\ WF_alphaVars(Parser)

AlphaSpec     == AlphaInit /\ [][AlphaNext]_alphaVars
AlphaFairSpec == AlphaSpec /\ AlphaFairness

-----------------------------------------------------------------------------
(* As long as the UART and its FIFO lose no byte, the frames handed to the *)
(* queue are exactly the payloads the chip sent, in order, and no byte is  *)
(* stored beyond rx_frame_pkg.                                             *)
FramingExact ==
    dropped = 0 =>
        /\ at # "undefined"
        /\ Len(accepted) + rejected <= Len(script)
        /\ rejected = 0 => IsPrefix(accepted, script)
        /\ at = "send" => Payload = script[Len(accepted) + rejected + 1]

(* Whatever is lost on the wire, the parsing thread dispatches on the      *)
(* frames the queue accepted, in order, none skipped and none twice, each  *)
(* in a buffer that starts with the frame's bytes; and the variables keep  *)
(* their types.                                                            *)
HandledInOrder ==
    /\ AlphaTypeOK
    /\ Len(handled) <= Len(accepted)
    /\ \A i \in 1..Len(handled) : IsPrefix(accepted[i], handled[i])

(* A frame is refused only when the parsing thread is a full queue behind. *)
RejectedOnlyWhenFull ==
    [][dropped = 0 /\ rejected' > rejected =>
          Len(accepted) - Len(handled) >= MaxMsgs]_alphaVars

(* Nothing is stuck: as long as no byte was lost, both threads come to     *)
(* rest waiting for the chip, and once it has sent its script every frame  *)
(* has been refused or dispatched.                                         *)
AllHandled ==
    <>[](dropped = 0 =>
            /\ pc = "blocked" /\ mq_pc[ParserThread] = "recv_wait"
            /\ line = <<>> => /\ Len(handled) = Len(accepted)
                             /\ Len(handled) + rejected = Len(script))
=============================================================================
