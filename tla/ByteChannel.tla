---------------------------- MODULE ByteChannel ----------------------------
(***************************************************************************)
(* What the interrupt side of a serial device promises its reader: a FIFO  *)
(* of at most Capacity bytes.  A byte that arrives when the FIFO is full   *)
(* evicts the OLDEST one; the reader takes bytes in arrival order.         *)
(***************************************************************************)
EXTENDS Integers, Sequences

CONSTANTS Byte, Capacity

VARIABLES
    queue,      \* bytes received and not yet read, oldest first
    taken       \* every byte the reader has obtained, in order

vars == <<queue, taken>>

Init == queue = <<>> /\ taken = <<>>

Put(b) ==
    /\ queue' = IF Len(queue) < Capacity THEN Append(queue, b)
                                         ELSE Append(Tail(queue), b)
    /\ UNCHANGED taken

Take ==
    /\ queue # <<>>
    /\ queue' = Tail(queue)
    /\ taken' = Append(taken, Head(queue))

Next == Take \/ \E b \in Byte : Put(b)

Spec == Init /\ [][Next]_vars
=============================================================================
