------------------------------ MODULE MsgFifo ------------------------------
(***************************************************************************)
(* What a message queue promises: a FIFO of at most Capacity messages      *)
(* shared by senders and receivers.  An urgent message goes to the front.  *)
(* A message is delivered to one receiver, in a slot-sized word whose tail *)
(* beyond the message is unspecified.                                      *)
(***************************************************************************)
EXTENDS Integers, Sequences, SequencesExt

CONSTANTS Receivers, Messages, Words, Capacity

VARIABLES
    queue,      \* the words queued, next to be delivered first
    got         \* got[t]: the word last delivered to receiver t

vars == <<queue, got>>

Init == queue = <<>> /\ got \in [Receivers -> Words]

(* A word that carries message m.                                          *)
Carries(w, m) == IsPrefix(m, w)

Put(m) ==
    /\ Len(queue) < Capacity
    /\ \E w \in Words : Carries(w, m) /\ queue' = Append(queue, w)
    /\ UNCHANGED got

PutUrgent(m) ==
    /\ Len(queue) < Capacity
    /\ \E w \in Words : Carries(w, m) /\ queue' = <<w>> \o queue
    /\ UNCHANGED got

Get(t) ==
    /\ queue # <<>>
    /\ got' = [got EXCEPT ![t] = Head(queue)]
    /\ queue' = Tail(queue)

Flush == queue' = <<>> /\ UNCHANGED got

Next ==
    \/ \E m \in Messages : Put(m) \/ PutUrgent(m)
    \/ \E t \in Receivers : Get(t)
    \/ Flush

Spec == Init /\ [][Next]_vars
=============================================================================
