----------------------------- MODULE RtMailbox -----------------------------
(***************************************************************************)
(* The kernel's mailbox (rt_mb_ calls of src/ipc.c): a ring of words with  *)
(* suspended receivers and senders.  Unlike the message queue's, a send or *)
(* a receive puts its word in or out in the critical section in which it   *)
(* finds that it can.                                                      *)
(***************************************************************************)
EXTENDS IpcList, FiniteSets

CONSTANTS
    Senders,
    Receivers,
    Size,       \* mb->size
    Mails,      \* the words the threads send
    NoMail      \* initial contents of the pool

Threads == Senders \cup Receivers

VARIABLES
    mb_pool, mb_entry, mb_in, mb_out,   \* msg_pool, entry, in_offset, out_offset
    mb_receivers,   \* parent.suspend_thread
    mb_senders,     \* suspend_sender_thread
    mb_call,        \* the call each thread is in: .pc, .mail (its argument)
                    \* and .wait, the time left: "none", "some", "forever"
    mb_got          \* the word each thread received last

ring  == <<mb_pool, mb_entry, mb_in, mb_out>>
vars  == <<ring, mb_receivers, mb_senders, mb_call, mb_got>>

Waits == {"none", "some", "forever"}
Idle == [pc |-> "idle", mail |-> NoMail, wait |-> "none"]

TypeOK ==
    /\ mb_pool \in [0..Size-1 -> Mails \cup {NoMail}]
    /\ mb_entry \in 0..Size /\ {mb_in, mb_out} \subseteq 0..Size-1
    /\ \A t \in Threads :
          /\ mb_call[t].pc \in {"idle", "send_wait", "send_woken",
                                "recv_wait", "recv_woken"}
          /\ mb_call[t].mail \in Mails \cup {NoMail} /\ mb_call[t].wait \in Waits
    /\ Listed(mb_senders) = {t \in Threads : mb_call[t].pc = "send_wait"}
    /\ Listed(mb_receivers) = {t \in Threads : mb_call[t].pc = "recv_wait"}
    /\ mb_got \in [Receivers -> Mails \cup {NoMail}]

Init ==
    /\ mb_pool = [i \in 0..Size-1 |-> NoMail]
    /\ mb_entry = 0 /\ mb_in = 0 /\ mb_out = 0
    /\ mb_receivers = <<>> /\ mb_senders = <<>>
    /\ mb_call = [t \in Threads |-> Idle]
    /\ mb_got = [t \in Receivers |-> NoMail]

(* The offset that follows i.                                              *)
After(i) == IF i + 1 >= Size THEN 0 ELSE i + 1

(* The calls once t's call is over (or waits) and, if list is not empty,   *)
(* its first thread is resumed at label woken.                             *)
Resume(t, list, woken) ==
    LET done == [mb_call EXCEPT ![t] = Idle]
    IN  IF list = <<>> THEN done ELSE [done EXCEPT ![Head(list)].pc = woken]

(* The call of t, which is suspended.                                      *)
Suspend(t, pc, mail, w) ==
    mb_call' = [mb_call EXCEPT ![t] = [pc |-> pc, mail |-> mail, wait |-> w]]

-----------------------------------------------------------------------------
(* The loop of rt_mb_send_wait with wait w, and what follows it.           *)
TrySend(t, mail, w) ==
    \/ /\ mb_entry < Size
       /\ mb_pool' = [mb_pool EXCEPT ![mb_in] = mail]
       /\ mb_in' = After(mb_in)
       /\ mb_entry' = mb_entry + 1
       /\ mb_call' = Resume(t, mb_receivers, "recv_woken")
       /\ mb_receivers' = IF mb_receivers = <<>> THEN <<>> ELSE Tail(mb_receivers)
       /\ UNCHANGED <<mb_out, mb_senders, mb_got>>
    \/ /\ mb_entry = Size /\ w = "none"         \* -RT_EFULL
       /\ mb_call' = [mb_call EXCEPT ![t] = Idle]
       /\ UNCHANGED <<ring, mb_receivers, mb_senders, mb_got>>
    \/ /\ mb_entry = Size /\ w # "none"
       /\ Suspend(t, "send_wait", mail, w)
       /\ mb_senders' = Enlist(mb_senders, t)
       /\ UNCHANGED <<ring, mb_receivers, mb_got>>

SendWait(t, mail, w) == mb_call[t].pc = "idle" /\ TrySend(t, mail, w)

(* The wait a thread resumes with: some of a finite timeout, or none.      *)
Remaining(t) ==
    IF mb_call[t].wait = "some" THEN {"some", "none"} ELSE {mb_call[t].wait}

SendRetry(t) ==
    /\ mb_call[t].pc = "send_woken"
    /\ \E w \in Remaining(t) : TrySend(t, mb_call[t].mail, w)

(* Mutant: a sender is resumed only if the mailbox was full.               *)
TryRecvOnEdge(t, w) ==
    \/ /\ mb_entry > 0
       /\ mb_got' = [mb_got EXCEPT ![t] = mb_pool[mb_out]]
       /\ mb_out' = After(mb_out)
       /\ mb_entry' = mb_entry - 1
       /\ LET list == IF mb_entry = Size THEN mb_senders ELSE <<>>
          IN  /\ mb_call' = Resume(t, list, "send_woken")
              /\ mb_senders' = IF list = <<>> THEN mb_senders ELSE Tail(list)
       /\ UNCHANGED <<mb_pool, mb_in, mb_receivers>>
    \/ /\ mb_entry = 0 /\ w = "none"
       /\ mb_call' = [mb_call EXCEPT ![t] = Idle]
       /\ UNCHANGED <<ring, mb_receivers, mb_senders, mb_got>>
    \/ /\ mb_entry = 0 /\ w # "none"
       /\ Suspend(t, "recv_wait", NoMail, w)
       /\ mb_receivers' = Enlist(mb_receivers, t)
       /\ UNCHANGED <<ring, mb_senders, mb_got>>

(* The loop of rt_mb_recv with wait w, and what follows it.                *)
TryRecv(t, w) ==
    \/ /\ mb_entry > 0
       /\ mb_got' = [mb_got EXCEPT ![t] = mb_pool[mb_out]]
       /\ mb_out' = After(mb_out)
       /\ mb_entry' = mb_entry - 1
       /\ mb_call' = Resume(t, mb_senders, "send_woken")
       /\ mb_senders' = IF mb_senders = <<>> THEN <<>> ELSE Tail(mb_senders)
       /\ UNCHANGED <<mb_pool, mb_in, mb_receivers>>
    \/ /\ mb_entry = 0 /\ w = "none"            \* -RT_ETIMEOUT
       /\ mb_call' = [mb_call EXCEPT ![t] = Idle]
       /\ UNCHANGED <<ring, mb_receivers, mb_senders, mb_got>>
    \/ /\ mb_entry = 0 /\ w # "none"
       /\ Suspend(t, "recv_wait", NoMail, w)
       /\ mb_receivers' = Enlist(mb_receivers, t)
       /\ UNCHANGED <<ring, mb_senders, mb_got>>

Recv(t, w) == mb_call[t].pc = "idle" /\ TryRecv(t, w)

RecvRetry(t) ==
    /\ mb_call[t].pc = "recv_woken"
    /\ \E w \in Remaining(t) : TryRecv(t, w)

-----------------------------------------------------------------------------
(* Mutant: a timed-out sender stays on the list.                           *)
TimeoutListed(t) ==
    /\ mb_call[t].pc \in {"send_wait", "recv_wait"} /\ mb_call[t].wait = "some"
    /\ mb_receivers' = Delist(mb_receivers, t)
    /\ mb_call' = [mb_call EXCEPT ![t] = Idle]
    /\ UNCHANGED <<ring, mb_senders, mb_got>>

(* rt_thread_timeout of a suspended caller: its call fails.                *)
Timeout(t) ==
    /\ mb_call[t].pc \in {"send_wait", "recv_wait"} /\ mb_call[t].wait = "some"
    /\ mb_senders' = Delist(mb_senders, t)
    /\ mb_receivers' = Delist(mb_receivers, t)
    /\ mb_call' = [mb_call EXCEPT ![t] = Idle]
    /\ UNCHANGED <<ring, mb_got>>

(* Mutant: the offsets are not reset.                                      *)
ResetEntry ==
    /\ mb_receivers' = <<>> /\ mb_senders' = <<>>
    /\ mb_call' = [t \in Threads |->
          IF t \in Listed(mb_receivers) \cup Listed(mb_senders) THEN Idle ELSE mb_call[t]]
    /\ mb_entry' = 0 /\ mb_in' = 0
    /\ UNCHANGED <<mb_pool, mb_out, mb_got>>

(* rt_mb_control(RT_IPC_CMD_RESET): every suspended call fails.            *)
Reset ==
    /\ mb_receivers' = <<>> /\ mb_senders' = <<>>
    /\ mb_call' = [t \in Threads |->
          IF t \in Listed(mb_receivers) \cup Listed(mb_senders) THEN Idle ELSE mb_call[t]]
    /\ mb_entry' = 0 /\ mb_in' = 0 /\ mb_out' = 0
    /\ UNCHANGED <<mb_pool, mb_got>>

Next ==
    \/ \E t \in Senders, mail \in Mails, w \in Waits : SendWait(t, mail, w)
    \/ \E t \in Receivers, w \in Waits : Recv(t, w)
    \/ \E t \in Threads : SendRetry(t) \/ RecvRetry(t) \/ Timeout(t)
    \/ Reset

Spec == Init /\ [][Next]_vars

-----------------------------------------------------------------------------
At(l) == {t \in Threads : mb_call[t].pc = l}

(* While a receiver is suspended, no more mails are in the mailbox than    *)
(* receivers resumed and on their way; and the same of senders and room.   *)
NobodyForgotten ==
    /\ mb_receivers # <<>> => mb_entry <= Cardinality(At("recv_woken"))
    /\ mb_senders # <<>> => Size - mb_entry <= Cardinality(At("send_woken"))

(* The mails in the mailbox, in order.                                     *)
Content == [i \in 1..mb_entry |-> <<mb_pool[(mb_out + i - 1) % Size]>>]

(* The mailbox is the same bounded FIFO as the message queue.              *)
Fifo == INSTANCE MsgFifo WITH
    Messages <- {<<m>> : m \in Mails},
    Words    <- {<<m>> : m \in Mails \cup {NoMail}},
    Capacity <- Size,
    queue    <- Content,
    got      <- [t \in Receivers |-> <<mb_got[t]>>]
FifoSpec == Fifo!Spec
=============================================================================
