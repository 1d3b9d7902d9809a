------------------------------- MODULE RtMq -------------------------------
(***************************************************************************)
(* The kernel's message queue (rt_mq_ calls of src/ipc.c): fixed-size      *)
(* slots linked into a free list and a message list, a list of suspended   *)
(* receivers and a list of suspended senders.  A send takes two critical   *)
(* sections (reserve a slot, link it) with the copy between them; a        *)
(* receive too (unlink, give the slot back).  Threads, interrupts and      *)
(* thread timers interleave between them in any order.                     *)
(***************************************************************************)
EXTENDS IpcList, FiniteSets

CONSTANTS
    Senders,    \* the threads that send,
    Receivers,  \* and those that receive; a thread may do both
    MaxMsgs,    \* mq->max_msgs
    MsgSize,    \* mq->msg_size
    Messages,   \* the buffers the threads send: non-empty sequences of bytes
    NoByte,     \* initial contents of a slot
    NULL

Threads == Senders \cup Receivers
Slots == 0..MaxMsgs-1
Bytes == {NoByte} \cup UNION {{m[i] : i \in DOMAIN m} : m \in Messages}
Words == [1..MsgSize -> Bytes]

ASSUME MqAssumption ==
    /\ IsFiniteSet(Threads)
    /\ MaxMsgs \in Nat \ {0}
    /\ MsgSize \in Nat \ {0}
    /\ NULL \notin Slots
    /\ \A m \in Messages : m \in Seq(Bytes) /\ Len(m) > 0   \* RT_ASSERT(size != 0)

VARIABLES
    mq_next,        \* the slots' link fields
    mq_data,        \* the slots' payloads
    mq_head, mq_tail, mq_free, mq_entry,    \* the struct rt_messagequeue
    mq_receivers,   \* parent.suspend_thread
    mq_senders,     \* suspend_sender_thread
    mq_pc,          \* where each thread is in its call
    mq_msg,         \* the local variable msg of each call
    mq_sent,        \* the buffer each call sends
    mq_got,         \* the buffer each thread receives into
    mq_wait         \* the time left: "none" (0), "some" (> 0), "forever" (< 0)

pool   == <<mq_next, mq_data>>
object == <<mq_head, mq_tail, mq_free, mq_entry>>
lists  == <<mq_receivers, mq_senders>>
calls  == <<mq_msg, mq_sent, mq_got, mq_wait>>
vars   == <<pool, object, lists, mq_pc, calls>>

PC == {"idle",                                  \* in no call
       "send_wait", "send_woken", "send_copy", "send_link",
       "urgent_copy", "urgent_link",
       "recv_wait", "recv_woken", "recv_copy", "recv_free"}

Waits   == {"none", "some", "forever"}

TypeOK ==
    /\ mq_next \in [Slots -> Slots \cup {NULL}]
    /\ mq_data \in [Slots -> Words]
    /\ {mq_head, mq_tail, mq_free} \subseteq Slots \cup {NULL}
    /\ mq_entry \in 0..MaxMsgs
    /\ Listed(mq_receivers) = {t \in Threads : mq_pc[t] = "recv_wait"}
    /\ Listed(mq_senders) = {t \in Threads : mq_pc[t] = "send_wait"}
    /\ mq_pc \in [Threads -> PC]
    /\ mq_msg \in [Threads -> Slots \cup {NULL}]
    /\ mq_sent \in [Threads -> Messages \cup {<<>>}]
    /\ mq_got \in [Receivers -> Words]
    /\ mq_wait \in [Threads -> Waits]

-----------------------------------------------------------------------------
(* rt_mq_init / rt_mq_create: every slot is on the free list, the last one *)
(* first.                                                                  *)
Init ==
    /\ mq_next = [s \in Slots |-> IF s = 0 THEN NULL ELSE s - 1]
    /\ mq_data = [s \in Slots |-> [i \in 1..MsgSize |-> NoByte]]
    /\ mq_head = NULL
    /\ mq_tail = NULL
    /\ mq_free = MaxMsgs - 1
    /\ mq_entry = 0
    /\ mq_receivers = <<>>
    /\ mq_senders = <<>>
    /\ mq_pc = [t \in Threads |-> "idle"]
    /\ mq_msg = [t \in Threads |-> NULL]
    /\ mq_sent = [t \in Threads |-> <<>>]
    /\ mq_got = [t \in Receivers |-> [i \in 1..MsgSize |-> NoByte]]
    /\ mq_wait = [t \in Threads |-> "none"]

(* The thread leaves its call with an error: nothing of it stays behind.   *)
Fail(t) ==
    /\ mq_pc' = [mq_pc EXCEPT ![t] = "idle"]
    /\ mq_sent' = [mq_sent EXCEPT ![t] = <<>>]
    /\ mq_wait' = [mq_wait EXCEPT ![t] = "none"]

(* mq_pc after thread t goes on to label l and, if list is not empty, the  *)
(* first thread in it is resumed at label woken (rt_ipc_list_resume).      *)
GotoAndResume(t, l, list, woken) ==
    IF list = <<>> THEN [mq_pc EXCEPT ![t] = l]
                   ELSE [mq_pc EXCEPT ![t] = l, ![Head(list)] = woken]

Rest(list) == IF list = <<>> THEN list ELSE Tail(list)

-----------------------------------------------------------------------------
(* The loop of rt_mq_send_wait, entered with interrupts disabled and wait  *)
(* w: reserve a free slot, or give up, or suspend.                         *)
TrySend(t, m, w) ==
    /\ \/ /\ mq_free # NULL
          /\ mq_msg' = [mq_msg EXCEPT ![t] = mq_free]
          /\ mq_free' = mq_next[mq_free]
          /\ mq_pc' = [mq_pc EXCEPT ![t] = "send_copy"]
          /\ mq_sent' = [mq_sent EXCEPT ![t] = m]
          /\ mq_wait' = [mq_wait EXCEPT ![t] = "none"]
          /\ UNCHANGED mq_senders
       \/ /\ mq_free = NULL /\ w = "none"        \* -RT_EFULL
          /\ Fail(t)
          /\ UNCHANGED <<mq_msg, mq_free, mq_senders>>
       \/ /\ mq_free = NULL /\ w # "none"
          /\ mq_senders' = Enlist(mq_senders, t)
          /\ mq_pc' = [mq_pc EXCEPT ![t] = "send_wait"]
          /\ mq_sent' = [mq_sent EXCEPT ![t] = m]
          /\ mq_wait' = [mq_wait EXCEPT ![t] = w]
          /\ UNCHANGED <<mq_msg, mq_free>>
    /\ UNCHANGED <<pool, mq_head, mq_tail, mq_entry, mq_receivers, mq_got>>

(* rt_mq_send_wait(mq, m, Len(m), w); rt_mq_send is the case w = "none".   *)
SendWait(t, m, w) ==
    /\ mq_pc[t] = "idle"
    /\ Len(m) <= MsgSize        \* otherwise -RT_ERROR, and nothing changes
    /\ TrySend(t, m, w)

(* The wait a thread resumes with: what is left of a finite timeout may    *)
(* have become 0.                                                          *)
Remaining(t) == IF mq_wait[t] = "some" THEN {"some", "none"} ELSE {mq_wait[t]}

(* A sender resumed without error looks for a slot again.                  *)
SendRetry(t) ==
    /\ mq_pc[t] = "send_woken"
    /\ \E w \in Remaining(t) : TrySend(t, mq_sent[t], w)

(* Mutant: one byte too few is copied.                                     *)
OverlayShort(word, m) == [i \in 1..MsgSize |-> IF i < Len(m) THEN m[i] ELSE word[i]]

(* memcpy of the caller's bytes into the slot; bytes beyond them keep what *)
(* the slot held.                                                          *)
Overlay(word, m) == [i \in 1..MsgSize |-> IF i <= Len(m) THEN m[i] ELSE word[i]]

SendCopy(t) ==
    /\ mq_pc[t] \in {"send_copy", "urgent_copy"}
    /\ mq_data' = [mq_data EXCEPT ![mq_msg[t]] = Overlay(@, mq_sent[t])]
    /\ IF mq_pc[t] = "send_copy"
       THEN /\ mq_next' = [mq_next EXCEPT ![mq_msg[t]] = NULL]
            /\ mq_pc' = [mq_pc EXCEPT ![t] = "send_link"]
       ELSE /\ mq_pc' = [mq_pc EXCEPT ![t] = "urgent_link"]
            /\ UNCHANGED mq_next
    /\ UNCHANGED <<object, lists, calls>>

(* Mutant: a receiver is resumed only when the queue was empty.            *)
LinkedOnEdge(t) ==
    /\ mq_entry' = mq_entry + 1
    /\ LET list == IF mq_entry = 0 THEN mq_receivers ELSE <<>>
       IN  /\ mq_receivers' = IF list = <<>> THEN mq_receivers ELSE Tail(list)
           /\ mq_pc' = GotoAndResume(t, "idle", list, "recv_woken")
    /\ mq_msg' = [mq_msg EXCEPT ![t] = NULL]
    /\ mq_sent' = [mq_sent EXCEPT ![t] = <<>>]
    /\ UNCHANGED <<mq_data, mq_free, mq_senders, mq_got, mq_wait>>

(* What linking a message ends with: count it and resume a receiver.       *)
Linked(t) ==
    /\ mq_entry' = mq_entry + 1
    /\ mq_receivers' = Rest(mq_receivers)
    /\ mq_pc' = GotoAndResume(t, "idle", mq_receivers, "recv_woken")
    /\ mq_msg' = [mq_msg EXCEPT ![t] = NULL]
    /\ mq_sent' = [mq_sent EXCEPT ![t] = <<>>]
    /\ UNCHANGED <<mq_data, mq_free, mq_senders, mq_got, mq_wait>>

(* Second critical section of rt_mq_send_wait: append to the list.         *)
SendLink(t) ==
    /\ mq_pc[t] = "send_link"
    /\ mq_next' = IF mq_tail = NULL THEN mq_next
                  ELSE [mq_next EXCEPT ![mq_tail] = mq_msg[t]]
    /\ mq_tail' = mq_msg[t]
    /\ mq_head' = IF mq_head = NULL THEN mq_msg[t] ELSE mq_head
    /\ Linked(t)

(* rt_mq_urgent never waits and puts its message in front.                 *)
Urgent(t, m) ==
    /\ mq_pc[t] = "idle"
    /\ Len(m) <= MsgSize        \* otherwise -RT_ERROR
    /\ mq_free # NULL           \* otherwise -RT_EFULL
    /\ mq_msg' = [mq_msg EXCEPT ![t] = mq_free]
    /\ mq_sent' = [mq_sent EXCEPT ![t] = m]
    /\ mq_free' = mq_next[mq_free]
    /\ mq_pc' = [mq_pc EXCEPT ![t] = "urgent_copy"]
    /\ UNCHANGED <<pool, mq_head, mq_tail, mq_entry, lists, mq_got, mq_wait>>

UrgentLink(t) ==
    /\ mq_pc[t] = "urgent_link"
    /\ mq_next' = [mq_next EXCEPT ![mq_msg[t]] = mq_head]
    /\ mq_head' = mq_msg[t]
    /\ mq_tail' = IF mq_tail = NULL THEN mq_msg[t] ELSE mq_tail
    /\ Linked(t)

-----------------------------------------------------------------------------
(* Mutant: the tail still points to the last message once it is unlinked.  *)
TailKept == mq_tail

(* msg_queue_tail after the head is unlinked.                              *)
TailAfterUnlink == IF mq_tail = mq_head THEN NULL ELSE mq_tail

(* The loop of rt_mq_recv with wait w, then the unlinking.                 *)
TryRecv(t, w) ==
    /\ \/ /\ mq_entry > 0
          /\ mq_msg' = [mq_msg EXCEPT ![t] = mq_head]
          /\ mq_head' = mq_next[mq_head]
          /\ mq_tail' = TailAfterUnlink
          /\ mq_entry' = mq_entry - 1
          /\ mq_pc' = [mq_pc EXCEPT ![t] = "recv_copy"]
          /\ mq_wait' = [mq_wait EXCEPT ![t] = "none"]
          /\ UNCHANGED <<mq_receivers, mq_sent>>
       \/ /\ mq_entry = 0 /\ w = "none"          \* -RT_ETIMEOUT
          /\ Fail(t)
          /\ UNCHANGED <<mq_msg, mq_head, mq_tail, mq_entry, mq_receivers>>
       \/ /\ mq_entry = 0 /\ w # "none"
          /\ mq_receivers' = Enlist(mq_receivers, t)
          /\ mq_pc' = [mq_pc EXCEPT ![t] = "recv_wait"]
          /\ mq_wait' = [mq_wait EXCEPT ![t] = w]
          /\ UNCHANGED <<mq_msg, mq_head, mq_tail, mq_entry, mq_sent>>
    /\ UNCHANGED <<pool, mq_free, mq_senders, mq_got>>

Recv(t, w) == mq_pc[t] = "idle" /\ TryRecv(t, w)

RecvRetry(t) ==
    /\ mq_pc[t] = "recv_woken"
    /\ \E w \in Remaining(t) : TryRecv(t, w)

(* memcpy of the whole slot into the caller's buffer (of msg_size bytes).  *)
RecvCopy(t) ==
    /\ mq_pc[t] = "recv_copy"
    /\ mq_got' = [mq_got EXCEPT ![t] = mq_data[mq_msg[t]]]
    /\ mq_pc' = [mq_pc EXCEPT ![t] = "recv_free"]
    /\ UNCHANGED <<pool, object, lists, mq_msg, mq_sent, mq_wait>>

(* Mutants: the slot is not given back; a sender is resumed only when the  *)
(* free list was empty.                                                    *)
RecvFreeLeak(t) ==
    /\ mq_pc[t] = "recv_free"
    /\ mq_pc' = [mq_pc EXCEPT ![t] = "idle"]
    /\ mq_msg' = [mq_msg EXCEPT ![t] = NULL]
    /\ UNCHANGED <<pool, object, lists, mq_sent, mq_got, mq_wait>>

RecvFreeOnEdge(t) ==
    /\ mq_pc[t] = "recv_free"
    /\ mq_next' = [mq_next EXCEPT ![mq_msg[t]] = mq_free]
    /\ mq_free' = mq_msg[t]
    /\ LET list == IF mq_free = NULL THEN mq_senders ELSE <<>>
       IN  /\ mq_senders' = IF list = <<>> THEN mq_senders ELSE Tail(list)
           /\ mq_pc' = GotoAndResume(t, "idle", list, "send_woken")
    /\ mq_msg' = [mq_msg EXCEPT ![t] = NULL]
    /\ UNCHANGED <<mq_data, mq_head, mq_tail, mq_entry, mq_receivers, mq_sent,
                   mq_got, mq_wait>>

(* Second critical section of rt_mq_recv: free the slot, resume a sender.  *)
RecvFree(t) ==
    /\ mq_pc[t] = "recv_free"
    /\ mq_next' = [mq_next EXCEPT ![mq_msg[t]] = mq_free]
    /\ mq_free' = mq_msg[t]
    /\ mq_senders' = Rest(mq_senders)
    /\ mq_pc' = GotoAndResume(t, "idle", mq_senders, "send_woken")
    /\ mq_msg' = [mq_msg EXCEPT ![t] = NULL]
    /\ UNCHANGED <<mq_data, mq_head, mq_tail, mq_entry, mq_receivers, mq_sent,
                   mq_got, mq_wait>>

-----------------------------------------------------------------------------
(* Mutant: the timed-out thread stays on its list.                         *)
TimeoutListed(t) ==
    /\ mq_pc[t] \in {"send_wait", "recv_wait"}
    /\ mq_wait[t] = "some"
    /\ Fail(t)
    /\ UNCHANGED <<pool, object, lists, mq_msg, mq_got>>

(* rt_thread_timeout: the timer of a suspended thread takes it off its     *)
(* list; the call returns -RT_ETIMEOUT.                                    *)
Timeout(t) ==
    /\ mq_pc[t] \in {"send_wait", "recv_wait"}
    /\ mq_wait[t] = "some"
    /\ mq_senders' = Delist(mq_senders, t)
    /\ mq_receivers' = Delist(mq_receivers, t)
    /\ Fail(t)
    /\ UNCHANGED <<pool, object, mq_msg, mq_got>>

(* The i-th slot of the chain of links that starts at s, or NULL.          *)
Chain(s) ==
    LET c[i \in 0..MaxMsgs] ==
          IF i = 0 THEN s
          ELSE IF c[i-1] = NULL THEN NULL ELSE mq_next[c[i-1]]
    IN  c

ChainSlots(s) == {Chain(s)[i] : i \in 0..MaxMsgs} \ {NULL}

(* rt_mq_control(RT_IPC_CMD_RESET): every waiter returns -RT_ERROR, every  *)
(* queued message goes to the free list, from the head on.                 *)
Reset ==
    LET order == Chain(mq_head)
        n     == Cardinality(ChainSlots(mq_head))
    IN  /\ mq_receivers' = <<>>
        /\ mq_senders' = <<>>
        /\ LET woken == Listed(mq_receivers) \cup Listed(mq_senders)
               Upd(f, v) == [t \in Threads |-> IF t \in woken THEN v ELSE f[t]]
           IN  /\ mq_pc' = Upd(mq_pc, "idle")
               /\ mq_sent' = Upd(mq_sent, <<>>)
               /\ mq_wait' = Upd(mq_wait, "none")
        /\ mq_next' = [s \in Slots |->
              IF \E i \in 0..n-1 : order[i] = s
              THEN LET i == CHOOSE j \in 0..n-1 : order[j] = s
                   IN  IF i = 0 THEN mq_free ELSE order[i-1]
              ELSE mq_next[s]]
        /\ mq_free' = IF n = 0 THEN mq_free ELSE order[n-1]
        /\ mq_head' = NULL
        /\ mq_tail' = NULL
        /\ mq_entry' = 0
        /\ UNCHANGED <<mq_data, mq_msg, mq_got>>

-----------------------------------------------------------------------------
(* What a thread does inside a call, and when it may begin one.            *)
Continue(t) == \/ SendRetry(t) \/ SendCopy(t) \/ SendLink(t) \/ UrgentLink(t)
               \/ RecvRetry(t) \/ RecvCopy(t) \/ RecvFree(t)

Begin(t) ==
    \/ /\ t \in Senders
       /\ \E m \in Messages : Urgent(t, m) \/ \E w \in Waits : SendWait(t, m, w)
    \/ /\ t \in Receivers
       /\ \E w \in Waits : Recv(t, w)

Next == (\E t \in Threads : Begin(t) \/ Continue(t) \/ Timeout(t)) \/ Reset

Spec == Init /\ [][Next]_vars

(* A call that can go on goes on: every thread is scheduled in the end.    *)
FairSpec == Spec /\ \A t \in Threads : WF_vars(Continue(t))

-----------------------------------------------------------------------------
(* Threads that hold a slot between their two critical sections.           *)
Holders == {t \in Threads : mq_msg[t] # NULL}

(* The linked lists are well formed and lose nothing: entry counts the     *)
(* message list, tail is its last slot, and every slot is on the message   *)
(* list, on the free list or held by exactly one thread.                   *)
SlotsConserved ==
    /\ Chain(mq_head)[mq_entry] = NULL
    /\ Cardinality(ChainSlots(mq_head)) = mq_entry
    /\ mq_tail = IF mq_entry = 0 THEN NULL ELSE Chain(mq_head)[mq_entry - 1]
    /\ ChainSlots(mq_head) \cap ChainSlots(mq_free) = {}
    /\ \A t \in Holders : mq_msg[t] \notin ChainSlots(mq_head) \cup ChainSlots(mq_free)
    /\ \A s, t \in Holders : mq_msg[s] = mq_msg[t] => s = t
    /\ Slots = ChainSlots(mq_head) \cup ChainSlots(mq_free)
                  \cup {mq_msg[t] : t \in Holders}

At(l) == {t \in Threads : mq_pc[t] = l}

(* No lost wakeup: while a receiver is suspended, no more messages are     *)
(* queued than receivers already resumed and on their way; and the same of *)
(* senders and free slots.                                                 *)
WaitersWoken ==
    /\ mq_receivers # <<>> => mq_entry <= Cardinality(At("recv_woken"))
    /\ mq_senders # <<>> =>
          Cardinality(ChainSlots(mq_free)) <= Cardinality(At("send_woken"))

(* The words on the message list, in order.                                *)
QueuedWords == [i \in 1..mq_entry |-> mq_data[Chain(mq_head)[i - 1]]]

(* The queue implements a bounded FIFO: what a receiver's buffer ends up   *)
(* with is the message linked earliest (an urgent one first), intact, and  *)
(* given to no one else, although copies run outside critical sections.    *)
Fifo == INSTANCE MsgFifo WITH
    Messages  <- {m \in Messages : Len(m) <= MsgSize},
    Capacity  <- MaxMsgs,
    queue     <- QueuedWords,
    got       <- [t \in Receivers |-> IF mq_pc[t] = "recv_copy"
                                    THEN mq_data[mq_msg[t]] ELSE mq_got[t]]
FifoSpec == Fifo!Spec

(* A message is not left in the queue while a receiver sleeps for it: in   *)
(* the end it is taken or no receiver is waiting.                          *)
NoIdleReceiver ==
    (mq_entry > 0 /\ mq_receivers # <<>>) ~> (mq_entry = 0 \/ mq_receivers = <<>>)
=============================================================================
