------------------------------ MODULE MCRtIpc ------------------------------
(* One object, chosen at the start: a message queue of two slots or a      *)
(* mailbox of two mails with three threads, or an event of two flags with  *)
(* two.  Of the threads of a queue or a mailbox one sends, one receives    *)
(* and one does both: two can be suspended on one list while the third     *)
(* serves it, and slots can be free, queued and held at once.  "cc" does   *)
(* not fit a slot.  Flags are sent to an event from anywhere.              *)
EXTENDS RtMq, TLC
CONSTANTS t1, t2, t3, Mails, NoMail, Flags
MCMessages == {<<"a">>, <<"b">>, <<"c", "c">>}
MCPrio     == t1 :> 1 @@ t2 :> 3 @@ t3 :> 2

VARIABLES
    kind,       \* "queue", "mailbox" or "event"
    mb_pool, mb_entry, mb_in, mb_out, mb_receivers, mb_senders, mb_call, mb_got,
    ev_set, ev_waiters, ev_call, ev_got

Mailbox == INSTANCE RtMailbox WITH Size <- MaxMsgs
Event   == INSTANCE RtEvent WITH Threads <- Senders

mbVars  == <<mb_pool, mb_entry, mb_in, mb_out, mb_receivers, mb_senders, mb_call,
             mb_got>>
evVars  == <<ev_set, ev_waiters, ev_call, ev_got>>
ipcVars == <<kind, vars, mbVars, evVars>>

IpcInit ==
    /\ kind \in {"queue", "mailbox", "event"}
    /\ Init /\ Mailbox!Init /\ Event!Init

IpcNext ==
    \/ kind = "queue"   /\ Next         /\ UNCHANGED <<kind, mbVars, evVars>>
    \/ kind = "mailbox" /\ Mailbox!Next /\ UNCHANGED <<kind, vars, evVars>>
    \/ kind = "event"   /\ Event!Next   /\ UNCHANGED <<kind, vars, mbVars>>

(* A call of the queue that can go on goes on.                             *)
IpcSpec ==
    /\ IpcInit /\ [][IpcNext]_ipcVars
    /\ \A t \in Threads : WF_vars(Continue(t))

(* The variables of all three have their types.                            *)
IpcTypeOK       == TypeOK /\ Mailbox!TypeOK /\ Event!TypeOK
NobodyForgotten == Mailbox!NobodyForgotten
MailboxSpec     == Mailbox!FifoSpec
NobodySatisfied == Event!NobodySatisfied
FlagsGivenOnce  == Event!FlagsGivenOnce
=============================================================================
