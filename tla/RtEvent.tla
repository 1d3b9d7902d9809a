------------------------------ MODULE RtEvent ------------------------------
(***************************************************************************)
(* The kernel's event object (rt_event_ calls of src/ipc.c): a set of      *)
(* flags that accumulate, and threads suspended until all or any of the    *)
(* flags they ask for are there.                                           *)
(***************************************************************************)
EXTENDS IpcList

CONSTANTS
    Threads,
    Flags       \* the bits of the 32-bit set

VARIABLES
    ev_set,     \* event->set
    ev_waiters, \* parent.suspend_thread
    ev_call,    \* the call each thread is in: .pc, "idle", "timed" or "forever";
                \* .set and .all, .clear: its event_set and event_info
    ev_got      \* history: the flags the last send gave to each thread

vars == <<ev_set, ev_waiters, ev_call, ev_got>>

Idle == [pc |-> "idle", set |-> {}, all |-> FALSE, clear |-> FALSE]

Wanted == (SUBSET Flags) \ {{}}       \* otherwise -RT_ERROR

TypeOK ==
    /\ ev_set \subseteq Flags
    /\ \A t \in Threads :
          /\ ev_call[t].pc \in {"idle", "timed", "forever"}
          /\ ev_call[t].set \subseteq Flags
          /\ {ev_call[t].all, ev_call[t].clear} \subseteq BOOLEAN
    /\ Listed(ev_waiters) = {t \in Threads : ev_call[t].pc # "idle"}
    /\ IsInjective(ev_waiters)

Init ==
    /\ ev_set = {}
    /\ ev_waiters = <<>>
    /\ ev_call = [t \in Threads |-> Idle]
    /\ ev_got = [t \in Threads |-> {}]

(* RT_EVENT_FLAG_AND: all the flags; RT_EVENT_FLAG_OR: any of them.        *)
Satisfied(flags, want, all) ==
    IF all THEN want \subseteq flags ELSE want \cap flags # {}

(* rt_event_recv: at once, or not at all, or suspended.                    *)
Recv(t, want, all, clear, w) ==
    /\ ev_call[t].pc = "idle"
    /\ IF Satisfied(ev_set, want, all)
       THEN /\ ev_set' = IF clear THEN ev_set \ want ELSE ev_set
            /\ UNCHANGED <<ev_waiters, ev_call>>
       ELSE /\ w # "none"
            /\ ev_waiters' = Enlist(ev_waiters, t)
            /\ ev_call' = [ev_call EXCEPT
                  ![t] = [pc |-> w, set |-> want, all |-> all, clear |-> clear]]
            /\ UNCHANGED ev_set
    /\ ev_got' = [u \in Threads |-> {}]

(* What a waiter with call c gets of the flags that the walk finds, and    *)
(* the flags it leaves: an OR waiter takes those it asked for and finds.   *)
Gives(have, c) ==
    LET got == IF Satisfied(have, c.set, c.all) THEN c.set \cap have ELSE {}
    IN  [got |-> got, rest |-> IF c.clear THEN have \ got ELSE have]

(* Mutant: each waiter finds all the flags.                                *)
GivenUncleared(flags, list) ==
    [i \in 0..Len(list) |-> IF i = 0 THEN [got |-> {}, rest |-> flags]
                            ELSE Gives(flags, ev_call[list[i]])]

(* Mutant: the walk ends at the first waiter that is resumed.              *)
GivenFirst(flags, list) ==
    LET Sat(i) == Satisfied(flags, ev_call[list[i]].set, ev_call[list[i]].all)
    IN  [i \in 0..Len(list) |->
            [got  |-> IF i # 0 /\ Sat(i) /\ \A j \in 1..i-1 : ~Sat(j)
                      THEN ev_call[list[i]].set \cap flags ELSE {},
             rest |-> flags]]

(* The walk of rt_event_send over the list: for each waiter, the flags it  *)
(* gets (none if it stays) and those that remain for the waiters after it. *)
Given(flags, list) ==
    LET g[i \in 0..Len(list)] == IF i = 0 THEN [got |-> {}, rest |-> flags]
                                 ELSE Gives(g[i-1].rest, ev_call[list[i]])
    IN  g

(* The list once the walk has resumed, one by one, who got flags.          *)
Remain(list, g) ==
    LET l[i \in 0..Len(list)] == IF i = 0 THEN list
                                 ELSE IF g[i].got = {} THEN l[i-1]
                                 ELSE Delist(l[i-1], list[i])
    IN  l[Len(list)]

(* rt_event_send.                                                          *)
Send(flags) ==
    LET g == Given(ev_set \cup flags, ev_waiters)
        n == Len(ev_waiters)
        Got(t) == UNION {g[i].got : i \in {j \in 1..n : ev_waiters[j] = t}}
    IN  /\ ev_set' = g[n].rest
        /\ ev_waiters' = Remain(ev_waiters, g)
        /\ ev_call' = [t \in Threads |-> IF Got(t) = {} THEN ev_call[t] ELSE Idle]
        /\ ev_got' = [t \in Threads |-> Got(t)]

(* Mutant: the timed-out thread stays on the list.                         *)
TimeoutListed(t) ==
    /\ ev_call[t].pc = "timed"
    /\ ev_call' = [ev_call EXCEPT ![t] = Idle]
    /\ ev_got' = [u \in Threads |-> {}]
    /\ UNCHANGED <<ev_set, ev_waiters>>

(* rt_thread_timeout: the call returns -RT_ETIMEOUT.                       *)
Timeout(t) ==
    /\ ev_call[t].pc = "timed"
    /\ ev_waiters' = Delist(ev_waiters, t)
    /\ ev_call' = [ev_call EXCEPT ![t] = Idle]
    /\ ev_got' = [u \in Threads |-> {}]
    /\ UNCHANGED ev_set

(* rt_event_control(RT_IPC_CMD_RESET): every call returns -RT_ERROR.       *)
Reset ==
    /\ ev_set' = {}
    /\ ev_waiters' = <<>>
    /\ ev_call' = [t \in Threads |-> Idle]
    /\ ev_got' = [t \in Threads |-> {}]

Next ==
    \/ \E t \in Threads, want \in Wanted, all, clear \in BOOLEAN,
          w \in {"none", "timed", "forever"} : Recv(t, want, all, clear, w)
    \/ \E flags \in Wanted : Send(flags)
    \/ \E t \in Threads : Timeout(t)
    \/ Reset

Spec == Init /\ [][Next]_vars

-----------------------------------------------------------------------------
(* Nobody waits for flags that are there, although each waiter that clears *)
(* takes flags from those behind it.                                       *)
NobodySatisfied ==
    \A t \in Listed(ev_waiters) :
        ~Satisfied(ev_set, ev_call[t].set, ev_call[t].all)

(* A send gives a waiter only flags that it asked for, all of them if it   *)
(* asked for all, and a flag that one waiter clears to nobody behind it.   *)
GivenOnce ==
    LET Got(i)   == ev_got'[ev_waiters[i]]
        Asked(i) == ev_call[ev_waiters[i]]
    IN  \A i \in 1..Len(ev_waiters) : Got(i) # {} =>
           /\ Got(i) \subseteq Asked(i).set
           /\ Asked(i).all => Got(i) = Asked(i).set
           /\ Asked(i).clear =>
                 /\ Got(i) \cap ev_set' = {}
                 /\ \A j \in i+1..Len(ev_waiters) : Got(i) \cap Got(j) = {}
FlagsGivenOnce == [][GivenOnce]_vars
=============================================================================
