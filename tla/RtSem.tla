------------------------------- MODULE RtSem -------------------------------
(***************************************************************************)
(* The kernel's counting semaphore (rt_sem_ calls of src/ipc.c): a 16-bit  *)
(* value and a list of suspended threads.  A release hands its token to    *)
(* the first of them directly; threads, interrupts and thread timers       *)
(* interleave between the calls' critical sections in any order.           *)
(***************************************************************************)
EXTENDS Integers, Sequences

CONSTANTS
    Threads,
    Prio,       \* their current_priority, see IpcList
    Mod,        \* 65536: value is an rt_uint16_t
    Values      \* the values a semaphore is created or reset with

(* RT_ASSERT(value < 0x10000U) in rt_sem_init.                             *)
ASSUME SemAssumption == Mod \in Nat \ {0} /\ Values \subseteq 0..Mod-1

VARIABLES
    flag,       \* sem->parent.parent.flag: "FIFO" or "PRIO"
    value,      \* sem->value
    waiters,    \* sem->parent.suspend_thread
    pc          \* "idle": in no call; "timed" or "forever": suspended in
                \* rt_sem_take, with a timeout or with none

vars == <<flag, value, waiters, pc>>

L == INSTANCE IpcList WITH Flag <- flag

TypeOK ==
    /\ flag \in {"FIFO", "PRIO"}
    /\ value \in 0..Mod-1
    /\ pc \in [Threads -> {"idle", "timed", "forever"}]
    /\ waiters \in Seq(Threads)
    /\ L!Listed(waiters) = {t \in Threads : pc[t] # "idle"}
    /\ L!IsInjective(waiters)

Init ==
    /\ flag \in {"FIFO", "PRIO"}
    /\ value \in Values
    /\ waiters = <<>>
    /\ pc = [t \in Threads |-> "idle"]

(* rt_sem_take(sem, w).  With no token, w = 0 (rt_sem_trytake) returns     *)
(* -RT_ETIMEOUT and changes nothing; otherwise the thread is suspended.    *)
Take(t) ==
    /\ pc[t] = "idle"
    /\ \/ /\ value > 0
          /\ value' = value - 1
          /\ UNCHANGED <<waiters, pc>>
       \/ /\ value = 0
          /\ waiters' = L!Enlist(waiters, t)
          /\ \E w \in {"timed", "forever"} : pc' = [pc EXCEPT ![t] = w]
          /\ UNCHANGED value

(* Mutant: the value is increased even when a waiter is resumed.           *)
ReleaseBoth ==
    /\ value' = (value + 1) % Mod
    /\ IF waiters # <<>>
       THEN /\ waiters' = Tail(waiters)
            /\ pc' = [pc EXCEPT ![Head(waiters)] = "idle"]
       ELSE UNCHANGED <<waiters, pc>>

(* rt_sem_release: resume the first waiter, whose take returns RT_EOK, or  *)
(* increase the value.                                                     *)
Release ==
    /\ IF waiters # <<>>
       THEN /\ waiters' = Tail(waiters)
            /\ pc' = [pc EXCEPT ![Head(waiters)] = "idle"]
            /\ UNCHANGED value
       ELSE /\ value' = (value + 1) % Mod
            /\ UNCHANGED <<waiters, pc>>

(* Mutant: the timed-out thread stays on the list.                         *)
TimeoutListed(t) ==
    /\ pc[t] = "timed"
    /\ pc' = [pc EXCEPT ![t] = "idle"]
    /\ UNCHANGED <<value, waiters>>

(* rt_thread_timeout: the take returns -RT_ETIMEOUT.                       *)
Timeout(t) ==
    /\ pc[t] = "timed"
    /\ waiters' = L!Delist(waiters, t)
    /\ pc' = [pc EXCEPT ![t] = "idle"]
    /\ UNCHANGED value

(* rt_thread_delete of a suspended taker: it leaves the list.              *)
Drop(t) ==
    /\ pc[t] # "idle"
    /\ waiters' = L!Delist(waiters, t)
    /\ pc' = [pc EXCEPT ![t] = "idle"]
    /\ UNCHANGED value

(* rt_sem_control(RT_IPC_CMD_RESET, v): every take returns -RT_ERROR.      *)
Reset(v) ==
    /\ waiters' = <<>>
    /\ pc' = [t \in Threads |-> "idle"]
    /\ value' = v

Next == /\ \/ \E t \in Threads : Take(t) \/ Timeout(t) \/ Drop(t)
           \/ Release
           \/ \E v \in Values : Reset(v)
        /\ UNCHANGED flag

Spec == Init /\ [][Next]_vars

-----------------------------------------------------------------------------
(* No thread sleeps while there is a token, whatever timeouts, resets and  *)
(* releases from interrupts come in between.                               *)
NoWaiterBesideToken == waiters # <<>> => value = 0

(* On a FIFO list nobody starves: while tokens keep coming, a thread that  *)
(* waits gets one (or times out, or is told of a reset), however many      *)
(* others come and go.                                                     *)
NoStarvation ==
    flag = "FIFO" => \A t \in Threads : []<>(pc[t] = "idle")
=============================================================================
