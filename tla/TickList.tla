------------------------------ MODULE TickList ------------------------------
(***************************************************************************)
(* The kernel's list of started timers (rt_timer_list, src/timer.c), the   *)
(* next to expire first: a sequence of records of a timer and its          *)
(* timeout_tick, on a tick counter that wraps.                             *)
(***************************************************************************)
EXTENDS Integers, Sequences, SequencesExt

CONSTANT TickMod    \* 2^32: rt_tick_t is an unsigned 32-bit integer

(* RT_TICK_MAX / 2: a difference of ticks below it is in the future, and a *)
(* timer's init_tick must be below it (RT_ASSERT in rt_timer_start).       *)
Half == (TickMod - 1) \div 2

Ahead(a, b) == (a - b) % TickMod

(* Mutant: a new timer comes before those of the same tick, and the ticks  *)
(* are compared as numbers.                                                *)
ArmWrapped(list, t, at) ==
    LET later == {i \in 1..Len(list) : list[i].at >= at}
        n == IF later = {} THEN Len(list) + 1 ELSE Min(later)
    IN  InsertAt(list, n, [timer |-> t, at |-> at])

(* rt_timer_start's insertion: before the first timer that expires later;  *)
(* timers of the same tick stay in the order in which they were started.   *)
Arm(list, t, at) ==
    LET later == {i \in 1..Len(list) : Ahead(list[i].at, at) \in 1..Half-1}
        n == IF later = {} THEN Len(list) + 1 ELSE Min(later)
    IN  InsertAt(list, n, [timer |-> t, at |-> at])

(* _rt_timer_remove: rt_list_remove of the timer, wherever it is.          *)
Disarm(list, t) == RemoveFirstMatch(list, LAMBDA e : e.timer = t)

(* rt_timer_check's test of the first timer.                               *)
Expired(list, now) == list # <<>> /\ Ahead(now, Head(list).at) < Half

Armed(list) == {list[i].timer : i \in 1..Len(list)}
=============================================================================
