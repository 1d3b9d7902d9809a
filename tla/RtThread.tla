------------------------------ MODULE RtThread ------------------------------
(***************************************************************************)
(* Threads, the scheduler, the tick and the threads' timers (src/thread.c, *)
(* scheduler.c, clock.c, timer.c, idle.c) on one processor, with the       *)
(* semaphore of RtSem as the object the threads wait for.                  *)
(*                                                                         *)
(* A call is one critical section, followed by its rt_schedule: between    *)
(* the two any interrupt may come.  The tick interrupt is a step that      *)
(* counts, one step for every timer that expires, and one that returns.    *)
(***************************************************************************)
EXTENDS RtSem

CONSTANTS
    Main,       \* the main thread, which starts the others
    Idle,       \* the idle thread, which takes no semaphore
    Slice,      \* Slice[t]: init_tick of thread t
    TickMod,
    Waits,      \* the time limits, in ticks, of timed takes
    Sleeps,     \* the times that threads sleep
    Victim,     \* the thread that exits, is deleted and is created again
    Makes,      \* Makes[t]: the kernel calls that thread t makes
    TimedDelete \* whether it may be deleted while its timer is running

T == INSTANCE TickList

All == Threads \cup {Idle}

(* RT_ASSERT(timer->init_tick < RT_TICK_MAX / 2) in rt_timer_start, whose   *)
(* half is at least 2; the idle thread has the last priority to itself.    *)
ASSUME ThreadAssumption ==
    /\ TickMod \in Nat /\ TickMod > 4
    /\ Waits \subseteq 1..T!Half-1 /\ Sleeps \subseteq 0..T!Half-1
    /\ Slice \in [All -> Nat \ {0}]
    /\ Idle \notin Threads /\ Main \in Threads /\ Victim \in Threads \ {Main}
    /\ "delete" \notin Makes[Victim]
    /\ Prio \in [All -> Nat] /\ \A t \in Threads : Prio[t] < Prio[Idle]
    /\ Makes \in [Threads -> SUBSET {"take", "release", "reset", "sleep",
                                     "yield", "create", "delete", "exit"}]
    /\ TimedDelete \in BOOLEAN

VARIABLES
    sched,      \* the scheduler: .cur is rt_current_thread, .stat[t] is the
                \* status of thread t ("FREE": no such thread), .ready[p] the
                \* ready list of priority p, .yield the threads with
                \* RT_THREAD_STAT_YIELD
    slice,      \* slice[t]: remaining_tick
    tick,       \* rt_tick
    timers,     \* rt_timer_list, the thread timers on it
    isr,        \* the tick interrupt: "none", "tick" (counted), "check"
    call,       \* what is left of the call thread t is in: "none",
                \* "schedule", or the rest of rt_thread_delete
    left        \* history: the ticks thread t has still to wait

threadVars == <<sched, slice, tick, timers, isr, call, left>>

-----------------------------------------------------------------------------
(* The scheduler's operations, on a value s of sched.                      *)

Top(s) == CHOOSE p \in DOMAIN s.ready :
             s.ready[p] # <<>> /\ \A q \in DOMAIN s.ready : q < p => s.ready[q] = <<>>

(* rt_schedule_insert_thread; the current thread is not put on a list.     *)
Ready(s, t) ==
    IF t = s.cur THEN [s EXCEPT !.stat[t] = "RUNNING"]
    ELSE [s EXCEPT !.stat[t] = "READY", !.ready[Prio[t]] = Append(@, t)]

(* rt_schedule_remove_thread.                                              *)
Unready(s, t) == [s EXCEPT !.ready[Prio[t]] = L!Delist(@, t)]

Suspended(s, t) == [Unready(s, t) EXCEPT !.stat[t] = "SUSPEND"]

(* Whether rt_schedule lets the current thread run on.                     *)
Stays(s) ==
    /\ s.stat[s.cur] = "RUNNING"
    /\ \/ Prio[s.cur] < Top(s)
       \/ Prio[s.cur] = Top(s) /\ s.cur \notin s.yield

(* Mutant: the thread switched from is not put back on its ready list.     *)
ScheduleLost(s) ==
    IF (\A p \in DOMAIN s.ready : s.ready[p] = <<>>) \/ Stays(s) THEN s
    ELSE LET to == Head(s.ready[Top(s)])
         IN  [Unready(s, to) EXCEPT !.cur = to, !.stat[to] = "RUNNING"]

(* Mutant: the end of a slice does not make way.                           *)
ScheduleNoYield(s) ==
    IF \/ \A p \in DOMAIN s.ready : s.ready[p] = <<>>
       \/ s.stat[s.cur] = "RUNNING" /\ Prio[s.cur] <= Top(s)
    THEN s
    ELSE LET to   == Head(s.ready[Top(s)])
             next == [s EXCEPT !.cur = to]
             back == IF s.stat[s.cur] = "RUNNING" THEN Ready(next, s.cur) ELSE next
         IN  [Unready(back, to) EXCEPT !.stat[to] = "RUNNING"]

(* rt_schedule, with the scheduler unlocked.  A thread that is still       *)
(* running goes to the end of its ready list and loses its YIELD status.   *)
Schedule(s) ==
    IF (\A p \in DOMAIN s.ready : s.ready[p] = <<>>) \/ Stays(s) THEN s
    ELSE LET to   == Head(s.ready[Top(s)])
             next == [s EXCEPT !.cur = to]
             back == IF s.stat[s.cur] = "RUNNING"
                     THEN [Ready(next, s.cur) EXCEPT !.yield = @ \ {s.cur}]
                     ELSE next
         IN  [Unready(back, to) EXCEPT !.stat[to] = "RUNNING"]

-----------------------------------------------------------------------------
(* rt_system_scheduler_start has switched to the main thread.              *)
ThreadInit ==
    /\ Init
    /\ sched = [cur   |-> Main,
                stat  |-> [t \in All |-> CASE t = Main -> "RUNNING" [] t = Idle -> "READY"
                                           [] OTHER -> "INIT"],
                ready |-> [p \in {Prio[t] : t \in All} |->
                              IF p = Prio[Idle] THEN <<Idle>> ELSE <<>>],
                yield |-> {}]
    /\ slice = Slice
    /\ tick = 0
    /\ timers = <<>>
    /\ isr = "none"
    /\ call = [t \in All |-> "none"]
    /\ left = [t \in All |-> 0]

clock == <<slice, tick, isr>>

(* Thread t executes, and makes the next of its calls.                     *)
Runs(t) == sched.cur = t /\ isr = "none"
Calls(t, c) == Runs(t) /\ call[t] = "none" /\ c \in Makes[t]

Does(t, rest) == call' = [call EXCEPT ![t] = rest]

(* SET_TIME and rt_timer_start of the timer of thread t.                   *)
StartTimer(t, n) ==
    /\ timers' = T!Arm(T!Disarm(timers, t), t, (tick + n) % TickMod)
    /\ left' = [left EXCEPT ![t] = IF n = 0 THEN 1 ELSE n]

StopTimer(t) ==
    /\ timers' = T!Disarm(timers, t)
    /\ left' = [left EXCEPT ![t] = 0]

(* rt_sem_take: at once, or suspended with or without a timer.             *)
TakeCall(t) ==
    /\ Calls(t, "take") /\ Take(t)
    /\ IF pc'[t] = "idle" THEN UNCHANGED <<sched, call, timers, left>>
       ELSE /\ sched' = Suspended(sched, t)
            /\ Does(t, "schedule")
            /\ \/ pc'[t] = "timed" /\ \E n \in Waits : StartTimer(t, n)
               \/ pc'[t] = "forever" /\ StopTimer(t)
    /\ UNCHANGED clock

(* What a release does to the semaphore and, in rt_thread_resume, to the   *)
(* timer of the thread that it resumes.                                    *)
Resume ==
    /\ Release
    /\ IF waiters = <<>> THEN UNCHANGED <<timers, left>> ELSE StopTimer(Head(waiters))

Resumed == IF waiters = <<>> THEN sched ELSE Ready(sched, Head(waiters))

(* rt_sem_release.                                                         *)
ReleaseCall(t) ==
    /\ Calls(t, "release") /\ Resume
    /\ sched' = Resumed
    /\ Does(t, IF waiters = <<>> THEN "none" ELSE "schedule")
    /\ UNCHANGED clock

(* Mutant: the interrupt resumes a thread and does not reschedule.         *)
ReleaseIsrLater ==
    /\ isr # "check" /\ Resume
    /\ sched' = Resumed
    /\ UNCHANGED <<clock, call>>

(* rt_sem_release in an interrupt, which ends in rt_schedule.  It may come *)
(* inside the tick interrupt until rt_timer_check disables interrupts.     *)
ReleaseIsr ==
    /\ isr # "check" /\ Resume
    /\ \E s \in {Resumed} : sched' = IF waiters = <<>> THEN s ELSE Schedule(s)
    /\ UNCHANGED <<clock, call>>

(* rt_ipc_list_resume_all: every thread of the list is resumed, in order,  *)
(* and its timer is stopped.                                               *)
ReadyAll(s, list) ==
    LET r[i \in 0..Len(list)] == IF i = 0 THEN s ELSE Ready(r[i-1], list[i])
    IN  r[Len(list)]

DisarmAll(ts, list) ==
    LET d[i \in 0..Len(list)] == IF i = 0 THEN ts ELSE T!Disarm(d[i-1], list[i])
    IN  d[Len(list)]

(* rt_sem_control(RT_IPC_CMD_RESET): no waiter is left behind.             *)
ResetCall(t) ==
    /\ Calls(t, "reset") /\ \E v \in Values : Reset(v)
    /\ sched' = ReadyAll(sched, waiters)
    /\ timers' = DisarmAll(timers, waiters)
    /\ left' = [u \in All |-> IF u \in L!Listed(waiters) THEN 0 ELSE left[u]]
    /\ Does(t, "schedule")
    /\ UNCHANGED clock

(* The rt_schedule that a call ends in.                                    *)
ScheduleCall(t) ==
    /\ Runs(t) /\ call[t] = "schedule"
    /\ sched' = Schedule(sched)
    /\ Does(t, "none")
    /\ UNCHANGED <<clock, timers, left, value, waiters, pc>>

(* rt_thread_sleep, rt_thread_mdelay.  Sleeping 0 ticks waits for the next.*)
Sleep(t) ==
    /\ Calls(t, "sleep")
    /\ \E n \in Sleeps : StartTimer(t, n)
    /\ sched' = Suspended(sched, t)
    /\ Does(t, "schedule")
    /\ UNCHANGED <<clock, value, waiters, pc>>

(* rt_thread_yield is rt_schedule and nothing else.                        *)
Yield(t) ==
    /\ Calls(t, "yield")
    /\ sched' = Schedule(sched)
    /\ UNCHANGED <<clock, call, timers, left, value, waiters, pc>>

-----------------------------------------------------------------------------
(* A thread's life.                                                        *)

(* The status t gets from an assignment to thread->stat, without YIELD.    *)
Becomes(s, t, stat) == [s EXCEPT !.stat[t] = stat, !.yield = @ \ {t}]

BeingDeleted == \E t \in Threads : call[t] \in {"detach", "close"}

(* rt_thread_create of the victim.                                         *)
Create(t) ==
    /\ Calls(t, "create") /\ sched.stat[Victim] = "FREE"
    /\ sched' = Becomes(sched, Victim, "INIT")
    /\ slice' = [slice EXCEPT ![Victim] = Slice[Victim]]
    /\ Does(Victim, "none")
    /\ UNCHANGED <<tick, isr, timers, left, value, waiters, pc>>

(* rt_thread_startup of u.                                                 *)
Startup(t, u) ==
    /\ Calls(t, "create") /\ sched.stat[u] = "INIT" /\ ~BeingDeleted
    /\ sched' = Ready(sched, u)
    /\ Does(t, "schedule")
    /\ UNCHANGED <<clock, timers, left, value, waiters, pc>>

(* The victim's entry function returns: rt_thread_exit.                    *)
Exit ==
    /\ Calls(Victim, "exit")
    /\ sched' = Schedule(Becomes(Unready(sched, Victim), Victim, "CLOSE"))
    /\ StopTimer(Victim)
    /\ UNCHANGED <<clock, call, value, waiters, pc>>

(* rt_thread_delete by another thread, in three critical sections: the     *)
(* victim leaves the list it is on, be it a ready list or the semaphore's; *)
(* its timer is detached; it is closed and put on the defunct list.        *)
Delete(t) ==
    /\ Calls(t, "delete") /\ ~BeingDeleted
    /\ sched.stat[Victim] \notin {"FREE", "CLOSE"}
    /\ Victim \in T!Armed(timers) => TimedDelete
    /\ sched' = Unready(sched, Victim)
    /\ IF pc[Victim] # "idle" THEN Drop(Victim) ELSE UNCHANGED <<value, waiters, pc>>
    /\ Does(t, "detach")
    /\ UNCHANGED <<clock, timers, left>>

DeleteTimer(t) ==
    /\ Runs(t) /\ call[t] = "detach"
    /\ StopTimer(Victim)
    /\ Does(t, "close")
    /\ UNCHANGED <<clock, sched, value, waiters, pc>>

DeleteClose(t) ==
    /\ Runs(t) /\ call[t] = "close"
    /\ sched' = Becomes(sched, Victim, "CLOSE")
    /\ Does(t, "none")
    /\ UNCHANGED <<clock, timers, left, value, waiters, pc>>

(* rt_thread_idle_excute frees a defunct thread.                           *)
IdleFree ==
    /\ Runs(Idle) /\ sched.stat[Victim] = "CLOSE"
    /\ sched' = [sched EXCEPT !.stat[Victim] = "FREE"]
    /\ UNCHANGED <<clock, call, timers, left, value, waiters, pc>>

-----------------------------------------------------------------------------
(* The tick interrupt.                                                     *)

(* rt_tick_increase: the tick, and the slice of the current thread, which  *)
(* is told to yield at its end.                                            *)
Tick ==
    /\ isr = "none"
    /\ isr' = "tick"
    /\ tick' = (tick + 1) % TickMod
    /\ LET c == sched.cur
       IN  IF slice[c] = 1
           THEN /\ slice' = [slice EXCEPT ![c] = Slice[c]]
                /\ \E s \in {[sched EXCEPT !.yield = @ \cup {c}]} : sched' = Schedule(s)
           ELSE /\ slice' = [slice EXCEPT ![c] = @ - 1]
                /\ UNCHANGED sched
    /\ left' = [t \in All |-> IF left[t] = 0 THEN 0 ELSE left[t] - 1]
    /\ UNCHANGED <<timers, call, value, waiters, pc>>

(* rt_timer_check removes the first timer, which has expired, and calls    *)
(* rt_thread_timeout.                                                      *)
Expire ==
    /\ isr # "none" /\ T!Expired(timers, tick)
    /\ isr' = "check"
    /\ timers' = Tail(timers)
    /\ LET t == Head(timers).timer
       IN  /\ \E s \in {Ready(sched, t)} : sched' = Schedule(s)
           /\ IF pc[t] = "timed" THEN Timeout(t)
              ELSE UNCHANGED <<value, waiters, pc>>
    /\ UNCHANGED <<slice, tick, call, left>>

(* No (other) timer has expired: the interrupt returns.                    *)
TickReturn ==
    /\ isr # "none" /\ ~T!Expired(timers, tick)
    /\ isr' = "none"
    /\ UNCHANGED <<sched, slice, tick, timers, call, left, value, waiters, pc>>

ThreadStep(t) ==
    \/ TakeCall(t) \/ ReleaseCall(t) \/ ResetCall(t) \/ ScheduleCall(t)
    \/ Sleep(t) \/ Yield(t) \/ Create(t) \/ \E u \in Threads : Startup(t, u)
    \/ Delete(t) \/ DeleteTimer(t) \/ DeleteClose(t)

ThreadNext ==
    /\ \/ \E t \in Threads : ThreadStep(t)
       \/ Exit \/ IdleFree \/ ReleaseIsr \/ Tick \/ Expire \/ TickReturn
    /\ UNCHANGED flag

allVars == <<vars, threadVars>>

(* The clock goes on, and an interrupt keeps releasing the semaphore.      *)
ThreadSpec ==
    /\ ThreadInit /\ [][ThreadNext]_allVars
    /\ WF_allVars((Tick \/ Expire \/ TickReturn) /\ UNCHANGED flag)
    /\ SF_allVars(ReleaseIsr /\ UNCHANGED flag)

-----------------------------------------------------------------------------
Stats == {"INIT", "READY", "RUNNING", "SUSPEND", "CLOSE", "FREE"}

ThreadTypeOK ==
    /\ TypeOK
    /\ sched.cur \in All /\ sched.stat \in [All -> Stats] /\ sched.yield \subseteq All
    /\ \A p \in DOMAIN sched.ready : L!Listed(sched.ready[p]) \subseteq All
    /\ slice \in [All -> Nat] /\ \A t \in All : slice[t] \in 1..Slice[t]
    /\ tick \in 0..TickMod-1
    /\ isr \in {"none", "tick", "check"}
    /\ call \in [All -> {"none", "schedule", "detach", "close"}]
    /\ T!Armed(timers) \subseteq Threads

(* Thread t is not twice on the list.                                      *)
Once(list, t) ==
    \A i, j \in DOMAIN list : list[i] = t /\ list[j] = t => i = j

(* A thread is on the list of its status and on no other, once: the ready  *)
(* list of its priority if and only if it is ready; suspended (and never   *)
(* the running one) if it is on the semaphore's list or its timer runs; a  *)
(* thread that has ended is on none (rt_thread_delete: "will be removed    *)
(* from thread queue").                                                    *)
OneListEach ==
    \A t \in All : ~(t = Victim /\ BeingDeleted) =>
        /\ \A p \in DOMAIN sched.ready :
              /\ t \in L!Listed(sched.ready[p]) <=>
                     sched.stat[t] = "READY" /\ p = Prio[t]
              /\ Once(sched.ready[p], t)
        /\ Once([i \in DOMAIN timers |-> timers[i].timer], t)
        /\ sched.stat[t] = "RUNNING" => t = sched.cur
        /\ t \in L!Listed(waiters) \cup T!Armed(timers) => sched.stat[t] = "SUSPEND"
        /\ sched.stat[t] = "SUSPEND" =>
              t \in L!Listed(waiters) \cup T!Armed(timers)
        /\ t \in Threads /\ pc[t] = "timed" => t \in T!Armed(timers)

(* Outside interrupts, a thread that is in no call is as urgent as every   *)
(* thread that is ready.                                                   *)
MostUrgentRuns ==
    isr = "none" /\ call[sched.cur] = "none" =>
        \A t \in All : sched.stat[t] = "READY" => Prio[sched.cur] <= Prio[t]

(* A timed wait ends neither early nor late, wherever the tick wraps:      *)
(* between ticks the timers on the list are those with ticks left.         *)
InTime == isr = "none" => T!Armed(timers) = {t \in All : left[t] > 0}

(* A thread stays ready for ever only if more urgent ones keep running:    *)
(* equally urgent threads take turns.                                      *)
RoundRobin ==
    \A t \in Threads : <>[](t \in L!Listed(sched.ready[Prio[t]]))
                         => []<>(Prio[sched.cur] < Prio[t])
=============================================================================
