------------------------------ MODULE RtMutex ------------------------------
(***************************************************************************)
(* The kernel's recursive mutex with priority inheritance (rt_mutex_ calls *)
(* of src/ipc.c, the priority change of src/thread.c) under the scheduler  *)
(* on one core: rt_schedule switches to one of the most urgent ready       *)
(* threads, and between its calls a thread runs on.  Threads take and      *)
(* release several mutexes, sleep, and time out while they wait.  The      *)
(* order among equally urgent ready threads is left open.                  *)
(***************************************************************************)
EXTENDS Integers, Sequences, FiniteSets

CONSTANTS
    Threads, Mutexes,
    Flags,      \* the flags its mutexes may be initialised with
    Uses,       \* the sets of mutexes a program may use
    Base,       \* Base[t]: init_priority of thread t; lower is more urgent
    MaxHold,    \* bound on the nesting of one thread's takes of one mutex
    Lifo,       \* TRUE: threads release mutexes in the reverse order of taking
    NULL

ASSUME MutexAssumption ==
    /\ NULL \notin Threads
    /\ IsFiniteSet(Mutexes) /\ Uses \subseteq SUBSET Mutexes
    /\ Flags \subseteq {"FIFO", "PRIO"}
    /\ Base \in [Threads -> Nat]
    /\ MaxHold \in Nat \ {0} /\ Lifo \in BOOLEAN

VARIABLES
    used,       \* the mutexes of this program,
    flag,       \* and their parent.parent.flag
    value, owner, hold, orig,   \* the struct rt_mutex: value, owner, hold,
                                \* original_priority
    waiters,    \* parent.suspend_thread
    prio,       \* current_priority of each thread
    state,      \* "ready"; "blocked" in rt_mutex_take; "asleep" in a delay
    current,    \* rt_current_thread; NULL is the idle thread
    wait,       \* the time a blocked thread waits: "some" or "forever"
    held        \* history: the mutexes a thread holds, last taken first

fixed   == <<used, flag>>
mutexes == <<value, owner, hold, orig, waiters>>
vars    == <<fixed, mutexes, prio, state, current, wait, held>>

Unset == 255    \* original_priority 0xff

Priorities == {Base[t] : t \in Threads}

L == INSTANCE IpcList WITH Flag <- flag, Prio <- prio

Listed(m) == L!Listed(waiters[m])

TypeOK ==
    /\ used \in Uses
    /\ flag \in Flags
    /\ value \in [Mutexes -> {0, 1}]
    /\ owner \in [Mutexes -> Threads \cup {NULL}]
    /\ hold \in [Mutexes -> 0..MaxHold]
    /\ orig \in [Mutexes -> Priorities \cup {Unset}]
    /\ waiters \in [Mutexes -> Seq(Threads)]
    /\ prio \in [Threads -> Priorities]
    /\ state \in [Threads -> {"ready", "blocked", "asleep"}]
    /\ current \in Threads \cup {NULL}
    /\ wait \in [Threads -> {"some", "forever"}]
    /\ held \in [Threads -> Seq(Mutexes)]

MostUrgent(p, st) ==
    LET ready == {t \in Threads : st[t] = "ready"}
    IN  IF ready = {} THEN {NULL}
        ELSE {t \in ready : \A u \in ready : p[t] <= p[u]}

Init ==
    /\ used \in Uses
    /\ flag \in Flags
    /\ value = [m \in Mutexes |-> 1]
    /\ owner = [m \in Mutexes |-> NULL]
    /\ hold = [m \in Mutexes |-> 0]
    /\ orig = [m \in Mutexes |-> Unset]
    /\ waiters = [m \in Mutexes |-> <<>>]
    /\ prio = Base
    /\ state = [t \in Threads |-> "ready"]
    /\ current \in MostUrgent(Base, state)
    /\ wait = [t \in Threads |-> "forever"]
    /\ held = [t \in Threads |-> <<>>]

(* rt_schedule, after the caller's changes.                                *)
Reschedule == current' \in MostUrgent(prio', state')

-----------------------------------------------------------------------------
(* The branches of rt_mutex_take(m, time) by the running thread.  (On a    *)
(* mutex of another thread, time = 0 returns -RT_ETIMEOUT at once and      *)
(* changes nothing.)                                                       *)
TakeAgain(t, m) ==
    /\ owner[m] = t
    /\ hold[m] < MaxHold
    /\ hold' = [hold EXCEPT ![m] = @ + 1]
    /\ UNCHANGED <<value, owner, orig, waiters, prio, state, current, wait, held>>

TakeFree(t, m) ==
    /\ owner[m] # t /\ value[m] > 0
    /\ value' = [value EXCEPT ![m] = @ - 1]
    /\ owner' = [owner EXCEPT ![m] = t]
    /\ orig' = [orig EXCEPT ![m] = prio[t]]
    /\ hold' = [hold EXCEPT ![m] = @ + 1]
    /\ held' = [held EXCEPT ![t] = <<m>> \o @]
    /\ UNCHANGED <<waiters, prio, state, current, wait>>

(* Mutant: the owner does not inherit the waiter's priority.               *)
InheritNot(o, p) == prio

(* The priorities after owner o inherits p (rt_thread_control): a thread   *)
(* that is itself blocked keeps its place in the list it is in.            *)
Inherit(o, p) == [prio EXCEPT ![o] = IF p < @ THEN p ELSE @]

TakeBlock(t, m) ==
    /\ owner[m] # t /\ value[m] = 0
    /\ prio' = Inherit(owner[m], prio[t])
    /\ waiters' = [waiters EXCEPT ![m] = L!Enlist(@, t)]
    /\ state' = [state EXCEPT ![t] = "blocked"]
    /\ \E w \in {"some", "forever"} : wait' = [wait EXCEPT ![t] = w]
    /\ UNCHANGED <<value, owner, hold, orig, held>>
    /\ Reschedule

Take(t, m) ==
    /\ current = t
    /\ TakeAgain(t, m) \/ TakeFree(t, m) \/ TakeBlock(t, m)

-----------------------------------------------------------------------------
(* rt_mutex_release(m) that only decreases hold.                           *)
ReleaseInner(t, m) ==
    /\ hold[m] > 1
    /\ hold' = [hold EXCEPT ![m] = @ - 1]
    /\ UNCHANGED <<value, owner, orig, waiters, prio, state, current, wait, held>>

(* Mutant: the owner keeps the priority it inherited.                      *)
RestoreNot(t, m) == UNCHANGED prio

(* The owner goes back to the priority it took m with.                     *)
Restore(t, m) == prio' = [prio EXCEPT ![t] = orig[m]]

NextOwner(t, m) ==
    LET next == Head(waiters[m])
    IN  /\ owner' = [owner EXCEPT ![m] = next]
        /\ orig' = [orig EXCEPT ![m] = prio[next]]
        /\ hold' = [hold EXCEPT ![m] = 1]
        /\ waiters' = [waiters EXCEPT ![m] = Tail(@)]
        /\ state' = [state EXCEPT ![next] = "ready"]
        /\ held' = [held EXCEPT ![t] = L!Delist(@, m),
                                ![next] = <<m>> \o @]
        /\ Reschedule

(* Mutant: the mutex is also made available.                               *)
HandOverAvailable(t, m) == NextOwner(t, m) /\ value' = [value EXCEPT ![m] = 1]

(* The last release: the first waiter becomes the owner at once, ...       *)
HandOver(t, m) == NextOwner(t, m) /\ UNCHANGED value

(* ... or, with no waiter, the mutex becomes available and t runs on, even *)
(* if its priority is now below that of a ready thread.                    *)
MakeAvailable(t, m) ==
    /\ value' = [value EXCEPT ![m] = @ + 1]
    /\ owner' = [owner EXCEPT ![m] = NULL]
    /\ orig' = [orig EXCEPT ![m] = Unset]
    /\ hold' = [hold EXCEPT ![m] = 0]
    /\ held' = [held EXCEPT ![t] = L!Delist(@, m)]
    /\ UNCHANGED <<waiters, state, current>>

ReleaseLast(t, m) ==
    /\ hold[m] = 1
    /\ Restore(t, m)
    /\ IF waiters[m] # <<>> THEN HandOver(t, m) ELSE MakeAvailable(t, m)
    /\ UNCHANGED wait

(* rt_mutex_release: only the owner's has an effect.                       *)
Release(t, m) ==
    /\ current = t
    /\ owner[m] = t
    /\ Lifo => Head(held[t]) = m
    /\ ReleaseInner(t, m) \/ ReleaseLast(t, m)

-----------------------------------------------------------------------------
(* rt_thread_timeout: the take returns -RT_ETIMEOUT; the priority the      *)
(* owner inherited from this thread stays.                                 *)
Timeout(t, m) ==
    /\ state[t] = "blocked" /\ wait[t] = "some"
    /\ t \in Listed(m)
    /\ waiters' = [waiters EXCEPT ![m] = L!Delist(@, t)]
    /\ state' = [state EXCEPT ![t] = "ready"]
    /\ UNCHANGED <<value, owner, hold, orig, prio, wait, held>>
    /\ Reschedule

(* rt_thread_delay, and the end of it.                                     *)
Sleep(t) ==
    /\ current = t
    /\ state' = [state EXCEPT ![t] = "asleep"]
    /\ UNCHANGED <<mutexes, prio, wait, held>>
    /\ Reschedule

Wake(t) ==
    /\ state[t] = "asleep"
    /\ state' = [state EXCEPT ![t] = "ready"]
    /\ UNCHANGED <<mutexes, prio, wait, held>>
    /\ Reschedule

(* rt_tick_increase: the time slice of the running thread is over.         *)
Tick == UNCHANGED <<mutexes, prio, state, wait, held>> /\ Reschedule

Step(A) == A /\ UNCHANGED fixed

Next == Step(\/ Tick
             \/ \E t \in Threads : Sleep(t) \/ Wake(t)
             \/ \E t \in Threads, m \in used :
                    Take(t, m) \/ Release(t, m) \/ Timeout(t, m))

Spec == Init /\ [][Next]_vars

(* The last of the nested releases of m.                                   *)
Leave(t, m) == Release(t, m) /\ hold[m] = 1

(* A delay and a time slice end, and a thread that runs again and again    *)
(* while it holds a mutex leaves the critical section at last, through     *)
(* nested takes, delays and preemptions.  Nothing else is assumed: a       *)
(* thread may run for ever without a step, and then no thread less urgent  *)
(* runs.                                                                   *)
FairSpec ==
    /\ Spec
    /\ WF_vars(Step(Tick))
    /\ \A t \in Threads : WF_vars(Step(Wake(t)))
    /\ \A t \in Threads :
          /\ SF_vars(\E m \in used : Step(Release(t, m)))
          /\ SF_vars(\E m \in used : Step(Leave(t, m)))

-----------------------------------------------------------------------------
(* The mutex's fields agree with each other and with the threads: it is    *)
(* available, or owned by one thread that is not waiting for it; nobody    *)
(* waits for an available mutex; a thread is blocked on exactly one; and   *)
(* the variables keep their types.                                         *)
Ownership ==
    /\ TypeOK
    /\ \A m \in Mutexes :
        /\ value[m] = 1 <=> owner[m] = NULL
        /\ hold[m] = 0 <=> owner[m] = NULL
        /\ waiters[m] # <<>> => owner[m] # NULL
        /\ owner[m] \notin Listed(m)
        /\ \A t \in Threads : owner[m] = t <=> m \in {held[t][i] : i \in DOMAIN held[t]}
    /\ \A t \in Threads :
        state[t] = "blocked" <=>
            \E m \in Mutexes : /\ t \in Listed(m)
                               /\ \A k \in Mutexes \ {m} : t \notin Listed(k)

(* A thread that holds no mutex runs at its own priority ("change the      *)
(* owner thread to original priority", rt_mutex_release).  It takes        *)
(* releases in LIFO order to keep this.                                    *)
PriorityRestored ==
    \A t \in Threads : held[t] = <<>> => prio[t] = Base[t]

(* While a thread waits for a mutex whose owner is ready, the owner runs   *)
(* or a thread that is at least as urgent as the waiter does.              *)
NoReversion ==
    \A m \in Mutexes : \A t \in Listed(m) :
        state[owner[m]] = "ready" =>
            current # NULL /\ (current = owner[m] \/ prio[current] <= prio[t])

OnePrioMutex == Cardinality(used) = 1 /\ flag = "PRIO"

(* "Mutex objects use inherited priority to prevent priority reversion"    *)
(* (kernel.h): true of a single mutex with a PRIO list.                    *)
NoPriorityReversion == OnePrioMutex => NoReversion

(* The same as a response: the most urgent thread gets the mutex (or times *)
(* out) although a thread of middle urgency may run for ever.              *)
MostUrgentProceeds ==
    \A t \in Threads :
        (\A u \in Threads \ {t} : Base[t] < Base[u]) =>
            (OnePrioMutex /\ state[t] = "blocked" ~> state[t] = "ready")

(* "When the resource is available, thread pended on this resource who had *)
(* the most high priority would get the resource" (kernel.h, of            *)
(* RT_IPC_FLAG_PRIO): true when no waiter's priority is raised through     *)
(* another mutex.                                                          *)
MostUrgentFirst ==
    [][OnePrioMutex =>
          \A m \in used : owner'[m] # owner[m] /\ waiters[m] # <<>> =>
              \A t \in Listed(m) : prio[owner'[m]] <= prio[t]]_vars
=============================================================================
