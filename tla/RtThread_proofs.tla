---------------------------- MODULE RtThread_proofs ----------------------------
(***************************************************************************)
(* Proofs about the semaphore (RtSem) and about the scheduler, the tick    *)
(* and the threads' timers around it (RtThread).                           *)
(***************************************************************************)
EXTENDS RtThread, SeqLemmas

-----------------------------------------------------------------------------
(* What the list operators of IpcList do to a list on which no thread is   *)
(* twice.                                                                  *)
LEMMA EnlistFacts ==
    ASSUME NEW S, NEW s \in Seq(S), NEW e \in S
    PROVE  /\ L!Enlist(s, e) \in Seq(S) /\ L!Enlist(s, e) # <<>>
           /\ Elements(L!Enlist(s, e)) = Elements(s) \cup {e}
           /\ e \notin Elements(s) /\ IsInjective(s) => IsInjective(L!Enlist(s, e))
<1> DEFINE n == L!Place(s, e)
<1>1. n \in 0..Len(s)
  <2>1. Len(s) \in Nat
    BY LenProperties
  <2> DEFINE I == {i \in 1..Len(s) : Prio[e] < Prio[s[i]]}
  <2>2. I # {} => L!Min(I) \in I
    <3>1. I \in SUBSET Nat
      OBVIOUS
    <3>2. QED BY <3>1, MinOf DEF Min, L!Min
  <2>3. n = IF flag = "FIFO" THEN 0 ELSE IF I # {} THEN L!Min(I) ELSE 0
    BY DEF L!Place, L!SelectInSeq
  <2> HIDE DEF n
  <2>4. QED BY <2>1, <2>2, <2>3
<1>2. L!Enlist(s, e) = IF n = 0 THEN Append(s, e) ELSE InsertAt(s, n, e)
  BY DEF L!Enlist, L!InsertAt, InsertAt
<1> HIDE DEF n
<1>3. QED BY <1>1, <1>2, Enlisted

LEMMA DelistFacts ==
    ASSUME NEW S, NEW s \in Seq(S), NEW e, IsInjective(s)
    PROVE  /\ L!Delist(s, e) \in Seq(S)
           /\ Elements(L!Delist(s, e)) = Elements(s) \ {e}
           /\ IsInjective(L!Delist(s, e))
           /\ e \notin Elements(s) => L!Delist(s, e) = s
<1>1. L!Delist(s, e) = RemoveFirst(s, e)
  BY DEF L!Delist, L!RemoveFirst, RemoveFirst, L!RemoveAt, RemoveAt,
         L!SelectInSeq, SelectInSeq, L!Min, Min
<1>2. QED BY <1>1, Delisted

(* The empty list.                                                         *)
LEMMA NobodyListed ==
    /\ \A S : <<>> \in Seq(S)
    /\ Elements(<<>>) = {} /\ IsInjective(<<>>)
BY DEF Elements, IsInjective

-----------------------------------------------------------------------------
(* The semaphore.  Its steps keep the list of waiters and the threads'     *)
(* states together.                                                        *)
SemInv == TypeOK /\ NoWaiterBesideToken

(* The list of waiters in the words of SeqLemmas.                          *)
LEMMA SemTyped ==
    TypeOK <=> /\ flag \in {"FIFO", "PRIO"}
               /\ value \in 0..Mod-1
               /\ pc \in [Threads -> {"idle", "timed", "forever"}]
               /\ waiters \in Seq(Threads)
               /\ Elements(waiters) = {t \in Threads : pc[t] # "idle"}
               /\ IsInjective(waiters)
BY DEF TypeOK, L!Listed, L!IsInjective, Elements, IsInjective

LEMMA SemTypedNext ==
    TypeOK' <=> /\ flag' \in {"FIFO", "PRIO"}
                /\ value' \in 0..Mod-1
                /\ pc' \in [Threads -> {"idle", "timed", "forever"}]
                /\ waiters' \in Seq(Threads)
                /\ Elements(waiters') = {t \in Threads : pc'[t] # "idle"}
                /\ IsInjective(waiters')
BY DEF TypeOK, L!Listed, L!IsInjective, Elements, IsInjective

LEMMA SemInitInv == Init => SemInv
BY SemAssumption, NobodyListed, SemTyped DEF Init, SemInv, NoWaiterBesideToken

LEMMA TakeInv ==
    ASSUME SemInv, NEW t \in Threads, Take(t), UNCHANGED flag
    PROVE  SemInv'
<1> USE SemTyped, SemTypedNext DEF SemInv, NoWaiterBesideToken
<1>1. CASE value > 0
  BY <1>1, SemAssumption DEF Take
<1>2. CASE value = 0
  <2>1. t \notin Elements(waiters)
    BY DEF Take
  <2>2. waiters' = L!Enlist(waiters, t) /\ value' = 0
    BY <1>2 DEF Take
  <2>3. PICK w \in {"timed", "forever"} : pc' = [pc EXCEPT ![t] = w]
    BY <1>2 DEF Take
  <2>4. waiters \in Seq(Threads) /\ IsInjective(waiters)
    OBVIOUS
  <2>5. /\ waiters' \in Seq(Threads)
        /\ Elements(waiters') = Elements(waiters) \cup {t}
        /\ IsInjective(waiters')
    <3> DEFINE list == L!Enlist(waiters, t)
    <3>1. /\ list \in Seq(Threads) /\ Elements(list) = Elements(waiters) \cup {t}
          /\ IsInjective(list)
      BY <2>1, <2>4, EnlistFacts
    <3> HIDE DEF list
    <3>2. waiters' = list
      BY <2>2 DEF list
    <3>3. QED BY <3>1, <3>2
  <2>6. QED BY <1>2, <2>2, <2>3, <2>5, SemAssumption
<1>3. QED BY <1>1, <1>2, SemAssumption

(* The thread that a release resumes leaves the list.                      *)
LEMMA ReleaseInv ==
    ASSUME SemInv, Release, UNCHANGED flag
    PROVE  SemInv'
<1> USE SemTyped, SemTypedNext DEF SemInv, NoWaiterBesideToken
<1>1. CASE waiters = <<>>
  BY <1>1, SemAssumption DEF Release
<1>2. CASE waiters # <<>>
  <2>1. /\ Head(waiters) \in Threads
        /\ Tail(waiters) \in Seq(Threads) /\ IsInjective(Tail(waiters))
        /\ Elements(Tail(waiters)) = Elements(waiters) \ {Head(waiters)}
    BY <1>2, HeadLeaves
  <2>2. /\ waiters' = Tail(waiters) /\ value' = value
        /\ pc' = [pc EXCEPT ![Head(waiters)] = "idle"]
    BY <1>2 DEF Release
  <2>3. QED BY <1>2, <2>1, <2>2
<1>3. QED BY <1>1, <1>2

(* A thread that leaves by itself.                                         *)
LEMMA LeaveInv ==
    ASSUME SemInv, NEW t \in Threads, Timeout(t) \/ Drop(t), UNCHANGED flag
    PROVE  SemInv'
<1> USE SemTyped, SemTypedNext DEF SemInv, NoWaiterBesideToken
<1>1. /\ waiters' = L!Delist(waiters, t) /\ value' = value
      /\ pc' = [pc EXCEPT ![t] = "idle"]
  BY DEF Timeout, Drop
<1>2. /\ waiters' \in Seq(Threads) /\ IsInjective(waiters')
      /\ Elements(waiters') = Elements(waiters) \ {t}
  BY <1>1, DelistFacts
<1>3. waiters' # <<>> => waiters # <<>>
  <2>1. CASE waiters = <<>>
    BY <1>2, <2>1, NobodyListed, EmptyList
  <2>2. QED BY <2>1
<1>4. QED BY <1>1, <1>2, <1>3

LEMMA ResetInv ==
    ASSUME SemInv, NEW v \in Values, Reset(v), UNCHANGED flag
    PROVE  SemInv'
BY SemAssumption, NobodyListed, SemTyped, SemTypedNext
   DEF SemInv, NoWaiterBesideToken, Reset

LEMMA SemStutter == SemInv /\ UNCHANGED vars => SemInv'
BY SemTyped, SemTypedNext DEF SemInv, NoWaiterBesideToken, vars

LEMMA SemStep ==
    ASSUME SemInv, [Next]_vars
    PROVE  SemInv'
<1>1. ASSUME NEW t \in Threads, Take(t), UNCHANGED flag PROVE SemInv'
  BY <1>1, TakeInv
<1>2. ASSUME NEW t \in Threads, Timeout(t) \/ Drop(t), UNCHANGED flag PROVE SemInv'
  BY <1>2, LeaveInv
<1>3. ASSUME Release, UNCHANGED flag PROVE SemInv'
  BY <1>3, ReleaseInv
<1>4. ASSUME NEW v \in Values, Reset(v), UNCHANGED flag PROVE SemInv'
  BY <1>4, ResetInv
<1>5. CASE UNCHANGED vars
  BY <1>5, SemStutter
<1>6. QED BY <1>1, <1>2, <1>3, <1>4, <1>5 DEF Next

(* Whatever interrupts, time-outs, deletions and resets come in between,   *)
(* the threads on a semaphore's list are those suspended in rt_sem_take    *)
(* and no thread sleeps while there is a token, for every set of threads,  *)
(* their priorities and the width of the counter.                          *)
THEOREM SemCorrect == Spec => [](TypeOK /\ NoWaiterBesideToken)
<1>1. SemInv /\ [Next]_vars => SemInv'
  BY SemStep
<1>2. QED BY SemInitInv, <1>1, PTL DEF Spec, SemInv

-----------------------------------------------------------------------------
(* The scheduler and the timers, as long as no thread is deleted while its *)
(* timer runs.                                                             *)

Levels == {Prio[t] : t \in All}

SchedSet == [cur   : All,
             stat  : [All -> Stats],
             ready : [Levels -> Seq(All)],
             yield : SUBSET All]

Deleting == {"detach", "close"}

(* The thread that is between the first and the last step of its deletion. *)
GoneIn(calls) == IF \E t \in Threads : calls[t] \in Deleting THEN {Victim} ELSE {}

Gone == GoneIn(call)

(* The ready lists hold the threads that are ready, each once, but for one *)
(* that is being deleted; the idle thread never sleeps.                    *)
ListsOK(s, gone) ==
    /\ s \in SchedSet
    /\ \A p \in Levels : IsInjective(s.ready[p])
    /\ \A t \in All : \A p \in Levels :
          t \in Elements(s.ready[p]) <=> t \notin gone /\ s.stat[t] = "READY" /\ p = Prio[t]
    /\ \A t \in All : s.stat[t] = "RUNNING" => t = s.cur
    /\ s.stat[s.cur] # "READY" /\ s.cur \notin gone
    /\ s.stat[Idle] \in {"READY", "RUNNING"} /\ Idle \notin gone

TimerSet == [timer : Threads, at : 0..TickMod-1]

(* No timer is on the list twice.                                          *)
TimersOK(ts) ==
    /\ ts \in Seq(TimerSet) /\ IsInjective(ts)
    /\ \A a, b \in Elements(ts) : a.timer = b.timer => a = b

Timing(ts) == {e.timer : e \in Elements(ts)}

(* A thread that is suspended sleeps on the semaphore or on its timer, and *)
(* on both in a timed take; one that is being deleted on neither.          *)
SleepersOK(s, gone, p, timing) ==
    /\ \A t \in Threads \ gone :
          /\ s.stat[t] = "SUSPEND" <=> p[t] # "idle" \/ t \in timing
          /\ p[t] = "timed" => t \in timing
          /\ p[t] = "forever" => t \notin timing
    /\ \A t \in gone : p[t] = "idle" /\ t \notin timing

(* One thread at a time deletes the victim, which is not more urgent.      *)
DeleterOK(s, calls) ==
    \A d \in All : calls[d] \in Deleting =>
        /\ d # Victim /\ s.stat[d] \in {"READY", "RUNNING"}
        /\ \A e \in All : calls[e] \in Deleting => e = d
        /\ s.stat[Victim] \in {"INIT", "READY", "SUSPEND"}
        /\ s.stat[Victim] = "READY" => Prio[d] <= Prio[Victim]

(* Only the running thread may be suspended and still executing, until its *)
(* rt_schedule.                                                            *)
RunnerOK(s, calls) ==
    s.stat[s.cur] # "RUNNING" => s.stat[s.cur] = "SUSPEND" /\ calls[s.cur] = "schedule"

(* The running thread is a most urgent one.                                *)
Urgent(s) ==
    \A t \in All : s.stat[t] = "READY" => Prio[s.cur] <= Prio[t]

CallSet == [All -> {"none", "schedule"} \cup Deleting]

ClockOK ==
    /\ slice \in [All -> Nat] /\ \A t \in All : slice[t] \in 1..Slice[t]
    /\ tick \in 0..TickMod-1
    /\ isr \in {"none", "tick", "check"}

(* What holds of the threads between any two steps.                        *)
ThreadsOK ==
    /\ ListsOK(sched, Gone) /\ TimersOK(timers)
    /\ SleepersOK(sched, Gone, pc, Timing(timers))
    /\ call \in CallSet /\ call[Idle] = "none"
    /\ DeleterOK(sched, call) /\ RunnerOK(sched, call)
    /\ call[sched.cur] # "schedule" => Urgent(sched)

ThreadInv == SemInv /\ ThreadsOK /\ ClockOK

LEMMA InAll ==
    /\ Threads \subseteq All /\ Idle \in All /\ Idle \notin Threads
    /\ Main \in Threads /\ Victim \in Threads /\ Main # Victim
    /\ Prio \in [All -> Nat] /\ TickMod \in Nat /\ TickMod > 4
    /\ Slice \in [All -> Nat \ {0}]
BY ThreadAssumption DEF All

-----------------------------------------------------------------------------
(* The scheduler's operations.                                             *)

(* What putting a thread at the end of a list does.                        *)
LEMMA AppendFacts ==
    ASSUME NEW S, NEW s \in Seq(S), NEW e \in S
    PROVE  /\ Append(s, e) \in Seq(S)
           /\ Elements(Append(s, e)) = Elements(s) \cup {e}
           /\ e \notin Elements(s) /\ IsInjective(s) => IsInjective(Append(s, e))
<1>1. 0 \in 0..Len(s)+1
  BY LenProperties
<1>2. QED BY <1>1, Enlisted, SMTT(30)

(* A thread that wakes.                                                    *)
LEMMA ReadyFacts ==
    ASSUME NEW s, NEW gone, ListsOK(s, gone), NEW t \in All \ gone,
           s.stat[t] \notin {"READY", "RUNNING"}
    PROVE  /\ ListsOK(Ready(s, t), gone)
           /\ Ready(s, t).cur = s.cur /\ Ready(s, t).yield = s.yield
           /\ Ready(s, t).stat =
                 [s.stat EXCEPT ![t] = IF t = s.cur THEN "RUNNING" ELSE "READY"]
<1> DEFINE r == Ready(s, t)
<1>1. s \in SchedSet /\ Prio[t] \in Levels /\ t \in All
  BY DEF ListsOK, Levels
<1>2. s.stat \in [All -> Stats] /\ s.ready \in [Levels -> Seq(All)]
  BY <1>1 DEF SchedSet
<1>3. CASE t = s.cur
  <2>1. /\ r \in SchedSet /\ r.cur = s.cur /\ r.yield = s.yield /\ r.ready = s.ready
        /\ r.stat = [s.stat EXCEPT ![t] = "RUNNING"]
    BY <1>1, <1>3 DEF Ready, SchedSet, Stats
  <2> HIDE DEF r
  <2>2. ListsOK(r, gone)
    BY <1>1, <1>2, <1>3, <2>1 DEF ListsOK
  <2>3. QED BY <1>3, <2>1, <2>2 DEF r
<1>4. CASE t # s.cur
  <2> DEFINE p == Prio[t]
             l == Append(s.ready[p], t)
  <2>1. t \notin Elements(s.ready[p]) /\ s.ready[p] \in Seq(All) /\ IsInjective(s.ready[p])
    BY <1>1, <1>2 DEF ListsOK
  <2>2. l \in Seq(All) /\ Elements(l) = Elements(s.ready[p]) \cup {t} /\ IsInjective(l)
    BY <1>1, <2>1, AppendFacts
  <2>3. /\ r.cur = s.cur /\ r.yield = s.yield
        /\ r.stat = [s.stat EXCEPT ![t] = "READY"]
        /\ r.ready = [s.ready EXCEPT ![p] = l]
        /\ r \in SchedSet
    BY <1>1, <1>4, <2>2 DEF Ready, SchedSet, Stats
  <2> HIDE DEF r, l
  <2>4. ASSUME NEW q \in Levels
        PROVE  /\ IsInjective(r.ready[q])
               /\ Elements(r.ready[q]) =
                     IF q = p THEN Elements(s.ready[q]) \cup {t} ELSE Elements(s.ready[q])
    <3>1. r.ready[q] = IF q = p THEN l ELSE s.ready[q]
      BY <1>1, <1>2, <2>3
    <3>2. IsInjective(s.ready[q])
      BY DEF ListsOK
    <3>3. QED BY <2>2, <3>1, <3>2
  <2>5. ListsOK(r, gone)
    <3>1. ASSUME NEW u \in All
          PROVE  r.stat[u] = IF u = t THEN "READY" ELSE s.stat[u]
      BY <1>2, <2>3
    <3>2. ASSUME NEW u \in All, NEW q \in Levels
          PROVE  u \in Elements(r.ready[q]) <=>
                     u \notin gone /\ r.stat[u] = "READY" /\ q = Prio[u]
      <4>1. u \in Elements(s.ready[q]) <=>
                u \notin gone /\ s.stat[u] = "READY" /\ q = Prio[u]
        BY DEF ListsOK
      <4>2. QED BY <2>4, <3>1, <4>1
    <3>3. s.cur \in All /\ Idle \in All
      BY <1>1 DEF SchedSet, All
    <3>4. r.stat[r.cur] # "READY" /\ r.cur \notin gone
      BY <1>4, <2>3, <3>1, <3>3 DEF ListsOK
    <3>5. /\ \A u \in All : r.stat[u] = "RUNNING" => u = r.cur
          /\ r.stat[Idle] \in {"READY", "RUNNING"} /\ Idle \notin gone
      BY <2>3, <3>1, <3>3 DEF ListsOK
    <3>6. QED BY <2>3, <2>4, <3>2, <3>4, <3>5 DEF ListsOK
  <2>6. QED BY <1>4, <2>3, <2>5 DEF r
<1>5. QED BY <1>3, <1>4

(* A thread that leaves its ready list.                                    *)
LEMMA UnreadyFacts ==
    ASSUME NEW s \in SchedSet, NEW t \in All, \A p \in Levels : IsInjective(s.ready[p])
    PROVE  /\ Unready(s, t) \in SchedSet
           /\ Unready(s, t).cur = s.cur /\ Unready(s, t).yield = s.yield
           /\ Unready(s, t).stat = s.stat
           /\ \A p \in Levels :
                 /\ IsInjective(Unready(s, t).ready[p])
                 /\ Elements(Unready(s, t).ready[p]) =
                       IF p = Prio[t] THEN Elements(s.ready[p]) \ {t}
                       ELSE Elements(s.ready[p])
           /\ t \notin Elements(s.ready[Prio[t]]) => Unready(s, t) = s
<1> DEFINE p == Prio[t]
           l == L!Delist(s.ready[p], t)
           r == Unready(s, t)
<1>1. p \in Levels /\ s.ready \in [Levels -> Seq(All)]
  BY DEF Levels, SchedSet
<1>2. s.ready[p] \in Seq(All) /\ IsInjective(s.ready[p])
  BY <1>1
<1>3. /\ l \in Seq(All) /\ IsInjective(l)
      /\ Elements(l) = Elements(s.ready[p]) \ {t}
      /\ t \notin Elements(s.ready[p]) => l = s.ready[p]
  BY <1>2, DelistFacts
<1>4. /\ r.cur = s.cur /\ r.yield = s.yield /\ r.stat = s.stat
      /\ r.ready = [s.ready EXCEPT ![p] = l]
      /\ r \in SchedSet
  BY <1>1, <1>3 DEF Unready, SchedSet
<1> HIDE DEF r, l
<1>5. ASSUME NEW q \in Levels
      PROVE  /\ IsInjective(r.ready[q])
             /\ Elements(r.ready[q]) =
                   IF q = p THEN Elements(s.ready[q]) \ {t} ELSE Elements(s.ready[q])
  <2>1. r.ready[q] = IF q = p THEN l ELSE s.ready[q]
    BY <1>1, <1>4
  <2>2. QED BY <1>3, <2>1
<1>6. ASSUME t \notin Elements(s.ready[p]) PROVE r = s
  <2>1. r.ready = s.ready
    BY <1>1, <1>3, <1>4, <1>6
  <2>2. QED BY <1>4, <2>1 DEF SchedSet
<1>7. QED BY <1>4, <1>5, <1>6 DEF r

(* A thread that is not ready is on no ready list.                         *)
LEMMA NotReady ==
    ASSUME NEW s, NEW gone, ListsOK(s, gone), NEW t \in All, s.stat[t] # "READY"
    PROVE  Unready(s, t) = s
<1>1. Prio[t] \in Levels /\ s \in SchedSet
  BY DEF ListsOK, Levels
<1>2. t \notin Elements(s.ready[Prio[t]])
  BY <1>1 DEF ListsOK
<1>3. \A p \in Levels : IsInjective(s.ready[p])
  BY DEF ListsOK
<1>4. QED BY <1>1, <1>2, <1>3, UnreadyFacts

(* A change of the status of a thread that stays off the ready lists.      *)
LEMMA StatusFacts ==
    ASSUME NEW s, NEW gone, ListsOK(s, gone), NEW t \in Threads, NEW new \in Stats,
           NEW r \in SchedSet, r.cur = s.cur, r.ready = s.ready,
           r.stat = [s.stat EXCEPT ![t] = new],
           s.stat[t] = "READY" => t \in gone, new \notin {"READY", "RUNNING"}
    PROVE  ListsOK(r, gone) /\ ListsOK(r, gone \ {t})
<1> SUFFICES ASSUME NEW gone2 \in {gone, gone \ {t}} PROVE ListsOK(r, gone2)
  OBVIOUS
<1>1. s \in SchedSet /\ s.stat \in [All -> Stats] /\ t \in All
  BY DEF ListsOK, SchedSet, All
<1>2. ASSUME NEW u \in All PROVE r.stat[u] = IF u = t THEN new ELSE s.stat[u]
  BY <1>1
<1>3. ASSUME NEW u \in All, NEW q \in Levels
      PROVE  u \in Elements(r.ready[q]) <=>
                 u \notin gone2 /\ r.stat[u] = "READY" /\ q = Prio[u]
  <2>1. u \in Elements(s.ready[q]) <=>
            u \notin gone /\ s.stat[u] = "READY" /\ q = Prio[u]
    BY DEF ListsOK
  <2>2. QED BY <1>2, <2>1
<1>4. s.cur \in All /\ Idle \in All /\ t # Idle
  BY <1>1, ThreadAssumption DEF SchedSet, All
<1>5. r.stat[r.cur] # "READY" /\ r.cur \notin gone2
  BY <1>2, <1>4 DEF ListsOK
<1>6. /\ \A u \in All : r.stat[u] = "RUNNING" => u = r.cur
      /\ r.stat[Idle] \in {"READY", "RUNNING"} /\ Idle \notin gone2
  BY <1>2, <1>4 DEF ListsOK
<1>7. QED BY <1>3, <1>5, <1>6 DEF ListsOK

(* rt_thread_suspend of the running thread.                                *)
LEMMA SuspendedFacts ==
    ASSUME NEW s, NEW gone, ListsOK(s, gone), NEW t \in Threads,
           t = s.cur, s.stat[t] = "RUNNING"
    PROVE  /\ ListsOK(Suspended(s, t), gone)
           /\ Suspended(s, t).cur = s.cur
           /\ Suspended(s, t).stat = [s.stat EXCEPT ![t] = "SUSPEND"]
<1> DEFINE r == Suspended(s, t)
<1>1. s \in SchedSet /\ t \in All
  BY DEF ListsOK, All
<1>2. Unready(s, t) = s
  BY <1>1, NotReady
<1>3. /\ r \in SchedSet /\ r.cur = s.cur /\ r.ready = s.ready
      /\ r.stat = [s.stat EXCEPT ![t] = "SUSPEND"]
  BY <1>1, <1>2 DEF Suspended, SchedSet, Stats
<1> HIDE DEF r
<1>4. ListsOK(r, gone)
  BY <1>3, StatusFacts DEF Stats
<1>5. QED BY <1>3, <1>4 DEF r

(* A thread that gets a status off the ready lists.                        *)
LEMMA BecomesFacts ==
    ASSUME NEW s, NEW gone, ListsOK(s, gone), NEW t \in Threads,
           NEW new \in Stats \ {"READY", "RUNNING"},
           s.stat[t] = "READY" => t \in gone
    PROVE  /\ ListsOK(Becomes(s, t, new), gone)
           /\ ListsOK(Becomes(s, t, new), gone \ {t})
           /\ Becomes(s, t, new).cur = s.cur
           /\ Becomes(s, t, new).stat = [s.stat EXCEPT ![t] = new]
<1> DEFINE r == Becomes(s, t, new)
<1>1. s \in SchedSet /\ t \in All
  BY DEF ListsOK, All
<1>2. /\ r \in SchedSet /\ r.cur = s.cur /\ r.ready = s.ready
      /\ r.stat = [s.stat EXCEPT ![t] = new]
  BY <1>1 DEF Becomes, SchedSet
<1> HIDE DEF r
<1>3. new \in Stats /\ new \notin {"READY", "RUNNING"}
  OBVIOUS
<1>4. ListsOK(r, gone) /\ ListsOK(r, gone \ {t})
  BY <1>2, <1>3, StatusFacts
<1>5. QED BY <1>2, <1>4 DEF r

(* rt_thread_delete's first step: the victim leaves its ready list.        *)
LEMMA DepartFacts ==
    ASSUME NEW s, ListsOK(s, {}), Victim # s.cur
    PROVE  /\ ListsOK(Unready(s, Victim), {Victim})
           /\ Unready(s, Victim).cur = s.cur
           /\ Unready(s, Victim).stat = s.stat
<1> DEFINE r == Unready(s, Victim)
<1>1. /\ s \in SchedSet /\ Victim \in All /\ Idle \in All /\ Victim # Idle
      /\ \A p \in Levels : IsInjective(s.ready[p])
  BY ThreadAssumption DEF ListsOK, All
<1>2. /\ r \in SchedSet /\ r.cur = s.cur /\ r.stat = s.stat
      /\ \A p \in Levels : IsInjective(r.ready[p])
      /\ \A p \in Levels :
            Elements(r.ready[p]) = IF p = Prio[Victim] THEN Elements(s.ready[p]) \ {Victim}
                                   ELSE Elements(s.ready[p])
  BY <1>1, UnreadyFacts
<1> HIDE DEF r
<1>3. ASSUME NEW u \in All, NEW q \in Levels
      PROVE  u \in Elements(r.ready[q]) <=>
                 u \notin {Victim} /\ r.stat[u] = "READY" /\ q = Prio[u]
  <2>1. u \in Elements(s.ready[q]) <=> s.stat[u] = "READY" /\ q = Prio[u]
    BY DEF ListsOK
  <2>2. QED BY <1>2, <2>1
<1>4. /\ r.stat[r.cur] # "READY" /\ r.cur \notin {Victim}
      /\ \A u \in All : r.stat[u] = "RUNNING" => u = r.cur
      /\ r.stat[Idle] \in {"READY", "RUNNING"} /\ Idle \notin {Victim}
  BY <1>1, <1>2 DEF ListsOK
<1>5. ListsOK(r, {Victim})
  BY <1>2, <1>3, <1>4 DEF ListsOK
<1>6. QED BY <1>2, <1>5 DEF r

-----------------------------------------------------------------------------
(* rt_schedule.                                                            *)
AnyReady(s) == \E p \in Levels : s.ready[p] # <<>>

LEMMA TopFacts ==
    ASSUME NEW s, NEW gone, ListsOK(s, gone), AnyReady(s)
    PROVE  /\ Top(s) \in Levels /\ s.ready[Top(s)] # <<>>
           /\ \A t \in All : t \notin gone /\ s.stat[t] = "READY" => Top(s) <= Prio[t]
<1> DEFINE N == {p \in Levels : s.ready[p] # <<>>}
<1>1. Levels \subseteq Nat /\ s.ready \in [Levels -> Seq(All)]
  BY ThreadAssumption DEF Levels, ListsOK, SchedSet
<1>2. PICK p \in N : \A q \in N : p <= q
  <2>1. N \in SUBSET Nat /\ N # {}
    BY <1>1 DEF AnyReady
  <2> HIDE DEF N
  <2>2. QED BY <2>1, LeastNumber
<1>3. \A q \in Levels : q < p => s.ready[q] = <<>>
  BY <1>1, <1>2
<1>4. /\ Top(s) \in Levels /\ s.ready[Top(s)] # <<>>
      /\ \A q \in Levels : q < Top(s) => s.ready[q] = <<>>
  BY <1>1, <1>2, <1>3 DEF Top
<1>5. ASSUME NEW t \in All, t \notin gone, s.stat[t] = "READY" PROVE Top(s) <= Prio[t]
  <2>1. Prio[t] \in Levels /\ t \in Elements(s.ready[Prio[t]])
    BY <1>5 DEF Levels, ListsOK
  <2>2. s.ready[Prio[t]] # <<>>
    BY <2>1, NobodyListed
  <2>3. Top(s) \in Nat /\ Prio[t] \in Nat
    BY <1>1, <1>4, <2>1
  <2>4. ~(Prio[t] < Top(s))
    BY <1>4, <2>1, <2>2
  <2>5. QED BY <2>3, <2>4
<1>6. QED BY <1>4, <1>5

(* After rt_schedule a most urgent thread runs, wherever the thread that   *)
(* called it went.                                                         *)
LEMMA ScheduleFacts ==
    ASSUME NEW s, NEW gone \in SUBSET Threads, ListsOK(s, gone)
    PROVE  /\ ListsOK(Schedule(s), gone)
           /\ Schedule(s).stat[Schedule(s).cur] = "RUNNING"
           /\ \A t \in All :
                 \/ Schedule(s).stat[t] = s.stat[t]
                 \/ {Schedule(s).stat[t], s.stat[t]} \subseteq {"READY", "RUNNING"}
           /\ \A t \in All : t \notin gone /\ Schedule(s).stat[t] = "READY" =>
                 Prio[Schedule(s).cur] <= Prio[t]
<1> DEFINE r == Schedule(s)
<1>1. /\ s \in SchedSet /\ s.stat \in [All -> Stats] /\ s.cur \in All
      /\ s.ready \in [Levels -> Seq(All)] /\ Prio \in [All -> Nat]
      /\ Idle \in All /\ \A t \in All : Prio[t] \in Levels
  <2>1. s \in SchedSet
    BY DEF ListsOK
  <2>2. /\ s.stat \in [All -> Stats] /\ s.cur \in All
        /\ s.ready \in [Levels -> Seq(All)]
    BY <2>1 DEF SchedSet
  <2>3. \A t \in All : Prio[t] \in Levels
    BY DEF Levels
  <2>4. QED BY <2>1, <2>2, <2>3, InAll
<1>2. CASE ~AnyReady(s)
  <2>1. r = s
    BY <1>1, <1>2 DEF Schedule, AnyReady
  <2>2. \A t \in All : t \notin gone => s.stat[t] # "READY"
    <3>1. SUFFICES ASSUME NEW t \in All, t \notin gone, s.stat[t] = "READY" PROVE FALSE
      OBVIOUS
    <3>2. t \in Elements(s.ready[Prio[t]])
      BY <1>1, <3>1 DEF ListsOK
    <3>3. s.ready[Prio[t]] # <<>>
      BY <3>2, NobodyListed
    <3>4. QED BY <1>1, <1>2, <3>3 DEF AnyReady
  <2>3. s.stat[Idle] = "RUNNING" /\ s.cur = Idle
    BY <1>1, <2>2 DEF ListsOK
  <2>4. QED BY <2>1, <2>2, <2>3
<1>3. CASE AnyReady(s) /\ Stays(s)
  <2>1. r = s
    BY <1>3 DEF Schedule
  <2>2. Prio[s.cur] <= Top(s) /\ s.stat[s.cur] = "RUNNING"
    <3>1. Top(s) \in Nat /\ Prio[s.cur] \in Nat
      BY <1>1, <1>3, TopFacts DEF Levels
    <3>2. QED BY <1>3, <3>1 DEF Stays
  <2>3. ASSUME NEW t \in All, t \notin gone, s.stat[t] = "READY" PROVE Prio[s.cur] <= Prio[t]
    <3>1. Top(s) <= Prio[t]
      BY <1>3, <2>3, TopFacts
    <3>2. Top(s) \in Nat /\ Prio[s.cur] \in Nat /\ Prio[t] \in Nat
      BY <1>1, <1>3, TopFacts DEF Levels
    <3>3. QED BY <2>2, <3>1, <3>2
  <2>4. QED BY <2>1, <2>2, <2>3
<1>4. CASE AnyReady(s) /\ ~Stays(s)
  <2> DEFINE to   == Head(s.ready[Top(s)])
             next == [s EXCEPT !.cur = to]
             back == IF s.stat[s.cur] = "RUNNING"
                     THEN [Ready(next, s.cur) EXCEPT !.yield = @ \ {s.cur}]
                     ELSE next
  <2>1. /\ Top(s) \in Levels /\ s.ready[Top(s)] # <<>>
        /\ \A t \in All : t \notin gone /\ s.stat[t] = "READY" => Top(s) <= Prio[t]
    BY <1>4, TopFacts
  <2>2. /\ to \in All /\ to \in Elements(s.ready[Top(s)])
    BY <1>1, <2>1, HeadLeaves DEF ListsOK
  <2>3. s.stat[to] = "READY" /\ to \notin gone /\ Prio[to] = Top(s)
    BY <2>1, <2>2 DEF ListsOK
  <2>4. to # s.cur
    BY <2>3 DEF ListsOK
  <2>5. r = [Unready(back, to) EXCEPT !.stat[to] = "RUNNING"]
    <3>1. ~((\A p \in DOMAIN s.ready : s.ready[p] = <<>>) \/ Stays(s))
      BY <1>1, <1>4 DEF AnyReady
    <3>2. QED BY <3>1, Zenon DEF Schedule
  <2> HIDE DEF to
  <2> DEFINE p == Prio[s.cur]
             l == Append(s.ready[p], s.cur)
             on == s.stat[s.cur] = "RUNNING"
  <2>6. /\ s.ready[p] \in Seq(All) /\ IsInjective(s.ready[p])
        /\ s.cur \notin Elements(s.ready[p]) /\ p \in Levels
    BY <1>1 DEF ListsOK
  <2>7. l \in Seq(All) /\ Elements(l) = Elements(s.ready[p]) \cup {s.cur} /\ IsInjective(l)
    BY <1>1, <2>6, AppendFacts
  <2> HIDE DEF l
  <2>8. /\ back \in SchedSet /\ back.cur = to
        /\ back.stat = IF on THEN [s.stat EXCEPT ![s.cur] = "READY"] ELSE s.stat
        /\ back.ready = IF on THEN [s.ready EXCEPT ![p] = l] ELSE s.ready
    <3>1. CASE on
      <4>1. /\ next \in SchedSet /\ next.cur = to /\ next.stat = s.stat
            /\ next.ready = s.ready /\ next.yield = s.yield
        BY <1>1, <2>2 DEF SchedSet
      <4> HIDE DEF next
      <4> DEFINE q == Ready(next, s.cur)
      <4>2. /\ q \in SchedSet /\ q.cur = to
            /\ q.stat = [s.stat EXCEPT ![s.cur] = "READY"]
            /\ q.ready = [s.ready EXCEPT ![p] = l]
        BY <1>1, <2>4, <2>7, <4>1 DEF Ready, SchedSet, Stats, l
      <4> HIDE DEF q
      <4>3. back = [q EXCEPT !.yield = @ \ {s.cur}]
        BY <3>1 DEF q
      <4> HIDE DEF back
      <4>4. q.yield \ {s.cur} \in SUBSET All
        BY <4>2 DEF SchedSet
      <4>5. /\ back \in SchedSet /\ back.cur = q.cur /\ back.stat = q.stat
            /\ back.ready = q.ready
        BY <4>2, <4>3, <4>4 DEF SchedSet
      <4>6. QED BY <3>1, <4>2, <4>5
    <3>2. CASE ~on
      BY <1>1, <2>2, <3>2 DEF SchedSet
    <3>3. QED BY <3>1, <3>2
  <2> HIDE DEF back, r
  <2>9. ASSUME NEW q \in Levels
        PROVE  /\ IsInjective(back.ready[q])
               /\ Elements(back.ready[q]) =
                     IF on /\ q = p THEN Elements(s.ready[q]) \cup {s.cur}
                     ELSE Elements(s.ready[q])
    <3>1. back.ready[q] = IF on /\ q = p THEN l ELSE s.ready[q]
      BY <1>1, <2>8
    <3>2. IsInjective(s.ready[q])
      BY DEF ListsOK
    <3>3. QED BY <2>7, <3>1, <3>2
  <2> DEFINE u == Unready(back, to)
  <2>10. /\ u \in SchedSet /\ u.cur = to /\ u.stat = back.stat
         /\ \A q \in Levels :
               /\ IsInjective(u.ready[q])
               /\ Elements(u.ready[q]) = IF q = Prio[to] THEN Elements(back.ready[q]) \ {to}
                                         ELSE Elements(back.ready[q])
    BY <2>2, <2>8, <2>9, UnreadyFacts
  <2> HIDE DEF u
  <2>11. r = [u EXCEPT !.stat[to] = "RUNNING"]
    BY <2>5 DEF u
  <2>12. /\ r \in SchedSet /\ r.cur = to /\ r.ready = u.ready
         /\ r.stat = [back.stat EXCEPT ![to] = "RUNNING"]
    BY <2>2, <2>10, <2>11 DEF SchedSet, Stats
  <2>13. ASSUME NEW t \in All
         PROVE  r.stat[t] = IF t = to THEN "RUNNING"
                            ELSE IF on /\ t = s.cur THEN "READY" ELSE s.stat[t]
    BY <1>1, <2>2, <2>8, <2>12
  <2>14. ASSUME NEW t \in All, NEW q \in Levels
         PROVE  t \in Elements(r.ready[q]) <=>
                    t \notin gone /\ r.stat[t] = "READY" /\ q = Prio[t]
    <3>1. t \in Elements(s.ready[q]) <=>
              t \notin gone /\ s.stat[t] = "READY" /\ q = Prio[t]
      BY DEF ListsOK
    <3>2. s.cur \notin gone
      BY DEF ListsOK
    <3>3. t \in Elements(r.ready[q]) <=>
              /\ t \in Elements(s.ready[q]) \/ (on /\ q = p /\ t = s.cur)
              /\ ~(q = Prio[to] /\ t = to)
      <4>1. Elements(r.ready[q]) = IF q = Prio[to] THEN Elements(back.ready[q]) \ {to}
                                   ELSE Elements(back.ready[q])
        BY <2>10, <2>12
      <4>2. QED BY <2>9, <4>1
    <3>4. CASE t = to
      BY <2>3, <2>13, <3>1, <3>3, <3>4, <2>4
    <3>5. CASE t # to /\ t = s.cur
      BY <2>13, <3>1, <3>2, <3>3, <3>5 DEF ListsOK
    <3>6. CASE t # to /\ t # s.cur
      BY <2>13, <3>1, <3>3, <3>6
    <3>7. QED BY <3>4, <3>5, <3>6
  <2>15. ListsOK(r, gone)
    <3>1. r.stat[r.cur] # "READY" /\ r.cur \notin gone
      BY <2>2, <2>3, <2>12, <2>13
    <3>2. \A t \in All : r.stat[t] = "RUNNING" => t = r.cur
      BY <2>12, <2>13 DEF ListsOK
    <3>3. r.stat[Idle] \in {"READY", "RUNNING"} /\ Idle \notin gone
      BY <1>1, <2>13 DEF ListsOK
    <3>4. \A q \in Levels : IsInjective(r.ready[q])
      BY <2>10, <2>12
    <3>5. QED BY <2>12, <2>14, <3>1, <3>2, <3>3, <3>4 DEF ListsOK
  <2>16. ASSUME NEW t \in All
         PROVE  r.stat[t] = s.stat[t] \/ {r.stat[t], s.stat[t]} \subseteq {"READY", "RUNNING"}
    BY <2>3, <2>13
  <2>17. ASSUME NEW t \in All, t \notin gone, r.stat[t] = "READY"
         PROVE  Prio[to] <= Prio[t]
    <3>1. CASE s.stat[t] = "READY"
      BY <2>1, <2>3, <2>17, <3>1
    <3>2. CASE on /\ t = s.cur
      <4>1. Top(s) \in Nat /\ Prio[t] \in Nat
        BY <1>1, <2>1 DEF Levels
      <4>2. QED BY <1>4, <2>3, <3>2, <4>1 DEF Stays
    <3>3. QED BY <2>13, <2>17, <3>1, <3>2
  <2>18. r.stat[r.cur] = "RUNNING"
    BY <2>2, <2>12, <2>13
  <2>19. QED BY <2>12, <2>15, <2>16, <2>17, <2>18 DEF r
<1>5. QED BY <1>2, <1>3, <1>4

-----------------------------------------------------------------------------
(* The list of timers.                                                     *)
LEMMA DisarmFacts ==
    ASSUME NEW ts, TimersOK(ts), NEW t
    PROVE  /\ TimersOK(T!Disarm(ts, t))
           /\ Timing(T!Disarm(ts, t)) = Timing(ts) \ {t}
<1> DEFINE I == {i \in 1..Len(ts) : ts[i].timer = t}
<1>1. ts \in Seq(TimerSet) /\ IsInjective(ts)
  BY DEF TimersOK
<1>2. CASE I = {}
  <2>1. T!Disarm(ts, t) = ts
    BY <1>2 DEF T!Disarm, T!RemoveFirstMatch
  <2>2. t \notin Timing(ts)
    BY <1>2 DEF Timing, Elements
  <2>3. QED BY <2>1, <2>2
<1>3. CASE I # {}
  <2> DEFINE k == Min(I)
             r == RemoveAt(ts, k)
  <2>1. T!Disarm(ts, t) = r
    BY <1>3 DEF T!Disarm, T!RemoveFirstMatch, T!RemoveAt, RemoveAt, T!SelectInSeq, T!Min, Min
  <2>2. k \in I
    <3>1. I \in SUBSET Nat
      OBVIOUS
    <3> HIDE DEF I
    <3>2. QED BY <1>3, <3>1, MinOf
  <2> HIDE DEF k
  <2>3. k \in 1..Len(ts) /\ ts[k].timer = t
    BY <2>2
  <2>4. r \in Seq(TimerSet) /\ IsInjective(r) /\ Elements(r) = Elements(ts) \ {ts[k]}
    BY <1>1, <2>3, Removed
  <2> HIDE DEF r
  <2>5. ts[k] \in Elements(ts)
    BY <2>3 DEF Elements
  <2>6. TimersOK(r)
    BY <2>4 DEF TimersOK
  <2>7. Timing(r) = Timing(ts) \ {t}
    BY <2>3, <2>4, <2>5 DEF Timing, TimersOK
  <2>8. QED BY <2>1, <2>6, <2>7
<1>4. QED BY <1>2, <1>3

LEMMA ArmFacts ==
    ASSUME NEW ts, TimersOK(ts), NEW t \in Threads, t \notin Timing(ts),
           NEW at \in 0..TickMod-1
    PROVE  /\ TimersOK(T!Arm(ts, t, at))
           /\ Timing(T!Arm(ts, t, at)) = Timing(ts) \cup {t}
<1> DEFINE later == {i \in 1..Len(ts) : T!Ahead(ts[i].at, at) \in 1..T!Half-1}
           n == IF later = {} THEN Len(ts) + 1 ELSE Min(later)
           e == [timer |-> t, at |-> at]
           r == InsertAt(ts, n, e)
<1>1. ts \in Seq(TimerSet) /\ IsInjective(ts) /\ Len(ts) \in Nat
  BY LenProperties DEF TimersOK
<1>2. T!Arm(ts, t, at) = r
  BY DEF T!Arm, T!InsertAt, InsertAt, T!Min, Min
<1>3. n \in 0..Len(ts)+1 /\ n # 0
  <2>1. later # {} => Min(later) \in later
    <3>1. later \in SUBSET Nat
      OBVIOUS
    <3> HIDE DEF later
    <3>2. QED BY <3>1, MinOf
  <2>2. QED BY <1>1, <2>1
<1> HIDE DEF n
<1>4. e \in TimerSet
  BY DEF TimerSet
<1>5. e \notin Elements(ts)
  BY DEF Timing
<1> HIDE DEF e
<1>6. r \in Seq(TimerSet) /\ IsInjective(r) /\ Elements(r) = Elements(ts) \cup {e}
  BY <1>1, <1>3, <1>4, <1>5, Enlisted
<1> HIDE DEF r
<1>7. e.timer = t /\ \A a \in Elements(ts) : a.timer # t
  BY DEF e, Timing
<1>8. TimersOK(r)
  BY <1>6, <1>7 DEF TimersOK
<1>9. Timing(r) = Timing(ts) \cup {t}
  BY <1>6, <1>7 DEF Timing
<1>10. QED BY <1>2, <1>8, <1>9

LEMMA FirstTimer ==
    ASSUME NEW ts, TimersOK(ts), ts # <<>>
    PROVE  /\ Head(ts).timer \in Threads /\ Head(ts).timer \in Timing(ts)
           /\ TimersOK(Tail(ts)) /\ Timing(Tail(ts)) = Timing(ts) \ {Head(ts).timer}
<1>1. /\ Head(ts) \in TimerSet /\ Head(ts) \in Elements(ts)
      /\ Tail(ts) \in Seq(TimerSet) /\ IsInjective(Tail(ts))
      /\ Elements(Tail(ts)) = Elements(ts) \ {Head(ts)}
  BY HeadLeaves DEF TimersOK
<1>2. Head(ts).timer \in Threads
  BY <1>1 DEF TimerSet
<1>3. TimersOK(Tail(ts))
  BY <1>1 DEF TimersOK
<1>4. Timing(Tail(ts)) = Timing(ts) \ {Head(ts).timer}
  BY <1>1 DEF Timing, TimersOK
<1>5. QED BY <1>1, <1>2, <1>3, <1>4 DEF Timing

-----------------------------------------------------------------------------
(* The timers.                                                             *)

(* The ticks until an entry of the list is due, one that is late by a tick *)
(* included: its timeout_tick minus rt_tick, without the wrap.             *)
Due(e, now) ==
    LET d == e.at - now
    IN  IF d < -1 THEN d + TickMod ELSE IF d = TickMod - 1 THEN -1 ELSE d

InOrder(ts, now) ==
    \A i, j \in 1..Len(ts) : i < j => Due(ts[i], now) <= Due(ts[j], now)

(* Between interrupts no timer is late; a timer of 0 ticks waits for one.  *)
Earliest(in) == IF in = "none" THEN 0 ELSE -1

Remains(e, now, in) ==
    IF in = "none" THEN IF Due(e, now) = 0 THEN 1 ELSE Due(e, now)
    ELSE IF Due(e, now) = -1 THEN 0 ELSE Due(e, now)

(* The list is in the order in which its timers are due, and a timer is on *)
(* it as long as its thread has ticks to wait.                             *)
TimesOK(ts, now, rest, in) ==
    /\ InOrder(ts, now)
    /\ \A e \in Elements(ts) :
          /\ Due(e, now) \in Earliest(in)..T!Half-1
          /\ rest[e.timer] = Remains(e, now, in)
    /\ rest \in [All -> Nat]
    /\ \A t \in All \ Timing(ts) : rest[t] = 0

(* The wrap of the tick counter.                                           *)
LEMMA Wrapped ==
    ASSUME NEW y \in Int, -TickMod <= y, y < 2 * TickMod
    PROVE  y % TickMod = IF y < 0 THEN y + TickMod
                         ELSE IF y < TickMod THEN y ELSE y - TickMod
<1>1. TickMod \in Nat /\ TickMod > 4
  BY InAll
<1>2. QED BY <1>1

LEMMA HalfFacts ==
    T!Half \in Nat /\ T!Half >= 2 /\ 2 * T!Half <= TickMod - 1
<1>1. TickMod \in Nat /\ TickMod > 4
  BY InAll
<1>2. T!Half = (TickMod - 1) \div 2
  BY DEF T!Half
<1>3. QED BY <1>1, <1>2

LEMMA AheadFacts ==
    ASSUME NEW a \in 0..TickMod-1, NEW b \in 0..TickMod-1
    PROVE  T!Ahead(a, b) = IF a < b THEN a - b + TickMod ELSE a - b
<1>1. TickMod \in Nat /\ TickMod > 4
  BY InAll
<1>2. (a - b) \in Int /\ -TickMod <= a - b /\ a - b < 2 * TickMod
  BY <1>1
<1>3. QED BY <1>1, <1>2, Wrapped DEF T!Ahead

LEMMA DueFacts ==
    ASSUME NEW now \in 0..TickMod-1
    PROVE  /\ \A e \in TimerSet :
                 /\ Due(e, now) \in Int
                 /\ Due(e, now) \in -1..T!Half-1 =>
                       T!Ahead(now, e.at) < T!Half <=> Due(e, now) <= 0
           /\ \A e \in TimerSet, x \in TimerSet :
                 Due(e, now) \in 0..T!Half-1 /\ Due(x, now) \in 0..T!Half-1 =>
                     (T!Ahead(e.at, x.at) \in 1..T!Half-1 <=> Due(x, now) < Due(e, now))
           /\ \A e \in TimerSet : Due(e, now) \in 0..T!Half-1 =>
                 Due(e, (now + 1) % TickMod) = Due(e, now) - 1
           /\ \A e \in TimerSet, n \in 0..T!Half-1 :
                 e.at = (now + n) % TickMod => Due(e, now) = n
<1>1. TickMod \in Nat /\ TickMod > 4
  BY InAll
<1>2. T!Half \in Nat /\ T!Half >= 2 /\ 2 * T!Half <= TickMod - 1
  BY HalfFacts
<1>3. ASSUME NEW e \in TimerSet
      PROVE  /\ e.at \in 0..TickMod-1
             /\ Due(e, now) \in Int
             /\ Due(e, now) \in -1..T!Half-1 =>
                   (T!Ahead(now, e.at) < T!Half <=> Due(e, now) <= 0)
  <2>1. e.at \in 0..TickMod-1
    BY DEF TimerSet
  <2>2. T!Ahead(now, e.at) = IF now < e.at THEN now - e.at + TickMod ELSE now - e.at
    BY <2>1, AheadFacts
  <2>3. QED BY <1>1, <1>2, <2>1, <2>2 DEF Due
<1>4. ASSUME NEW e \in TimerSet, NEW x \in TimerSet,
             Due(e, now) \in 0..T!Half-1, Due(x, now) \in 0..T!Half-1
      PROVE  T!Ahead(e.at, x.at) \in 1..T!Half-1 <=> Due(x, now) < Due(e, now)
  <2>1. e.at \in 0..TickMod-1 /\ x.at \in 0..TickMod-1
    BY <1>3
  <2>2. T!Ahead(e.at, x.at) = IF e.at < x.at THEN e.at - x.at + TickMod ELSE e.at - x.at
    BY <2>1, AheadFacts
  <2>3. QED BY <1>1, <1>2, <1>4, <2>1, <2>2 DEF Due
<1>5. ASSUME NEW e \in TimerSet, Due(e, now) \in 0..T!Half-1
      PROVE  Due(e, (now + 1) % TickMod) = Due(e, now) - 1
  <2>1. e.at \in 0..TickMod-1
    BY <1>3
  <2>2. (now + 1) % TickMod = IF now + 1 < TickMod THEN now + 1 ELSE now + 1 - TickMod
    BY <1>1, Wrapped
  <2>3. QED BY <1>1, <1>2, <1>5, <2>1, <2>2 DEF Due
<1>6. ASSUME NEW e \in TimerSet, NEW n \in 0..T!Half-1, e.at = (now + n) % TickMod
      PROVE  Due(e, now) = n
  <2>1. (now + n) % TickMod = IF now + n < TickMod THEN now + n ELSE now + n - TickMod
    BY <1>1, <1>2, Wrapped
  <2>2. QED BY <1>1, <1>2, <1>6, <2>1 DEF Due
<1>7. QED BY <1>3, <1>4, <1>5, <1>6

(* The list keeps its order: a timer leaves it.                            *)
LEMMA DueTyped ==
    ASSUME NEW ts, TimersOK(ts), NEW now \in 0..TickMod-1
    PROVE  /\ Len(ts) \in Nat
           /\ \A i \in 1..Len(ts) :
                 ts[i] \in TimerSet /\ ts[i] \in Elements(ts) /\ Due(ts[i], now) \in Int
<1>1. ts \in Seq(TimerSet) /\ Len(ts) \in Nat
  BY LenProperties DEF TimersOK
<1>2. ASSUME NEW i \in 1..Len(ts) PROVE ts[i] \in TimerSet /\ ts[i] \in Elements(ts)
  BY <1>1 DEF Elements
<1>3. QED BY <1>1, <1>2, DueFacts

LEMMA DisarmOrder ==
    ASSUME NEW ts, TimersOK(ts), NEW now \in 0..TickMod-1, InOrder(ts, now), NEW t
    PROVE  /\ InOrder(T!Disarm(ts, t), now)
           /\ Elements(T!Disarm(ts, t)) \subseteq Elements(ts)
<1> DEFINE I == {i \in 1..Len(ts) : ts[i].timer = t}
<1>1. ts \in Seq(TimerSet) /\ IsInjective(ts) /\ Len(ts) \in Nat
  BY LenProperties DEF TimersOK
<1>2. CASE I = {}
  <2>1. T!Disarm(ts, t) = ts
    BY <1>2 DEF T!Disarm, T!RemoveFirstMatch
  <2>2. QED BY <2>1
<1>3. CASE I # {}
  <2> DEFINE k == Min(I)
             r == RemoveAt(ts, k)
  <2>1. T!Disarm(ts, t) = r
    BY <1>3 DEF T!Disarm, T!RemoveFirstMatch, T!RemoveAt, RemoveAt, T!SelectInSeq, T!Min, Min
  <2>2. k \in 1..Len(ts)
    <3>1. I \in SUBSET Nat /\ I \subseteq 1..Len(ts)
      OBVIOUS
    <3> HIDE DEF I
    <3>2. QED BY <1>3, <3>1, MinOf
  <2> HIDE DEF k
  <2>3. Elements(r) = Elements(ts) \ {ts[k]}
    BY <1>1, <2>2, Removed
  <2>4. /\ Len(r) = Len(ts) - 1
        /\ \A i \in 1..Len(ts)-1 : r[i] = IF i < k THEN ts[i] ELSE ts[i+1]
    BY <1>1, <2>2, RemoveAtFacts
  <2> HIDE DEF r
  <2>5. ASSUME NEW i \in 1..Len(r), NEW j \in 1..Len(r), i < j
        PROVE  Due(r[i], now) <= Due(r[j], now)
    <3> DEFINE a == IF i < k THEN i ELSE i + 1
               b == IF j < k THEN j ELSE j + 1
    <3>1. a \in 1..Len(ts) /\ b \in 1..Len(ts) /\ a < b
      BY <1>1, <2>2, <2>4, <2>5
    <3>2. r[i] = ts[a] /\ r[j] = ts[b]
      BY <1>1, <2>4
    <3> HIDE DEF a, b
    <3>3. QED BY <3>1, <3>2 DEF InOrder
  <2>6. QED BY <2>1, <2>3, <2>5 DEF InOrder
<1>4. QED BY <1>2, <1>3

(* A timer is put on it.                                                   *)
LEMMA ArmOrder ==
    ASSUME NEW ts, TimersOK(ts), NEW now \in 0..TickMod-1, InOrder(ts, now),
           NEW t \in Threads, t \notin Timing(ts), NEW at \in 0..TickMod-1,
           \A e \in Elements(ts) : Due(e, now) \in 0..T!Half-1,
           Due([timer |-> t, at |-> at], now) \in 0..T!Half-1
    PROVE  /\ InOrder(T!Arm(ts, t, at), now)
           /\ Elements(T!Arm(ts, t, at)) = Elements(ts) \cup {[timer |-> t, at |-> at]}
<1> DEFINE later == {i \in 1..Len(ts) : T!Ahead(ts[i].at, at) \in 1..T!Half-1}
           n == IF later = {} THEN Len(ts) + 1 ELSE Min(later)
           e == [timer |-> t, at |-> at]
           r == InsertAt(ts, n, e)
<1>1. ts \in Seq(TimerSet) /\ IsInjective(ts) /\ Len(ts) \in Nat
  BY LenProperties DEF TimersOK
<1>2. T!Arm(ts, t, at) = r
  BY DEF T!Arm, T!InsertAt, InsertAt, T!Min, Min
<1>3. e \in TimerSet /\ e.at = at /\ e.timer = t
  BY DEF TimerSet
<1>4. Due(e, now) \in 0..T!Half-1 /\ Due(e, now) \in Int
  BY <1>3, DueFacts
<1>5. e \notin Elements(ts)
  BY <1>3 DEF Timing
<1> HIDE DEF e
<1>6. ASSUME NEW i \in 1..Len(ts)
      PROVE  /\ i \in later <=> Due(e, now) < Due(ts[i], now)
             /\ Due(ts[i], now) \in Int
  <2>1. ts[i] \in TimerSet /\ Due(ts[i], now) \in 0..T!Half-1 /\ Due(ts[i], now) \in Int
    BY DueTyped
  <2>2. T!Ahead(ts[i].at, e.at) \in 1..T!Half-1 <=> Due(e, now) < Due(ts[i], now)
    BY <1>3, <1>4, <2>1, DueFacts
  <2>3. QED BY <1>3, <2>1, <2>2
<1>7. /\ n \in 1..Len(ts)+1
      /\ \A i \in 1..Len(ts) : i < n => i \notin later
      /\ n <= Len(ts) => n \in later
  <2>1. later # {} => Min(later) \in later /\ \A i \in later : Min(later) <= i
    <3>1. later \in SUBSET Nat
      OBVIOUS
    <3> HIDE DEF later
    <3>2. QED BY <3>1, MinOf
  <2>2. later \subseteq 1..Len(ts)
    OBVIOUS
  <2> HIDE DEF later
  <2>3. CASE later = {}
    BY <1>1, <2>3
  <2>4. CASE later # {}
    <3>1. n = Min(later) /\ n \in 1..Len(ts) /\ n \in later
      BY <2>1, <2>2, <2>4
    <3>2. ASSUME NEW i \in 1..Len(ts), i < n PROVE i \notin later
      BY <1>1, <2>1, <2>4, <3>1, <3>2
    <3>3. QED BY <1>1, <3>1, <3>2
  <2>5. QED BY <2>3, <2>4
<1> HIDE DEF n, later
<1>8. n # 0 /\ n \in 0..Len(ts)+1
  BY <1>1, <1>7
<1>9. Elements(r) = Elements(ts) \cup {e}
  BY <1>1, <1>3, <1>5, <1>8, Enlisted
<1>10. /\ Len(r) = Len(ts) + 1
       /\ \A i \in 1..Len(ts)+1 :
             r[i] = IF i < n THEN ts[i] ELSE IF i = n THEN e ELSE ts[i-1]
  <2>1. ts \in Seq(TimerSet) /\ n \in 1..Len(ts)+1 /\ e \in TimerSet
    BY <1>1, <1>3, <1>7
  <2>2. /\ Len(r) = Len(ts) + 1
        /\ \A i \in 1..n-1 : r[i] = ts[i]
        /\ r[n] = e
        /\ \A i \in n+1..Len(ts)+1 : r[i] = ts[i-1]
    BY <2>1, InsertAtParts
  <2> HIDE DEF r
  <2>3. QED BY <1>1, <2>1, <2>2
<1> HIDE DEF r
<1>11. ASSUME NEW i \in 1..Len(ts), NEW j \in 1..Len(ts), i < j
       PROVE  Due(ts[i], now) <= Due(ts[j], now)
  BY <1>11 DEF InOrder
<1>12. \A i \in 1..Len(ts) : i < n => Due(ts[i], now) <= Due(e, now)
  BY <1>4, <1>6, <1>7
<1>13. \A i \in 1..Len(ts) : n <= i => Due(e, now) <= Due(ts[i], now)
  <2>1. ASSUME NEW i \in 1..Len(ts), n <= i PROVE Due(e, now) <= Due(ts[i], now)
    <3>1. n \in 1..Len(ts) /\ Due(e, now) < Due(ts[n], now)
      BY <1>1, <1>6, <1>7, <2>1
    <3>2. n = i \/ Due(ts[n], now) <= Due(ts[i], now)
      BY <1>11, <2>1, <3>1
    <3>3. QED BY <1>4, <1>6, <3>1, <3>2
  <2>2. QED BY <2>1
<1>14. ASSUME NEW i \in 1..Len(r), NEW j \in 1..Len(r), i < j
       PROVE  Due(r[i], now) <= Due(r[j], now)
  <2>1. i \in 1..Len(ts)+1 /\ j \in 1..Len(ts)+1 /\ i \in Int /\ j \in Int /\ n \in Int
    BY <1>1, <1>7, <1>10
  <2>2. CASE j < n
    <3>1. i \in 1..Len(ts) /\ j \in 1..Len(ts) /\ r[i] = ts[i] /\ r[j] = ts[j]
      BY <1>1, <1>7, <1>10, <1>14, <2>1, <2>2
    <3>2. QED BY <1>11, <1>14, <3>1
  <2>3. CASE j = n
    <3>1. i \in 1..Len(ts) /\ i < n /\ r[i] = ts[i] /\ r[j] = e
      BY <1>1, <1>7, <1>10, <1>14, <2>1, <2>3
    <3>2. QED BY <1>12, <3>1
  <2>4. CASE i = n
    <3>1. j-1 \in 1..Len(ts) /\ n <= j-1 /\ r[i] = e /\ r[j] = ts[j-1]
      BY <1>1, <1>7, <1>10, <1>14, <2>1, <2>4
    <3>2. QED BY <1>13, <3>1
  <2>5. CASE i < n /\ n < j
    <3>1. /\ i \in 1..Len(ts) /\ j-1 \in 1..Len(ts) /\ n <= j-1
          /\ r[i] = ts[i] /\ r[j] = ts[j-1]
      BY <1>1, <1>7, <1>10, <1>14, <2>1, <2>5, SMTT(30)
    <3>2. QED BY <1>4, <1>6, <1>12, <1>13, <2>5, <3>1, SMTT(30)
  <2>6. CASE n < i
    <3>1. /\ i-1 \in 1..Len(ts) /\ j-1 \in 1..Len(ts) /\ i-1 < j-1
          /\ r[i] = ts[i-1] /\ r[j] = ts[j-1]
      BY <1>1, <1>7, <1>10, <1>14, <2>1, <2>6
    <3>2. QED BY <1>11, <3>1
  <2>7. QED BY <1>14, <2>1, <2>2, <2>3, <2>4, <2>5, <2>6
<1>15. InOrder(r, now)
  BY <1>14 DEF InOrder
<1>16. QED BY <1>2, <1>9, <1>15 DEF e

LEMMA TailOrder ==
    ASSUME NEW ts, TimersOK(ts), ts # <<>>, NEW now \in 0..TickMod-1, InOrder(ts, now)
    PROVE  /\ InOrder(Tail(ts), now) /\ Elements(Tail(ts)) = Elements(ts) \ {Head(ts)}
           /\ Head(ts) \in Elements(ts)
           /\ \A e \in Elements(ts) : Due(Head(ts), now) <= Due(e, now)
<1>1. ts \in Seq(TimerSet) /\ Len(ts) \in Nat /\ Len(ts) # 0 /\ IsInjective(ts)
  BY LenProperties, EmptySeq DEF TimersOK
<1>2. Elements(Tail(ts)) = Elements(ts) \ {Head(ts)} /\ Head(ts) \in Elements(ts)
  BY <1>1, HeadLeaves
<1>3. /\ Len(Tail(ts)) = Len(ts) - 1 /\ Head(ts) = ts[1]
      /\ \A i \in 1..Len(ts)-1 : Tail(ts)[i] = ts[i+1]
  BY <1>1, HeadTailProperties
<1>4. InOrder(Tail(ts), now)
  <2>1. ASSUME NEW i \in 1..Len(ts)-1, NEW j \in 1..Len(ts)-1, i < j
        PROVE  Due(Tail(ts)[i], now) <= Due(Tail(ts)[j], now)
    <3>1. i+1 \in 1..Len(ts) /\ j+1 \in 1..Len(ts) /\ i+1 < j+1
      BY <1>1, <2>1
    <3>2. Tail(ts)[i] = ts[i+1] /\ Tail(ts)[j] = ts[j+1]
      BY <1>3
    <3>3. QED BY <3>1, <3>2 DEF InOrder
  <2>2. QED BY <1>3, <2>1 DEF InOrder
<1>5. ASSUME NEW e \in Elements(ts) PROVE Due(Head(ts), now) <= Due(e, now)
  <2>1. PICK i \in 1..Len(ts) : e = ts[i]
    BY DEF Elements
  <2>2. 1 \in 1..Len(ts) /\ Due(ts[1], now) \in Int
    BY <1>1, DueTyped
  <2>3. CASE i = 1
    BY <1>3, <2>1, <2>2, <2>3
  <2>4. CASE i # 1
    BY <1>3, <2>1, <2>2, <2>4 DEF InOrder
  <2>5. QED BY <2>3, <2>4
<1>6. QED BY <1>2, <1>4, <1>5

-----------------------------------------------------------------------------
(* rt_ipc_list_resume_all.                                                 *)
LEMMA DisarmAllFacts ==
    ASSUME NEW ts, TimersOK(ts), NEW list \in Seq(Threads)
    PROVE  /\ TimersOK(DisarmAll(ts, list))
           /\ Timing(DisarmAll(ts, list)) = Timing(ts) \ Elements(list)
           /\ \A now \in 0..TickMod-1 : InOrder(ts, now) =>
                 /\ InOrder(DisarmAll(ts, list), now)
                 /\ Elements(DisarmAll(ts, list)) \subseteq Elements(ts)
<1> DEFINE n == Len(list)
           A == {x \in Seq(TimerSet) : TimersOK(x)}
           g == [i \in 1..n |-> [x \in A |-> T!Disarm(x, list[i])]]
           h == Iterate(A, n, ts, g)
<1>1. n \in Nat /\ ts \in A
  BY LenProperties DEF TimersOK
<1>2. g \in [1..n -> [A -> A]]
  BY DisarmFacts DEF TimersOK
<1>3. \A i \in 1..n, x \in A : g[i][x] = T!Disarm(x, list[i])
  OBVIOUS
<1> HIDE DEF n, A, g
<1>4. h \in [0..n -> A] /\ h[0] = ts
  BY <1>1, <1>2, Iteration
<1>5. ASSUME NEW i \in 1..n PROVE h[i] = T!Disarm(h[i-1], list[i])
  <2>1. h[i] = g[i][h[i-1]]
    BY <1>1, <1>2, Iteration
  <2>2. h[i-1] \in A
    BY <1>1, <1>4
  <2>3. QED BY <1>3, <2>1, <2>2
<1> HIDE DEF h
<1>6. h = [i \in 0..n |-> IF i = 0 THEN ts ELSE T!Disarm(h[i-1], list[i])]
  BY <1>1, <1>4, <1>5
<1> DEFINE d == CHOOSE f : f = [i \in 0..n |-> IF i = 0 THEN ts ELSE T!Disarm(f[i-1], list[i])]
<1>7. d = [i \in 0..n |-> IF i = 0 THEN ts ELSE T!Disarm(d[i-1], list[i])]
  BY <1>6
<1>8. DisarmAll(ts, list) = d[n]
  BY DEF DisarmAll, n
<1> HIDE DEF d
<1> DEFINE Done(i) == {list[j] : j \in 1..i}
           Kept(x) == \A now \in 0..TickMod-1 : InOrder(ts, now) =>
                         InOrder(x, now) /\ Elements(x) \subseteq Elements(ts)
           Q(i) == TimersOK(d[i]) /\ Timing(d[i]) = Timing(ts) \ Done(i) /\ Kept(d[i])
           S == {i \in 0..n : Q(i)}
<1>9. 0 \in S
  BY <1>1, <1>7
<1>10. ASSUME NEW m \in 0..n-1, m \in S PROVE m + 1 \in S
  <2>1. d[m+1] = T!Disarm(d[m], list[m+1])
    BY <1>1, <1>7
  <2>2. /\ TimersOK(d[m+1])
        /\ Timing(d[m+1]) = Timing(d[m]) \ {list[m+1]}
    BY <1>10, <2>1, DisarmFacts
  <2>3. Done(m+1) = Done(m) \cup {list[m+1]}
    OBVIOUS
  <2>4. /\ TimersOK(d[m]) /\ Timing(d[m]) = Timing(ts) \ Done(m) /\ Kept(d[m])
        /\ m + 1 \in 0..n
    BY <1>1, <1>10
  <2>5. Kept(d[m+1])
    BY <2>1, <2>4, DisarmOrder
  <2> HIDE DEF Done, Kept
  <2>6. QED BY <2>2, <2>3, <2>4, <2>5
<1> HIDE DEF S
<1>11. \A i \in 0..n : i \in S
  BY <1>1, <1>9, <1>10, IntervalInduction
<1>12. n \in S /\ Done(n) = Elements(list)
  BY <1>1, <1>11 DEF Elements, n
<1>13. TimersOK(d[n]) /\ Timing(d[n]) = Timing(ts) \ Elements(list) /\ Kept(d[n])
  BY <1>12 DEF S
<1>14. QED BY <1>8, <1>13

LEMMA ReadyTyped ==
    ASSUME NEW s \in SchedSet, NEW t \in All
    PROVE  Ready(s, t) \in SchedSet
<1>1. Prio[t] \in Levels /\ s.ready \in [Levels -> Seq(All)]
  BY DEF Levels, SchedSet
<1>2. Append(s.ready[Prio[t]], t) \in Seq(All)
  BY <1>1
<1>3. CASE t = s.cur
  BY <1>3 DEF Ready, SchedSet, Stats
<1>4. CASE t # s.cur
  BY <1>1, <1>2, <1>4 DEF Ready, SchedSet, Stats
<1>5. QED BY <1>3, <1>4

LEMMA ReadyAllFacts ==
    ASSUME NEW s, NEW gone, ListsOK(s, gone), NEW list \in Seq(Threads), IsInjective(list),
           \A t \in Elements(list) : t \notin gone /\ s.stat[t] \notin {"READY", "RUNNING"}
    PROVE  /\ ListsOK(ReadyAll(s, list), gone)
           /\ ReadyAll(s, list).cur = s.cur
           /\ \A t \in All : ReadyAll(s, list).stat[t] =
                 IF t \notin Elements(list) THEN s.stat[t]
                 ELSE IF t = s.cur THEN "RUNNING" ELSE "READY"
<1> DEFINE n == Len(list)
           g == [i \in 1..n |-> [x \in SchedSet |-> Ready(x, list[i])]]
           h == Iterate(SchedSet, n, s, g)
<1>1. /\ n \in Nat /\ s \in SchedSet /\ DOMAIN list = 1..n
      /\ \A i \in 1..n : list[i] \in Threads /\ list[i] \in All /\ list[i] \in Elements(list)
  BY LenProperties, ElementOfSeq DEF ListsOK, All, Elements
<1>2. g \in [1..n -> [SchedSet -> SchedSet]]
  BY <1>1, ReadyTyped
<1>3. \A i \in 1..n, x \in SchedSet : g[i][x] = Ready(x, list[i])
  OBVIOUS
<1> HIDE DEF n, g
<1>4. h \in [0..n -> SchedSet] /\ h[0] = s
  BY <1>1, <1>2, Iteration
<1>5. ASSUME NEW i \in 1..n PROVE h[i] = Ready(h[i-1], list[i])
  <2>1. h[i] = g[i][h[i-1]]
    BY <1>1, <1>2, Iteration
  <2>2. h[i-1] \in SchedSet
    BY <1>1, <1>4
  <2>3. QED BY <1>3, <2>1, <2>2
<1> HIDE DEF h
<1>6. h = [i \in 0..n |-> IF i = 0 THEN s ELSE Ready(h[i-1], list[i])]
  BY <1>1, <1>4, <1>5
<1> DEFINE d == CHOOSE f : f = [i \in 0..n |-> IF i = 0 THEN s ELSE Ready(f[i-1], list[i])]
<1>7. d = [i \in 0..n |-> IF i = 0 THEN s ELSE Ready(d[i-1], list[i])]
  BY <1>6
<1>8. ReadyAll(s, list) = d[n]
  BY DEF ReadyAll, n
<1> HIDE DEF d
<1> DEFINE Done(i) == {list[j] : j \in 1..i}
           New(t) == IF t = s.cur THEN "RUNNING" ELSE "READY"
           Q(i) == /\ ListsOK(d[i], gone) /\ d[i].cur = s.cur
                   /\ \A t \in All :
                         d[i].stat[t] = IF t \in Done(i) THEN New(t) ELSE s.stat[t]
           S == {i \in 0..n : Q(i)}
<1>9. 0 \in S
  BY <1>1, <1>7
<1>10. ASSUME NEW m \in 0..n-1, m \in S PROVE m + 1 \in S
  <2> DEFINE t == list[m+1]
  <2>1. /\ d[m+1] = Ready(d[m], t) /\ m + 1 \in 1..n /\ m + 1 \in 0..n
        /\ t \in All /\ t \in Elements(list)
    BY <1>1, <1>7
  <2>2. t \notin Done(m)
    <3>1. \A j \in 1..m : list[j] # list[m+1]
      BY <1>1, <2>1 DEF IsInjective
    <3>2. QED BY <3>1
  <2>3. /\ ListsOK(d[m], gone) /\ d[m].cur = s.cur
        /\ \A u \in All : d[m].stat[u] = IF u \in Done(m) THEN New(u) ELSE s.stat[u]
    BY <1>10
  <2>4. t \notin gone /\ d[m].stat[t] \notin {"READY", "RUNNING"}
    BY <2>1, <2>2, <2>3
  <2>5. /\ ListsOK(d[m+1], gone) /\ d[m+1].cur = s.cur
        /\ d[m+1].stat = [d[m].stat EXCEPT ![t] = New(t)]
    <3> HIDE DEF t
    <3>1. QED BY <2>1, <2>3, <2>4, ReadyFacts
  <2>6. Done(m+1) = Done(m) \cup {t}
    OBVIOUS
  <2>7. d[m].stat \in [All -> Stats]
    BY <2>3 DEF ListsOK, SchedSet
  <2> HIDE DEF Done, t, New
  <2>8. \A u \in All : d[m+1].stat[u] = IF u \in Done(m+1) THEN New(u) ELSE s.stat[u]
    BY <2>1, <2>3, <2>5, <2>6, <2>7
  <2>9. QED BY <2>1, <2>5, <2>8
<1> HIDE DEF S
<1>11. \A i \in 0..n : i \in S
  BY <1>1, <1>9, <1>10, IntervalInduction
<1>12. Done(n) = Elements(list) /\ n \in 0..n
  BY <1>1 DEF Elements, n
<1> HIDE DEF Done
<1>13. Q(n)
  BY <1>11, <1>12 DEF S
<1>14. QED BY <1>8, <1>12, <1>13

-----------------------------------------------------------------------------
(* Steps.                                                                  *)
LEMMA ThreadsNext ==
    ThreadsOK' <=>
        /\ ListsOK(sched', GoneIn(call')) /\ TimersOK(timers')
        /\ SleepersOK(sched', GoneIn(call'), pc', Timing(timers'))
        /\ call' \in CallSet /\ call'[Idle] = "none"
        /\ DeleterOK(sched', call') /\ RunnerOK(sched', call')
        /\ call'[sched'.cur] # "schedule" => Urgent(sched')
BY DEF ThreadsOK, Gone

LEMMA ClockNext ==
    ClockOK' <=> /\ slice' \in [All -> Nat] /\ \A t \in All : slice'[t] \in 1..Slice[t]
                 /\ tick' \in 0..TickMod-1
                 /\ isr' \in {"none", "tick", "check"}
BY DEF ClockOK

(* Who is being deleted.                                                   *)
LEMMA GoneFacts ==
    ASSUME NEW calls
    PROVE  /\ GoneIn(calls) \subseteq {Victim} /\ GoneIn(calls) \in SUBSET Threads
           /\ \A d \in Threads : calls[d] \in Deleting => GoneIn(calls) = {Victim}
           /\ Victim \in GoneIn(calls) => \E d \in Threads : calls[d] \in Deleting
           /\ (\A d \in Threads : calls[d] \notin Deleting) => GoneIn(calls) = {}
BY InAll DEF GoneIn

(* What rt_schedule keeps and what it brings about.                        *)
LEMMA Switch ==
    ASSUME NEW s, NEW calls, ListsOK(s, GoneIn(calls)), DeleterOK(s, calls),
           calls[Idle] \notin Deleting
    PROVE  /\ ListsOK(Schedule(s), GoneIn(calls)) /\ DeleterOK(Schedule(s), calls)
           /\ Urgent(Schedule(s))
           /\ Schedule(s).stat[Schedule(s).cur] = "RUNNING"
           /\ \A t \in All : Schedule(s).stat[t] = "SUSPEND" <=> s.stat[t] = "SUSPEND"
<1> DEFINE r    == Schedule(s)
           gone == GoneIn(calls)
<1>1. gone \in SUBSET Threads
  BY GoneFacts
<1>2. /\ ListsOK(r, gone)
      /\ r.stat[r.cur] = "RUNNING"
      /\ \A t \in All : r.stat[t] = s.stat[t] \/ {r.stat[t], s.stat[t]} \subseteq {"READY", "RUNNING"}
      /\ \A t \in All : t \notin gone /\ r.stat[t] = "READY" => Prio[r.cur] <= Prio[t]
  BY <1>1, ScheduleFacts
<1> HIDE DEF r
<1>3. /\ r.cur \in All /\ r.cur \notin gone
      /\ \A t \in All : r.stat[t] = "RUNNING" => t = r.cur
  BY <1>2 DEF ListsOK, SchedSet
<1>4. DeleterOK(r, calls)
  <2> SUFFICES ASSUME NEW d \in All, calls[d] \in Deleting
               PROVE  /\ d # Victim /\ r.stat[d] \in {"READY", "RUNNING"}
                      /\ \A e \in All : calls[e] \in Deleting => e = d
                      /\ r.stat[Victim] \in {"INIT", "READY", "SUSPEND"}
                      /\ r.stat[Victim] = "READY" => Prio[d] <= Prio[Victim]
    BY DEF DeleterOK
  <2>1. /\ d # Victim /\ s.stat[d] \in {"READY", "RUNNING"}
        /\ \A e \in All : calls[e] \in Deleting => e = d
        /\ s.stat[Victim] \in {"INIT", "READY", "SUSPEND"}
        /\ s.stat[Victim] = "READY" => Prio[d] <= Prio[Victim]
    BY DEF DeleterOK
  <2>2. gone = {Victim}
    <3>1. d \in Threads
      BY DEF All
    <3>2. QED BY <3>1, GoneFacts
  <2>3. r.stat[Victim] # "RUNNING"
    BY <1>3, <2>2, InAll
  <2>4. QED BY <1>2, <2>1, <2>3, InAll
<1>5. ASSUME NEW t \in All, r.stat[t] = "READY" PROVE Prio[r.cur] <= Prio[t]
  <2>1. CASE t \notin gone
    BY <1>2, <1>5, <2>1
  <2>2. CASE t \in gone
    <3>1. t = Victim
      BY <2>2, GoneFacts
    <3>2. PICK d \in Threads : calls[d] \in Deleting
      BY <2>2, <3>1, GoneFacts
    <3>3. d \in All /\ d # Victim /\ r.stat[d] \in {"READY", "RUNNING"} /\ Prio[d] <= Prio[Victim]
      BY <1>4, <1>5, <3>1, <3>2, InAll DEF DeleterOK
    <3>4. Prio[r.cur] <= Prio[d]
      <4>1. d \notin gone
        BY <3>3, GoneFacts
      <4>2. CASE r.stat[d] = "READY"
        BY <1>2, <3>3, <4>1, <4>2
      <4>3. CASE r.stat[d] = "RUNNING"
        BY <1>3, <3>3, <4>3, InAll
      <4>4. QED BY <3>3, <4>2, <4>3
    <3>5. Prio[r.cur] \in Nat /\ Prio[d] \in Nat /\ Prio[t] \in Nat
      BY <1>3, <3>3, InAll
    <3>6. QED BY <3>1, <3>3, <3>4, <3>5
  <2>3. QED BY <2>1, <2>2
<1>6. Urgent(r)
  BY <1>5 DEF Urgent
<1>7. QED BY <1>2, <1>4, <1>6 DEF r

(* A thread that makes a call is running, and sleeps on nothing.           *)
LEMMA CallerFacts ==
    ASSUME SemInv, ThreadsOK, NEW t \in Threads, Runs(t), call[t] = "none"
    PROVE  /\ t \in All /\ t = sched.cur /\ sched.stat[t] = "RUNNING" /\ t \notin Gone
           /\ pc[t] = "idle" /\ t \notin Timing(timers) /\ t \notin Elements(waiters)
           /\ Urgent(sched)
<1>1. t \in All /\ t = sched.cur /\ t \notin Gone
  BY InAll DEF Runs, ThreadsOK, ListsOK
<1>2. sched.stat[t] = "RUNNING" /\ Urgent(sched)
  BY <1>1 DEF ThreadsOK, RunnerOK
<1>3. pc[t] = "idle" /\ t \notin Timing(timers)
  BY <1>1, <1>2 DEF ThreadsOK, SleepersOK
<1>4. t \notin Elements(waiters)
  BY <1>3, SemTyped DEF SemInv
<1>5. QED BY <1>1, <1>2, <1>3, <1>4

(* A call that is not part of a deletion ends with or without a schedule.  *)
LEMMA CallFacts ==
    ASSUME ThreadsOK, NEW t \in Threads, call[t] \notin Deleting,
           NEW rest \in {"none", "schedule"}, call' = [call EXCEPT ![t] = rest]
    PROVE  /\ call' \in CallSet /\ call'[Idle] = "none"
           /\ \A d \in All : call'[d] \in Deleting <=> call[d] \in Deleting
           /\ \A d \in All : d # t => call'[d] = call[d]
           /\ call'[t] = rest
           /\ GoneIn(call') = Gone
<1>1. call \in CallSet /\ call[Idle] = "none" /\ t \in All /\ t # Idle
  BY InAll DEF ThreadsOK
<1>2. \A d \in All : call'[d] = IF d = t THEN rest ELSE call[d]
  BY <1>1 DEF CallSet
<1>3. call' \in CallSet
  BY <1>1 DEF CallSet
<1>4. \A d \in All : call'[d] \in Deleting <=> call[d] \in Deleting
  BY <1>2 DEF Deleting
<1>5. GoneIn(call') = Gone
  BY <1>4, InAll DEF GoneIn, Gone
<1>6. QED BY <1>1, <1>2, <1>3, <1>4, <1>5, InAll

(* The timer of a thread is started, or stopped.                           *)
LEMMA InRange ==
    ASSUME NEW x \in Int
    PROVE  x % TickMod \in 0..TickMod-1
BY InAll

LEMMA StartFacts ==
    ASSUME ThreadsOK, ClockOK, NEW t \in Threads, NEW n \in Nat, StartTimer(t, n)
    PROVE  TimersOK(timers') /\ Timing(timers') = Timing(timers) \cup {t}
<1>1. (tick + n) % TickMod \in 0..TickMod-1
  <2>1. tick + n \in Int
    BY InAll DEF ClockOK
  <2>2. QED BY <2>1, InRange
<1> DEFINE ts == T!Disarm(timers, t)
<1>2. TimersOK(ts) /\ Timing(ts) = Timing(timers) \ {t}
  BY DisarmFacts DEF ThreadsOK
<1>3. timers' = T!Arm(ts, t, (tick + n) % TickMod)
  BY DEF StartTimer
<1> HIDE DEF ts
<1>4. /\ TimersOK(T!Arm(ts, t, (tick + n) % TickMod))
      /\ Timing(T!Arm(ts, t, (tick + n) % TickMod)) = Timing(ts) \cup {t}
  BY <1>1, <1>2, ArmFacts
<1>5. QED BY <1>2, <1>3, <1>4

LEMMA StopFacts ==
    ASSUME ThreadsOK, NEW t, StopTimer(t)
    PROVE  TimersOK(timers') /\ Timing(timers') = Timing(timers) \ {t}
BY DisarmFacts DEF ThreadsOK, StopTimer

LEMMA ThreadInitInv == ThreadInit => ThreadInv
<1> SUFFICES ASSUME ThreadInit PROVE ThreadInv
  OBVIOUS
<1>1. SemInv
  BY SemInitInv DEF ThreadInit
<1>2. ClockOK
  BY InAll DEF ThreadInit, ClockOK
<1>3. GoneIn(call) = {} /\ call \in CallSet /\ \A t \in All : call[t] = "none"
  BY InAll DEF ThreadInit, GoneIn, Deleting, CallSet
<1>4. /\ sched \in SchedSet /\ sched.cur = Main
      /\ \A t \in All : sched.stat[t] = IF t = Main THEN "RUNNING"
                                        ELSE IF t = Idle THEN "READY" ELSE "INIT"
      /\ \A p \in Levels : sched.ready[p] = IF p = Prio[Idle] THEN <<Idle>> ELSE <<>>
  <2>1. <<Idle>> \in Seq(All) /\ <<>> \in Seq(All)
    BY InAll
  <2>2. QED BY <2>1, InAll DEF ThreadInit, SchedSet, Stats, Levels
<1>5. Elements(<<Idle>>) = {Idle} /\ IsInjective(<<Idle>>)
  BY DEF Elements, IsInjective
<1>6. ListsOK(sched, {})
  <2>1. \A t \in All, p \in Levels :
           t \in Elements(sched.ready[p]) <=> sched.stat[t] = "READY" /\ p = Prio[t]
    BY <1>4, <1>5, NobodyListed, InAll
  <2>2. \A p \in Levels : IsInjective(sched.ready[p])
    BY <1>4, <1>5, NobodyListed
  <2>3. QED BY <1>4, <2>1, <2>2, InAll DEF ListsOK
<1>7. TimersOK(timers) /\ Timing(timers) = {}
  BY NobodyListed DEF ThreadInit, TimersOK, Timing
<1>8. SleepersOK(sched, {}, pc, Timing(timers))
  BY <1>4, <1>7, InAll DEF SleepersOK, ThreadInit, Init
<1>9. /\ DeleterOK(sched, call) /\ RunnerOK(sched, call) /\ Urgent(sched)
      /\ call[Idle] = "none"
  <2>1. ASSUME NEW t \in All, sched.stat[t] = "READY" PROVE Prio[Main] <= Prio[t]
    <3>1. t = Idle
      BY <1>4, <2>1, InAll
    <3>2. Prio[Main] < Prio[Idle] /\ Prio[Main] \in Nat /\ Prio[Idle] \in Nat
      BY InAll, ThreadAssumption
    <3>3. QED BY <3>1, <3>2
  <2>2. QED BY <1>3, <1>4, <2>1, InAll DEF DeleterOK, RunnerOK, Urgent, Deleting
<1>10. QED BY <1>1, <1>2, <1>3, <1>6, <1>7, <1>8, <1>9 DEF ThreadInv, ThreadsOK, Gone

(* A thread suspends itself, and will call rt_schedule.                    *)
LEMMA SuspendStep ==
    ASSUME SemInv, ThreadsOK, NEW t \in Threads, Runs(t), call[t] = "none",
           sched' = Suspended(sched, t), Does(t, "schedule"), TimersOK(timers'),
           \A u \in Threads : u # t =>
              pc'[u] = pc[u] /\ (u \in Timing(timers') <=> u \in Timing(timers)),
           pc'[t] # "idle" \/ t \in Timing(timers'),
           pc'[t] = "timed" => t \in Timing(timers'),
           pc'[t] = "forever" => t \notin Timing(timers')
    PROVE  ThreadsOK'
<1>1. /\ t \in All /\ t = sched.cur /\ sched.stat[t] = "RUNNING" /\ t \notin Gone
  BY CallerFacts
<1>2. /\ call' \in CallSet /\ call'[Idle] = "none"
      /\ \A d \in All : call'[d] \in Deleting <=> call[d] \in Deleting
      /\ call'[t] = "schedule" /\ GoneIn(call') = Gone
  BY CallFacts DEF Does, Deleting
<1>3. /\ ListsOK(sched', Gone) /\ sched'.cur = t
      /\ sched'.stat = [sched.stat EXCEPT ![t] = "SUSPEND"]
  BY <1>1, SuspendedFacts DEF ThreadsOK
<1>4. \A u \in All : sched'.stat[u] = IF u = t THEN "SUSPEND" ELSE sched.stat[u]
  BY <1>3 DEF ThreadsOK, ListsOK, SchedSet
<1>5. SleepersOK(sched', Gone, pc', Timing(timers'))
  <2>1. SleepersOK(sched, Gone, pc, Timing(timers))
    BY DEF ThreadsOK
  <2>2. Gone \subseteq Threads
    BY GoneFacts DEF Gone
  <2>3. QED BY <1>1, <1>4, <2>1, <2>2, InAll DEF SleepersOK
<1>6. DeleterOK(sched', call')
  <2>1. ASSUME NEW d \in All, call'[d] \in Deleting PROVE d # t
    BY <1>2, <2>1 DEF Deleting
  <2>2. DeleterOK(sched, call)
    BY DEF ThreadsOK
  <2>3. ASSUME NEW d \in All, call'[d] \in Deleting PROVE t # Victim
    <3>1. call[d] \in Deleting /\ d \in Threads
      BY <1>2, <2>3 DEF ThreadsOK, All, Deleting
    <3>2. QED BY <1>1, <3>1, GoneFacts DEF Gone
  <2>4. QED BY <1>2, <1>4, <2>1, <2>2, <2>3, InAll DEF DeleterOK
<1>7. RunnerOK(sched', call')
  BY <1>2, <1>3, <1>4, <1>1 DEF RunnerOK
<1>8. QED BY <1>2, <1>3, <1>5, <1>6, <1>7, ThreadsNext

LEMMA TakeCallOK ==
    ASSUME SemInv, ThreadsOK, ClockOK, NEW t \in Threads, TakeCall(t)
    PROVE  ThreadsOK'
<1>1. /\ Runs(t) /\ call[t] = "none" /\ Take(t)
      /\ t \in All /\ t \in Threads /\ pc[t] = "idle" /\ t \notin Timing(timers)
  BY CallerFacts DEF TakeCall, Calls
<1>2. pc \in [Threads -> {"idle", "timed", "forever"}]
  BY SemTyped DEF SemInv
<1>3. CASE pc'[t] = "idle"
  <2>1. UNCHANGED <<sched, call, timers>>
    BY <1>3 DEF TakeCall
  <2>2. pc' = pc
    BY <1>1, <1>2, <1>3 DEF Take
  <2>3. QED BY <2>1, <2>2 DEF ThreadsOK, Gone
<1>4. CASE pc'[t] # "idle"
  <2>1. sched' = Suspended(sched, t) /\ Does(t, "schedule")
    BY <1>4 DEF TakeCall
  <2>2. PICK w \in {"timed", "forever"} : pc' = [pc EXCEPT ![t] = w]
    BY <1>1, <1>4 DEF Take
  <2>3. CASE pc'[t] = "timed"
    <3>1. PICK n \in Waits : StartTimer(t, n)
      BY <1>4, <2>3 DEF TakeCall
    <3>2. n \in Nat
      BY ThreadAssumption
    <3>3. TimersOK(timers') /\ Timing(timers') = Timing(timers) \cup {t}
      BY <3>1, <3>2, StartFacts
    <3>4. QED BY <1>1, <1>2, <2>1, <2>2, <2>3, <3>3, SuspendStep
  <2>4. CASE pc'[t] = "forever"
    <3>1. StopTimer(t)
      BY <1>4, <2>4 DEF TakeCall
    <3>2. TimersOK(timers') /\ Timing(timers') = Timing(timers) \ {t}
      BY <3>1, StopFacts
    <3>3. QED BY <1>1, <1>2, <2>1, <2>2, <2>4, <3>2, SuspendStep
  <2>5. QED BY <1>2, <2>2, <2>3, <2>4
<1>5. QED BY <1>3, <1>4

LEMMA SleepOK ==
    ASSUME SemInv, ThreadsOK, ClockOK, NEW t \in Threads, Sleep(t)
    PROVE  ThreadsOK'
<1>1. Runs(t) /\ call[t] = "none" /\ pc[t] = "idle"
  BY CallerFacts DEF Sleep, Calls
<1>2. PICK n \in Sleeps : StartTimer(t, n)
  BY DEF Sleep
<1>3. n \in Nat
  BY ThreadAssumption
<1>4. TimersOK(timers') /\ Timing(timers') = Timing(timers) \cup {t}
  BY <1>2, <1>3, StartFacts
<1>5. sched' = Suspended(sched, t) /\ Does(t, "schedule") /\ pc' = pc
  BY DEF Sleep
<1>6. QED BY <1>1, <1>4, <1>5, SuspendStep

(* A thread wakes, from the semaphore, its timer or both.                  *)
LEMMA WakeFacts ==
    ASSUME ThreadsOK, NEW u \in Threads, u \notin Gone, sched.stat[u] = "SUSPEND",
           NEW p, \A v \in Threads : p[v] = IF v = u THEN "idle" ELSE pc[v],
           NEW timing, timing = Timing(timers) \ {u}
    PROVE  /\ ListsOK(Ready(sched, u), Gone) /\ DeleterOK(Ready(sched, u), call)
           /\ SleepersOK(Ready(sched, u), Gone, p, timing)
           /\ RunnerOK(Ready(sched, u), call)
           /\ Ready(sched, u).cur = sched.cur
<1> DEFINE s == Ready(sched, u)
<1>1. /\ ListsOK(s, Gone) /\ s.cur = sched.cur
      /\ s.stat = [sched.stat EXCEPT ![u] = IF u = sched.cur THEN "RUNNING" ELSE "READY"]
  BY ReadyFacts, InAll, SMTT(30) DEF ThreadsOK
<1> HIDE DEF s
<1>2. /\ sched.stat \in [All -> Stats] /\ sched.cur \in All
  BY DEF ThreadsOK, ListsOK, SchedSet
<1>3. ASSUME NEW t \in All
      PROVE  s.stat[t] = IF t # u THEN sched.stat[t]
                         ELSE IF u = sched.cur THEN "RUNNING" ELSE "READY"
  BY <1>1, <1>2
<1>4. Gone \in SUBSET Threads
  BY GoneFacts DEF Gone
<1>5. SleepersOK(s, Gone, p, timing)
  <2>1. SleepersOK(sched, Gone, pc, Timing(timers))
    BY DEF ThreadsOK
  <2>2. ASSUME NEW t \in Threads \ Gone
        PROVE  /\ s.stat[t] = "SUSPEND" <=> p[t] # "idle" \/ t \in timing
               /\ p[t] = "timed" => t \in timing
               /\ p[t] = "forever" => t \notin timing
    <3>1. /\ sched.stat[t] = "SUSPEND" <=> pc[t] # "idle" \/ t \in Timing(timers)
          /\ pc[t] = "timed" => t \in Timing(timers)
          /\ pc[t] = "forever" => t \notin Timing(timers)
      BY <2>1 DEF SleepersOK
    <3>2. QED BY <1>3, <3>1, InAll
  <2>3. \A t \in Gone : p[t] = "idle" /\ t \notin timing
    BY <1>4, <2>1 DEF SleepersOK
  <2>4. QED BY <2>2, <2>3 DEF SleepersOK
<1>6. DeleterOK(s, call)
  <2> SUFFICES ASSUME NEW d \in All, call[d] \in Deleting
               PROVE  /\ d # Victim /\ s.stat[d] \in {"READY", "RUNNING"}
                      /\ \A e \in All : call[e] \in Deleting => e = d
                      /\ s.stat[Victim] \in {"INIT", "READY", "SUSPEND"}
                      /\ s.stat[Victim] = "READY" => Prio[d] <= Prio[Victim]
    BY DEF DeleterOK
  <2>1. /\ d # Victim /\ sched.stat[d] \in {"READY", "RUNNING"}
        /\ \A e \in All : call[e] \in Deleting => e = d
        /\ sched.stat[Victim] \in {"INIT", "READY", "SUSPEND"}
        /\ sched.stat[Victim] = "READY" => Prio[d] <= Prio[Victim]
    BY DEF ThreadsOK, DeleterOK
  <2>2. u # Victim
    <3>1. d \in Threads
      BY DEF ThreadsOK, All, Deleting
    <3>2. QED BY <3>1, GoneFacts DEF Gone
  <2>3. QED BY <1>3, <2>1, <2>2, InAll
<1>7. RunnerOK(s, call)
  BY <1>1, <1>2, <1>3 DEF ThreadsOK, RunnerOK
<1>8. QED BY <1>1, <1>5, <1>6, <1>7 DEF s

(* A step that ends in rt_schedule.                                        *)
LEMMA SwitchStep ==
    ASSUME NEW s, ListsOK(s, GoneIn(call')), DeleterOK(s, call'),
           SleepersOK(s, GoneIn(call'), pc', Timing(timers')), TimersOK(timers'),
           call' \in CallSet, call'[Idle] = "none", sched' = Schedule(s)
    PROVE  ThreadsOK'
<1>1. call'[Idle] \notin Deleting
  BY DEF Deleting
<1>2. /\ ListsOK(sched', GoneIn(call')) /\ DeleterOK(sched', call')
      /\ Urgent(sched') /\ sched'.stat[sched'.cur] = "RUNNING"
      /\ \A t \in All : sched'.stat[t] = "SUSPEND" <=> s.stat[t] = "SUSPEND"
  BY <1>1, Switch
<1>3. SleepersOK(sched', GoneIn(call'), pc', Timing(timers'))
  BY <1>2, InAll DEF SleepersOK
<1>4. RunnerOK(sched', call')
  BY <1>2 DEF RunnerOK
<1>5. QED BY <1>2, <1>3, <1>4, ThreadsNext

LEMMA ResumeFacts ==
    ASSUME SemInv, ThreadsOK, Resume, waiters # <<>>
    PROVE  /\ TimersOK(timers')
           /\ ListsOK(Resumed, Gone) /\ DeleterOK(Resumed, call)
           /\ SleepersOK(Resumed, Gone, pc', Timing(timers'))
           /\ RunnerOK(Resumed, call) /\ Resumed.cur = sched.cur
<1> DEFINE u == Head(waiters)
<1>1. /\ waiters \in Seq(Threads) /\ pc \in [Threads -> {"idle", "timed", "forever"}]
      /\ Elements(waiters) = {t \in Threads : pc[t] # "idle"} /\ IsInjective(waiters)
  BY SemTyped DEF SemInv
<1>2. u \in Threads /\ u \in Elements(waiters)
  BY <1>1, HeadLeaves
<1>3. pc[u] # "idle"
  BY <1>1, <1>2
<1>4. SleepersOK(sched, Gone, pc, Timing(timers))
  BY DEF ThreadsOK
<1>5. u \notin Gone /\ sched.stat[u] = "SUSPEND"
  BY <1>2, <1>3, <1>4 DEF SleepersOK
<1>6. pc' = [pc EXCEPT ![u] = "idle"] /\ StopTimer(u) /\ Resumed = Ready(sched, u)
  BY DEF Resume, Release, Resumed
<1> HIDE DEF u
<1>7. TimersOK(timers') /\ Timing(timers') = Timing(timers) \ {u}
  BY <1>6, StopFacts
<1>8. \A v \in Threads : pc'[v] = IF v = u THEN "idle" ELSE pc[v]
  BY <1>1, <1>6
<1>9. QED BY <1>2, <1>5, <1>6, <1>7, <1>8, WakeFacts

LEMMA NothingResumed ==
    ASSUME Resume, waiters = <<>>
    PROVE  pc' = pc /\ timers' = timers /\ Resumed = sched
BY DEF Resume, Release, Resumed

LEMMA ReleaseCallOK ==
    ASSUME SemInv, ThreadsOK, NEW t \in Threads, ReleaseCall(t)
    PROVE  ThreadsOK'
<1>1. Runs(t) /\ call[t] = "none" /\ Resume /\ sched' = Resumed /\ t = sched.cur
  BY DEF ReleaseCall, Calls, Runs
<1>2. CASE waiters = <<>>
  <2>1. call' = [call EXCEPT ![t] = "none"]
    BY <1>2 DEF ReleaseCall, Does
  <2>2. call' = call
    BY <1>1, <2>1, InAll DEF ThreadsOK, CallSet
  <2>3. QED BY <1>1, <1>2, <2>2, NothingResumed DEF ThreadsOK, Gone
<1>3. CASE waiters # <<>>
  <2>1. call' = [call EXCEPT ![t] = "schedule"]
    BY <1>3 DEF ReleaseCall, Does
  <2>2. /\ call' \in CallSet /\ call'[Idle] = "none"
        /\ \A d \in All : call'[d] \in Deleting <=> call[d] \in Deleting
        /\ call'[t] = "schedule" /\ GoneIn(call') = Gone
    BY <1>1, <2>1, CallFacts DEF Deleting
  <2>3. /\ TimersOK(timers') /\ ListsOK(sched', Gone) /\ DeleterOK(sched', call)
        /\ SleepersOK(sched', Gone, pc', Timing(timers'))
        /\ RunnerOK(sched', call) /\ sched'.cur = sched.cur
    BY <1>1, <1>3, ResumeFacts
  <2>4. DeleterOK(sched', call')
    BY <2>2, <2>3 DEF DeleterOK
  <2>5. RunnerOK(sched', call')
    BY <1>1, <2>2, <2>3 DEF RunnerOK
  <2>6. QED BY <1>1, <2>2, <2>3, <2>4, <2>5, ThreadsNext
<1>4. QED BY <1>2, <1>3

LEMMA ReleaseIsrOK ==
    ASSUME SemInv, ThreadsOK, ReleaseIsr
    PROVE  ThreadsOK'
<1>1. Resume /\ call' = call
  BY DEF ReleaseIsr
<1>2. CASE waiters = <<>>
  <2>1. sched' = sched /\ pc' = pc /\ timers' = timers
    BY <1>1, <1>2, NothingResumed DEF ReleaseIsr
  <2>2. QED BY <1>1, <2>1 DEF ThreadsOK, Gone
<1>3. CASE waiters # <<>>
  <2>1. sched' = Schedule(Resumed)
    BY <1>3 DEF ReleaseIsr
  <2>2. /\ TimersOK(timers') /\ ListsOK(Resumed, Gone) /\ DeleterOK(Resumed, call)
        /\ SleepersOK(Resumed, Gone, pc', Timing(timers'))
    BY <1>1, <1>3, ResumeFacts
  <2>3. call' \in CallSet /\ call'[Idle] = "none" /\ GoneIn(call') = Gone
    BY <1>1 DEF ThreadsOK, Gone
  <2>4. QED BY <1>1, <2>1, <2>2, <2>3, SwitchStep
<1>4. QED BY <1>2, <1>3

(* rt_schedule, at the end of a call or as one.                            *)
LEMMA ScheduleCallOK ==
    ASSUME ThreadsOK, NEW t \in Threads, ScheduleCall(t)
    PROVE  ThreadsOK'
<1>1. /\ call[t] = "schedule" /\ call' = [call EXCEPT ![t] = "none"]
      /\ sched' = Schedule(sched) /\ timers' = timers /\ pc' = pc
  BY DEF ScheduleCall, Does
<1>2. /\ call' \in CallSet /\ call'[Idle] = "none"
      /\ \A d \in All : call'[d] \in Deleting <=> call[d] \in Deleting
      /\ GoneIn(call') = Gone
  BY <1>1, CallFacts DEF Deleting
<1>3. DeleterOK(sched, call')
  BY <1>2 DEF ThreadsOK, DeleterOK
<1>4. QED BY <1>1, <1>2, <1>3, SwitchStep DEF ThreadsOK

LEMMA YieldOK ==
    ASSUME ThreadsOK, NEW t \in Threads, Yield(t)
    PROVE  ThreadsOK'
<1>1. sched' = Schedule(sched) /\ call' = call /\ timers' = timers /\ pc' = pc
  BY DEF Yield
<1>2. QED BY <1>1, SwitchStep DEF ThreadsOK, Gone

(* All waiters are told of a reset.                                        *)
LEMMA ResetCallOK ==
    ASSUME SemInv, ThreadsOK, NEW t \in Threads, ResetCall(t)
    PROVE  ThreadsOK'
<1>1. /\ Runs(t) /\ call[t] = "none" /\ t = sched.cur /\ t \in All
      /\ sched' = ReadyAll(sched, waiters) /\ timers' = DisarmAll(timers, waiters)
      /\ call' = [call EXCEPT ![t] = "schedule"]
      /\ pc' = [u \in Threads |-> "idle"]
      /\ t \notin Elements(waiters) /\ sched.stat[t] = "RUNNING"
  BY CallerFacts DEF ResetCall, Calls, Runs, Does, Reset
<1>2. /\ call' \in CallSet /\ call'[Idle] = "none"
      /\ \A d \in All : call'[d] \in Deleting <=> call[d] \in Deleting
      /\ call'[t] = "schedule" /\ GoneIn(call') = Gone
  BY <1>1, CallFacts DEF Deleting
<1>3. /\ waiters \in Seq(Threads) /\ IsInjective(waiters)
      /\ Elements(waiters) = {u \in Threads : pc[u] # "idle"}
  BY SemTyped DEF SemInv
<1>4. SleepersOK(sched, Gone, pc, Timing(timers))
  BY DEF ThreadsOK
<1>5. \A u \in Elements(waiters) : u \notin Gone /\ sched.stat[u] = "SUSPEND"
  BY <1>3, <1>4 DEF SleepersOK
<1>6. /\ ListsOK(sched', Gone) /\ sched'.cur = t
      /\ \A u \in All : sched'.stat[u] =
            IF u \notin Elements(waiters) THEN sched.stat[u] ELSE "READY"
  BY <1>1, <1>3, <1>5, ReadyAllFacts DEF ThreadsOK
<1>7. TimersOK(timers') /\ Timing(timers') = Timing(timers) \ Elements(waiters)
  BY <1>1, <1>3, DisarmAllFacts DEF ThreadsOK
<1>8. SleepersOK(sched', Gone, pc', Timing(timers'))
  <2>1. ASSUME NEW u \in Threads \ Gone
        PROVE  /\ sched'.stat[u] = "SUSPEND" <=> u \in Timing(timers')
               /\ pc'[u] = "idle"
    <3>1. sched.stat[u] = "SUSPEND" <=> pc[u] # "idle" \/ u \in Timing(timers)
      BY <1>4 DEF SleepersOK
    <3>2. QED BY <1>1, <1>3, <1>6, <1>7, <3>1, InAll
  <2>2. ASSUME NEW u \in Gone PROVE pc'[u] = "idle" /\ u \notin Timing(timers')
    <3>1. u \in Threads
      BY GoneFacts DEF Gone
    <3>2. QED BY <1>1, <1>4, <1>7, <3>1 DEF SleepersOK
  <2>3. QED BY <2>1, <2>2 DEF SleepersOK
<1>9. DeleterOK(sched', call')
  <2> SUFFICES ASSUME NEW d \in All, call'[d] \in Deleting
               PROVE  /\ d # Victim /\ sched'.stat[d] \in {"READY", "RUNNING"}
                      /\ \A e \in All : call'[e] \in Deleting => e = d
                      /\ sched'.stat[Victim] \in {"INIT", "READY", "SUSPEND"}
                      /\ sched'.stat[Victim] = "READY" => Prio[d] <= Prio[Victim]
    BY DEF DeleterOK
  <2>1. /\ d # Victim /\ sched.stat[d] \in {"READY", "RUNNING"}
        /\ \A e \in All : call[e] \in Deleting => e = d
        /\ sched.stat[Victim] \in {"INIT", "READY", "SUSPEND"}
        /\ sched.stat[Victim] = "READY" => Prio[d] <= Prio[Victim]
    BY <1>2 DEF ThreadsOK, DeleterOK
  <2>2. Victim \in Gone
    <3>1. d \in Threads /\ call[d] \in Deleting
      BY <1>2 DEF ThreadsOK, All, Deleting
    <3>2. QED BY <3>1, GoneFacts DEF Gone
  <2>3. QED BY <1>2, <1>5, <1>6, <2>1, <2>2, InAll
<1>10. RunnerOK(sched', call')
  BY <1>1, <1>6 DEF RunnerOK
<1>11. QED BY <1>2, <1>6, <1>7, <1>8, <1>9, <1>10, ThreadsNext

(* The life of a thread.                                                   *)
LEMMA NobodyGone ==
    ~BeingDeleted => Gone = {} /\ \A d \in Threads : call[d] \notin Deleting
BY DEF BeingDeleted, Gone, GoneIn, Deleting

LEMMA CreateOK ==
    ASSUME SemInv, ThreadsOK, NEW t \in Threads, Create(t)
    PROVE  ThreadsOK'
<1>1. /\ Runs(t) /\ call[t] = "none" /\ sched.stat[Victim] = "FREE"
      /\ sched' = Becomes(sched, Victim, "INIT")
      /\ call' = [call EXCEPT ![Victim] = "none"]
      /\ timers' = timers /\ pc' = pc
  BY DEF Create, Calls, Does
<1>2. /\ t = sched.cur /\ sched.stat[t] = "RUNNING" /\ Urgent(sched) /\ t \in All
  BY <1>1, CallerFacts
<1>3. \A d \in All : call[d] \notin Deleting
  BY <1>1 DEF ThreadsOK, DeleterOK
<1>4. /\ call' \in CallSet /\ call'[Idle] = "none" /\ GoneIn(call') = Gone
      /\ \A d \in All : call'[d] \notin Deleting
      /\ \A d \in All : d # Victim => call'[d] = call[d]
  BY <1>1, <1>3, CallFacts, InAll
<1>5. /\ ListsOK(sched', Gone) /\ sched'.cur = sched.cur
      /\ sched'.stat = [sched.stat EXCEPT ![Victim] = "INIT"]
  <2> DEFINE s == Becomes(sched, Victim, "INIT")
  <2>1. "INIT" \in Stats \ {"READY", "RUNNING"}
    BY DEF Stats
  <2>2. ListsOK(sched, Gone) /\ Victim \in Threads
    BY InAll DEF ThreadsOK
  <2>3. sched.stat[Victim] = "READY" => Victim \in Gone
    BY <1>1
  <2>4. ListsOK(s, Gone)
    BY <2>1, <2>2, <2>3, BecomesFacts
  <2>5. sched \in SchedSet
    BY <2>2 DEF ListsOK
  <2>6. s.cur = sched.cur /\ s.stat = [sched.stat EXCEPT ![Victim] = "INIT"]
    BY <2>5 DEF Becomes, SchedSet
  <2>7. QED BY <1>1, <2>4, <2>6
<1>6. \A u \in All : sched'.stat[u] = IF u = Victim THEN "INIT" ELSE sched.stat[u]
  BY <1>5 DEF ThreadsOK, ListsOK, SchedSet
<1>7. SleepersOK(sched', Gone, pc', Timing(timers'))
  <2>1. SleepersOK(sched, Gone, pc, Timing(timers))
    BY DEF ThreadsOK
  <2>2. \A v \in Threads : sched'.stat[v] = "SUSPEND" <=> sched.stat[v] = "SUSPEND"
    BY <1>1, <1>6, InAll
  <2>3. QED BY <1>1, <2>1, <2>2 DEF SleepersOK
<1>8. DeleterOK(sched', call')
  BY <1>4 DEF DeleterOK
<1>9. RunnerOK(sched', call') /\ Urgent(sched')
  BY <1>1, <1>2, <1>5, <1>6, InAll DEF RunnerOK, Urgent
<1>10. QED BY <1>1, <1>4, <1>5, <1>7, <1>8, <1>9, ThreadsNext DEF ThreadsOK

LEMMA StartupOK ==
    ASSUME SemInv, ThreadsOK, NEW t \in Threads, NEW u \in Threads, Startup(t, u)
    PROVE  ThreadsOK'
<1>1. /\ Runs(t) /\ call[t] = "none" /\ sched.stat[u] = "INIT" /\ ~BeingDeleted
      /\ sched' = Ready(sched, u) /\ call' = [call EXCEPT ![t] = "schedule"]
      /\ timers' = timers /\ pc' = pc
  BY DEF Startup, Calls, Does
<1>2. t = sched.cur /\ sched.stat[t] = "RUNNING" /\ t \in All
  BY <1>1, CallerFacts
<1>3. Gone = {} /\ \A d \in Threads : call[d] \notin Deleting
  BY <1>1, NobodyGone
<1>4. /\ call' \in CallSet /\ call'[Idle] = "none" /\ GoneIn(call') = Gone
      /\ \A d \in All : call'[d] \in Deleting <=> call[d] \in Deleting
      /\ call'[t] = "schedule"
  BY <1>1, CallFacts DEF Deleting
<1>5. /\ ListsOK(sched', Gone) /\ sched'.cur = sched.cur
      /\ sched'.stat = [sched.stat EXCEPT ![u] = "READY"]
  <2>1. u \in All \ Gone /\ u # sched.cur
    BY <1>1, <1>2, <1>3, InAll
  <2>2. QED BY <1>1, <2>1, ReadyFacts DEF ThreadsOK
<1>6. \A v \in All : sched'.stat[v] = IF v = u THEN "READY" ELSE sched.stat[v]
  BY <1>5 DEF ThreadsOK, ListsOK, SchedSet
<1>7. SleepersOK(sched', Gone, pc', Timing(timers'))
  BY <1>1, <1>6, InAll DEF ThreadsOK, SleepersOK
<1>8. \A d \in All : call'[d] \notin Deleting
  BY <1>3, <1>4 DEF All, ThreadsOK, Deleting
<1>9. DeleterOK(sched', call')
  BY <1>8 DEF DeleterOK
<1>10. RunnerOK(sched', call')
  BY <1>1, <1>2, <1>5, <1>6 DEF RunnerOK
<1>11. QED BY <1>1, <1>2, <1>4, <1>5, <1>7, <1>9, <1>10, ThreadsNext DEF ThreadsOK

LEMMA ExitOK ==
    ASSUME SemInv, ThreadsOK, Exit
    PROVE  ThreadsOK'
<1> DEFINE s == Becomes(sched, Victim, "CLOSE")
<1>1. /\ Runs(Victim) /\ call[Victim] = "none" /\ StopTimer(Victim)
      /\ sched' = Schedule(Becomes(Unready(sched, Victim), Victim, "CLOSE"))
      /\ call' = call /\ pc' = pc
  BY DEF Exit, Calls
<1>2. /\ Victim \in All /\ Victim = sched.cur /\ sched.stat[Victim] = "RUNNING"
      /\ Victim \notin Gone /\ pc[Victim] = "idle" /\ Victim \notin Timing(timers)
  BY <1>1, CallerFacts, InAll
<1>3. sched' = Schedule(s)
  <2>1. Unready(sched, Victim) = sched
    BY <1>2, NotReady DEF ThreadsOK
  <2>2. QED BY <1>1, <2>1
<1>4. TimersOK(timers') /\ Timing(timers') = Timing(timers)
  BY <1>1, <1>2, StopFacts
<1>5. \A d \in All : call[d] \notin Deleting
  <2>1. ASSUME NEW d \in All PROVE call[d] \notin Deleting
    <3>1. CASE d \in Threads
      BY <1>2, <3>1, GoneFacts DEF Gone
    <3>2. CASE d = Idle
      BY <3>2 DEF ThreadsOK, Deleting
    <3>3. QED BY <3>1, <3>2 DEF All
  <2>2. QED BY <2>1
<1>6. /\ ListsOK(s, Gone) /\ s.stat = [sched.stat EXCEPT ![Victim] = "CLOSE"]
  <2>1. "CLOSE" \in Stats \ {"READY", "RUNNING"}
    BY DEF Stats
  <2>2. QED BY <1>2, <2>1, InAll, BecomesFacts DEF ThreadsOK
<1> HIDE DEF s
<1>7. \A v \in All : s.stat[v] = IF v = Victim THEN "CLOSE" ELSE sched.stat[v]
  BY <1>6 DEF ThreadsOK, ListsOK, SchedSet
<1>8. SleepersOK(s, Gone, pc', Timing(timers'))
  BY <1>1, <1>2, <1>4, <1>7, InAll DEF ThreadsOK, SleepersOK
<1>9. DeleterOK(s, call')
  BY <1>1, <1>5 DEF DeleterOK
<1>10. QED BY <1>1, <1>3, <1>4, <1>6, <1>8, <1>9, SwitchStep DEF ThreadsOK, Gone

LEMMA NamesOfTimers == T!Armed(timers) = Timing(timers)
BY DEF T!Armed, Timing, Elements

(* The steps of a deletion change what is left of the deleter's call.      *)
LEMMA DeletionCall ==
    ASSUME ThreadsOK, NEW t \in Threads, NEW rest \in {"none", "detach", "close"},
           call' = [call EXCEPT ![t] = rest]
    PROVE  /\ call' \in CallSet /\ call'[Idle] = "none"
           /\ \A d \in All : call'[d] = IF d = t THEN rest ELSE call[d]
           /\ rest # "none" => GoneIn(call') = {Victim}
<1>1. call \in CallSet /\ call[Idle] = "none" /\ t \in All /\ t # Idle
  BY InAll DEF ThreadsOK
<1>2. \A d \in All : call'[d] = IF d = t THEN rest ELSE call[d]
  BY <1>1 DEF CallSet
<1>3. call' \in CallSet
  BY <1>1 DEF CallSet, Deleting
<1>4. rest # "none" => GoneIn(call') = {Victim}
  BY <1>1, <1>2 DEF GoneIn, Deleting
<1>5. QED BY <1>1, <1>2, <1>3, <1>4, InAll

LEMMA DeleteOK ==
    ASSUME SemInv, ThreadsOK, ~TimedDelete, NEW t \in Threads, Delete(t)
    PROVE  ThreadsOK'
<1>1. /\ Runs(t) /\ call[t] = "none" /\ ~BeingDeleted /\ t # Victim
      /\ sched.stat[Victim] \notin {"FREE", "CLOSE"}
      /\ Victim \notin Timing(timers)
      /\ sched' = Unready(sched, Victim) /\ timers' = timers
      /\ call' = [call EXCEPT ![t] = "detach"]
  BY NamesOfTimers, ThreadAssumption DEF Delete, Calls, Does
<1>2. /\ t \in All /\ t = sched.cur /\ sched.stat[t] = "RUNNING" /\ Urgent(sched)
  BY <1>1, CallerFacts
<1>3. Gone = {} /\ \A d \in Threads : call[d] \notin Deleting
  BY <1>1, NobodyGone
<1>4. /\ call' \in CallSet /\ call'[Idle] = "none" /\ GoneIn(call') = {Victim}
      /\ \A d \in All : call'[d] = IF d = t THEN "detach" ELSE call[d]
  BY <1>1, DeletionCall
<1>5. /\ ListsOK(sched', {Victim}) /\ sched'.cur = sched.cur /\ sched'.stat = sched.stat
  <2>1. ListsOK(sched, {}) /\ Victim # sched.cur
    BY <1>1, <1>2, <1>3 DEF ThreadsOK
  <2>2. QED BY <1>1, <2>1, DepartFacts
<1>6. \A v \in Threads : pc'[v] = IF v = Victim THEN "idle" ELSE pc[v]
  <2>1. pc \in [Threads -> {"idle", "timed", "forever"}]
    BY SemTyped DEF SemInv
  <2>2. CASE pc[Victim] # "idle"
    BY <2>1, <2>2 DEF Delete, Drop
  <2>3. CASE pc[Victim] = "idle"
    BY <2>1, <2>3 DEF Delete
  <2>4. QED BY <2>2, <2>3
<1>7. SleepersOK(sched', {Victim}, pc', Timing(timers'))
  <2>1. SleepersOK(sched, {}, pc, Timing(timers))
    BY <1>3 DEF ThreadsOK
  <2>2. QED BY <1>1, <1>5, <1>6, <2>1, InAll DEF SleepersOK
<1>8. DeleterOK(sched', call')
  <2>1. ASSUME NEW d \in All, call'[d] \in Deleting PROVE d = t
    BY <1>3, <1>4, <2>1 DEF ThreadsOK, All, Deleting
  <2>2. sched.stat[Victim] \in {"INIT", "READY", "SUSPEND"}
    <3>1. sched.stat[Victim] \in Stats
      BY InAll DEF ThreadsOK, ListsOK, SchedSet
    <3>2. sched.stat[Victim] # "RUNNING"
      BY <1>1, <1>2, InAll DEF ThreadsOK, ListsOK
    <3>3. QED BY <1>1, <3>1, <3>2 DEF Stats
  <2>3. sched.stat[Victim] = "READY" => Prio[t] <= Prio[Victim]
    BY <1>2, InAll DEF Urgent
  <2>4. QED BY <1>1, <1>2, <1>5, <2>1, <2>2, <2>3 DEF DeleterOK
<1>9. RunnerOK(sched', call') /\ Urgent(sched')
  BY <1>2, <1>5 DEF RunnerOK, Urgent
<1>10. QED BY <1>1, <1>4, <1>5, <1>7, <1>8, <1>9, ThreadsNext DEF ThreadsOK

LEMMA DeleteTimerOK ==
    ASSUME ThreadsOK, NEW t \in Threads, DeleteTimer(t)
    PROVE  ThreadsOK'
<1>1. /\ Runs(t) /\ call[t] = "detach" /\ StopTimer(Victim)
      /\ call' = [call EXCEPT ![t] = "close"] /\ sched' = sched /\ pc' = pc
  BY DEF DeleteTimer, Does
<1>2. Gone = {Victim} /\ call[t] \in Deleting /\ t \in All
  BY <1>1, GoneFacts, InAll DEF Gone, Deleting
<1>3. Victim \notin Timing(timers)
  BY <1>2 DEF ThreadsOK, SleepersOK
<1>4. TimersOK(timers') /\ Timing(timers') = Timing(timers)
  BY <1>1, <1>3, StopFacts
<1>5. /\ call' \in CallSet /\ call'[Idle] = "none" /\ GoneIn(call') = Gone
      /\ \A d \in All : call'[d] = IF d = t THEN "close" ELSE call[d]
  BY <1>1, <1>2, DeletionCall
<1>6. \A d \in All : call'[d] \in Deleting <=> call[d] \in Deleting
  BY <1>2, <1>5 DEF Deleting
<1>7. DeleterOK(sched', call')
  BY <1>1, <1>6 DEF ThreadsOK, DeleterOK
<1>8. \A d \in All : call'[d] = "schedule" <=> call[d] = "schedule"
  BY <1>1, <1>5
<1>9. sched.cur \in All
  BY DEF ThreadsOK, ListsOK, SchedSet
<1>10. RunnerOK(sched', call') /\ (call'[sched'.cur] # "schedule" => Urgent(sched'))
  BY <1>1, <1>8, <1>9 DEF ThreadsOK, RunnerOK
<1>11. QED BY <1>1, <1>4, <1>5, <1>7, <1>10, ThreadsNext DEF ThreadsOK

LEMMA DeleteCloseOK ==
    ASSUME ThreadsOK, NEW t \in Threads, DeleteClose(t)
    PROVE  ThreadsOK'
<1>1. /\ Runs(t) /\ call[t] = "close"
      /\ sched' = Becomes(sched, Victim, "CLOSE")
      /\ call' = [call EXCEPT ![t] = "none"] /\ timers' = timers /\ pc' = pc
  BY DEF DeleteClose, Does
<1>2. Gone = {Victim} /\ call[t] \in Deleting /\ t \in All /\ t = sched.cur
  BY <1>1, GoneFacts, InAll DEF Gone, Deleting, Runs
<1>3. t # Victim /\ \A d \in All : call[d] \in Deleting => d = t
  BY <1>2 DEF ThreadsOK, DeleterOK
<1>4. /\ call' \in CallSet /\ call'[Idle] = "none"
      /\ \A d \in All : call'[d] = IF d = t THEN "none" ELSE call[d]
  BY <1>1, DeletionCall
<1>5. \A d \in All : call'[d] \notin Deleting
  BY <1>3, <1>4 DEF Deleting
<1>6. GoneIn(call') = {}
  BY <1>5, GoneFacts, InAll
<1>7. ListsOK(sched', {})
  <2>1. "CLOSE" \in Stats \ {"READY", "RUNNING"}
    BY DEF Stats
  <2>2. ListsOK(sched, Gone) /\ Victim \in Threads
    BY InAll DEF ThreadsOK
  <2>3. sched.stat[Victim] = "READY" => Victim \in Gone
    BY <1>2
  <2>4. ListsOK(Becomes(sched, Victim, "CLOSE"), Gone \ {Victim})
    BY <2>1, <2>2, <2>3, BecomesFacts
  <2>5. Gone \ {Victim} = {}
    BY <1>2
  <2>6. QED BY <1>1, <2>4, <2>5
<1>8. sched \in SchedSet
  BY DEF ThreadsOK, ListsOK
<1>9. /\ sched'.cur = sched.cur
      /\ sched'.stat = [sched.stat EXCEPT ![Victim] = "CLOSE"]
  BY <1>1, <1>8 DEF Becomes, SchedSet
<1>10. \A v \in All : sched'.stat[v] = IF v = Victim THEN "CLOSE" ELSE sched.stat[v]
  BY <1>8, <1>9 DEF SchedSet
<1>11. SleepersOK(sched', {}, pc', Timing(timers'))
  <2>1. SleepersOK(sched, {Victim}, pc, Timing(timers))
    BY <1>2 DEF ThreadsOK
  <2>2. QED BY <1>1, <1>10, <2>1, InAll DEF SleepersOK
<1>12. DeleterOK(sched', call')
  BY <1>5 DEF DeleterOK
<1>13. sched.stat[t] = "RUNNING" /\ Urgent(sched)
  BY <1>1, <1>2 DEF ThreadsOK, RunnerOK
<1>14. RunnerOK(sched', call') /\ Urgent(sched')
  BY <1>2, <1>3, <1>9, <1>10, <1>13, InAll DEF RunnerOK, Urgent
<1>15. QED BY <1>1, <1>4, <1>6, <1>7, <1>11, <1>12, <1>14, ThreadsNext DEF ThreadsOK

LEMMA IdleFreeOK ==
    ASSUME ThreadsOK, IdleFree
    PROVE  ThreadsOK'
<1>1. /\ sched.cur = Idle /\ sched.stat[Victim] = "CLOSE"
      /\ sched' = [sched EXCEPT !.stat[Victim] = "FREE"]
      /\ call' = call /\ timers' = timers /\ pc' = pc
  BY DEF IdleFree, Runs
<1>2. \A d \in All : call[d] \notin Deleting
  BY <1>1 DEF ThreadsOK, DeleterOK
<1>3. ListsOK(sched, Gone) /\ sched \in SchedSet /\ Victim \in All
  BY InAll DEF ThreadsOK, ListsOK
<1>4. /\ sched' \in SchedSet /\ sched'.cur = sched.cur /\ sched'.ready = sched.ready
      /\ sched'.stat = [sched.stat EXCEPT ![Victim] = "FREE"]
  BY <1>1, <1>3 DEF SchedSet, Stats
<1>5. \A v \in All : sched'.stat[v] = IF v = Victim THEN "FREE" ELSE sched.stat[v]
  BY <1>3, <1>4 DEF SchedSet
<1>6. ListsOK(sched', Gone)
  <2>1. \A v \in All : sched'.stat[v] = sched.stat[v] \/ {sched'.stat[v], sched.stat[v]} \cap {"READY", "RUNNING"} = {}
    BY <1>1, <1>5
  <2>2. sched.cur \in All /\ Idle \in All
    BY <1>3 DEF SchedSet, All
  <2> HIDE <1>1
  <2>3. /\ \A v \in All : sched'.stat[v] = "READY" <=> sched.stat[v] = "READY"
        /\ \A v \in All : sched'.stat[v] = "RUNNING" <=> sched.stat[v] = "RUNNING"
    BY <2>1
  <2>4. QED BY <1>3, <1>4, <2>2, <2>3 DEF ListsOK
<1>7. SleepersOK(sched', Gone, pc', Timing(timers'))
  <2>1. SleepersOK(sched, Gone, pc, Timing(timers))
    BY DEF ThreadsOK
  <2>2. \A v \in Threads : sched'.stat[v] = "SUSPEND" <=> sched.stat[v] = "SUSPEND"
    BY <1>1, <1>5, InAll
  <2>3. QED BY <1>1, <2>1, <2>2 DEF SleepersOK
<1>8. DeleterOK(sched', call')
  BY <1>1, <1>2 DEF DeleterOK
<1>9. RunnerOK(sched', call') /\ (call'[sched'.cur] # "schedule" => Urgent(sched'))
  <2>1. call[sched.cur] # "schedule" /\ Urgent(sched) /\ sched.stat[Idle] = "RUNNING"
    BY <1>1 DEF ThreadsOK, RunnerOK
  <2>2. QED BY <1>1, <1>4, <1>5, <2>1, InAll DEF RunnerOK, Urgent
<1>10. QED BY <1>1, <1>6, <1>7, <1>8, <1>9, ThreadsNext DEF ThreadsOK, Gone

(* The tick interrupt.                                                     *)
LEMMA TickOK ==
    ASSUME ThreadsOK, Tick
    PROVE  ThreadsOK'
<1> DEFINE c == sched.cur
           s == [sched EXCEPT !.yield = @ \cup {c}]
<1>1. call' = call /\ timers' = timers /\ pc' = pc
  BY DEF Tick
<1>2. CASE slice[c] # 1
  <2>1. sched' = sched
    BY <1>2 DEF Tick
  <2>2. QED BY <1>1, <2>1 DEF ThreadsOK, Gone
<1>3. CASE slice[c] = 1
  <2>1. sched' = Schedule(s)
    BY <1>3 DEF Tick
  <2>2. sched \in SchedSet /\ c \in All
    BY DEF ThreadsOK, ListsOK, SchedSet
  <2>3. /\ s \in SchedSet /\ s.cur = sched.cur /\ s.stat = sched.stat
        /\ s.ready = sched.ready
    BY <2>2 DEF SchedSet
  <2> HIDE DEF s
  <2>4. ListsOK(s, Gone)
    BY <2>3 DEF ThreadsOK, ListsOK
  <2>5. DeleterOK(s, call)
    BY <2>3 DEF ThreadsOK, DeleterOK
  <2>6. SleepersOK(s, Gone, pc, Timing(timers))
    BY <2>3 DEF ThreadsOK, SleepersOK
  <2>7. QED BY <1>1, <2>1, <2>4, <2>5, <2>6, SwitchStep DEF ThreadsOK, Gone
<1>4. QED BY <1>2, <1>3

LEMMA ExpireOK ==
    ASSUME SemInv, ThreadsOK, Expire
    PROVE  ThreadsOK'
<1> DEFINE u == Head(timers).timer
<1>1. /\ timers # <<>> /\ timers' = Tail(timers) /\ call' = call
      /\ sched' = Schedule(Ready(sched, u))
  BY DEF Expire, T!Expired
<1>2. /\ u \in Threads /\ u \in Timing(timers)
      /\ TimersOK(timers') /\ Timing(timers') = Timing(timers) \ {u}
  BY <1>1, FirstTimer DEF ThreadsOK
<1>3. SleepersOK(sched, Gone, pc, Timing(timers))
  BY DEF ThreadsOK
<1>4. u \notin Gone /\ sched.stat[u] = "SUSPEND" /\ pc[u] \in {"idle", "timed"}
  <2>1. pc \in [Threads -> {"idle", "timed", "forever"}]
    BY SemTyped DEF SemInv
  <2>2. QED BY <1>2, <1>3, <2>1 DEF SleepersOK
<1>5. \A v \in Threads : pc'[v] = IF v = u THEN "idle" ELSE pc[v]
  <2>1. pc \in [Threads -> {"idle", "timed", "forever"}]
    BY SemTyped DEF SemInv
  <2>2. CASE pc[u] = "timed"
    <3>1. pc' = [pc EXCEPT ![u] = "idle"]
      BY <2>2 DEF Expire, Timeout
    <3>2. QED BY <2>1, <3>1
  <2>3. CASE pc[u] = "idle"
    <3>1. pc' = pc
      BY <2>3 DEF Expire
    <3>2. QED BY <2>3, <3>1
  <2>4. QED BY <1>4, <2>2, <2>3
<1> HIDE DEF u
<1>6. /\ ListsOK(Ready(sched, u), Gone) /\ DeleterOK(Ready(sched, u), call)
      /\ SleepersOK(Ready(sched, u), Gone, pc', Timing(timers'))
  BY <1>2, <1>4, <1>5, WakeFacts
<1>7. QED BY <1>1, <1>2, <1>6, SwitchStep DEF ThreadsOK, Gone

LEMMA TickReturnOK ==
    ASSUME ThreadsOK, TickReturn
    PROVE  ThreadsOK'
BY DEF TickReturn, ThreadsOK, Gone

-----------------------------------------------------------------------------
(* Slices, the tick and the interrupt.                                     *)
LEMMA TickClock ==
    ASSUME ThreadsOK, ClockOK, Tick
    PROVE  ClockOK'
<1> DEFINE c == sched.cur
<1>1. c \in All /\ slice[c] \in 1..Slice[c] /\ Slice[c] \in Nat \ {0}
  BY InAll DEF ThreadsOK, ListsOK, SchedSet, ClockOK
<1>2. tick' \in 0..TickMod-1 /\ isr' = "tick"
  <2>1. tick + 1 \in Int
    BY InAll DEF ClockOK
  <2>2. QED BY <2>1, InRange DEF Tick
<1>3. slice' = [slice EXCEPT ![c] = IF slice[c] = 1 THEN Slice[c] ELSE slice[c] - 1]
  BY DEF Tick
<1>4. slice \in [All -> Nat] /\ \A t \in All : slice[t] \in 1..Slice[t]
  BY DEF ClockOK
<1> HIDE DEF c
<1>5. \A t \in All : slice'[t] \in 1..Slice[t]
  <2>1. ASSUME NEW t \in All PROVE slice'[t] \in 1..Slice[t]
    <3>1. CASE t = c
      BY <1>1, <1>3, <1>4, <3>1
    <3>2. CASE t # c
      BY <1>3, <1>4, <3>2
    <3>3. QED BY <3>1, <3>2
  <2>2. QED BY <2>1
<1>6. slice' \in [All -> Nat]
  BY <1>1, <1>3, <1>4
<1>7. QED BY <1>2, <1>5, <1>6, ClockNext

LEMMA CreateClock ==
    ASSUME ClockOK, NEW t \in Threads, Create(t)
    PROVE  ClockOK'
<1>1. /\ slice' = [slice EXCEPT ![Victim] = Slice[Victim]]
      /\ tick' = tick /\ isr' = isr
  BY DEF Create
<1>2. ASSUME NEW u \in All PROVE slice'[u] \in 1..Slice[u]
  <2>1. slice[u] \in 1..Slice[u] /\ Slice[u] \in Nat \ {0} /\ slice \in [All -> Nat]
    BY InAll DEF ClockOK
  <2>2. slice'[u] = IF u = Victim THEN Slice[u] ELSE slice[u]
    BY <1>1, <2>1, InAll
  <2>3. QED BY <2>1, <2>2
<1>3. slice' \in [All -> Nat]
  BY <1>1, InAll DEF ClockOK
<1>4. QED BY <1>1, <1>2, <1>3, ClockNext DEF ClockOK

LEMMA SameClock ==
    ASSUME ClockOK, slice' = slice, tick' = tick, isr' \in {isr, "none", "check"}
    PROVE  ClockOK'
BY ClockNext DEF ClockOK

-----------------------------------------------------------------------------
(* Every step of a thread, an interrupt or the tick is a step of the       *)
(* semaphore or leaves it alone.                                           *)
LEMMA SemaphoreStep ==
    ASSUME ThreadsOK, [ThreadNext]_allVars
    PROVE  [Next]_vars
<1>1. ASSUME NEW t \in Threads, ThreadStep(t), UNCHANGED flag
      PROVE  [Next]_vars
  <2>1. CASE TakeCall(t)
    BY <1>1, <2>1 DEF TakeCall, Next
  <2>2. CASE ReleaseCall(t)
    BY <1>1, <2>2 DEF ReleaseCall, Resume, Next
  <2>3. CASE ResetCall(t)
    BY <1>1, <2>3 DEF ResetCall, Next
  <2>4. CASE ScheduleCall(t) \/ Sleep(t) \/ Yield(t) \/ Create(t)
    BY <1>1, <2>4 DEF ScheduleCall, Sleep, Yield, Create, vars
  <2>5. CASE (\E u \in Threads : Startup(t, u)) \/ DeleteTimer(t) \/ DeleteClose(t)
    BY <1>1, <2>5 DEF Startup, DeleteTimer, DeleteClose, vars
  <2>6. CASE Delete(t)
    BY <1>1, <2>6, InAll DEF Delete, Next, vars
  <2>7. QED BY <1>1, <2>1, <2>2, <2>3, <2>4, <2>5, <2>6 DEF ThreadStep
<1>2. ASSUME Exit \/ IdleFree \/ Tick \/ TickReturn, UNCHANGED flag
      PROVE  [Next]_vars
  BY <1>2 DEF Exit, IdleFree, Tick, TickReturn, vars
<1>3. ASSUME ReleaseIsr, UNCHANGED flag
      PROVE  [Next]_vars
  BY <1>3 DEF ReleaseIsr, Resume, Next
<1>4. ASSUME Expire, UNCHANGED flag
      PROVE  [Next]_vars
  <2>1. Head(timers).timer \in Threads
    BY <1>4, FirstTimer DEF ThreadsOK, Expire, T!Expired
  <2>2. QED BY <1>4, <2>1 DEF Expire, Next, vars
<1>5. CASE UNCHANGED allVars
  BY <1>5 DEF allVars
<1>6. QED BY <1>1, <1>2, <1>3, <1>4, <1>5 DEF ThreadNext

LEMMA ThreadStepInv ==
    ASSUME ThreadInv, ~TimedDelete, NEW t \in Threads, ThreadStep(t)
    PROVE  ThreadsOK' /\ ClockOK'
<1> USE DEF ThreadInv
<1>1. CASE TakeCall(t)
  BY <1>1, TakeCallOK, SameClock DEF TakeCall, clock
<1>2. CASE ReleaseCall(t)
  BY <1>2, ReleaseCallOK, SameClock DEF ReleaseCall, clock
<1>3. CASE ResetCall(t)
  BY <1>3, ResetCallOK, SameClock DEF ResetCall, clock
<1>4. CASE ScheduleCall(t)
  BY <1>4, ScheduleCallOK, SameClock DEF ScheduleCall, clock
<1>5. CASE Sleep(t)
  BY <1>5, SleepOK, SameClock DEF Sleep, clock
<1>6. CASE Yield(t)
  BY <1>6, YieldOK, SameClock DEF Yield, clock
<1>7. CASE Create(t)
  BY <1>7, CreateOK, CreateClock
<1>8. CASE \E u \in Threads : Startup(t, u)
  BY <1>8, StartupOK, SameClock DEF Startup, clock
<1>9. CASE Delete(t)
  BY <1>9, DeleteOK, SameClock DEF Delete, clock
<1>10. CASE DeleteTimer(t)
  BY <1>10, DeleteTimerOK, SameClock DEF DeleteTimer, clock
<1>11. CASE DeleteClose(t)
  BY <1>11, DeleteCloseOK, SameClock DEF DeleteClose, clock
<1>12. QED BY <1>1, <1>2, <1>3, <1>4, <1>5, <1>6, <1>7, <1>8, <1>9, <1>10, <1>11
           DEF ThreadStep

LEMMA ThreadNextInv ==
    ASSUME ThreadInv, ~TimedDelete, [ThreadNext]_allVars
    PROVE  ThreadInv'
<1>1. SemInv'
  BY SemaphoreStep, SemStep DEF ThreadInv
<1>2. ThreadsOK' /\ ClockOK'
  <2> USE DEF ThreadInv
  <2>1. ASSUME NEW t \in Threads, ThreadStep(t) PROVE ThreadsOK' /\ ClockOK'
    BY <2>1, ThreadStepInv
  <2>2. CASE Exit
    BY <2>2, ExitOK, SameClock DEF Exit, clock
  <2>3. CASE IdleFree
    BY <2>3, IdleFreeOK, SameClock DEF IdleFree, clock
  <2>4. CASE ReleaseIsr
    BY <2>4, ReleaseIsrOK, SameClock DEF ReleaseIsr, clock
  <2>5. CASE Tick
    BY <2>5, TickOK, TickClock
  <2>6. CASE Expire
    BY <2>6, ExpireOK, SameClock DEF Expire
  <2>7. CASE TickReturn
    BY <2>7, TickReturnOK, SameClock DEF TickReturn
  <2>8. CASE UNCHANGED allVars
    BY <2>8 DEF allVars, vars, threadVars, ThreadsOK, ClockOK, Gone
  <2>9. QED BY <2>1, <2>2, <2>3, <2>4, <2>5, <2>6, <2>7, <2>8 DEF ThreadNext
<1>3. QED BY <1>1, <1>2 DEF ThreadInv

LEMMA TimingTyped ==
    ASSUME NEW ts, TimersOK(ts)
    PROVE  Timing(ts) \subseteq Threads
<1>1. ts \in Seq(TimerSet)
  BY DEF TimersOK
<1>2. ASSUME NEW i \in 1..Len(ts) PROVE ts[i].timer \in Threads
  <2>1. ts[i] \in TimerSet
    BY <1>1
  <2>2. QED BY <2>1 DEF TimerSet
<1>3. QED BY <1>2 DEF Timing, Elements

LEMMA ThreadInvTyped == ThreadInv => ThreadTypeOK
<1> SUFFICES ASSUME ThreadInv PROVE ThreadTypeOK
  OBVIOUS
<1>1. sched \in SchedSet /\ DOMAIN sched.ready = Levels
  BY DEF ThreadInv, ThreadsOK, ListsOK, SchedSet
<1>2. ASSUME NEW p \in Levels PROVE L!Listed(sched.ready[p]) \subseteq All
  <2>1. sched.ready[p] \in Seq(All)
    BY <1>1 DEF SchedSet
  <2>2. QED BY <2>1 DEF L!Listed
<1>3. T!Armed(timers) \subseteq Threads
  BY TimingTyped, NamesOfTimers DEF ThreadInv, ThreadsOK
<1>4. QED
  BY <1>1, <1>2, <1>3
     DEF ThreadInv, SemInv, ThreadsOK, ClockOK, ThreadTypeOK, SchedSet, CallSet, Deleting

LEMMA ThreadInvLists == ThreadInv => OneListEach
<1> SUFFICES ASSUME ThreadInv, NEW t \in All, ~(t = Victim /\ BeingDeleted)
             PROVE  /\ \A p \in DOMAIN sched.ready :
                          /\ t \in L!Listed(sched.ready[p]) <=>
                                 sched.stat[t] = "READY" /\ p = Prio[t]
                          /\ Once(sched.ready[p], t)
                    /\ Once([i \in DOMAIN timers |-> timers[i].timer], t)
                    /\ sched.stat[t] = "RUNNING" => t = sched.cur
                    /\ t \in L!Listed(waiters) \cup T!Armed(timers) =>
                           sched.stat[t] = "SUSPEND"
                    /\ sched.stat[t] = "SUSPEND" =>
                           t \in L!Listed(waiters) \cup T!Armed(timers)
                    /\ t \in Threads /\ pc[t] = "timed" => t \in T!Armed(timers)
  BY DEF OneListEach
<1>1. /\ ListsOK(sched, Gone) /\ TimersOK(timers)
      /\ SleepersOK(sched, Gone, pc, Timing(timers))
  BY DEF ThreadInv, ThreadsOK
<1>2. t \notin Gone
  BY DEF Gone, GoneIn, BeingDeleted, Deleting
<1>3. DOMAIN sched.ready = Levels
  BY <1>1 DEF ListsOK, SchedSet
<1>4. ASSUME NEW p \in Levels
      PROVE  /\ t \in L!Listed(sched.ready[p]) <=>
                    sched.stat[t] = "READY" /\ p = Prio[t]
             /\ Once(sched.ready[p], t)
  <2>1. L!Listed(sched.ready[p]) = Elements(sched.ready[p])
    BY DEF L!Listed, Elements
  <2>2. IsInjective(sched.ready[p])
    BY <1>1 DEF ListsOK
  <2>3. Once(sched.ready[p], t)
    BY <2>2 DEF Once, IsInjective
  <2>4. QED BY <1>1, <1>2, <2>1, <2>3 DEF ListsOK
<1>5. Once([i \in DOMAIN timers |-> timers[i].timer], t)
  <2>1. timers \in Seq(TimerSet) /\ DOMAIN timers = 1..Len(timers)
    BY <1>1 DEF TimersOK
  <2> SUFFICES ASSUME NEW i \in DOMAIN timers, NEW j \in DOMAIN timers,
                      timers[i].timer = timers[j].timer
               PROVE  i = j
    BY DEF Once
  <2>2. timers[i] \in Elements(timers) /\ timers[j] \in Elements(timers)
    BY <2>1 DEF Elements
  <2>3. timers[i] = timers[j]
    BY <1>1, <2>2 DEF TimersOK
  <2>4. QED BY <1>1, <2>3 DEF TimersOK, IsInjective
<1>6. /\ L!Listed(waiters) = {u \in Threads : pc[u] # "idle"}
      /\ T!Armed(timers) = Timing(timers) /\ Timing(timers) \subseteq Threads
  <2>1. Timing(timers) \subseteq Threads
    BY <1>1, TimingTyped
  <2>2. QED BY <2>1, NamesOfTimers DEF ThreadInv, SemInv, TypeOK
<1>7. sched.stat[t] = "SUSPEND" => t \in Threads
  BY <1>1 DEF ListsOK, All
<1>8. sched.stat[t] = "RUNNING" => t = sched.cur
  BY <1>1 DEF ListsOK
<1>9. t \in Threads =>
         /\ sched.stat[t] = "SUSPEND" <=> pc[t] # "idle" \/ t \in Timing(timers)
         /\ pc[t] = "timed" => t \in Timing(timers)
  BY <1>1, <1>2 DEF SleepersOK
<1>10. QED BY <1>3, <1>4, <1>5, <1>6, <1>7, <1>8, <1>9

LEMMA ThreadInvUrgent == ThreadInv => MostUrgentRuns
BY DEF ThreadInv, ThreadsOK, Urgent, MostUrgentRuns

(* As long as rt_thread_delete is not called on a thread whose timer runs: *)
(* whatever threads, priorities, slices and width of the tick counter,     *)
(* every thread is on the list of its status and on no other, once, and    *)
(* outside interrupts a thread that is in no call is as urgent as any that *)
(* is ready.                                                               *)
THEOREM ThreadCorrect ==
    ~TimedDelete => (ThreadSpec => [](ThreadTypeOK /\ OneListEach /\ MostUrgentRuns))
<1> SUFFICES ASSUME ~TimedDelete
             PROVE  ThreadSpec => [](ThreadTypeOK /\ OneListEach /\ MostUrgentRuns)
  OBVIOUS
<1>1. ThreadInit => ThreadInv
  BY ThreadInitInv
<1>2. ThreadInv /\ [ThreadNext]_allVars => ThreadInv'
  BY ThreadNextInv
<1>3. ThreadInv => ThreadTypeOK /\ OneListEach /\ MostUrgentRuns
  BY ThreadInvTyped, ThreadInvLists, ThreadInvUrgent
<1>4. QED BY <1>1, <1>2, <1>3, PTL DEF ThreadSpec

(* The parts of it: the kernel's records keep their types, whatever is     *)
(* suspended, resumed, created and freed; ...                              *)
THEOREM ThreadTyped == ~TimedDelete => (ThreadSpec => []ThreadTypeOK)
<1> SUFFICES ASSUME ~TimedDelete PROVE ThreadSpec => []ThreadTypeOK
  OBVIOUS
<1>1. ThreadSpec => [](ThreadTypeOK /\ OneListEach /\ MostUrgentRuns)
  BY ThreadCorrect
<1>2. QED BY <1>1, PTL

(* ... and rt_schedule, which every call and interrupt that resumes a      *)
(* thread ends in, gives the processor to a most urgent thread.            *)
THEOREM ProcessorToMostUrgent == ~TimedDelete => (ThreadSpec => []MostUrgentRuns)
<1> SUFFICES ASSUME ~TimedDelete PROVE ThreadSpec => []MostUrgentRuns
  OBVIOUS
<1>1. ThreadSpec => [](ThreadTypeOK /\ OneListEach /\ MostUrgentRuns)
  BY ThreadCorrect
<1>2. QED BY <1>1, PTL

(* The scheduler, the tick and the threads' lives implement the semaphore  *)
(* as RtSem has it: all that is proved of RtSem holds of threads that wait *)
(* in rt_sem_take, time out, are deleted and told of resets.               *)
THEOREM ThreadImplementsSem == ~TimedDelete => (ThreadSpec => Spec)
<1> SUFFICES ASSUME ~TimedDelete PROVE ThreadSpec => Spec
  OBVIOUS
<1>1. ThreadInit => ThreadInv /\ Init
  BY ThreadInitInv DEF ThreadInit
<1>2. ThreadInv /\ [ThreadNext]_allVars => ThreadInv'
  BY ThreadNextInv
<1>3. ThreadInv /\ [ThreadNext]_allVars => [Next]_vars
  BY SemaphoreStep DEF ThreadInv
<1>4. QED BY <1>1, <1>2, <1>3, PTL DEF ThreadSpec, Spec

-----------------------------------------------------------------------------
(* A wait ends in time.                                                    *)
TimesInv == TimesOK(timers, tick, left, isr)

LEMMA TimesNext == TimesInv' <=> TimesOK(timers', tick', left', isr')
BY DEF TimesInv

LEMMA TimesStart ==
    ASSUME ThreadsOK, ClockOK, TimesInv, isr = "none", NEW t \in Threads,
           NEW n \in 0..T!Half-1, StartTimer(t, n), tick' = tick, isr' = isr
    PROVE  TimesInv'
<1> DEFINE ts == T!Disarm(timers, t)
           at == (tick + n) % TickMod
           e  == [timer |-> t, at |-> at]
<1>1. tick \in 0..TickMod-1 /\ TimersOK(timers)
  BY DEF ClockOK, ThreadsOK
<1>2. at \in 0..TickMod-1
  <2>1. tick + n \in Int
    BY <1>1, HalfFacts, InAll
  <2>2. QED BY <2>1, InRange
<1>3. timers' = T!Arm(ts, t, at) /\ left' = [left EXCEPT ![t] = IF n = 0 THEN 1 ELSE n]
  BY DEF StartTimer
<1>4. e \in TimerSet /\ Due(e, tick) = n /\ e.timer = t
  <2>1. e \in TimerSet /\ e.at = at /\ e.timer = t
    BY <1>2 DEF TimerSet
  <2> HIDE DEF e
  <2>2. QED BY <1>1, <2>1, DueFacts
<1>5. TimersOK(ts) /\ Timing(ts) = Timing(timers) \ {t}
  BY <1>1, DisarmFacts
<1>6. InOrder(ts, tick) /\ Elements(ts) \subseteq Elements(timers)
  BY <1>1, DisarmOrder DEF TimesInv, TimesOK
<1>7. \A x \in Elements(timers) :
         Due(x, tick) \in 0..T!Half-1 /\ left[x.timer] = Remains(x, tick, "none")
  BY DEF TimesInv, TimesOK, Earliest
<1> HIDE DEF ts, at
<1>8. /\ InOrder(timers', tick) /\ Elements(timers') = Elements(ts) \cup {e}
  BY <1>1, <1>2, <1>3, <1>4, <1>5, <1>6, <1>7, ArmOrder
<1> HIDE DEF e
<1>9. Timing(timers') = Timing(timers) \cup {t}
  BY <1>4, <1>5, <1>8 DEF Timing
<1>10. \A u \in All : left'[u] = IF u # t THEN left[u] ELSE IF n = 0 THEN 1 ELSE n
  BY <1>3, InAll DEF TimesInv, TimesOK
<1>11. ASSUME NEW x \in Elements(timers')
       PROVE  Due(x, tick) \in 0..T!Half-1 /\ left'[x.timer] = Remains(x, tick, "none")
  <2>1. CASE x = e
    BY <1>4, <1>10, <2>1, InAll DEF Remains
  <2>2. CASE x \in Elements(ts)
    <3>1. x.timer \in Timing(timers) \ {t}
      BY <1>5, <2>2 DEF Timing
    <3>2. x.timer \in All /\ x.timer # t
      BY <1>1, <3>1, TimingTyped, InAll
    <3>3. QED BY <1>6, <1>7, <1>10, <2>2, <3>2
  <2>3. QED BY <1>8, <2>1, <2>2
<1>12. left' \in [All -> Nat] /\ \A u \in All \ Timing(timers') : left'[u] = 0
  <2>1. n \in Nat /\ 1 \in Nat
    BY HalfFacts
  <2>2. QED BY <1>3, <1>9, <1>10, <2>1, InAll DEF TimesInv, TimesOK
<1>13. QED BY <1>8, <1>11, <1>12, TimesNext DEF TimesOK, Earliest

LEMMA TimesStop ==
    ASSUME ThreadsOK, ClockOK, TimesInv, NEW t \in Threads, StopTimer(t),
           tick' = tick, isr' = isr
    PROVE  TimesInv'
<1>1. tick \in 0..TickMod-1 /\ TimersOK(timers) /\ InOrder(timers, tick)
  BY DEF ClockOK, ThreadsOK, TimesInv, TimesOK
<1>2. timers' = T!Disarm(timers, t) /\ left' = [left EXCEPT ![t] = 0]
  BY DEF StopTimer
<1>3. TimersOK(timers') /\ Timing(timers') = Timing(timers) \ {t}
  BY <1>1, <1>2, DisarmFacts
<1>4. InOrder(timers', tick) /\ Elements(timers') \subseteq Elements(timers)
  BY <1>1, <1>2, DisarmOrder
<1>5. \A u \in All : left'[u] = IF u = t THEN 0 ELSE left[u]
  BY <1>2, InAll DEF TimesInv, TimesOK
<1>6. ASSUME NEW x \in Elements(timers')
      PROVE  /\ Due(x, tick) \in Earliest(isr)..T!Half-1
             /\ left'[x.timer] = Remains(x, tick, isr)
  <2>1. x.timer \in Timing(timers) \ {t}
    BY <1>3 DEF Timing
  <2>2. x.timer \in All /\ x.timer # t
    BY <1>1, <2>1, TimingTyped, InAll
  <2>3. QED BY <1>4, <1>5, <2>2 DEF TimesInv, TimesOK
<1>7. left' \in [All -> Nat] /\ \A u \in All \ Timing(timers') : left'[u] = 0
  BY <1>2, <1>3, <1>5, InAll DEF TimesInv, TimesOK
<1>8. QED BY <1>4, <1>6, <1>7, TimesNext DEF TimesOK

LEMMA TimesReset ==
    ASSUME SemInv, ThreadsOK, ClockOK, TimesInv, NEW t \in Threads, ResetCall(t)
    PROVE  TimesInv'
<1>1. tick \in 0..TickMod-1 /\ TimersOK(timers) /\ InOrder(timers, tick)
  BY DEF ClockOK, ThreadsOK, TimesInv, TimesOK
<1>2. /\ timers' = DisarmAll(timers, waiters) /\ tick' = tick /\ isr' = isr
      /\ left' = [u \in All |-> IF u \in Elements(waiters) THEN 0 ELSE left[u]]
  BY DEF ResetCall, clock, L!Listed, Elements
<1>3. waiters \in Seq(Threads)
  BY SemTyped DEF SemInv
<1>4. /\ TimersOK(timers') /\ Timing(timers') = Timing(timers) \ Elements(waiters)
      /\ InOrder(timers', tick) /\ Elements(timers') \subseteq Elements(timers)
  BY <1>1, <1>2, <1>3, DisarmAllFacts
<1>5. \A u \in All : left'[u] = IF u \in Elements(waiters) THEN 0 ELSE left[u]
  BY <1>2
<1>6. ASSUME NEW x \in Elements(timers')
      PROVE  /\ Due(x, tick) \in Earliest(isr)..T!Half-1
             /\ left'[x.timer] = Remains(x, tick, isr)
  <2>1. x.timer \in Timing(timers) \ Elements(waiters)
    BY <1>4 DEF Timing
  <2>2. x.timer \in All /\ x.timer \notin Elements(waiters)
    BY <1>1, <2>1, TimingTyped, InAll
  <2>3. QED BY <1>4, <1>5, <2>2 DEF TimesInv, TimesOK
<1>7. left' \in [All -> Nat] /\ \A u \in All \ Timing(timers') : left'[u] = 0
  BY <1>2, <1>4, <1>5 DEF TimesInv, TimesOK
<1>8. QED BY <1>2, <1>4, <1>6, <1>7, TimesNext DEF TimesOK

(* rt_tick_increase: one tick less, for all.                               *)
LEMMA TimesTick ==
    ASSUME ThreadsOK, ClockOK, TimesInv, Tick
    PROVE  TimesInv'
<1>1. tick \in 0..TickMod-1 /\ TimersOK(timers) /\ InOrder(timers, tick)
  BY DEF ClockOK, ThreadsOK, TimesInv, TimesOK
<1>2. /\ isr = "none" /\ isr' = "tick" /\ tick' = (tick + 1) % TickMod /\ timers' = timers
      /\ left' = [u \in All |-> IF left[u] = 0 THEN 0 ELSE left[u] - 1]
  BY DEF Tick
<1>3. \A x \in Elements(timers) :
         /\ x \in TimerSet /\ x.timer \in All
         /\ Due(x, tick) \in 0..T!Half-1 /\ left[x.timer] = Remains(x, tick, "none")
  <2>1. ASSUME NEW x \in Elements(timers) PROVE x \in TimerSet /\ x.timer \in All
    <3>1. x \in TimerSet
      BY <1>1 DEF TimersOK, Elements
    <3>2. QED BY <3>1, InAll DEF TimerSet
  <2>2. QED BY <1>2, <2>1 DEF TimesInv, TimesOK, Earliest
<1>4. \A x \in Elements(timers) : Due(x, tick') = Due(x, tick) - 1
  BY <1>1, <1>2, <1>3, DueFacts
<1>5. InOrder(timers', tick')
  <2>1. \A i \in 1..Len(timers) : timers[i] \in Elements(timers)
    BY DEF Elements
  <2>2. \A i \in 1..Len(timers) :
           Due(timers[i], tick') = Due(timers[i], tick) - 1 /\ Due(timers[i], tick) \in Int
    BY <1>1, <1>4, <2>1, DueTyped
  <2>3. QED BY <1>1, <1>2, <2>2 DEF InOrder
<1>6. ASSUME NEW x \in Elements(timers')
      PROVE  /\ Due(x, tick') \in -1..T!Half-1
             /\ left'[x.timer] = Remains(x, tick', "tick")
  <2>1. /\ Due(x, tick) \in 0..T!Half-1 /\ Due(x, tick') = Due(x, tick) - 1
        /\ left[x.timer] = IF Due(x, tick) = 0 THEN 1 ELSE Due(x, tick)
    BY <1>2, <1>3, <1>4 DEF Remains
  <2>2. left'[x.timer] = IF left[x.timer] = 0 THEN 0 ELSE left[x.timer] - 1
    BY <1>2, <1>3
  <2>3. QED BY <2>1, <2>2, HalfFacts DEF Remains
<1>7. left' \in [All -> Nat] /\ \A u \in All \ Timing(timers') : left'[u] = 0
  BY <1>2 DEF TimesInv, TimesOK
<1>8. QED BY <1>2, <1>5, <1>6, <1>7, TimesNext DEF TimesOK, Earliest

(* rt_timer_check: the timers that are due, and no other, expire.          *)
LEMMA TimesExpire ==
    ASSUME ThreadsOK, ClockOK, TimesInv, Expire
    PROVE  TimesInv'
<1>1. tick \in 0..TickMod-1 /\ TimersOK(timers) /\ InOrder(timers, tick)
  BY DEF ClockOK, ThreadsOK, TimesInv, TimesOK
<1>2. /\ isr # "none" /\ isr' = "check" /\ timers' = Tail(timers) /\ timers # <<>>
      /\ tick' = tick /\ left' = left /\ T!Ahead(tick, Head(timers).at) < T!Half
  BY DEF Expire, T!Expired
<1> DEFINE f == Head(timers)
<1>3. /\ InOrder(timers', tick) /\ Elements(timers') = Elements(timers) \ {f}
      /\ f \in Elements(timers)
  BY <1>1, <1>2, TailOrder
<1>4. f \in TimerSet /\ f.timer \in Threads /\ Timing(timers') = Timing(timers) \ {f.timer}
  <2>1. f \in TimerSet
    BY <1>1, <1>3 DEF TimersOK, Elements
  <2>2. QED BY <1>1, <1>2, <2>1, FirstTimer
<1>5. /\ \A x \in Elements(timers) :
            Due(x, tick) \in -1..T!Half-1 /\ left[x.timer] = Remains(x, tick, "check")
  BY <1>2 DEF TimesInv, TimesOK, Earliest, Remains
<1> HIDE DEF f
<1>6. left[f.timer] = 0
  <2>1. Due(f, tick) \in -1..T!Half-1 /\ left[f.timer] = Remains(f, tick, "check")
    BY <1>3, <1>5
  <2>2. Due(f, tick) <= 0
    BY <1>1, <1>2, <1>4, <2>1, DueFacts DEF f
  <2>3. QED BY <2>1, <2>2, HalfFacts DEF Remains
<1>7. QED BY <1>2, <1>3, <1>4, <1>5, <1>6, TimesNext DEF TimesInv, TimesOK, Earliest

LEMMA TimesReturn ==
    ASSUME ThreadsOK, ClockOK, TimesInv, TickReturn
    PROVE  TimesInv'
<1>1. tick \in 0..TickMod-1 /\ TimersOK(timers) /\ InOrder(timers, tick)
  BY DEF ClockOK, ThreadsOK, TimesInv, TimesOK
<1>2. /\ isr # "none" /\ isr' = "none" /\ timers' = timers /\ tick' = tick /\ left' = left
      /\ timers # <<>> => ~(T!Ahead(tick, Head(timers).at) < T!Half)
  BY DEF TickReturn, T!Expired
<1>3. \A x \in Elements(timers) :
         Due(x, tick) \in -1..T!Half-1 /\ left[x.timer] = Remains(x, tick, "check")
  BY <1>2 DEF TimesInv, TimesOK, Earliest, Remains
<1>4. ASSUME NEW x \in Elements(timers)
      PROVE  Due(x, tick) \in 1..T!Half-1
  <2> DEFINE f == Head(timers)
  <2>1. timers # <<>>
    BY NobodyListed
  <2>2. f \in Elements(timers) /\ Due(f, tick) <= Due(x, tick)
    BY <1>1, <2>1, TailOrder
  <2>3. f \in TimerSet
    BY <1>1, <2>2 DEF TimersOK, Elements
  <2>4. Due(f, tick) \in -1..T!Half-1
    BY <1>3, <2>2
  <2>5. ~(Due(f, tick) <= 0)
    BY <1>1, <1>2, <2>1, <2>3, <2>4, DueFacts
  <2> HIDE DEF f
  <2>6. QED BY <1>3, <2>2, <2>4, <2>5, HalfFacts
<1>5. \A x \in Elements(timers) :
         Due(x, tick) \in 0..T!Half-1 /\ left[x.timer] = Remains(x, tick, "none")
  BY <1>3, <1>4, HalfFacts DEF Remains
<1>6. QED BY <1>1, <1>2, <1>5, TimesNext DEF TimesInv, TimesOK, Earliest

LEMMA SameTimes ==
    ASSUME TimesInv, UNCHANGED <<timers, tick, left, isr>>
    PROVE  TimesInv'
BY DEF TimesInv

LEMMA TimesResume ==
    ASSUME SemInv, ThreadsOK, ClockOK, TimesInv, Resume, tick' = tick, isr' = isr
    PROVE  TimesInv'
<1>1. CASE waiters = <<>>
  BY <1>1, SameTimes DEF Resume
<1>2. CASE waiters # <<>>
  <2>1. Head(waiters) \in Threads
    BY <1>2, SemTyped, HeadLeaves DEF SemInv
  <2>2. StopTimer(Head(waiters))
    BY <1>2 DEF Resume
  <2>3. QED BY <2>1, <2>2, TimesStop
<1>3. QED BY <1>1, <1>2

LEMMA TimesStep ==
    ASSUME ThreadInv, TimesInv, [ThreadNext]_allVars
    PROVE  TimesInv'
<1> USE DEF ThreadInv
<1>1. ASSUME NEW t \in Threads, TakeCall(t) PROVE TimesInv'
  <2>1. CASE pc'[t] = "idle"
    BY <1>1, <2>1, SameTimes DEF TakeCall, clock
  <2>2. CASE pc'[t] = "timed"
    <3>1. PICK n \in Waits : StartTimer(t, n)
      BY <1>1, <2>2 DEF TakeCall
    <3>2. n \in 0..T!Half-1 /\ isr = "none" /\ tick' = tick /\ isr' = isr
      BY <1>1, ThreadAssumption, HalfFacts DEF TakeCall, Calls, Runs, clock
    <3>3. QED BY <3>1, <3>2, TimesStart
  <2>3. CASE pc'[t] \notin {"idle", "timed"}
    <3>1. StopTimer(t) /\ tick' = tick /\ isr' = isr
      BY <1>1, <2>3 DEF TakeCall, clock
    <3>2. QED BY <3>1, TimesStop
  <2>4. QED BY <2>1, <2>2, <2>3
<1>2. ASSUME NEW t \in Threads, ReleaseCall(t) PROVE TimesInv'
  BY <1>2, TimesResume DEF ReleaseCall, clock
<1>3. ASSUME NEW t \in Threads, ResetCall(t) PROVE TimesInv'
  BY <1>3, TimesReset
<1>4. ASSUME NEW t \in Threads, Sleep(t) PROVE TimesInv'
  <2>1. PICK n \in Sleeps : StartTimer(t, n)
    BY <1>4 DEF Sleep
  <2>2. n \in 0..T!Half-1 /\ isr = "none" /\ tick' = tick /\ isr' = isr
    BY <1>4, ThreadAssumption DEF Sleep, Calls, Runs, clock
  <2>3. QED BY <2>1, <2>2, TimesStart
<1>5. ASSUME NEW t \in Threads, ScheduleCall(t) \/ Yield(t) \/ Create(t) \/ Delete(t)
                                \/ DeleteClose(t) \/ \E u \in Threads : Startup(t, u)
      PROVE  TimesInv'
  BY <1>5, SameTimes DEF ScheduleCall, Yield, Create, Delete, DeleteClose, Startup, clock
<1>6. ASSUME NEW t \in Threads, DeleteTimer(t) PROVE TimesInv'
  BY <1>6, TimesStop, InAll DEF DeleteTimer, clock
<1>7. CASE Exit
  BY <1>7, TimesStop, InAll DEF Exit, clock
<1>8. CASE IdleFree
  BY <1>8, SameTimes DEF IdleFree, clock
<1>9. CASE ReleaseIsr
  BY <1>9, TimesResume DEF ReleaseIsr, clock
<1>10. CASE Tick
  BY <1>10, TimesTick
<1>11. CASE Expire
  BY <1>11, TimesExpire
<1>12. CASE TickReturn
  BY <1>12, TimesReturn
<1>13. CASE UNCHANGED allVars
  BY <1>13, SameTimes DEF allVars, threadVars
<1>14. QED
  BY <1>1, <1>2, <1>3, <1>4, <1>5, <1>6, <1>7, <1>8, <1>9, <1>10, <1>11, <1>12, <1>13
     DEF ThreadNext, ThreadStep

LEMMA TimesInit == ThreadInit => TimesInv
<1> SUFFICES ASSUME ThreadInit PROVE TimesInv
  OBVIOUS
<1>1. /\ timers = <<>> /\ left = [t \in All |-> 0] /\ Elements(timers) = {}
  BY NobodyListed DEF ThreadInit
<1>2. Len(<<>>) = 0
  OBVIOUS
<1>3. QED BY <1>1, <1>2 DEF TimesInv, TimesOK, InOrder

LEMMA TimesInTime ==
    ASSUME ThreadsOK, ClockOK, TimesInv
    PROVE  InTime
<1> SUFFICES ASSUME isr = "none" PROVE T!Armed(timers) = {t \in All : left[t] > 0}
  BY DEF InTime
<1>1. tick \in 0..TickMod-1 /\ TimersOK(timers)
  BY DEF ClockOK, ThreadsOK
<1>2. ASSUME NEW t \in Timing(timers) PROVE t \in All /\ left[t] > 0
  <2>1. t \in All
    BY <1>1, TimingTyped, InAll
  <2>2. PICK x \in Elements(timers) : x.timer = t
    BY DEF Timing
  <2>3. Due(x, tick) \in 0..T!Half-1 /\ left[t] = Remains(x, tick, "none")
    BY <2>2 DEF TimesInv, TimesOK, Earliest
  <2>4. QED BY <2>1, <2>3, HalfFacts DEF Remains
<1>3. \A t \in All \ Timing(timers) : left[t] = 0
  BY DEF TimesInv, TimesOK
<1>4. QED BY <1>2, <1>3, NamesOfTimers

(* A timed wait or a sleep ends neither early nor late, for every width of *)
(* the tick counter and every wait below half of it, wherever the counter  *)
(* wraps: between interrupts the timers that run are those of the threads  *)
(* that have ticks left to wait.                                           *)
THEOREM WaitsEndInTime == ~TimedDelete => (ThreadSpec => []InTime)
<1> SUFFICES ASSUME ~TimedDelete PROVE ThreadSpec => []InTime
  OBVIOUS
<1> DEFINE Inv == ThreadInv /\ TimesInv
<1>1. ThreadInit => Inv
  BY ThreadInitInv, TimesInit
<1>2. Inv /\ [ThreadNext]_allVars => Inv'
  BY ThreadNextInv, TimesStep
<1>3. Inv => InTime
  BY TimesInTime DEF ThreadInv
<1> HIDE DEF Inv
<1>4. QED BY <1>1, <1>2, <1>3, PTL DEF ThreadSpec
=============================================================================
