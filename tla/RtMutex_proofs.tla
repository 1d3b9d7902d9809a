----------------------------- MODULE RtMutex_proofs -----------------------------
(***************************************************************************)
(* Proofs about the mutex and its priority inheritance (RtMutex).          *)
(***************************************************************************)
EXTENDS RtMutex, SeqLemmas, FiniteSetTheorems

(* A mutex is available, or owned by one thread that does not wait for it. *)
OwnersOK ==
    \A m \in Mutexes :
        /\ IF owner[m] = NULL
           THEN value[m] = 1 /\ hold[m] = 0 /\ waiters[m] = <<>>
           ELSE value[m] = 0 /\ hold[m] > 0 /\ orig[m] \in Priorities
        /\ owner[m] \notin Elements(waiters[m])
        /\ m \notin used => owner[m] = NULL

(* A thread holds the mutexes it owns.                                     *)
HeldOK ==
    \A t \in Threads :
        /\ IsInjective(held[t])
        /\ \A m \in Mutexes : m \in Elements(held[t]) <=> owner[m] = t

(* A thread that is blocked is on one list, once.                          *)
WaitersOK ==
    /\ \A m \in Mutexes : IsInjective(waiters[m])
    /\ \A t \in Threads :
          /\ \A m \in Mutexes : t \in Elements(waiters[m]) => state[t] = "blocked"
          /\ state[t] = "blocked" => \E m \in Mutexes : t \in Elements(waiters[m])
          /\ \A m, k \in Mutexes :
                t \in Elements(waiters[m]) /\ t \in Elements(waiters[k]) => m = k

CurrentOK == current # NULL => state[current] = "ready"

MutexInv == TypeOK /\ OwnersOK /\ HeldOK /\ WaitersOK /\ CurrentOK

(* The priority that a thread goes back to with the last mutex it holds.   *)
RestoredAt(t) ==
    IF held[t] = <<>> THEN prio[t] = Base[t]
    ELSE orig[held[t][Len(held[t])]] = Base[t]

RestoredInv == \A t \in Threads : RestoredAt(t)

(* Of a list in the order of the priorities p.                             *)
Ordered(list, p) ==
    \A i, j \in 1..Len(list) : i < j => p[list[i]] <= p[list[j]]

(* The waiters for a mutex are in order, none is more urgent than the      *)
(* owner has become, and a ready owner is not kept waiting by less urgent  *)
(* threads than its waiters.                                               *)
UrgentAt(m) ==
    /\ Ordered(waiters[m], prio)
    /\ \A t \in Elements(waiters[m]) :
          /\ prio[owner[m]] <= prio[t]
          /\ state[owner[m]] = "ready" =>
                current # NULL /\ (current = owner[m] \/ prio[current] <= prio[t])

UrgentInv == OnePrioMutex => \A m \in Mutexes : UrgentAt(m)

-----------------------------------------------------------------------------
(* Lists.                                                                  *)
LEMMA EnlistFacts ==
    ASSUME NEW s \in Seq(Threads), NEW e \in Threads
    PROVE  /\ L!Enlist(s, e) \in Seq(Threads) /\ L!Enlist(s, e) # <<>>
           /\ Elements(L!Enlist(s, e)) = Elements(s) \cup {e}
           /\ e \notin Elements(s) /\ IsInjective(s) => IsInjective(L!Enlist(s, e))
<1> DEFINE n == L!Place(s, e)
<1>1. n \in 0..Len(s)
  <2>1. Len(s) \in Nat
    BY LenProperties
  <2> DEFINE I == {i \in 1..Len(s) : prio[e] < prio[s[i]]}
  <2>2. I # {} => L!Min(I) \in I
    <3>1. I \in SUBSET Nat
      OBVIOUS
    <3>2. QED BY <3>1, MinOf DEF Min, L!Min
  <2>3. n = IF flag = "FIFO" THEN 0 ELSE IF I # {} THEN L!Min(I) ELSE 0
    BY DEF L!Place, L!SelectInSeq
  <2> HIDE DEF n
  <2>4. QED BY <2>1, <2>2, <2>3
<1>2. L!Enlist(s, e) = IF n = 0 THEN Append(s, e) ELSE InsertAt(s, n, e)
  BY DEF L!Enlist, L!InsertAt, InsertAt
<1> HIDE DEF n
<1>3. QED BY <1>1, <1>2, Enlisted

LEMMA DelistFacts ==
    ASSUME NEW S, NEW s \in Seq(S), NEW e, IsInjective(s)
    PROVE  /\ L!Delist(s, e) \in Seq(S)
           /\ Elements(L!Delist(s, e)) = Elements(s) \ {e}
           /\ IsInjective(L!Delist(s, e))
<1>1. L!Delist(s, e) = RemoveFirst(s, e)
  BY DEF L!Delist, L!RemoveFirst, RemoveFirst, L!RemoveAt, RemoveAt,
         L!SelectInSeq, SelectInSeq, L!Min, Min
<1>2. QED BY <1>1, Delisted

LEMMA NobodyListed ==
    /\ \A S : <<>> \in Seq(S)
    /\ Elements(<<>>) = {} /\ IsInjective(<<>>)
BY DEF Elements, IsInjective

(* A mutex that is taken comes first in the list of those held.            *)
LEMMA Prepended ==
    ASSUME NEW S, NEW s \in Seq(S), NEW e \in S, e \notin Elements(s), IsInjective(s)
    PROVE  LET r == <<e>> \o s
           IN  /\ r \in Seq(S) /\ r # <<>> /\ IsInjective(r)
               /\ Elements(r) = Elements(s) \cup {e}
               /\ r[Len(r)] = IF s = <<>> THEN e ELSE s[Len(s)]
<1> DEFINE r == <<e>> \o s
<1>1. Len(s) \in Nat /\ (s # <<>> => Len(s) # 0) /\ Len(<<>>) = 0
  BY LenProperties, EmptySeq
<1>2. <<e>> \in Seq(S) /\ Len(<<e>>) = 1 /\ <<e>>[1] = e
  OBVIOUS
<1>3. /\ r \in Seq(S) /\ Len(r) = 1 + Len(s)
      /\ \A i \in 1..1+Len(s) : r[i] = IF i = 1 THEN e ELSE s[i-1]
  BY <1>1, <1>2, ConcatProperties
<1> HIDE DEF r
<1>4. DOMAIN s = 1..Len(s) /\ DOMAIN r = 1..1+Len(s)
  BY <1>1, <1>3, LenProperties
<1>5. Elements(r) = Elements(s) \cup {e}
  <2>1. ASSUME NEW x \in Elements(s) PROVE x \in Elements(r)
    <3>1. PICK i \in 1..Len(s) : x = s[i]
      BY DEF Elements
    <3>2. i+1 \in 1..1+Len(s) /\ r[i+1] = s[i]
      BY <1>1, <1>3
    <3>3. QED BY <1>3, <3>1, <3>2 DEF Elements
  <2>2. e \in Elements(r)
    <3>1. 1 \in 1..1+Len(s) /\ r[1] = e
      BY <1>1, <1>3
    <3>2. QED BY <1>3, <3>1 DEF Elements
  <2>3. ASSUME NEW x \in Elements(r) PROVE x \in Elements(s) \cup {e}
    <3>1. PICK i \in 1..1+Len(s) : x = r[i]
      BY <1>3 DEF Elements
    <3>2. i = 1 \/ i-1 \in 1..Len(s)
      BY <1>1
    <3>3. QED BY <1>3, <3>1, <3>2 DEF Elements
  <2>4. QED BY <2>1, <2>2, <2>3
<1>6. IsInjective(r)
  <2> SUFFICES ASSUME NEW i \in 1..1+Len(s), NEW j \in 1..1+Len(s), r[i] = r[j]
               PROVE  i = j
    BY <1>4 DEF IsInjective
  <2>1. \A k \in 1..Len(s) : s[k] # e
    BY DEF Elements
  <2>2. (i = 1 \/ i-1 \in 1..Len(s)) /\ (j = 1 \/ j-1 \in 1..Len(s))
    BY <1>1
  <2>3. CASE i = 1 \/ j = 1
    BY <1>3, <2>1, <2>2, <2>3
  <2>4. CASE i # 1 /\ j # 1
    <3>1. s[i-1] = s[j-1]
      BY <1>3, <2>4
    <3>2. i-1 = j-1
      BY <1>4, <2>2, <2>4, <3>1 DEF IsInjective
    <3>3. QED BY <3>2
  <2>5. QED BY <2>3, <2>4
<1>7. r[Len(r)] = IF s = <<>> THEN e ELSE s[Len(s)]
  BY <1>1, <1>3
<1>8. r # <<>>
  BY <1>1, <1>3
<1>9. QED BY <1>3, <1>5, <1>6, <1>7, <1>8 DEF r

-----------------------------------------------------------------------------
(* The fields of the mutexes and the threads' lists.                       *)
LEMMA Constants ==
    /\ NULL \notin Threads /\ MaxHold \in Nat \ {0} /\ IsFiniteSet(Mutexes)
    /\ \A m \in used : used \in Uses => m \in Mutexes
    /\ Base \in [Threads -> Nat] /\ Priorities \subseteq Nat
    /\ \A t \in Threads : Base[t] \in Priorities
    /\ \A f \in Flags : f \in {"FIFO", "PRIO"}
BY MutexAssumption DEF Priorities

LEMMA CurrentNext ==
    ASSUME TypeOK, state' \in [Threads -> {"ready", "blocked", "asleep"}], Reschedule
    PROVE  CurrentOK' /\ current' \in Threads \cup {NULL}
BY DEF Reschedule, MostUrgent, CurrentOK

LEMMA TakeAgainInv ==
    ASSUME MutexInv, NEW t \in Threads, NEW m \in Mutexes, TakeAgain(t, m),
           UNCHANGED fixed
    PROVE  MutexInv'
<1>1. /\ owner[m] = t /\ hold[m] < MaxHold /\ hold' = [hold EXCEPT ![m] = @ + 1]
      /\ UNCHANGED <<value, owner, orig, waiters, prio, state, current, wait, held>>
      /\ UNCHANGED <<used, flag>>
  BY DEF TakeAgain, fixed
<1>2. hold \in [Mutexes -> 0..MaxHold] /\ owner[m] # NULL /\ hold[m] > 0
  BY <1>1, Constants DEF MutexInv, TypeOK, OwnersOK
<1>3. hold' \in [Mutexes -> 0..MaxHold]
  BY <1>1, <1>2, Constants
<1>4. \A k \in Mutexes : (hold'[k] = 0 <=> hold[k] = 0) /\ (hold'[k] > 0 <=> hold[k] > 0)
  BY <1>1, <1>2, Constants
<1>5. TypeOK'
  BY <1>1, <1>3 DEF MutexInv, TypeOK
<1>6. OwnersOK'
  BY <1>1, <1>4 DEF MutexInv, OwnersOK
<1>7. QED BY <1>1, <1>5, <1>6 DEF MutexInv, HeldOK, WaitersOK, CurrentOK

LEMMA TakeFreeInv ==
    ASSUME MutexInv, NEW t \in Threads, NEW m \in used, current = t, TakeFree(t, m),
           UNCHANGED fixed
    PROVE  MutexInv'
<1>1. /\ value[m] > 0 /\ value' = [value EXCEPT ![m] = @ - 1]
      /\ owner' = [owner EXCEPT ![m] = t] /\ orig' = [orig EXCEPT ![m] = prio[t]]
      /\ hold' = [hold EXCEPT ![m] = @ + 1] /\ held' = [held EXCEPT ![t] = <<m>> \o @]
      /\ UNCHANGED <<waiters, prio, state, current, wait>> /\ UNCHANGED <<used, flag>>
  BY DEF TakeFree, fixed
<1>2. m \in Mutexes
  BY Constants DEF MutexInv, TypeOK
<1>3. /\ owner[m] = NULL /\ value[m] = 1 /\ hold[m] = 0 /\ waiters[m] = <<>>
      /\ prio[t] \in Priorities
  BY <1>1, <1>2 DEF MutexInv, TypeOK, OwnersOK
<1>4. m \notin Elements(held[t]) /\ held[t] \in Seq(Mutexes) /\ IsInjective(held[t])
  BY <1>2, <1>3, Constants DEF MutexInv, HeldOK, TypeOK
<1> DEFINE r == <<m>> \o held[t]
<1>5. r \in Seq(Mutexes) /\ IsInjective(r) /\ Elements(r) = Elements(held[t]) \cup {m}
  BY <1>2, <1>4, Prepended
<1>6. held' = [held EXCEPT ![t] = r]
  BY <1>1
<1> HIDE DEF r
<1>7. TypeOK'
  <2>1. hold' \in [Mutexes -> 0..MaxHold]
    BY <1>1, <1>2, <1>3, Constants DEF MutexInv, TypeOK
  <2>2. value' \in [Mutexes -> {0, 1}]
    BY <1>1, <1>2, <1>3 DEF MutexInv, TypeOK
  <2>3. held' \in [Threads -> Seq(Mutexes)]
    BY <1>5, <1>6 DEF MutexInv, TypeOK
  <2>4. QED BY <1>1, <1>2, <1>3, <2>1, <2>2, <2>3 DEF MutexInv, TypeOK
<1>8. OwnersOK'
  <2>1. ASSUME NEW k \in Mutexes
        PROVE  /\ IF owner'[k] = NULL
                  THEN value'[k] = 1 /\ hold'[k] = 0 /\ waiters'[k] = <<>>
                  ELSE value'[k] = 0 /\ hold'[k] > 0 /\ orig'[k] \in Priorities
               /\ owner'[k] \notin Elements(waiters'[k])
               /\ k \notin used' => owner'[k] = NULL
    <3>1. CASE k # m
      BY <1>1, <1>2, <3>1 DEF MutexInv, TypeOK, OwnersOK
    <3>2. CASE k = m
      BY <1>1, <1>2, <1>3, <3>2, Constants, NobodyListed DEF MutexInv, TypeOK
    <3>3. QED BY <3>1, <3>2
  <2>2. QED BY <2>1 DEF OwnersOK
<1>9. HeldOK'
  <2>1. ASSUME NEW u \in Threads
        PROVE  /\ IsInjective(held'[u])
               /\ \A k \in Mutexes : k \in Elements(held'[u]) <=> owner'[k] = u
    <3>1. \A k \in Mutexes : owner'[k] = IF k = m THEN t ELSE owner[k]
      BY <1>1, <1>2 DEF MutexInv, TypeOK
    <3>2. held'[u] = IF u = t THEN r ELSE held[u]
      BY <1>6 DEF MutexInv, TypeOK
    <3>3. IsInjective(held[u]) /\ \A k \in Mutexes : k \in Elements(held[u]) <=> owner[k] = u
      BY DEF MutexInv, HeldOK
    <3>4. owner[m] # u
      BY <1>3, Constants
    <3>5. QED BY <1>5, <3>1, <3>2, <3>3, <3>4
  <2>2. QED BY <2>1 DEF HeldOK
<1>10. WaitersOK' /\ CurrentOK'
  BY <1>1 DEF MutexInv, WaitersOK, CurrentOK
<1>11. QED BY <1>7, <1>8, <1>9, <1>10 DEF MutexInv

LEMMA InheritTyped ==
    ASSUME TypeOK, NEW o \in Threads, NEW p \in Priorities
    PROVE  /\ Inherit(o, p) \in [Threads -> Priorities]
           /\ \A u \in Threads : u # o => Inherit(o, p)[u] = prio[u]
           /\ Inherit(o, p)[o] <= p /\ Inherit(o, p)[o] <= prio[o]
<1>1. prio \in [Threads -> Priorities] /\ prio[o] \in Nat /\ p \in Nat
  BY Constants DEF TypeOK
<1>2. QED BY <1>1 DEF Inherit

LEMMA TakeBlockInv ==
    ASSUME MutexInv, NEW t \in Threads, NEW m \in used, current = t, TakeBlock(t, m),
           UNCHANGED fixed
    PROVE  MutexInv'
<1>1. /\ owner[m] # t /\ value[m] = 0 /\ prio' = Inherit(owner[m], prio[t])
      /\ waiters' = [waiters EXCEPT ![m] = L!Enlist(@, t)]
      /\ state' = [state EXCEPT ![t] = "blocked"]
      /\ UNCHANGED <<value, owner, hold, orig, held>> /\ UNCHANGED <<used, flag>>
      /\ Reschedule
  BY DEF TakeBlock, fixed
<1>2. PICK w \in {"some", "forever"} : wait' = [wait EXCEPT ![t] = w]
  BY DEF TakeBlock
<1>3. m \in Mutexes
  BY Constants DEF MutexInv, TypeOK
<1>4. owner[m] \in Threads /\ state[t] = "ready" /\ prio[t] \in Priorities
  BY <1>1, <1>3, Constants DEF MutexInv, TypeOK, OwnersOK, CurrentOK
<1>5. \A k \in Mutexes : t \notin Elements(waiters[k])
  BY <1>4 DEF MutexInv, WaitersOK
<1> DEFINE l == L!Enlist(waiters[m], t)
<1>6. /\ l \in Seq(Threads) /\ l # <<>> /\ IsInjective(l)
      /\ Elements(l) = Elements(waiters[m]) \cup {t}
  <2>1. waiters[m] \in Seq(Threads) /\ IsInjective(waiters[m])
    BY <1>3 DEF MutexInv, TypeOK, WaitersOK
  <2>2. QED BY <1>3, <1>5, <2>1, EnlistFacts
<1>7. waiters' = [waiters EXCEPT ![m] = l]
  BY <1>1
<1> HIDE DEF l
<1>8. /\ \A k \in Mutexes : waiters'[k] = IF k = m THEN l ELSE waiters[k]
      /\ \A u \in Threads : state'[u] = IF u = t THEN "blocked" ELSE state[u]
  BY <1>1, <1>7 DEF MutexInv, TypeOK
<1>9. state' \in [Threads -> {"ready", "blocked", "asleep"}]
  BY <1>1 DEF MutexInv, TypeOK
<1>10. CurrentOK' /\ current' \in Threads \cup {NULL}
  BY <1>1, <1>9, CurrentNext DEF MutexInv
<1>11. TypeOK'
  <2>1. prio' \in [Threads -> Priorities]
    BY <1>1, <1>4, InheritTyped DEF MutexInv
  <2>2. waiters' \in [Mutexes -> Seq(Threads)]
    BY <1>6, <1>7 DEF MutexInv, TypeOK
  <2>3. QED BY <1>1, <1>2, <1>9, <1>10, <2>1, <2>2 DEF MutexInv, TypeOK
<1>12. OwnersOK'
  <2>1. ASSUME NEW k \in Mutexes
        PROVE  /\ IF owner'[k] = NULL
                  THEN value'[k] = 1 /\ hold'[k] = 0 /\ waiters'[k] = <<>>
                  ELSE value'[k] = 0 /\ hold'[k] > 0 /\ orig'[k] \in Priorities
               /\ owner'[k] \notin Elements(waiters'[k])
               /\ k \notin used' => owner'[k] = NULL
    <3>1. CASE k # m
      BY <1>1, <1>8, <3>1 DEF MutexInv, OwnersOK
    <3>2. CASE k = m
      BY <1>1, <1>4, <1>6, <1>8, <3>2, Constants DEF MutexInv, OwnersOK
    <3>3. QED BY <3>1, <3>2
  <2>2. QED BY <2>1 DEF OwnersOK
<1>13. HeldOK'
  BY <1>1 DEF MutexInv, HeldOK
<1>14. WaitersOK'
  <2>1. \A k \in Mutexes : IsInjective(waiters'[k])
    BY <1>6, <1>8 DEF MutexInv, WaitersOK
  <2>2. ASSUME NEW u \in Threads, NEW k \in Mutexes
        PROVE  u \in Elements(waiters'[k]) <=>
                   u \in Elements(waiters[k]) \/ (u = t /\ k = m)
    BY <1>6, <1>8
  <2>3. ASSUME NEW u \in Threads
        PROVE  /\ \A k \in Mutexes : u \in Elements(waiters'[k]) => state'[u] = "blocked"
               /\ state'[u] = "blocked" => \E k \in Mutexes : u \in Elements(waiters'[k])
               /\ \A k, j \in Mutexes :
                     u \in Elements(waiters'[k]) /\ u \in Elements(waiters'[j]) => k = j
    <3>1. CASE u = t
      BY <1>3, <1>5, <1>8, <2>2, <3>1
    <3>2. CASE u # t
      BY <1>8, <2>2, <3>2 DEF MutexInv, WaitersOK
    <3>3. QED BY <3>1, <3>2
  <2>4. QED BY <2>1, <2>3 DEF WaitersOK
<1>15. QED BY <1>10, <1>11, <1>12, <1>13, <1>14 DEF MutexInv

LEMMA ReleaseInnerInv ==
    ASSUME MutexInv, NEW t \in Threads, NEW m \in Mutexes, owner[m] = t,
           ReleaseInner(t, m), UNCHANGED fixed
    PROVE  MutexInv'
<1>1. /\ hold[m] > 1 /\ hold' = [hold EXCEPT ![m] = @ - 1]
      /\ UNCHANGED <<value, owner, orig, waiters, prio, state, current, wait, held>>
      /\ UNCHANGED <<used, flag>>
  BY DEF ReleaseInner, fixed
<1>2. hold \in [Mutexes -> 0..MaxHold]
  BY DEF MutexInv, TypeOK
<1>3. hold' \in [Mutexes -> 0..MaxHold]
  BY <1>1, <1>2, Constants
<1>4. \A k \in Mutexes : (hold'[k] = 0 <=> hold[k] = 0) /\ (hold'[k] > 0 <=> hold[k] > 0)
  BY <1>1, <1>2, Constants
<1>5. TypeOK'
  BY <1>1, <1>3 DEF MutexInv, TypeOK
<1>6. OwnersOK'
  BY <1>1, <1>4 DEF MutexInv, OwnersOK
<1>7. QED BY <1>1, <1>5, <1>6 DEF MutexInv, HeldOK, WaitersOK, CurrentOK

(* The last release takes the mutex from the owner's list.                 *)
LEMMA Released ==
    ASSUME MutexInv, NEW t \in Threads, NEW m \in Mutexes, owner[m] = t
    PROVE  /\ L!Delist(held[t], m) \in Seq(Mutexes) /\ IsInjective(L!Delist(held[t], m))
           /\ Elements(L!Delist(held[t], m)) = Elements(held[t]) \ {m}
           /\ m \in Elements(held[t]) /\ orig[m] \in Priorities
<1>1. held[t] \in Seq(Mutexes) /\ IsInjective(held[t]) /\ m \in Elements(held[t])
  BY DEF MutexInv, TypeOK, HeldOK
<1>2. orig[m] \in Priorities
  BY Constants DEF MutexInv, OwnersOK
<1>3. QED BY <1>1, <1>2, DelistFacts

LEMMA MakeAvailableInv ==
    ASSUME MutexInv, NEW t \in Threads, NEW m \in Mutexes, owner[m] = t,
           waiters[m] = <<>>, Restore(t, m), MakeAvailable(t, m), wait' = wait,
           UNCHANGED fixed
    PROVE  MutexInv'
<1> DEFINE l == L!Delist(held[t], m)
<1>1. /\ value' = [value EXCEPT ![m] = @ + 1] /\ owner' = [owner EXCEPT ![m] = NULL]
      /\ orig' = [orig EXCEPT ![m] = Unset] /\ hold' = [hold EXCEPT ![m] = 0]
      /\ held' = [held EXCEPT ![t] = l] /\ prio' = [prio EXCEPT ![t] = orig[m]]
      /\ UNCHANGED <<waiters, state, current>> /\ UNCHANGED <<used, flag>>
  BY DEF MakeAvailable, Restore, fixed
<1>2. /\ l \in Seq(Mutexes) /\ IsInjective(l) /\ Elements(l) = Elements(held[t]) \ {m}
      /\ orig[m] \in Priorities
  BY Released
<1> HIDE DEF l
<1>3. value[m] = 0 /\ t # NULL
  BY Constants DEF MutexInv, OwnersOK
<1>4. TypeOK'
  <2>1. value' \in [Mutexes -> {0, 1}]
    BY <1>1, <1>3 DEF MutexInv, TypeOK
  <2>2. hold' \in [Mutexes -> 0..MaxHold]
    BY <1>1, Constants DEF MutexInv, TypeOK
  <2>3. held' \in [Threads -> Seq(Mutexes)] /\ prio' \in [Threads -> Priorities]
    BY <1>1, <1>2 DEF MutexInv, TypeOK
  <2>4. QED BY <1>1, <2>1, <2>2, <2>3 DEF MutexInv, TypeOK
<1>5. OwnersOK'
  <2>1. ASSUME NEW k \in Mutexes
        PROVE  /\ IF owner'[k] = NULL
                  THEN value'[k] = 1 /\ hold'[k] = 0 /\ waiters'[k] = <<>>
                  ELSE value'[k] = 0 /\ hold'[k] > 0 /\ orig'[k] \in Priorities
               /\ owner'[k] \notin Elements(waiters'[k])
               /\ k \notin used' => owner'[k] = NULL
    <3>1. CASE k # m
      BY <1>1, <3>1 DEF MutexInv, TypeOK, OwnersOK
    <3>2. CASE k = m
      BY <1>1, <1>3, <3>2, NobodyListed DEF MutexInv, TypeOK
    <3>3. QED BY <3>1, <3>2
  <2>2. QED BY <2>1 DEF OwnersOK
<1>6. HeldOK'
  <2>1. ASSUME NEW u \in Threads
        PROVE  /\ IsInjective(held'[u])
               /\ \A k \in Mutexes : k \in Elements(held'[u]) <=> owner'[k] = u
    <3>1. \A k \in Mutexes : owner'[k] = IF k = m THEN NULL ELSE owner[k]
      BY <1>1 DEF MutexInv, TypeOK
    <3>2. held'[u] = IF u = t THEN l ELSE held[u]
      BY <1>1 DEF MutexInv, TypeOK
    <3>3. IsInjective(held[u]) /\ \A k \in Mutexes : k \in Elements(held[u]) <=> owner[k] = u
      BY DEF MutexInv, HeldOK
    <3>4. QED BY <1>2, <3>1, <3>2, <3>3, Constants
  <2>2. QED BY <2>1 DEF HeldOK
<1>7. QED BY <1>1, <1>4, <1>5, <1>6 DEF MutexInv, WaitersOK, CurrentOK

(* The first waiter becomes the owner.                                     *)
LEMMA NextOwnerFacts ==
    ASSUME MutexInv, NEW t \in Threads, NEW m \in Mutexes, owner[m] = t,
           waiters[m] # <<>>
    PROVE  LET next == Head(waiters[m])
           IN  /\ next \in Threads /\ next # t /\ next \in Elements(waiters[m])
               /\ state[next] = "blocked"
               /\ Tail(waiters[m]) \in Seq(Threads) /\ IsInjective(Tail(waiters[m]))
               /\ Elements(Tail(waiters[m])) = Elements(waiters[m]) \ {next}
               /\ <<m>> \o held[next] \in Seq(Mutexes)
               /\ IsInjective(<<m>> \o held[next])
               /\ Elements(<<m>> \o held[next]) = Elements(held[next]) \cup {m}
<1> DEFINE next == Head(waiters[m])
<1>1. waiters[m] \in Seq(Threads) /\ IsInjective(waiters[m])
  BY DEF MutexInv, TypeOK, WaitersOK
<1>2. /\ next \in Threads /\ next \in Elements(waiters[m])
      /\ Tail(waiters[m]) \in Seq(Threads) /\ IsInjective(Tail(waiters[m]))
      /\ Elements(Tail(waiters[m])) = Elements(waiters[m]) \ {next}
  BY <1>1, HeadLeaves
<1> HIDE DEF next
<1>3. next # t /\ state[next] = "blocked"
  BY <1>2 DEF MutexInv, OwnersOK, WaitersOK
<1>4. held[next] \in Seq(Mutexes) /\ IsInjective(held[next]) /\ m \notin Elements(held[next])
  BY <1>2, <1>3 DEF MutexInv, TypeOK, HeldOK
<1>5. /\ <<m>> \o held[next] \in Seq(Mutexes) /\ IsInjective(<<m>> \o held[next])
      /\ Elements(<<m>> \o held[next]) = Elements(held[next]) \cup {m}
  BY <1>4, Prepended
<1>6. QED BY <1>2, <1>3, <1>5 DEF next

LEMMA HandOverInv ==
    ASSUME MutexInv, NEW t \in Threads, NEW m \in Mutexes, owner[m] = t, current = t,
           waiters[m] # <<>>, Restore(t, m), HandOver(t, m), wait' = wait,
           UNCHANGED fixed
    PROVE  MutexInv'
<1> DEFINE next == Head(waiters[m])
           l    == L!Delist(held[t], m)
           r    == <<m>> \o held[next]
           q    == Tail(waiters[m])
<1>1. /\ owner' = [owner EXCEPT ![m] = next] /\ orig' = [orig EXCEPT ![m] = prio[next]]
      /\ hold' = [hold EXCEPT ![m] = 1] /\ waiters' = [waiters EXCEPT ![m] = q]
      /\ state' = [state EXCEPT ![next] = "ready"]
      /\ held' = [held EXCEPT ![t] = L!Delist(@, m), ![next] = <<m>> \o @]
      /\ prio' = [prio EXCEPT ![t] = orig[m]] /\ value' = value /\ Reschedule
      /\ UNCHANGED <<used, flag>>
  BY DEF HandOver, NextOwner, Restore, fixed
<1>2. /\ l \in Seq(Mutexes) /\ IsInjective(l) /\ Elements(l) = Elements(held[t]) \ {m}
      /\ orig[m] \in Priorities
  BY Released
<1>3. /\ next \in Threads /\ next # t /\ next \in Elements(waiters[m])
      /\ state[next] = "blocked"
      /\ q \in Seq(Threads) /\ IsInjective(q) /\ Elements(q) = Elements(waiters[m]) \ {next}
      /\ r \in Seq(Mutexes) /\ IsInjective(r) /\ Elements(r) = Elements(held[next]) \cup {m}
  BY NextOwnerFacts
<1>4. \A u \in Threads : held'[u] = IF u = t THEN l ELSE IF u = next THEN r ELSE held[u]
  BY <1>1, <1>3 DEF MutexInv, TypeOK
<1>5. held' \in [Threads -> Seq(Mutexes)]
  <2>1. held' = [held EXCEPT ![t] = l, ![next] = r]
    BY <1>1, <1>3 DEF MutexInv, TypeOK
  <2> HIDE DEF l, r, next
  <2>2. QED BY <1>2, <1>3, <2>1 DEF MutexInv, TypeOK
<1> HIDE DEF next, l, r, q
<1>6. prio[next] \in Priorities /\ value[m] = 0 /\ t # NULL /\ next # NULL
  BY <1>3, Constants DEF MutexInv, TypeOK, OwnersOK
<1>7. state' \in [Threads -> {"ready", "blocked", "asleep"}]
  BY <1>1 DEF MutexInv, TypeOK
<1>8. CurrentOK' /\ current' \in Threads \cup {NULL}
  BY <1>1, <1>7, CurrentNext DEF MutexInv
<1>9. /\ \A k \in Mutexes : waiters'[k] = IF k = m THEN q ELSE waiters[k]
      /\ \A k \in Mutexes : owner'[k] = IF k = m THEN next ELSE owner[k]
      /\ \A u \in Threads : state'[u] = IF u = next THEN "ready" ELSE state[u]
  BY <1>1 DEF MutexInv, TypeOK
<1>10. TypeOK'
  <2>1. owner' \in [Mutexes -> Threads \cup {NULL}]
    BY <1>1, <1>3 DEF MutexInv, TypeOK
  <2>2. hold' \in [Mutexes -> 0..MaxHold]
    BY <1>1, Constants DEF MutexInv, TypeOK
  <2>3. prio' \in [Threads -> Priorities] /\ orig' \in [Mutexes -> Priorities \cup {Unset}]
    BY <1>1, <1>2, <1>6 DEF MutexInv, TypeOK
  <2>4. waiters' \in [Mutexes -> Seq(Threads)]
    BY <1>1, <1>3 DEF MutexInv, TypeOK
  <2>5. QED BY <1>1, <1>5, <1>7, <1>8, <2>1, <2>2, <2>3, <2>4 DEF MutexInv, TypeOK
<1>11. OwnersOK'
  <2>1. ASSUME NEW k \in Mutexes
        PROVE  /\ IF owner'[k] = NULL
                  THEN value'[k] = 1 /\ hold'[k] = 0 /\ waiters'[k] = <<>>
                  ELSE value'[k] = 0 /\ hold'[k] > 0 /\ orig'[k] \in Priorities
               /\ owner'[k] \notin Elements(waiters'[k])
               /\ k \notin used' => owner'[k] = NULL
    <3>1. CASE k # m
      BY <1>1, <1>9, <3>1 DEF MutexInv, TypeOK, OwnersOK
    <3>2. CASE k = m
      <4>1. hold'[m] = 1 /\ orig'[m] = prio[next]
        BY <1>1 DEF MutexInv, TypeOK
      <4>2. m \in used
        BY <1>6 DEF MutexInv, OwnersOK
      <4>3. QED BY <1>1, <1>3, <1>6, <1>9, <3>2, <4>1, <4>2
    <3>3. QED BY <3>1, <3>2
  <2>2. QED BY <2>1 DEF OwnersOK
<1>12. HeldOK'
  <2>1. ASSUME NEW u \in Threads
        PROVE  /\ IsInjective(held'[u])
               /\ \A k \in Mutexes : k \in Elements(held'[u]) <=> owner'[k] = u
    <3>1. IsInjective(held[u]) /\ \A k \in Mutexes : k \in Elements(held[u]) <=> owner[k] = u
      BY DEF MutexInv, HeldOK
    <3>2. QED BY <1>2, <1>3, <1>4, <1>9, <3>1
  <2>2. QED BY <2>1 DEF HeldOK
<1>13. WaitersOK'
  <2>1. \A k \in Mutexes : IsInjective(waiters'[k])
    BY <1>3, <1>9 DEF MutexInv, WaitersOK
  <2>2. ASSUME NEW u \in Threads, NEW k \in Mutexes
        PROVE  u \in Elements(waiters'[k]) <=> u \in Elements(waiters[k]) /\ u # next
    <3>1. next \in Elements(waiters[k]) => k = m
      BY <1>3 DEF MutexInv, WaitersOK
    <3>2. QED BY <1>3, <1>9, <3>1
  <2>3. ASSUME NEW u \in Threads
        PROVE  /\ \A k \in Mutexes : u \in Elements(waiters'[k]) => state'[u] = "blocked"
               /\ state'[u] = "blocked" => \E k \in Mutexes : u \in Elements(waiters'[k])
               /\ \A k, j \in Mutexes :
                     u \in Elements(waiters'[k]) /\ u \in Elements(waiters'[j]) => k = j
    BY <1>9, <2>2 DEF MutexInv, WaitersOK
  <2>4. QED BY <2>1, <2>3 DEF WaitersOK
<1>14. QED BY <1>8, <1>10, <1>11, <1>12, <1>13 DEF MutexInv

LEMMA TimeoutInv ==
    ASSUME MutexInv, NEW t \in Threads, NEW m \in used, Timeout(t, m), UNCHANGED fixed
    PROVE  MutexInv'
<1> DEFINE q == L!Delist(waiters[m], t)
<1>1. /\ t \in Listed(m) /\ waiters' = [waiters EXCEPT ![m] = q]
      /\ state' = [state EXCEPT ![t] = "ready"] /\ Reschedule
      /\ UNCHANGED <<value, owner, hold, orig, prio, wait, held>>
      /\ UNCHANGED <<used, flag>>
  BY DEF Timeout, fixed
<1>2. m \in Mutexes /\ t \in Elements(waiters[m])
  BY <1>1, Constants DEF MutexInv, TypeOK, Listed, L!Listed, Elements
<1>3. /\ q \in Seq(Threads) /\ IsInjective(q)
      /\ Elements(q) = Elements(waiters[m]) \ {t}
  <2>1. waiters[m] \in Seq(Threads) /\ IsInjective(waiters[m])
    BY <1>2 DEF MutexInv, TypeOK, WaitersOK
  <2>2. QED BY <2>1, DelistFacts
<1> HIDE DEF q
<1>4. state' \in [Threads -> {"ready", "blocked", "asleep"}]
  BY <1>1 DEF MutexInv, TypeOK
<1>5. CurrentOK' /\ current' \in Threads \cup {NULL}
  BY <1>1, <1>4, CurrentNext DEF MutexInv
<1>6. /\ \A k \in Mutexes : waiters'[k] = IF k = m THEN q ELSE waiters[k]
      /\ \A u \in Threads : state'[u] = IF u = t THEN "ready" ELSE state[u]
  BY <1>1 DEF MutexInv, TypeOK
<1>7. TypeOK'
  <2>1. waiters' \in [Mutexes -> Seq(Threads)]
    BY <1>1, <1>3 DEF MutexInv, TypeOK
  <2>2. QED BY <1>1, <1>4, <1>5, <2>1 DEF MutexInv, TypeOK
<1>8. OwnersOK'
  <2>1. ASSUME NEW k \in Mutexes
        PROVE  /\ waiters[k] = <<>> => waiters'[k] = <<>>
               /\ Elements(waiters'[k]) \subseteq Elements(waiters[k])
    <3>1. waiters[m] # <<>>
      BY <1>2, NobodyListed
    <3>2. QED BY <1>3, <1>6, <3>1
  <2>2. QED BY <1>1, <2>1 DEF MutexInv, OwnersOK
<1>9. HeldOK'
  BY <1>1 DEF MutexInv, HeldOK
<1>10. WaitersOK'
  <2>1. \A k \in Mutexes : IsInjective(waiters'[k])
    BY <1>3, <1>6 DEF MutexInv, WaitersOK
  <2>2. ASSUME NEW u \in Threads, NEW k \in Mutexes
        PROVE  u \in Elements(waiters'[k]) <=> u \in Elements(waiters[k]) /\ u # t
    <3>1. t \in Elements(waiters[k]) => k = m
      BY <1>2 DEF MutexInv, WaitersOK
    <3>2. QED BY <1>3, <1>6, <3>1
  <2>3. ASSUME NEW u \in Threads
        PROVE  /\ \A k \in Mutexes : u \in Elements(waiters'[k]) => state'[u] = "blocked"
               /\ state'[u] = "blocked" => \E k \in Mutexes : u \in Elements(waiters'[k])
               /\ \A k, j \in Mutexes :
                     u \in Elements(waiters'[k]) /\ u \in Elements(waiters'[j]) => k = j
    BY <1>6, <2>2 DEF MutexInv, WaitersOK
  <2>4. QED BY <2>1, <2>3 DEF WaitersOK
<1>11. QED BY <1>5, <1>7, <1>8, <1>9, <1>10 DEF MutexInv

(* Sleeping, waking and preemption leave the mutexes alone.                *)
LEMMA ScheduledInv ==
    ASSUME MutexInv, state' \in [Threads -> {"ready", "blocked", "asleep"}],
           \A t \in Threads : state'[t] = "blocked" <=> state[t] = "blocked",
           UNCHANGED <<mutexes, prio, wait, held>>, UNCHANGED fixed, Reschedule
    PROVE  MutexInv'
<1>1. UNCHANGED <<value, owner, hold, orig, waiters, used, flag, prio, wait, held>>
  BY DEF mutexes, fixed
<1>2. CurrentOK' /\ current' \in Threads \cup {NULL}
  BY CurrentNext DEF MutexInv
<1>3. TypeOK'
  BY <1>1, <1>2 DEF MutexInv, TypeOK
<1>4. OwnersOK' /\ HeldOK'
  BY <1>1 DEF MutexInv, OwnersOK, HeldOK
<1>5. WaitersOK'
  BY <1>1 DEF MutexInv, WaitersOK
<1>6. QED BY <1>2, <1>3, <1>4, <1>5 DEF MutexInv

LEMMA MutexInitInv == Init => MutexInv
<1> SUFFICES ASSUME Init PROVE MutexInv
  OBVIOUS
<1>1. TypeOK /\ CurrentOK
  BY Constants, MutexAssumption, NobodyListed DEF Init, TypeOK, CurrentOK, MostUrgent
<1>2. OwnersOK
  BY Constants, NobodyListed DEF Init, OwnersOK
<1>3. HeldOK /\ WaitersOK
  BY Constants, NobodyListed DEF Init, HeldOK, WaitersOK
<1>4. QED BY <1>1, <1>2, <1>3 DEF MutexInv

LEMMA UsedMutex ==
    ASSUME TypeOK, NEW m \in used
    PROVE  m \in Mutexes
BY Constants DEF TypeOK

LEMMA MutexNextInv ==
    ASSUME MutexInv, [Next]_vars
    PROVE  MutexInv'
<1>1. ASSUME Tick, UNCHANGED fixed PROVE MutexInv'
  BY <1>1, ScheduledInv DEF Tick, MutexInv, TypeOK
<1>2. ASSUME NEW t \in Threads, Sleep(t), UNCHANGED fixed PROVE MutexInv'
  <2>1. state' = [state EXCEPT ![t] = "asleep"] /\ state[t] = "ready"
    BY <1>2, Constants DEF Sleep, MutexInv, CurrentOK
  <2>2. state' \in [Threads -> {"ready", "blocked", "asleep"}]
    BY <2>1 DEF MutexInv, TypeOK
  <2>3. \A u \in Threads : state'[u] = "blocked" <=> state[u] = "blocked"
    BY <2>1 DEF MutexInv, TypeOK
  <2>4. QED BY <1>2, <2>2, <2>3, ScheduledInv DEF Sleep
<1>3. ASSUME NEW t \in Threads, Wake(t), UNCHANGED fixed PROVE MutexInv'
  <2>1. state' = [state EXCEPT ![t] = "ready"] /\ state[t] = "asleep"
    BY <1>3 DEF Wake
  <2>2. state' \in [Threads -> {"ready", "blocked", "asleep"}]
    BY <2>1 DEF MutexInv, TypeOK
  <2>3. \A u \in Threads : state'[u] = "blocked" <=> state[u] = "blocked"
    BY <2>1 DEF MutexInv, TypeOK
  <2>4. QED BY <1>3, <2>2, <2>3, ScheduledInv DEF Wake
<1>4. ASSUME NEW t \in Threads, NEW m \in used, Take(t, m), UNCHANGED fixed
      PROVE  MutexInv'
  <2>1. m \in Mutexes
    BY UsedMutex DEF MutexInv
  <2>2. QED BY <1>4, <2>1, TakeAgainInv, TakeFreeInv, TakeBlockInv DEF Take
<1>5. ASSUME NEW t \in Threads, NEW m \in used, Release(t, m), UNCHANGED fixed
      PROVE  MutexInv'
  <2>1. m \in Mutexes
    BY UsedMutex DEF MutexInv
  <2>2. CASE ReleaseInner(t, m)
    BY <1>5, <2>1, <2>2, ReleaseInnerInv DEF Release
  <2>3. CASE ReleaseLast(t, m)
    BY <1>5, <2>1, <2>3, HandOverInv, MakeAvailableInv DEF Release, ReleaseLast
  <2>4. QED BY <1>5, <2>2, <2>3 DEF Release
<1>6. ASSUME NEW t \in Threads, NEW m \in used, Timeout(t, m), UNCHANGED fixed
      PROVE  MutexInv'
  BY <1>6, TimeoutInv
<1>7. CASE UNCHANGED vars
  BY <1>7 DEF vars, fixed, mutexes, MutexInv, TypeOK, OwnersOK, HeldOK, WaitersOK, CurrentOK
<1>8. QED BY <1>1, <1>2, <1>3, <1>4, <1>5, <1>6, <1>7 DEF Next, Step

LEMMA MutexInvOwnership == MutexInv => Ownership
<1> SUFFICES ASSUME MutexInv PROVE Ownership
  OBVIOUS
<1>1. \A m \in Mutexes : Listed(m) = Elements(waiters[m])
  BY DEF Listed, L!Listed, Elements
<1>2. \A t \in Threads : {held[t][i] : i \in DOMAIN held[t]} = Elements(held[t])
  <2>1. ASSUME NEW t \in Threads PROVE DOMAIN held[t] = 1..Len(held[t])
    BY DEF MutexInv, TypeOK
  <2>2. QED BY <2>1 DEF Elements
<1>3. ASSUME NEW m \in Mutexes
      PROVE  /\ value[m] = 1 <=> owner[m] = NULL
             /\ hold[m] = 0 <=> owner[m] = NULL
             /\ waiters[m] # <<>> => owner[m] # NULL
             /\ owner[m] \notin Listed(m)
             /\ \A t \in Threads : owner[m] = t <=> m \in Elements(held[t])
  BY <1>1 DEF MutexInv, OwnersOK, HeldOK
<1>4. ASSUME NEW t \in Threads
      PROVE  state[t] = "blocked" <=>
                \E m \in Mutexes : /\ t \in Listed(m)
                                   /\ \A k \in Mutexes \ {m} : t \notin Listed(k)
  BY <1>1 DEF MutexInv, WaitersOK
<1>5. QED BY <1>2, <1>3, <1>4 DEF Ownership, MutexInv

(* For every set of threads and mutexes, their priorities and flags: a     *)
(* mutex is available or owned by the one thread that holds it, nobody     *)
(* waits for an available mutex or for one's own, and a thread is blocked  *)
(* on exactly one, through hand-overs, time-outs and nested takes.         *)
THEOREM MutexOwnership == Spec => []Ownership
<1>1. MutexInv /\ [Next]_vars => MutexInv'
  BY MutexNextInv
<1>2. QED BY MutexInitInv, MutexInvOwnership, <1>1, PTL DEF Spec

-----------------------------------------------------------------------------
(* Releases in the reverse order of taking.                                *)
LEMMA LastIn ==
    ASSUME NEW S, NEW s \in Seq(S), s # <<>>
    PROVE  s[Len(s)] \in Elements(s)
<1>1. Len(s) \in 1..Len(s)
  BY EmptySeq
<1>2. QED BY <1>1 DEF Elements

LEMMA DelistHead ==
    ASSUME NEW S, NEW s \in Seq(S), s # <<>>, IsInjective(s)
    PROVE  LET r == L!Delist(s, Head(s))
           IN  /\ r = <<>> => s[Len(s)] = Head(s)
               /\ r # <<>> => r[Len(r)] = s[Len(s)] /\ s[Len(s)] # Head(s)
<1> DEFINE e == Head(s)
           I == {i \in 1..Len(s) : s[i] = e}
           r == RemoveAt(s, 1)
<1>1. Len(s) \in Nat \ {0} /\ e = s[1] /\ DOMAIN s = 1..Len(s)
  BY EmptySeq, LenProperties
<1>2. I = {1}
  BY <1>1 DEF IsInjective
<1>3. Min(I) = 1
  <2>1. I \in SUBSET Nat /\ I # {}
    BY <1>2
  <2> HIDE DEF I
  <2>2. QED BY <1>2, <2>1, MinOf
<1>4. RemoveFirst(s, e) = r
  <2>1. RemoveFirst(s, e) = RemoveAt(s, Min(I))
    BY <1>2 DEF RemoveFirst, SelectInSeq
  <2> HIDE DEF I
  <2>2. QED BY <1>3, <2>1
<1>5. L!Delist(s, e) = r
  <2>1. L!Delist(s, e) = RemoveFirst(s, e)
    BY DEF L!Delist, L!RemoveFirst, RemoveFirst, L!RemoveAt, RemoveAt,
           L!SelectInSeq, SelectInSeq, L!Min, Min
  <2>2. QED BY <1>4, <2>1
<1> HIDE DEF e
<1>6. /\ r \in Seq(S) /\ Len(r) = Len(s) - 1
      /\ \A i \in 1..Len(s)-1 : r[i] = IF i < 1 THEN s[i] ELSE s[i+1]
  <2>1. 1 \in 1..Len(s)
    BY <1>1
  <2>2. QED BY <2>1, RemoveAtFacts
<1> HIDE DEF r
<1>7. r = <<>> => Len(s) = 1
  <2>1. r = <<>> => Len(r) = 0
    BY <1>6, EmptySeq
  <2>2. Len(r) = Len(s) - 1 /\ Len(s) \in Nat
    BY <1>1, <1>6
  <2>3. QED BY <2>1, <2>2
<1>8. r # <<>> => Len(r) \in 1..Len(s)-1
  BY <1>1, <1>6, EmptySeq
<1>9. r # <<>> => r[Len(r)] = s[Len(s)] /\ Len(s) # 1
  BY <1>1, <1>6, <1>8
<1>10. Len(s) # 1 => s[Len(s)] # s[1]
  BY <1>1 DEF IsInjective
<1>11. QED BY <1>1, <1>5, <1>7, <1>9, <1>10 DEF e

(* A thread whose list of mutexes, and what it goes back to, stay.         *)
LEMMA RestoredSame ==
    ASSUME MutexInv, NEW u \in Threads, RestoredAt(u), held'[u] = held[u],
           held[u] = <<>> => prio'[u] = prio[u],
           \A m \in Mutexes : owner[m] = u => orig'[m] = orig[m]
    PROVE  RestoredAt(u)'
<1>1. CASE held[u] = <<>>
  BY <1>1 DEF RestoredAt
<1>2. CASE held[u] # <<>>
  <2> DEFINE k == held[u][Len(held[u])]
  <2>1. k \in Elements(held[u]) /\ k \in Mutexes
    <3>1. held[u] \in Seq(Mutexes)
      BY DEF MutexInv, TypeOK
    <3>2. Len(held[u]) \in 1..Len(held[u])
      BY <1>2, <3>1, EmptySeq
    <3>3. QED BY <1>2, <3>1, <3>2, LastIn, ElementOfSeq
  <2>2. owner[k] = u
    BY <2>1 DEF MutexInv, HeldOK
  <2> HIDE DEF k
  <2>3. orig'[k] = orig[k]
    BY <2>1, <2>2
  <2>4. QED BY <1>2, <2>3 DEF RestoredAt, k
<1>3. QED BY <1>1, <1>2

LEMMA RestoredUnchanged ==
    ASSUME MutexInv, RestoredInv, UNCHANGED <<orig, prio, held>>
    PROVE  RestoredInv'
BY DEF RestoredInv, RestoredAt

LEMMA TakeFreeRestored ==
    ASSUME MutexInv, RestoredInv, NEW t \in Threads, NEW m \in Mutexes, TakeFree(t, m)
    PROVE  RestoredInv'
<1>1. /\ value[m] > 0 /\ orig' = [orig EXCEPT ![m] = prio[t]]
      /\ held' = [held EXCEPT ![t] = <<m>> \o @] /\ prio' = prio
  BY DEF TakeFree
<1>2. owner[m] = NULL
  BY <1>1 DEF MutexInv, OwnersOK, TypeOK
<1>3. \A k \in Mutexes : orig'[k] = IF k = m THEN prio[t] ELSE orig[k]
  BY <1>1 DEF MutexInv, TypeOK
<1>4. ASSUME NEW u \in Threads, u # t PROVE RestoredAt(u)'
  <2>1. held'[u] = held[u]
    BY <1>1, <1>4
  <2>2. \A k \in Mutexes : owner[k] = u => orig'[k] = orig[k]
    BY <1>2, <1>3, Constants
  <2>3. QED BY <1>1, <2>1, <2>2, RestoredSame DEF RestoredInv
<1>5. RestoredAt(t)'
  <2> DEFINE r == <<m>> \o held[t]
  <2>1. held[t] \in Seq(Mutexes) /\ IsInjective(held[t]) /\ m \notin Elements(held[t])
    BY <1>2, Constants DEF MutexInv, TypeOK, HeldOK
  <2>2. r # <<>> /\ r[Len(r)] = IF held[t] = <<>> THEN m ELSE held[t][Len(held[t])]
    BY <2>1, Prepended
  <2>3. held'[t] = r
    BY <1>1 DEF MutexInv, TypeOK
  <2> HIDE DEF r
  <2>4. CASE held[t] = <<>>
    BY <1>3, <2>2, <2>3, <2>4 DEF RestoredInv, RestoredAt
  <2>5. CASE held[t] # <<>>
    <3> DEFINE k == held[t][Len(held[t])]
    <3>1. k \in Elements(held[t])
      BY <2>1, <2>5, LastIn
    <3>2. k \in Mutexes
      BY <2>1, <2>5, EmptySeq, ElementOfSeq, LenProperties
    <3>3. orig'[k] = orig[k] /\ orig[k] = Base[t]
      BY <1>3, <2>1, <2>5, <3>1, <3>2 DEF RestoredInv, RestoredAt
    <3>4. QED BY <2>2, <2>3, <2>5, <3>3 DEF RestoredAt
  <2>6. QED BY <2>4, <2>5
<1>6. QED BY <1>4, <1>5 DEF RestoredInv

LEMMA TakeBlockRestored ==
    ASSUME MutexInv, RestoredInv, NEW t \in Threads, NEW m \in Mutexes, current = t,
           TakeBlock(t, m)
    PROVE  RestoredInv'
<1>1. /\ value[m] = 0 /\ prio' = Inherit(owner[m], prio[t])
      /\ UNCHANGED <<orig, held>>
  BY DEF TakeBlock
<1>2. owner[m] \in Threads /\ prio[t] \in Priorities
  BY <1>1, Constants DEF MutexInv, TypeOK, OwnersOK
<1>3. held[owner[m]] # <<>>
  BY <1>2, NobodyListed DEF MutexInv, HeldOK
<1>4. ASSUME NEW u \in Threads PROVE RestoredAt(u)'
  <2>1. held[u] = <<>> => prio'[u] = prio[u]
    BY <1>1, <1>2, <1>3, InheritTyped DEF MutexInv
  <2>2. QED BY <1>1, <2>1, RestoredSame DEF RestoredInv
<1>5. QED BY <1>4 DEF RestoredInv

(* The owner that releases what it took last.                              *)
LEMMA OwnerRestored ==
    ASSUME MutexInv, RestoredInv, NEW t \in Threads, NEW m \in Mutexes,
           owner[m] = t, Head(held[t]) = m, prio'[t] = orig[m],
           held'[t] = L!Delist(held[t], m),
           \A k \in Mutexes : k # m => orig'[k] = orig[k]
    PROVE  RestoredAt(t)'
<1> DEFINE l == L!Delist(held[t], m)
           k == held[t][Len(held[t])]
<1>1. /\ held[t] \in Seq(Mutexes) /\ IsInjective(held[t]) /\ m \in Elements(held[t])
      /\ held[t] # <<>>
  BY NobodyListed DEF MutexInv, TypeOK, HeldOK
<1>2. l = <<>> => k = m
  BY <1>1, DelistHead
<1>3. l # <<>> => l[Len(l)] = k /\ k # m
  BY <1>1, DelistHead
<1>4. k \in Mutexes
  BY <1>1, EmptySeq, ElementOfSeq, LenProperties
<1>5. orig[k] = Base[t]
  BY <1>1 DEF RestoredInv, RestoredAt
<1>6. held'[t] = l
  OBVIOUS
<1> HIDE DEF l, k
<1>7. CASE l = <<>>
  BY <1>2, <1>5, <1>6, <1>7 DEF RestoredAt
<1>8. CASE l # <<>>
  BY <1>3, <1>4, <1>5, <1>6, <1>8 DEF RestoredAt
<1>9. QED BY <1>7, <1>8

LEMMA MakeAvailableRestored ==
    ASSUME MutexInv, RestoredInv, NEW t \in Threads, NEW m \in Mutexes,
           owner[m] = t, Head(held[t]) = m, Restore(t, m), MakeAvailable(t, m)
    PROVE  RestoredInv'
<1>1. /\ prio' = [prio EXCEPT ![t] = orig[m]] /\ orig' = [orig EXCEPT ![m] = Unset]
      /\ held' = [held EXCEPT ![t] = L!Delist(@, m)]
  BY DEF Restore, MakeAvailable
<1>2. RestoredAt(t)'
  <2>1. prio'[t] = orig[m] /\ held'[t] = L!Delist(held[t], m)
    BY <1>1 DEF MutexInv, TypeOK
  <2>2. \A k \in Mutexes : k # m => orig'[k] = orig[k]
    BY <1>1 DEF MutexInv, TypeOK
  <2>3. QED BY <2>1, <2>2, OwnerRestored
<1>3. ASSUME NEW u \in Threads, u # t PROVE RestoredAt(u)'
  <2>1. held'[u] = held[u] /\ prio'[u] = prio[u]
    BY <1>1, <1>3
  <2>2. \A k \in Mutexes : owner[k] = u => orig'[k] = orig[k]
    BY <1>1, <1>3
  <2>3. QED BY <2>1, <2>2, RestoredSame DEF RestoredInv
<1>4. QED BY <1>2, <1>3 DEF RestoredInv

LEMMA HandOverRestored ==
    ASSUME MutexInv, RestoredInv, NEW t \in Threads, NEW m \in Mutexes,
           owner[m] = t, waiters[m] # <<>>, Head(held[t]) = m,
           Restore(t, m), HandOver(t, m)
    PROVE  RestoredInv'
<1> PICK next \in Threads : next = Head(waiters[m]) /\ next # t
  <2> DEFINE h == Head(waiters[m])
  <2>1. h \in Threads /\ h # t
    BY NextOwnerFacts
  <2> HIDE DEF h
  <2>2. \E n \in Threads : n = h /\ n # t
    BY <2>1
  <2>3. QED BY <2>2 DEF h
<1> DEFINE r == <<m>> \o held[next]
<1>1. /\ prio' = [prio EXCEPT ![t] = orig[m]] /\ orig' = [orig EXCEPT ![m] = prio[next]]
      /\ held' = [held EXCEPT ![t] = L!Delist(@, m), ![next] = <<m>> \o @]
  <2> DEFINE h == Head(waiters[m])
  <2>1. /\ prio' = [prio EXCEPT ![t] = orig[m]] /\ orig' = [orig EXCEPT ![m] = prio[h]]
        /\ held' = [held EXCEPT ![t] = L!Delist(@, m), ![h] = <<m>> \o @]
    BY DEF Restore, HandOver, NextOwner
  <2>2. h = next
    OBVIOUS
  <2> HIDE DEF h
  <2>3. QED BY <2>1, <2>2
<1>2. next \in Threads /\ next # t
  OBVIOUS
<1>3. /\ \A k \in Mutexes : orig'[k] = IF k = m THEN prio[next] ELSE orig[k]
      /\ held'[t] = L!Delist(held[t], m) /\ held'[next] = r
      /\ \A u \in Threads : u # t /\ u # next => held'[u] = held[u]
      /\ prio'[t] = orig[m] /\ \A u \in Threads : u # t => prio'[u] = prio[u]
  BY <1>1, <1>2 DEF MutexInv, TypeOK
<1>4. /\ held[next] \in Seq(Mutexes) /\ IsInjective(held[next])
      /\ m \notin Elements(held[next])
  BY <1>2 DEF MutexInv, TypeOK, HeldOK
<1>5. r # <<>> /\ r[Len(r)] = IF held[next] = <<>> THEN m ELSE held[next][Len(held[next])]
  BY <1>4, Prepended
<1> HIDE DEF r
<1>6. RestoredAt(t)'
  BY <1>3, OwnerRestored
<1>7. ASSUME NEW u \in Threads, u # t, u # next PROVE RestoredAt(u)'
  <2>1. \A k \in Mutexes : owner[k] = u => orig'[k] = orig[k]
    BY <1>3, <1>7
  <2>2. QED BY <1>3, <1>7, <2>1, RestoredSame DEF RestoredInv
<1>8. RestoredAt(next)'
  <2>1. CASE held[next] = <<>>
    BY <1>2, <1>3, <1>5, <2>1 DEF RestoredInv, RestoredAt
  <2>2. CASE held[next] # <<>>
    <3> DEFINE k == held[next][Len(held[next])]
    <3>1. k \in Elements(held[next])
      BY <1>4, <2>2, LastIn
    <3>2. k \in Mutexes
      BY <1>4, <2>2, EmptySeq, ElementOfSeq, LenProperties
    <3>3. orig'[k] = orig[k] /\ orig[k] = Base[next]
      BY <1>2, <1>3, <1>4, <2>2, <3>1, <3>2 DEF RestoredInv, RestoredAt
    <3>4. QED BY <1>3, <1>5, <2>2, <3>3 DEF RestoredAt
  <2>3. QED BY <2>1, <2>2
<1>9. QED BY <1>6, <1>7, <1>8 DEF RestoredInv

LEMMA RestoredNext ==
    ASSUME Lifo, MutexInv, RestoredInv, [Next]_vars
    PROVE  RestoredInv'
<1>1. ASSUME Tick \/ (\E t \in Threads : Sleep(t) \/ Wake(t)) PROVE RestoredInv'
  BY <1>1, RestoredUnchanged DEF Tick, Sleep, Wake, mutexes
<1>2. ASSUME NEW t \in Threads, NEW m \in used, Take(t, m) PROVE RestoredInv'
  <2>1. m \in Mutexes /\ current = t
    BY <1>2, UsedMutex DEF MutexInv, Take
  <2>2. CASE TakeAgain(t, m)
    BY <2>2, RestoredUnchanged DEF TakeAgain
  <2>3. CASE TakeFree(t, m)
    BY <2>1, <2>3, TakeFreeRestored
  <2>4. CASE TakeBlock(t, m)
    BY <2>1, <2>4, TakeBlockRestored
  <2>5. QED BY <1>2, <2>2, <2>3, <2>4 DEF Take
<1>3. ASSUME NEW t \in Threads, NEW m \in used, Release(t, m) PROVE RestoredInv'
  <2>1. m \in Mutexes /\ owner[m] = t /\ Head(held[t]) = m
    BY <1>3, UsedMutex DEF MutexInv, Release
  <2>2. CASE ReleaseInner(t, m)
    BY <2>2, RestoredUnchanged DEF ReleaseInner
  <2>3. CASE ReleaseLast(t, m)
    BY <2>1, <2>3, HandOverRestored, MakeAvailableRestored DEF ReleaseLast
  <2>4. QED BY <1>3, <2>2, <2>3 DEF Release
<1>4. ASSUME NEW t \in Threads, NEW m \in used, Timeout(t, m) PROVE RestoredInv'
  BY <1>4, RestoredUnchanged DEF Timeout
<1>5. CASE UNCHANGED vars
  BY <1>5, RestoredUnchanged DEF vars, mutexes
<1>6. QED BY <1>1, <1>2, <1>3, <1>4, <1>5 DEF Next, Step

(* With releases in the reverse order of taking, a thread that holds no    *)
(* mutex runs at its own priority again, whatever it inherited on the way  *)
(* (rt_mutex_release goes back to the priority of the take).               *)
THEOREM PriorityGivenBack == Lifo => (Spec => []PriorityRestored)
<1> SUFFICES ASSUME Lifo PROVE Spec => []PriorityRestored
  OBVIOUS
<1>1. Init => MutexInv /\ RestoredInv
  BY MutexInitInv DEF Init, RestoredInv, RestoredAt
<1>2. MutexInv /\ RestoredInv /\ [Next]_vars => MutexInv' /\ RestoredInv'
  BY MutexNextInv, RestoredNext
<1>3. RestoredInv => PriorityRestored
  BY DEF RestoredInv, RestoredAt, PriorityRestored
<1>4. QED BY <1>1, <1>2, <1>3, PTL DEF Spec

-----------------------------------------------------------------------------
(* The lists of a mutex with the PRIO flag are in order.                   *)
LEMMA OrderedSame ==
    ASSUME NEW s \in Seq(Threads), NEW p, NEW q, Ordered(s, p),
           \A e \in Elements(s) : q[e] = p[e]
    PROVE  Ordered(s, q)
BY DEF Ordered, Elements

LEMMA EnlistOrdered ==
    ASSUME flag = "PRIO", prio \in [Threads -> Nat],
           NEW s \in Seq(Threads), NEW e \in Threads, Ordered(s, prio)
    PROVE  Ordered(L!Enlist(s, e), prio)
<1> DEFINE n == L!Place(s, e)
           I == {i \in 1..Len(s) : prio[e] < prio[s[i]]}
           l == L!Enlist(s, e)
<1>1. Len(s) \in Nat /\ \A i \in 1..Len(s) : s[i] \in Threads
  BY LenProperties, ElementOfSeq
<1>2. n = IF I # {} THEN L!Min(I) ELSE 0
  BY DEF L!Place, L!SelectInSeq
<1>3. I # {} => n \in I /\ \A i \in I : n <= i
  <2>1. I \in SUBSET Nat
    OBVIOUS
  <2>2. I # {} => L!Min(I) \in I /\ \A i \in I : L!Min(I) <= i
    BY <2>1, MinOf DEF Min, L!Min
  <2> HIDE DEF n, I
  <2>3. QED BY <1>2, <2>2
<1>4. l = IF n = 0 THEN Append(s, e) ELSE InsertAt(s, n, e)
  BY DEF L!Enlist, L!InsertAt, InsertAt
<1> HIDE DEF n, l
<1>5. CASE I = {}
  <2>1. n = 0
    BY <1>2, <1>5
  <2>2. \A i \in 1..Len(s) : prio[s[i]] <= prio[e]
    <3>1. \A i \in 1..Len(s) : ~(prio[e] < prio[s[i]])
      BY <1>5
    <3>2. QED BY <1>1, <3>1
  <2>3. Len(l) = Len(s)+1 /\ \A i \in 1..Len(s)+1 : l[i] = IF i = Len(s)+1 THEN e ELSE s[i]
    BY <1>1, <1>4, <2>1, AppendProperties
  <2>4. ASSUME NEW i \in 1..Len(s)+1, NEW j \in 1..Len(s)+1, i < j
        PROVE  prio[l[i]] <= prio[l[j]]
    <3>1. i \in 1..Len(s) /\ l[i] = s[i]
      BY <1>1, <2>3, <2>4
    <3>2. CASE j = Len(s)+1
      BY <2>2, <2>3, <3>1, <3>2
    <3>3. CASE j # Len(s)+1
      <4>1. j \in 1..Len(s) /\ l[j] = s[j]
        BY <1>1, <2>3, <3>3
      <4>2. QED BY <2>4, <3>1, <4>1 DEF Ordered
    <3>4. QED BY <3>2, <3>3
  <2>5. QED BY <2>3, <2>4 DEF Ordered, l
<1>6. CASE I # {}
  <2>1. n \in 1..Len(s) /\ prio[e] < prio[s[n]] /\ n # 0
    BY <1>1, <1>3, <1>6
  <2>2. \A i \in 1..Len(s) : i < n => prio[s[i]] <= prio[e]
    <3>1. ASSUME NEW i \in 1..Len(s), i < n PROVE ~(prio[e] < prio[s[i]])
      BY <1>1, <1>3, <1>6, <2>1, <3>1
    <3>2. QED BY <1>1, <3>1
  <2>3. \A i \in 1..Len(s) : i >= n => prio[e] <= prio[s[i]]
    <3>1. ASSUME NEW i \in 1..Len(s), i > n PROVE prio[e] <= prio[s[i]]
      <4>1. prio[s[n]] <= prio[s[i]]
        BY <1>1, <2>1, <3>1 DEF Ordered
      <4>2. prio[s[n]] \in Nat /\ prio[s[i]] \in Nat /\ prio[e] \in Nat
        BY <1>1, <2>1
      <4>3. QED BY <2>1, <4>1, <4>2
    <3>2. prio[e] <= prio[s[n]]
      <4>1. prio[s[n]] \in Nat /\ prio[e] \in Nat
        BY <1>1, <2>1
      <4>2. QED BY <2>1, <4>1
    <3>3. QED BY <1>1, <2>1, <3>1, <3>2
  <2>4. /\ Len(l) = Len(s)+1
        /\ \A i \in 1..Len(s)+1 :
              l[i] = IF i < n THEN s[i] ELSE IF i = n THEN e ELSE s[i-1]
    <3>1. n \in 1..Len(s)+1
      BY <1>1, <2>1
    <3>2. l = InsertAt(s, n, e)
      BY <1>4, <2>1
    <3>3. /\ Len(InsertAt(s, n, e)) = Len(s)+1
          /\ \A i \in 1..Len(s)+1 : InsertAt(s, n, e)[i] =
                IF i < n THEN s[i] ELSE IF i = n THEN e ELSE s[i-1]
      BY <3>1, InsertAtFacts
    <3>4. QED BY <3>2, <3>3
  <2>5. ASSUME NEW i \in 1..Len(s)+1, NEW j \in 1..Len(s)+1, i < j
        PROVE  prio[l[i]] <= prio[l[j]]
    <3>1. CASE j < n
      <4>1. i \in 1..Len(s) /\ j \in 1..Len(s) /\ l[i] = s[i] /\ l[j] = s[j]
        BY <1>1, <2>1, <2>4, <2>5, <3>1
      <4>2. QED BY <2>5, <4>1 DEF Ordered
    <3>2. CASE j = n
      <4>1. i \in 1..Len(s) /\ i < n /\ l[i] = s[i] /\ l[j] = e
        BY <1>1, <2>1, <2>4, <2>5, <3>2
      <4>2. QED BY <2>2, <4>1
    <3>3. CASE j > n
      <4>1. j-1 \in 1..Len(s) /\ j-1 >= n /\ l[j] = s[j-1]
        BY <1>1, <2>1, <2>4, <3>3
      <4>2. prio[e] <= prio[l[j]] /\ s[j-1] \in Threads
        BY <1>1, <2>3, <4>1
      <4>3. CASE i < n
        <5>1. i \in 1..Len(s) /\ l[i] = s[i] /\ prio[s[i]] <= prio[e]
          BY <1>1, <2>1, <2>2, <2>4, <4>3
        <5>2. prio[s[i]] \in Nat /\ prio[e] \in Nat /\ prio[l[j]] \in Nat
          BY <1>1, <4>1, <4>2, <5>1
        <5>3. QED BY <4>2, <5>1, <5>2
      <4>4. CASE i = n
        BY <2>1, <2>4, <4>2, <4>4
      <4>5. CASE i > n
        <5>1. i-1 \in 1..Len(s) /\ l[i] = s[i-1] /\ i-1 < j-1
          BY <1>1, <2>1, <2>4, <2>5, <4>5
        <5>2. QED BY <4>1, <5>1 DEF Ordered
      <4>6. QED BY <2>1, <4>3, <4>4, <4>5
    <3>4. QED BY <2>1, <3>1, <3>2, <3>3
  <2>6. QED BY <2>4, <2>5 DEF Ordered, l
<1>7. QED BY <1>5, <1>6

LEMMA DelistOrdered ==
    ASSUME NEW s \in Seq(Threads), NEW e, NEW p, Ordered(s, p)
    PROVE  Ordered(L!Delist(s, e), p)
<1> DEFINE I == {i \in 1..Len(s) : s[i] = e}
           l == L!Delist(s, e)
<1>1. Len(s) \in Nat
  BY LenProperties
<1>2. l = IF I # {} THEN RemoveAt(s, Min(I)) ELSE s
  <2>1. l = RemoveFirst(s, e)
    BY DEF L!Delist, L!RemoveFirst, RemoveFirst, L!RemoveAt, RemoveAt,
           L!SelectInSeq, SelectInSeq, L!Min, Min
  <2>2. CASE I = {}
    BY <2>1, <2>2 DEF RemoveFirst
  <2>3. CASE I # {}
    <3>1. RemoveFirst(s, e) = RemoveAt(s, Min(I))
      BY <2>3 DEF RemoveFirst, SelectInSeq
    <3> HIDE DEF I, l
    <3>2. QED BY <2>1, <2>3, <3>1
  <2>4. QED BY <2>2, <2>3
<1>3. CASE I = {}
  BY <1>2, <1>3
<1>4. CASE I # {}
  <2> DEFINE k == Min(I)
  <2>1. k \in 1..Len(s)
    <3>1. I \in SUBSET Nat
      OBVIOUS
    <3>2. k \in I
      <4> HIDE DEF I
      <4>1. QED BY <1>4, <3>1, MinOf
    <3>3. QED BY <3>2
  <2> HIDE DEF k, l
  <2>2. l = RemoveAt(s, k)
    BY <1>2, <1>4 DEF k
  <2>3. /\ Len(l) = Len(s) - 1
        /\ \A i \in 1..Len(s)-1 : l[i] = IF i < k THEN s[i] ELSE s[i+1]
    BY <2>1, <2>2, RemoveAtFacts
  <2>4. ASSUME NEW i \in 1..Len(s)-1, NEW j \in 1..Len(s)-1, i < j
        PROVE  p[l[i]] <= p[l[j]]
    <3>1. \E a, b \in 1..Len(s) : a < b /\ l[i] = s[a] /\ l[j] = s[b]
      <4>1. CASE j < k
        BY <1>1, <2>1, <2>3, <2>4, <4>1, SMTT(30)
      <4>2. CASE i < k /\ j >= k
        <5>1. i \in 1..Len(s) /\ j+1 \in 1..Len(s) /\ i < j+1
          BY <1>1, <2>4
        <5>2. QED BY <2>3, <4>2, <5>1, <2>1
      <4>3. CASE i >= k
        <5>1. i+1 \in 1..Len(s) /\ j+1 \in 1..Len(s) /\ i+1 < j+1 /\ j >= k
          BY <1>1, <2>1, <2>4, <4>3
        <5>2. l[i] = s[i+1] /\ l[j] = s[j+1]
          BY <1>1, <2>1, <2>3, <4>3, <5>1
        <5>3. QED BY <5>1, <5>2
      <4>4. QED BY <1>1, <2>1, <4>1, <4>2, <4>3
    <3>2. QED BY <3>1 DEF Ordered
  <2>5. QED BY <2>3, <2>4 DEF Ordered, l
<1>5. QED BY <1>3, <1>4

(* The first of an ordered list is the most urgent, and the rest is        *)
(* ordered.                                                                *)
LEMMA HeadUrgent ==
    ASSUME NEW s \in Seq(Threads), s # <<>>, NEW p \in [Threads -> Nat], Ordered(s, p)
    PROVE  /\ \A e \in Elements(s) : p[Head(s)] <= p[e]
           /\ Ordered(Tail(s), p)
<1>1. Len(s) \in Nat \ {0} /\ Head(s) = s[1] /\ \A i \in 1..Len(s) : s[i] \in Threads
  BY EmptySeq, ElementOfSeq
<1>2. ASSUME NEW i \in 1..Len(s) PROVE p[s[1]] <= p[s[i]]
  <2>1. 1 \in 1..Len(s) /\ (i = 1 \/ 1 < i)
    BY <1>1
  <2>2. p[s[1]] \in Nat
    BY <1>1, <2>1
  <2>3. QED BY <2>1, <2>2 DEF Ordered
<1>3. /\ Tail(s) \in Seq(Threads) /\ Len(Tail(s)) = Len(s) - 1
      /\ \A i \in 1..Len(Tail(s)) : Tail(s)[i] = s[i + 1]
  BY HeadTailProperties
<1>4. ASSUME NEW i \in 1..Len(Tail(s)), NEW j \in 1..Len(Tail(s)), i < j
      PROVE  p[Tail(s)[i]] <= p[Tail(s)[j]]
  <2>1. i+1 \in 1..Len(s) /\ j+1 \in 1..Len(s) /\ i+1 < j+1
    BY <1>1, <1>3, <1>4
  <2>2. QED BY <1>3, <2>1 DEF Ordered
<1>5. QED BY <1>1, <1>2, <1>4 DEF Ordered, Elements

-----------------------------------------------------------------------------
(* Priority inheritance with a single mutex.                               *)
LEMMA RescheduleUrgent ==
    ASSUME Reschedule, NEW u \in Threads, state'[u] = "ready"
    PROVE  current' \in Threads /\ prio'[current'] <= prio'[u]
BY DEF Reschedule, MostUrgent

(* The scheduler never lets a thread run that is less urgent than a ready  *)
(* owner.                                                                  *)
LEMMA UrgentScheduled ==
    ASSUME MutexInv', NEW m \in Mutexes, Reschedule,
           Ordered(waiters'[m], prio'),
           \A t \in Elements(waiters'[m]) : prio'[owner'[m]] <= prio'[t]
    PROVE  UrgentAt(m)'
<1>1. ASSUME NEW t \in Elements(waiters'[m]), state'[owner'[m]] = "ready"
      PROVE  current' # NULL /\ prio'[current'] <= prio'[t]
  <2>1. t \in Threads /\ owner'[m] \in Threads
    <3>1. waiters'[m] # <<>> /\ waiters'[m] \in Seq(Threads)
      BY <1>1, NobodyListed DEF MutexInv, TypeOK
    <3>2. owner'[m] # NULL /\ owner'[m] \in Threads \cup {NULL}
      BY <3>1 DEF MutexInv, OwnersOK, TypeOK
    <3>3. t \in Threads
      BY <3>1, ElementOfSeq DEF Elements
    <3>4. QED BY <3>2, <3>3
  <2>2. current' \in Threads /\ prio'[current'] <= prio'[owner'[m]]
    BY <1>1, <2>1, RescheduleUrgent
  <2>3. prio'[current'] \in Nat /\ prio'[owner'[m]] \in Nat /\ prio'[t] \in Nat
    BY <2>1, <2>2, Constants DEF MutexInv, TypeOK
  <2>4. prio'[owner'[m]] <= prio'[t]
    OBVIOUS
  <2>5. prio'[current'] <= prio'[t]
    BY <2>2, <2>3, <2>4
  <2>6. QED BY <2>2, <2>5, Constants
<1>2. QED BY <1>1 DEF UrgentAt

LEMMA UrgentNobody ==
    ASSUME NEW m \in Mutexes, waiters'[m] = <<>>
    PROVE  UrgentAt(m)'
<1>1. Ordered(<<>>, prio')
  BY DEF Ordered
<1>2. Elements(<<>>) = {}
  BY NobodyListed
<1>3. Ordered(waiters'[m], prio') /\ Elements(waiters'[m]) = {}
  BY <1>1, <1>2
<1>4. QED BY <1>3 DEF UrgentAt

LEMMA UrgentUnchanged ==
    ASSUME NEW m \in Mutexes, UrgentAt(m), UNCHANGED <<waiters, owner, prio, state, current>>
    PROVE  UrgentAt(m)'
BY DEF UrgentAt

LEMMA WaiterFacts ==
    ASSUME MutexInv, NEW m \in Mutexes
    PROVE  /\ waiters[m] \in Seq(Threads) /\ prio \in [Threads -> Nat]
           /\ \A u \in Elements(waiters[m]) :
                 /\ u \in Threads /\ u # owner[m] /\ state[u] = "blocked"
                 /\ owner[m] \in Threads
<1>1. waiters[m] \in Seq(Threads) /\ prio \in [Threads -> Nat]
  BY Constants DEF MutexInv, TypeOK
<1>2. ASSUME NEW u \in Elements(waiters[m])
      PROVE  u \in Threads /\ u # owner[m] /\ state[u] = "blocked" /\ owner[m] \in Threads
  <2>1. u \in Threads
    BY <1>1, ElementOfSeq DEF Elements
  <2>2. waiters[m] # <<>>
    BY NobodyListed
  <2>3. QED BY <2>1, <2>2 DEF MutexInv, TypeOK, OwnersOK, WaitersOK
<1>3. QED BY <1>1, <1>2

LEMMA TakeBlockUrgent ==
    ASSUME MutexInv, MutexInv', NEW t \in Threads, NEW m \in Mutexes, UrgentAt(m),
           flag = "PRIO", current = t, TakeBlock(t, m)
    PROVE  UrgentAt(m)'
<1> DEFINE o == owner[m]
           l == L!Enlist(waiters[m], t)
<1>1. /\ o # t /\ value[m] = 0 /\ prio' = Inherit(o, prio[t])
      /\ waiters' = [waiters EXCEPT ![m] = l] /\ owner' = owner /\ Reschedule
  BY DEF TakeBlock
<1>2. /\ waiters[m] \in Seq(Threads) /\ prio \in [Threads -> Nat]
      /\ \A u \in Elements(waiters[m]) : u \in Threads /\ u # o
  BY WaiterFacts
<1>3. o \in Threads /\ prio[t] \in Priorities
  BY <1>1 DEF MutexInv, TypeOK, OwnersOK
<1>4. /\ \A u \in Threads : u # o => prio'[u] = prio[u]
      /\ prio'[o] <= prio[t] /\ prio'[o] <= prio[o] /\ prio'[o] \in Nat
  <2>1. /\ Inherit(o, prio[t]) \in [Threads -> Priorities]
        /\ \A u \in Threads : u # o => Inherit(o, prio[t])[u] = prio[u]
        /\ Inherit(o, prio[t])[o] <= prio[t] /\ Inherit(o, prio[t])[o] <= prio[o]
    BY <1>3, InheritTyped DEF MutexInv
  <2>2. prio'[o] \in Nat
    BY <1>1, <1>3, <2>1, Constants
  <2>3. QED BY <1>1, <2>1, <2>2
<1>5. l \in Seq(Threads) /\ Elements(l) = Elements(waiters[m]) \cup {t}
  BY <1>2, EnlistFacts
<1>6. Ordered(l, prio)
  BY <1>2, EnlistOrdered DEF UrgentAt
<1>7. \A u \in Elements(waiters[m]) : prio[o] <= prio[u]
  BY DEF UrgentAt
<1>8. waiters'[m] = l /\ owner'[m] = o
  BY <1>1 DEF MutexInv, TypeOK
<1> HIDE DEF o, l
<1>9. Ordered(l, prio')
  BY <1>1, <1>2, <1>4, <1>5, <1>6, OrderedSame
<1>10. ASSUME NEW u \in Elements(l) PROVE prio'[o] <= prio'[u]
  <2>1. CASE u = t
    BY <1>1, <1>4, <2>1
  <2>2. CASE u \in Elements(waiters[m])
    <3>1. prio'[u] = prio[u] /\ prio[o] <= prio[u] /\ prio[u] \in Nat /\ prio[o] \in Nat
      BY <1>2, <1>3, <1>4, <1>7, <2>2
    <3>2. QED BY <1>4, <3>1
  <2>3. QED BY <1>5, <2>1, <2>2
<1>11. QED BY <1>1, <1>8, <1>9, <1>10, UrgentScheduled

LEMMA HandOverUrgent ==
    ASSUME MutexInv, MutexInv', NEW t \in Threads, NEW m \in Mutexes, UrgentAt(m),
           owner[m] = t, waiters[m] # <<>>, Restore(t, m), HandOver(t, m)
    PROVE  /\ UrgentAt(m)'
           /\ \A u \in Elements(waiters[m]) : prio[owner'[m]] <= prio[u]
<1> DEFINE next == Head(waiters[m])
           q    == Tail(waiters[m])
<1>1. /\ owner' = [owner EXCEPT ![m] = next] /\ waiters' = [waiters EXCEPT ![m] = q]
      /\ prio' = [prio EXCEPT ![t] = orig[m]] /\ Reschedule
  BY DEF HandOver, NextOwner, Restore
<1>2. owner'[m] = next /\ waiters'[m] = q
  BY <1>1 DEF MutexInv, TypeOK
<1>3. /\ waiters[m] \in Seq(Threads) /\ prio \in [Threads -> Nat]
      /\ \A u \in Elements(waiters[m]) : u \in Threads /\ u # t
  BY WaiterFacts
<1>4. /\ next \in Elements(waiters[m]) /\ q \in Seq(Threads)
      /\ Elements(q) = Elements(waiters[m]) \ {next}
  BY NextOwnerFacts, <1>3, HeadLeaves DEF MutexInv, WaitersOK
<1>5. \A u \in Elements(waiters[m]) : prio'[u] = prio[u]
  BY <1>1, <1>3
<1>6. Ordered(q, prio) /\ \A u \in Elements(waiters[m]) : prio[next] <= prio[u]
  BY <1>3, HeadUrgent DEF UrgentAt
<1> HIDE DEF next, q
<1>7. Ordered(q, prio')
  BY <1>4, <1>5, <1>6, OrderedSame
<1>8. \A u \in Elements(q) : prio'[next] <= prio'[u]
  BY <1>4, <1>5, <1>6
<1>9. UrgentAt(m)'
  BY <1>1, <1>2, <1>7, <1>8, UrgentScheduled
<1>10. QED BY <1>2, <1>6, <1>9

LEMMA TimeoutUrgent ==
    ASSUME MutexInv, MutexInv', NEW t \in Threads, NEW m \in Mutexes, UrgentAt(m),
           Timeout(t, m)
    PROVE  UrgentAt(m)'
<1> DEFINE q == L!Delist(waiters[m], t)
<1>1. /\ waiters' = [waiters EXCEPT ![m] = q] /\ UNCHANGED <<owner, prio>> /\ Reschedule
  BY DEF Timeout
<1>2. waiters[m] \in Seq(Threads) /\ IsInjective(waiters[m])
  BY WaiterFacts DEF MutexInv, WaitersOK
<1>3. Ordered(q, prio)
  BY <1>2, DelistOrdered DEF UrgentAt
<1>4. Elements(q) \subseteq Elements(waiters[m])
  BY <1>2, DelistFacts
<1>5. waiters'[m] = q
  BY <1>1 DEF MutexInv, TypeOK
<1>6. \A u \in Elements(waiters[m]) : prio[owner[m]] <= prio[u]
  BY DEF UrgentAt
<1> HIDE DEF q
<1>7. Ordered(waiters'[m], prio') /\ \A u \in Elements(waiters'[m]) : prio'[owner'[m]] <= prio'[u]
  BY <1>1, <1>3, <1>4, <1>5, <1>6
<1>8. QED BY <1>1, <1>7, UrgentScheduled

(* Sleeping, waking and preemption.                                        *)
LEMMA ScheduledUrgent ==
    ASSUME MutexInv', NEW m \in Mutexes, UrgentAt(m),
           UNCHANGED <<mutexes, prio>>, Reschedule
    PROVE  UrgentAt(m)'
<1>1. UNCHANGED <<waiters, owner, prio>>
  BY DEF mutexes
<1>2. Ordered(waiters'[m], prio') /\ \A u \in Elements(waiters'[m]) : prio'[owner'[m]] <= prio'[u]
  BY <1>1 DEF UrgentAt
<1>3. QED BY <1>2, UrgentScheduled

LEMMA OnlyMutex ==
    ASSUME MutexInv, OnePrioMutex
    PROVE  \E m \in Mutexes : used = {m}
<1>1. used \subseteq Mutexes
  BY Constants DEF MutexInv, TypeOK
<1>2. IsFiniteSet(used)
  BY <1>1, Constants, FS_Subset
<1>3. \E m : used = {m}
  BY <1>2, FS_Singleton DEF OnePrioMutex
<1>4. QED BY <1>1, <1>3

LEMMA UrgentNext ==
    ASSUME MutexInv, MutexInv', UrgentInv, [Next]_vars
    PROVE  /\ UrgentInv'
           /\ OnePrioMutex =>
                \A m \in used : owner'[m] # owner[m] /\ waiters[m] # <<>> =>
                    \A u \in Listed(m) : prio[owner'[m]] <= prio[u]
<1>1. UNCHANGED <<used, flag>>
  BY DEF Next, Step, vars, fixed
<1> SUFFICES ASSUME OnePrioMutex
             PROVE  /\ \A k \in Mutexes : UrgentAt(k)'
                    /\ \A m \in used : owner'[m] # owner[m] /\ waiters[m] # <<>> =>
                          \A u \in Elements(waiters[m]) : prio[owner'[m]] <= prio[u]
  <2>1. \A m \in used : Listed(m) = Elements(waiters[m])
    BY DEF Listed, L!Listed, Elements
  <2>2. OnePrioMutex' <=> OnePrioMutex
    BY <1>1 DEF OnePrioMutex
  <2>3. QED BY <2>1, <2>2 DEF UrgentInv
<1>2. PICK m \in Mutexes : used = {m}
  BY OnlyMutex
<1>3. UrgentAt(m) /\ flag = "PRIO"
  BY DEF UrgentInv, OnePrioMutex
<1>4. ASSUME NEW k \in Mutexes, k # m PROVE UrgentAt(k)'
  <2>1. k \notin used'
    BY <1>1, <1>2, <1>4
  <2>2. waiters'[k] = <<>>
    BY <2>1 DEF MutexInv, OwnersOK
  <2>3. QED BY <2>2, UrgentNobody
<1> SUFFICES /\ UrgentAt(m)'
             /\ owner'[m] = owner[m] \/ waiters[m] = <<>>
                  \/ \A u \in Elements(waiters[m]) : prio[owner'[m]] <= prio[u]
  BY <1>2, <1>4
<1>5. ASSUME Tick \/ (\E t \in Threads : Sleep(t) \/ Wake(t))
      PROVE  UrgentAt(m)' /\ owner' = owner
  BY <1>3, <1>5, ScheduledUrgent DEF Tick, Sleep, Wake, mutexes
<1>6. ASSUME NEW t \in Threads, Take(t, m)
      PROVE  /\ UrgentAt(m)'
             /\ owner'[m] = owner[m] \/ waiters[m] = <<>>
  <2>1. CASE TakeAgain(t, m)
    BY <1>3, <2>1, UrgentUnchanged DEF TakeAgain
  <2>2. CASE TakeFree(t, m)
    <3>1. waiters[m] = <<>> /\ waiters' = waiters
      BY <2>2 DEF TakeFree, MutexInv, TypeOK, OwnersOK
    <3>2. QED BY <3>1, UrgentNobody
  <2>3. CASE TakeBlock(t, m)
    <3>1. owner' = owner /\ current = t
      BY <1>6, <2>3 DEF Take, TakeBlock
    <3>2. QED BY <1>3, <2>3, <3>1, TakeBlockUrgent
  <2>4. QED BY <1>6, <2>1, <2>2, <2>3 DEF Take
<1>7. ASSUME NEW t \in Threads, Release(t, m)
      PROVE  /\ UrgentAt(m)'
             /\ owner'[m] = owner[m] \/ waiters[m] = <<>>
                  \/ \A u \in Elements(waiters[m]) : prio[owner'[m]] <= prio[u]
  <2>1. owner[m] = t
    BY <1>7 DEF Release
  <2>2. CASE ReleaseInner(t, m)
    BY <1>3, <2>2, UrgentUnchanged DEF ReleaseInner
  <2>3. CASE ReleaseLast(t, m) /\ waiters[m] # <<>>
    <3>1. Restore(t, m) /\ HandOver(t, m)
      BY <2>3 DEF ReleaseLast
    <3>2. QED BY <1>3, <2>1, <2>3, <3>1, HandOverUrgent
  <2>4. CASE ReleaseLast(t, m) /\ waiters[m] = <<>>
    <3>1. waiters' = waiters
      BY <2>4 DEF ReleaseLast, MakeAvailable
    <3>2. QED BY <2>4, <3>1, UrgentNobody
  <2>5. QED BY <1>7, <2>2, <2>3, <2>4 DEF Release
<1>8. ASSUME NEW t \in Threads, Timeout(t, m) PROVE UrgentAt(m)' /\ owner' = owner
  BY <1>3, <1>8, TimeoutUrgent DEF Timeout
<1>9. CASE UNCHANGED vars
  BY <1>3, <1>9, UrgentUnchanged DEF vars, mutexes
<1>10. QED BY <1>2, <1>5, <1>6, <1>7, <1>8, <1>9 DEF Next, Step

LEMMA UrgentReversion == MutexInv /\ UrgentInv => NoPriorityReversion
<1> SUFFICES ASSUME MutexInv, UrgentInv, OnePrioMutex,
                    NEW m \in Mutexes, NEW t \in Elements(waiters[m]),
                    state[owner[m]] = "ready"
             PROVE  current # NULL /\ (current = owner[m] \/ prio[current] <= prio[t])
  BY DEF NoPriorityReversion, NoReversion, Listed, L!Listed, Elements
<1>1. QED BY DEF UrgentInv, UrgentAt

LEMMA UrgentInit == Init => UrgentInv
<1> SUFFICES ASSUME Init, NEW m \in Mutexes PROVE UrgentAt(m)
  BY DEF UrgentInv
<1>1. waiters[m] = <<>>
  BY DEF Init
<1>2. QED BY <1>1, NobodyListed DEF UrgentAt, Ordered

(* For every number of threads and all priorities: while a thread waits    *)
(* for the program's only mutex and its owner is ready, no thread runs     *)
(* that is less urgent than the waiter, except the owner itself: the owner *)
(* has inherited the most urgent waiter's priority (rt_mutex_take) and the *)
(* list is in the order of the priorities (rt_ipc_list_suspend).           *)
THEOREM NoReversionEver == Spec => []NoPriorityReversion
<1>1. Init => MutexInv /\ UrgentInv
  BY MutexInitInv, UrgentInit
<1>2. MutexInv /\ UrgentInv /\ [Next]_vars => MutexInv' /\ UrgentInv'
  BY MutexNextInv, UrgentNext
<1>3. QED BY <1>1, <1>2, UrgentReversion, PTL DEF Spec

(* The mutex is handed to the most urgent of its waiters.                  *)
THEOREM HandedToMostUrgent == Spec => MostUrgentFirst
<1>1. Init => MutexInv /\ UrgentInv
  BY MutexInitInv, UrgentInit
<1>2. MutexInv /\ UrgentInv /\ [Next]_vars => MutexInv' /\ UrgentInv'
  BY MutexNextInv, UrgentNext
<1>3. MutexInv /\ UrgentInv /\ [Next]_vars =>
        [OnePrioMutex =>
            \A m \in used : owner'[m] # owner[m] /\ waiters[m] # <<>> =>
                \A t \in Listed(m) : prio[owner'[m]] <= prio[t]]_vars
  BY MutexNextInv, UrgentNext
<1>4. QED BY <1>1, <1>2, <1>3, PTL DEF Spec, MostUrgentFirst
=============================================================================
