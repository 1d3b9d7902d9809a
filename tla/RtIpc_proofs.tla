----------------------------- MODULE RtIpc_proofs -----------------------------
(***************************************************************************)
(* Proofs about the message queue, the mailbox and the event (RtMq,        *)
(* RtMailbox, RtEvent), each as the object that IpcSpec chooses, for every *)
(* number of threads, slots, mails and flags.                              *)
(***************************************************************************)
EXTENDS MCRtIpc, SeqLemmas, FiniteSetTheorems

(* The calls of the mailbox, and who can be in which.                      *)
CallSet == [pc   : {"idle", "send_wait", "send_woken", "recv_wait", "recv_woken"},
            mail : Mails \cup {NoMail}, wait : Mailbox!Waits]

MbCalls ==
    /\ mb_call \in [Threads -> CallSet]
    /\ mb_got \in [Receivers -> Mails \cup {NoMail}]
    /\ \A t \in Threads :
          /\ mb_call[t].pc \in {"send_wait", "send_woken"} => mb_call[t].mail \in Mails
          /\ mb_call[t].pc \in {"recv_wait", "recv_woken"} => t \in Receivers

(* The ring: a send writes where the words that are queued end.            *)
MbRing ==
    /\ mb_pool \in [0..MaxMsgs-1 -> Mails \cup {NoMail}]
    /\ mb_entry \in 0..MaxMsgs /\ mb_in \in 0..MaxMsgs-1 /\ mb_out \in 0..MaxMsgs-1
    /\ mb_in = IF mb_out + mb_entry < MaxMsgs THEN mb_out + mb_entry
               ELSE mb_out + mb_entry - MaxMsgs

(* The lists hold the threads that are suspended in a send or a receive.   *)
MbLists ==
    /\ mb_senders \in Seq(Threads) /\ IsInjective(mb_senders)
    /\ mb_receivers \in Seq(Threads) /\ IsInjective(mb_receivers)
    /\ \A t \in Threads :
          /\ t \in Elements(mb_senders) <=> mb_call[t].pc = "send_wait"
          /\ t \in Elements(mb_receivers) <=> mb_call[t].pc = "recv_wait"

MbInv == MbCalls /\ MbRing /\ MbLists /\ NobodyForgotten

-----------------------------------------------------------------------------
(* Lists.                                                                  *)
LEMMA EnlistFacts ==
    ASSUME NEW s \in Seq(Threads), NEW e \in Threads
    PROVE  /\ Enlist(s, e) \in Seq(Threads) /\ Enlist(s, e) # <<>>
           /\ Elements(Enlist(s, e)) = Elements(s) \cup {e}
           /\ e \notin Elements(s) /\ IsInjective(s) => IsInjective(Enlist(s, e))
<1> DEFINE n == Place(s, e)
<1>1. n \in 0..Len(s)
  <2>1. Len(s) \in Nat
    BY LenProperties
  <2> DEFINE I == {i \in 1..Len(s) : Prio[e] < Prio[s[i]]}
  <2>2. I # {} => Min(I) \in I
    <3>1. I \in SUBSET Nat
      OBVIOUS
    <3>2. QED BY <3>1, MinOf
  <2>3. n = IF Flag = "FIFO" THEN 0 ELSE IF I # {} THEN Min(I) ELSE 0
    BY DEF Place, SelectInSeq
  <2> HIDE DEF n
  <2>4. QED BY <2>1, <2>2, <2>3
<1>2. Enlist(s, e) = IF n = 0 THEN Append(s, e) ELSE InsertAt(s, n, e)
  BY DEF Enlist
<1> HIDE DEF n
<1>3. QED BY <1>1, <1>2, Enlisted

LEMMA MbEnlist ==
    ASSUME NEW s \in Seq(Threads), NEW e \in Threads
    PROVE  Mailbox!Enlist(s, e) = Enlist(s, e)
BY DEF Enlist, Mailbox!Enlist, Place, Mailbox!Place, SelectInSeq, Mailbox!SelectInSeq,
       Min, Mailbox!Min, InsertAt, Mailbox!InsertAt

LEMMA MbDelist ==
    ASSUME NEW s, NEW e
    PROVE  Mailbox!Delist(s, e) = RemoveFirst(s, e)
BY DEF Mailbox!Delist, Mailbox!RemoveFirst, RemoveFirst, Mailbox!RemoveAt, RemoveAt,
       Mailbox!SelectInSeq, SelectInSeq, Mailbox!Min, Min

LEMMA NobodyListed ==
    /\ \A S : <<>> \in Seq(S)
    /\ Elements(<<>>) = {} /\ IsInjective(<<>>)
BY DEF Elements, IsInjective

LEMMA Constants ==
    /\ MaxMsgs \in Nat \ {0} /\ MsgSize \in Nat \ {0} /\ NULL \notin Slots
    /\ IsFiniteSet(Threads) /\ Threads = Mailbox!Threads /\ Threads = Senders \cup Receivers
BY MqAssumption DEF Threads, Mailbox!Threads

-----------------------------------------------------------------------------
(* The mailbox.                                                            *)
LEMMA MbCardinality ==
    ASSUME NEW A
    PROVE  Mailbox!Cardinality(A) = Cardinality(A)
BY DEF Mailbox!Cardinality, Cardinality

LEMMA MbThreadsAt ==
    ASSUME NEW l
    PROVE  /\ Mailbox!At(l) = {t \in Threads : mb_call[t].pc = l}
           /\ IsFiniteSet(Mailbox!At(l)) /\ Cardinality(Mailbox!At(l)) \in Nat
<1>1. Mailbox!At(l) = {t \in Threads : mb_call[t].pc = l}
  BY Constants DEF Mailbox!At
<1>2. IsFiniteSet(Mailbox!At(l))
  BY <1>1, Constants, FS_Subset
<1>3. QED BY <1>1, <1>2, FS_CardinalityType

LEMMA MbForgotten ==
    /\ NobodyForgotten <=>
          /\ mb_receivers # <<>> => mb_entry <= Cardinality(Mailbox!At("recv_woken"))
          /\ mb_senders # <<>> => MaxMsgs - mb_entry <= Cardinality(Mailbox!At("send_woken"))
    /\ NobodyForgotten' <=>
          /\ mb_receivers' # <<>> => mb_entry' <= Cardinality(Mailbox!At("recv_woken"))'
          /\ mb_senders' # <<>> =>
                MaxMsgs - mb_entry' <= Cardinality(Mailbox!At("send_woken"))'
BY MbCardinality DEF NobodyForgotten, Mailbox!NobodyForgotten

LEMMA OneMoreOrLess ==
    ASSUME NEW A, IsFiniteSet(A), NEW t
    PROVE  /\ Cardinality(A \cup {t}) >= Cardinality(A) - 1
           /\ Cardinality(A \ {t}) >= Cardinality(A) - 1
           /\ t \notin A => Cardinality(A \cup {t}) = Cardinality(A) + 1
<1>1. Cardinality(A) \in Nat
  BY FS_CardinalityType
<1>2. Cardinality(A \cup {t}) = IF t \in A THEN Cardinality(A) ELSE Cardinality(A) + 1
  BY FS_AddElement
<1>3. Cardinality(A \ {t}) = IF t \in A THEN Cardinality(A) - 1 ELSE Cardinality(A)
  BY FS_RemoveElement
<1>4. QED BY <1>1, <1>2, <1>3

(* One thread comes, or goes, or neither.                                  *)
LEMMA MbAtNext ==
    ASSUME NEW l, NEW t
    PROVE  /\ Cardinality(Mailbox!At(l))' \in Nat
           /\ (\A u \in Threads : mb_call'[u].pc = l <=> mb_call[u].pc = l) =>
                 Cardinality(Mailbox!At(l))' = Cardinality(Mailbox!At(l))
           /\ (\A u \in Threads : u # t => (mb_call'[u].pc = l <=> mb_call[u].pc = l)) =>
                 Cardinality(Mailbox!At(l))' >= Cardinality(Mailbox!At(l)) - 1
           /\ t \in Threads /\ mb_call[t].pc # l /\ mb_call'[t].pc = l
              /\ (\A u \in Threads : u # t => (mb_call'[u].pc = l <=> mb_call[u].pc = l)) =>
                 Cardinality(Mailbox!At(l))' = Cardinality(Mailbox!At(l)) + 1
<1> DEFINE A == Mailbox!At(l)
           B == {u \in Threads : mb_call'[u].pc = l}
<1>1. A = {u \in Threads : mb_call[u].pc = l} /\ IsFiniteSet(A) /\ Cardinality(A) \in Nat
  BY MbThreadsAt
<1>2. A' = B
  BY Constants DEF Mailbox!At
<1>3. IsFiniteSet(B) /\ Cardinality(B) \in Nat
  BY Constants, FS_Subset, FS_CardinalityType
<1>4. ASSUME \A u \in Threads : mb_call'[u].pc = l <=> mb_call[u].pc = l
      PROVE  B = A
  BY <1>1, <1>4
<1>5. ASSUME \A u \in Threads : u # t => (mb_call'[u].pc = l <=> mb_call[u].pc = l)
      PROVE  Cardinality(B) >= Cardinality(A) - 1
  <2>1. B = A \/ B = A \cup {t} \/ B = A \ {t}
    BY <1>1, <1>5
  <2> HIDE DEF A, B
  <2>2. QED BY <1>1, <2>1, OneMoreOrLess
<1>6. ASSUME t \in Threads, mb_call[t].pc # l, mb_call'[t].pc = l,
             \A u \in Threads : u # t => (mb_call'[u].pc = l <=> mb_call[u].pc = l)
      PROVE  Cardinality(B) = Cardinality(A) + 1
  <2>1. B = A \cup {t} /\ t \notin A
    BY <1>1, <1>6
  <2> HIDE DEF A, B
  <2>2. QED BY <1>1, <2>1, OneMoreOrLess
<1> HIDE DEF A, B
<1>7. QED BY <1>2, <1>3, <1>4, <1>5, <1>6 DEF A

LEMMA IdleFacts == Mailbox!Idle \in CallSet /\ Mailbox!Idle.pc = "idle"
BY DEF Mailbox!Idle, CallSet, Mailbox!Waits

(* A call that ends and resumes the first thread of a list.                *)
LEMMA ResumeFacts ==
    ASSUME mb_call \in [Threads -> CallSet], NEW t \in Threads, NEW list,
           list # <<>> => Head(list) \in Threads \ {t},
           NEW woken \in {"send_woken", "recv_woken"},
           mb_call' = Mailbox!Resume(t, list, woken)
    PROVE  /\ mb_call' \in [Threads -> CallSet]
           /\ \A u \in Threads :
                 /\ u # t => mb_call'[u].mail = mb_call[u].mail
                 /\ mb_call'[u].pc = IF list # <<>> /\ u = Head(list) THEN woken
                                     ELSE IF u = t THEN "idle" ELSE mb_call[u].pc
<1> DEFINE done == [mb_call EXCEPT ![t] = Mailbox!Idle]
           h    == Head(list)
<1>1. /\ done \in [Threads -> CallSet] /\ done[t].pc = "idle"
      /\ \A u \in Threads : u # t => done[u] = mb_call[u]
  BY IdleFacts
<1>2. mb_call' = IF list = <<>> THEN done ELSE [done EXCEPT ![h].pc = woken]
  BY DEF Mailbox!Resume
<1>3. list # <<>> => h \in Threads /\ h # t
  OBVIOUS
<1> HIDE DEF done, h
<1>4. CASE list = <<>>
  BY <1>1, <1>2, <1>4
<1>5. CASE list # <<>>
  <2>1. mb_call' = [done EXCEPT ![h].pc = woken]
    BY <1>2, <1>5
  <2>2. mb_call' \in [Threads -> CallSet]
    <3> DEFINE r == [done[h] EXCEPT !.pc = woken]
    <3>1. r \in CallSet
      <4>1. done[h] \in CallSet
        BY <1>1, <1>3, <1>5
      <4>2. QED BY <4>1 DEF CallSet
    <3>2. mb_call' = [done EXCEPT ![h] = r]
      BY <2>1
    <3> HIDE DEF r
    <3>3. QED BY <1>1, <3>1, <3>2
  <2>3. \A u \in Threads : u # h => mb_call'[u] = done[u]
    BY <1>1, <2>1
  <2>4. mb_call'[h].pc = woken /\ mb_call'[h].mail = done[h].mail
    BY <1>1, <1>3, <1>5, <2>1 DEF CallSet
  <2>5. \A u \in Threads :
           /\ u # t => mb_call'[u].mail = mb_call[u].mail
           /\ mb_call'[u].pc = IF u = h THEN woken
                               ELSE IF u = t THEN "idle" ELSE mb_call[u].pc
    BY <1>1, <2>3, <2>4
  <2>6. QED BY <1>5, <2>2, <2>5 DEF h
<1>6. QED BY <1>4, <1>5

(* A list without its first thread.                                        *)
LEMMA RestFacts ==
    ASSUME NEW list \in Seq(Threads), IsInjective(list)
    PROVE  LET rest == IF list = <<>> THEN <<>> ELSE Tail(list)
           IN  /\ rest \in Seq(Threads) /\ IsInjective(rest)
               /\ \A u : u \in Elements(rest) <=>
                      u \in Elements(list) /\ ~(list # <<>> /\ u = Head(list))
               /\ rest # <<>> => list # <<>>
               /\ list # <<>> => Head(list) \in Threads /\ Head(list) \in Elements(list)
<1>1. CASE list = <<>>
  BY <1>1, NobodyListed
<1>2. CASE list # <<>>
  BY <1>2, HeadLeaves
<1>3. QED BY <1>1, <1>2

(* The ring of MaxMsgs words.                                              *)
LEMMA AfterFacts ==
    ASSUME NEW i \in 0..MaxMsgs-1
    PROVE  /\ Mailbox!After(i) = IF i + 1 < MaxMsgs THEN i + 1 ELSE 0
           /\ Mailbox!After(i) \in 0..MaxMsgs-1
BY Constants DEF Mailbox!After

LEMMA PutRing ==
    ASSUME MbRing, mb_entry < MaxMsgs, NEW mail \in Mails,
           mb_pool' = [mb_pool EXCEPT ![mb_in] = mail],
           mb_in' = Mailbox!After(mb_in), mb_entry' = mb_entry + 1, mb_out' = mb_out
    PROVE  MbRing'
<1>1. mb_pool' \in [0..MaxMsgs-1 -> Mails \cup {NoMail}]
  BY DEF MbRing
<1>2. /\ mb_in \in 0..MaxMsgs-1 /\ mb_out \in 0..MaxMsgs-1 /\ mb_entry \in 0..MaxMsgs
      /\ mb_in' = IF mb_in + 1 < MaxMsgs THEN mb_in + 1 ELSE 0
  BY AfterFacts DEF MbRing
<1>3. mb_in = IF mb_out + mb_entry < MaxMsgs THEN mb_out + mb_entry
               ELSE mb_out + mb_entry - MaxMsgs
  BY DEF MbRing
<1>4. /\ mb_in' \in 0..MaxMsgs-1 /\ mb_entry' \in 0..MaxMsgs /\ mb_out' \in 0..MaxMsgs-1
      /\ mb_in' = IF mb_out' + mb_entry' < MaxMsgs THEN mb_out' + mb_entry'
                  ELSE mb_out' + mb_entry' - MaxMsgs
  BY <1>2, <1>3, Constants
<1>5. QED BY <1>1, <1>4 DEF MbRing

LEMMA GetRing ==
    ASSUME MbRing, mb_entry > 0, UNCHANGED <<mb_pool, mb_in>>,
           mb_out' = Mailbox!After(mb_out), mb_entry' = mb_entry - 1
    PROVE  MbRing'
<1>1. mb_pool' \in [0..MaxMsgs-1 -> Mails \cup {NoMail}]
  BY DEF MbRing
<1>2. /\ mb_in \in 0..MaxMsgs-1 /\ mb_out \in 0..MaxMsgs-1 /\ mb_entry \in 0..MaxMsgs
      /\ mb_out' = IF mb_out + 1 < MaxMsgs THEN mb_out + 1 ELSE 0
  BY AfterFacts DEF MbRing
<1>3. mb_in = IF mb_out + mb_entry < MaxMsgs THEN mb_out + mb_entry
               ELSE mb_out + mb_entry - MaxMsgs
  BY DEF MbRing
<1>4. /\ mb_in' \in 0..MaxMsgs-1 /\ mb_entry' \in 0..MaxMsgs /\ mb_out' \in 0..MaxMsgs-1
      /\ mb_in' = IF mb_out' + mb_entry' < MaxMsgs THEN mb_out' + mb_entry'
                  ELSE mb_out' + mb_entry' - MaxMsgs
  BY <1>2, <1>3, Constants
<1>5. QED BY <1>1, <1>4 DEF MbRing

(* The first branch of the loop of rt_mb_send_wait.                        *)
LEMMA PutInv ==
    ASSUME MbInv, NEW t \in Threads, mb_call[t].pc \in {"idle", "send_woken"},
           NEW mail \in Mails, mb_entry < MaxMsgs,
           mb_pool' = [mb_pool EXCEPT ![mb_in] = mail],
           mb_in' = Mailbox!After(mb_in), mb_entry' = mb_entry + 1,
           mb_call' = Mailbox!Resume(t, mb_receivers, "recv_woken"),
           mb_receivers' = IF mb_receivers = <<>> THEN <<>> ELSE Tail(mb_receivers),
           UNCHANGED <<mb_out, mb_senders, mb_got>>
    PROVE  MbInv'
<1> DEFINE Woken(u) == mb_receivers # <<>> /\ u = Head(mb_receivers)
<1>1. MbRing'
  BY PutRing DEF MbInv
<1>2. /\ mb_receivers' \in Seq(Threads) /\ IsInjective(mb_receivers')
      /\ \A u : u \in Elements(mb_receivers') <=> u \in Elements(mb_receivers) /\ ~Woken(u)
      /\ mb_receivers' # <<>> => mb_receivers # <<>>
      /\ mb_receivers # <<>> =>
            Head(mb_receivers) \in Threads /\ Head(mb_receivers) \in Elements(mb_receivers)
  BY RestFacts DEF MbInv, MbLists
<1>3. mb_receivers # <<>> =>
          Head(mb_receivers) \in Threads \ {t} /\ mb_call[Head(mb_receivers)].pc = "recv_wait"
  BY <1>2 DEF MbInv, MbLists
<1>4. /\ mb_call' \in [Threads -> CallSet]
      /\ \A u \in Threads :
            /\ u # t => mb_call'[u].mail = mb_call[u].mail
            /\ mb_call'[u].pc = IF Woken(u) THEN "recv_woken"
                                ELSE IF u = t THEN "idle" ELSE mb_call[u].pc
            /\ Woken(u) => mb_call[u].pc = "recv_wait" /\ u # t
  BY <1>3, ResumeFacts DEF MbInv, MbCalls
<1>5. MbCalls'
  BY <1>4 DEF MbInv, MbCalls
<1>6. MbLists'
  BY <1>2, <1>4 DEF MbInv, MbLists
<1>7. NobodyForgotten'
  <2> DEFINE R == Cardinality(Mailbox!At("recv_woken"))
             S == Cardinality(Mailbox!At("send_woken"))
  <2>1. mb_entry \in Nat /\ R \in Nat /\ S \in Nat
    BY MbThreadsAt DEF MbInv, MbRing
  <2>2. /\ mb_receivers # <<>> => mb_entry <= R
        /\ mb_senders # <<>> => MaxMsgs - mb_entry <= S
    BY MbForgotten DEF MbInv
  <2>3. S' >= S - 1
    BY <1>4, MbAtNext
  <2>4. mb_receivers # <<>> => R' = R + 1
    <3>1. ASSUME mb_receivers # <<>>
          PROVE  /\ Head(mb_receivers) \in Threads
                 /\ mb_call[Head(mb_receivers)].pc # "recv_woken"
                 /\ mb_call'[Head(mb_receivers)].pc = "recv_woken"
                 /\ \A u \in Threads : u # Head(mb_receivers) =>
                       (mb_call'[u].pc = "recv_woken" <=> mb_call[u].pc = "recv_woken")
      BY <1>3, <1>4, <3>1
    <3>2. QED BY <3>1, MbAtNext
  <2>5. S' \in Int
    BY MbAtNext
  <2> HIDE DEF R, S
  <2>6. /\ mb_receivers' # <<>> => mb_entry' <= R'
        /\ mb_senders' # <<>> => MaxMsgs - mb_entry' <= S'
    BY <1>2, <2>1, <2>2, <2>3, <2>4, <2>5, Constants
  <2>7. QED BY <2>6, MbForgotten DEF R, S
<1>8. QED BY <1>1, <1>5, <1>6, <1>7 DEF MbInv

(* The same of rt_mb_recv.                                                 *)
LEMMA GetInv ==
    ASSUME MbInv, NEW t \in Receivers, mb_call[t].pc \in {"idle", "recv_woken"},
           mb_entry > 0, mb_got' = [mb_got EXCEPT ![t] = mb_pool[mb_out]],
           mb_out' = Mailbox!After(mb_out), mb_entry' = mb_entry - 1,
           mb_call' = Mailbox!Resume(t, mb_senders, "send_woken"),
           mb_senders' = IF mb_senders = <<>> THEN <<>> ELSE Tail(mb_senders),
           UNCHANGED <<mb_pool, mb_in, mb_receivers>>
    PROVE  MbInv'
<1> DEFINE Woken(u) == mb_senders # <<>> /\ u = Head(mb_senders)
<1> t \in Threads
  BY Constants
<1>1. MbRing'
  BY GetRing DEF MbInv
<1>2. /\ mb_senders' \in Seq(Threads) /\ IsInjective(mb_senders')
      /\ \A u : u \in Elements(mb_senders') <=> u \in Elements(mb_senders) /\ ~Woken(u)
      /\ mb_senders' # <<>> => mb_senders # <<>>
      /\ mb_senders # <<>> =>
            Head(mb_senders) \in Threads /\ Head(mb_senders) \in Elements(mb_senders)
  BY RestFacts DEF MbInv, MbLists
<1>3. mb_senders # <<>> =>
          Head(mb_senders) \in Threads \ {t} /\ mb_call[Head(mb_senders)].pc = "send_wait"
  BY <1>2 DEF MbInv, MbLists
<1>4. /\ mb_call' \in [Threads -> CallSet]
      /\ \A u \in Threads :
            /\ u # t => mb_call'[u].mail = mb_call[u].mail
            /\ mb_call'[u].pc = IF Woken(u) THEN "send_woken"
                                ELSE IF u = t THEN "idle" ELSE mb_call[u].pc
            /\ Woken(u) => mb_call[u].pc = "send_wait" /\ u # t
  BY <1>3, ResumeFacts DEF MbInv, MbCalls
<1>5. MbCalls'
  <2>1. mb_pool[mb_out] \in Mails \cup {NoMail}
    BY DEF MbInv, MbRing
  <2>2. mb_got' \in [Receivers -> Mails \cup {NoMail}]
    BY <2>1 DEF MbInv, MbCalls
  <2>3. QED BY <1>4, <2>2 DEF MbInv, MbCalls
<1>6. MbLists'
  BY <1>2, <1>4 DEF MbInv, MbLists
<1>7. NobodyForgotten'
  <2> DEFINE R == Cardinality(Mailbox!At("recv_woken"))
             S == Cardinality(Mailbox!At("send_woken"))
  <2>1. mb_entry \in Nat /\ R \in Nat /\ S \in Nat
    BY MbThreadsAt DEF MbInv, MbRing
  <2>2. /\ mb_receivers # <<>> => mb_entry <= R
        /\ mb_senders # <<>> => MaxMsgs - mb_entry <= S
    BY MbForgotten DEF MbInv
  <2>3. R' >= R - 1
    BY <1>4, MbAtNext
  <2>4. mb_senders # <<>> => S' = S + 1
    <3>1. ASSUME mb_senders # <<>>
          PROVE  /\ Head(mb_senders) \in Threads
                 /\ mb_call[Head(mb_senders)].pc # "send_woken"
                 /\ mb_call'[Head(mb_senders)].pc = "send_woken"
                 /\ \A u \in Threads : u # Head(mb_senders) =>
                       (mb_call'[u].pc = "send_woken" <=> mb_call[u].pc = "send_woken")
      BY <1>3, <1>4, <3>1
    <3>2. QED BY <3>1, MbAtNext
  <2>5. R' \in Int
    BY MbAtNext
  <2> HIDE DEF R, S
  <2>6. /\ mb_receivers' # <<>> => mb_entry' <= R'
        /\ mb_senders' # <<>> => MaxMsgs - mb_entry' <= S'
    BY <1>2, <2>1, <2>2, <2>3, <2>4, <2>5, Constants
  <2>7. QED BY <2>6, MbForgotten DEF R, S
<1>8. QED BY <1>1, <1>5, <1>6, <1>7 DEF MbInv

(* A call fails at once: the mailbox is full, or empty.                    *)
LEMMA LeaveInv ==
    ASSUME MbInv, NEW t \in Threads,
           \/ mb_entry = MaxMsgs /\ mb_call[t].pc \in {"idle", "send_woken"}
           \/ mb_entry = 0 /\ mb_call[t].pc \in {"idle", "recv_woken"},
           mb_call' = [mb_call EXCEPT ![t] = Mailbox!Idle],
           UNCHANGED <<mb_pool, mb_entry, mb_in, mb_out, mb_receivers, mb_senders, mb_got>>
    PROVE  MbInv'
<1>1. /\ mb_call' \in [Threads -> CallSet] /\ mb_call'[t].pc = "idle"
      /\ \A u \in Threads : u # t => mb_call'[u] = mb_call[u]
  BY IdleFacts DEF MbInv, MbCalls
<1>2. MbCalls' /\ MbRing' /\ MbLists'
  BY <1>1 DEF MbInv, MbCalls, MbRing, MbLists
<1>3. NobodyForgotten'
  <2> DEFINE R == Cardinality(Mailbox!At("recv_woken"))
             S == Cardinality(Mailbox!At("send_woken"))
  <2>1. R \in Nat /\ S \in Nat /\ R' \in Nat /\ S' \in Nat
    BY MbThreadsAt, MbAtNext
  <2>2. /\ mb_receivers # <<>> => mb_entry <= R
        /\ mb_senders # <<>> => MaxMsgs - mb_entry <= S
    BY MbForgotten DEF MbInv
  <2>3. mb_call[t].pc # "recv_woken" => R' = R
    <3>1. mb_call[t].pc # "recv_woken" =>
            \A u \in Threads : mb_call'[u].pc = "recv_woken" <=> mb_call[u].pc = "recv_woken"
      BY <1>1
    <3>2. QED BY <3>1, MbAtNext
  <2>4. mb_call[t].pc # "send_woken" => S' = S
    <3>1. mb_call[t].pc # "send_woken" =>
            \A u \in Threads : mb_call'[u].pc = "send_woken" <=> mb_call[u].pc = "send_woken"
      BY <1>1
    <3>2. QED BY <3>1, MbAtNext
  <2> HIDE DEF R, S
  <2>5. /\ mb_receivers' # <<>> => mb_entry' <= R'
        /\ mb_senders' # <<>> => MaxMsgs - mb_entry' <= S'
    BY <2>1, <2>2, <2>3, <2>4, Constants
  <2>6. QED BY <2>5, MbForgotten DEF R, S
<1>4. QED BY <1>2, <1>3 DEF MbInv

(* A call is suspended, the mailbox being full or empty.                   *)
LEMMA SuspendFacts ==
    ASSUME MbInv, NEW t \in Threads, NEW pc \in {"send_wait", "recv_wait"},
           NEW mail \in Mails \cup {NoMail}, NEW w \in Mailbox!Waits,
           Mailbox!Suspend(t, pc, mail, w), NEW list \in Seq(Threads)
    PROVE  /\ mb_call' \in [Threads -> CallSet]
           /\ mb_call'[t].pc = pc /\ mb_call'[t].mail = mail
           /\ \A u \in Threads : u # t => mb_call'[u] = mb_call[u]
           /\ Mailbox!Enlist(list, t) \in Seq(Threads)
           /\ Elements(Mailbox!Enlist(list, t)) = Elements(list) \cup {t}
           /\ t \notin Elements(list) /\ IsInjective(list) =>
                  IsInjective(Mailbox!Enlist(list, t))
<1> DEFINE r == [pc |-> pc, mail |-> mail, wait |-> w]
<1>1. r \in CallSet /\ r.pc = pc /\ r.mail = mail
  BY DEF CallSet
<1>2. mb_call' = [mb_call EXCEPT ![t] = r]
  BY DEF Mailbox!Suspend
<1> HIDE DEF r
<1>3. /\ mb_call' \in [Threads -> CallSet] /\ mb_call'[t] = r
      /\ \A u \in Threads : u # t => mb_call'[u] = mb_call[u]
  BY <1>1, <1>2 DEF MbInv, MbCalls
<1>4. Mailbox!Enlist(list, t) = Enlist(list, t)
  BY MbEnlist
<1>5. QED BY <1>1, <1>3, <1>4, EnlistFacts

LEMMA SendSuspendInv ==
    ASSUME MbInv, NEW t \in Threads, mb_call[t].pc \in {"idle", "send_woken"},
           mb_entry = MaxMsgs, NEW mail \in Mails, NEW w \in Mailbox!Waits,
           Mailbox!Suspend(t, "send_wait", mail, w),
           mb_senders' = Mailbox!Enlist(mb_senders, t),
           UNCHANGED <<mb_pool, mb_entry, mb_in, mb_out, mb_receivers, mb_got>>
    PROVE  MbInv'
<1>1. /\ mb_senders \in Seq(Threads) /\ IsInjective(mb_senders) /\ t \notin Elements(mb_senders)
  BY DEF MbInv, MbLists
<1>2. /\ mb_call' \in [Threads -> CallSet]
      /\ mb_call'[t].pc = "send_wait" /\ mb_call'[t].mail = mail
      /\ \A u \in Threads : u # t => mb_call'[u] = mb_call[u]
      /\ mb_senders' \in Seq(Threads) /\ IsInjective(mb_senders')
      /\ Elements(mb_senders') = Elements(mb_senders) \cup {t}
  BY <1>1, SuspendFacts
<1>3. MbCalls' /\ MbRing'
  BY <1>2 DEF MbInv, MbCalls, MbRing
<1>4. MbLists'
  BY <1>2 DEF MbInv, MbLists
<1>5. NobodyForgotten'
  <2>1. \A u \in Threads : mb_call'[u].pc = "recv_woken" <=> mb_call[u].pc = "recv_woken"
    BY <1>2
  <2>2. Cardinality(Mailbox!At("recv_woken"))' = Cardinality(Mailbox!At("recv_woken"))
    BY <2>1, MbAtNext
  <2>3. Cardinality(Mailbox!At("send_woken"))' \in Nat
    BY MbAtNext
  <2>4. MaxMsgs - mb_entry' = 0
    BY Constants
  <2>5. mb_receivers # <<>> => mb_entry <= Cardinality(Mailbox!At("recv_woken"))
    BY MbForgotten DEF MbInv
  <2>6. QED BY <2>2, <2>3, <2>4, <2>5, MbForgotten
<1>6. QED BY <1>3, <1>4, <1>5 DEF MbInv

LEMMA RecvSuspendInv ==
    ASSUME MbInv, NEW t \in Receivers, mb_call[t].pc \in {"idle", "recv_woken"},
           mb_entry = 0, NEW w \in Mailbox!Waits,
           Mailbox!Suspend(t, "recv_wait", NoMail, w),
           mb_receivers' = Mailbox!Enlist(mb_receivers, t),
           UNCHANGED <<mb_pool, mb_entry, mb_in, mb_out, mb_senders, mb_got>>
    PROVE  MbInv'
<1> t \in Threads
  BY Constants
<1>1. /\ mb_receivers \in Seq(Threads) /\ IsInjective(mb_receivers)
      /\ t \notin Elements(mb_receivers)
  BY DEF MbInv, MbLists
<1>2. /\ mb_call' \in [Threads -> CallSet]
      /\ mb_call'[t].pc = "recv_wait"
      /\ \A u \in Threads : u # t => mb_call'[u] = mb_call[u]
      /\ mb_receivers' \in Seq(Threads) /\ IsInjective(mb_receivers')
      /\ Elements(mb_receivers') = Elements(mb_receivers) \cup {t}
  BY <1>1, SuspendFacts
<1>3. MbCalls' /\ MbRing'
  BY <1>2 DEF MbInv, MbCalls, MbRing
<1>4. MbLists'
  BY <1>2 DEF MbInv, MbLists
<1>5. NobodyForgotten'
  <2>1. \A u \in Threads : mb_call'[u].pc = "send_woken" <=> mb_call[u].pc = "send_woken"
    BY <1>2
  <2>2. Cardinality(Mailbox!At("send_woken"))' = Cardinality(Mailbox!At("send_woken"))
    BY <2>1, MbAtNext
  <2>3. Cardinality(Mailbox!At("recv_woken"))' \in Nat
    BY MbAtNext
  <2>4. mb_senders # <<>> => MaxMsgs - mb_entry <= Cardinality(Mailbox!At("send_woken"))
    BY MbForgotten DEF MbInv
  <2>5. QED BY <2>2, <2>3, <2>4, MbForgotten
<1>6. QED BY <1>3, <1>4, <1>5 DEF MbInv

LEMMA MbTimeoutInv ==
    ASSUME MbInv, NEW t \in Threads, Mailbox!Timeout(t)
    PROVE  MbInv'
<1>1. /\ mb_call[t].pc \in {"send_wait", "recv_wait"}
      /\ mb_senders' = RemoveFirst(mb_senders, t)
      /\ mb_receivers' = RemoveFirst(mb_receivers, t)
      /\ mb_call' = [mb_call EXCEPT ![t] = Mailbox!Idle]
      /\ UNCHANGED <<mb_pool, mb_entry, mb_in, mb_out, mb_got>>
  BY MbDelist DEF Mailbox!Timeout, Mailbox!ring
<1>2. /\ mb_call' \in [Threads -> CallSet] /\ mb_call'[t].pc = "idle"
      /\ \A u \in Threads : u # t => mb_call'[u] = mb_call[u]
  BY <1>1, IdleFacts DEF MbInv, MbCalls
<1>3. /\ mb_senders' \in Seq(Threads) /\ IsInjective(mb_senders')
      /\ Elements(mb_senders') = Elements(mb_senders) \ {t}
      /\ mb_senders' # <<>> => mb_senders # <<>>
  <2>1. mb_senders \in Seq(Threads) /\ IsInjective(mb_senders)
    BY DEF MbInv, MbLists
  <2>2. t \notin Elements(mb_senders) => mb_senders' = mb_senders
    BY <1>1, <2>1, Delisted
  <2>3. t \in Elements(mb_senders) => mb_senders # <<>>
    BY NobodyListed
  <2>4. QED BY <1>1, <2>1, <2>2, <2>3, Delisted
<1>4. /\ mb_receivers' \in Seq(Threads) /\ IsInjective(mb_receivers')
      /\ Elements(mb_receivers') = Elements(mb_receivers) \ {t}
      /\ mb_receivers' # <<>> => mb_receivers # <<>>
  <2>1. mb_receivers \in Seq(Threads) /\ IsInjective(mb_receivers)
    BY DEF MbInv, MbLists
  <2>2. t \notin Elements(mb_receivers) => mb_receivers' = mb_receivers
    BY <1>1, <2>1, Delisted
  <2>3. t \in Elements(mb_receivers) => mb_receivers # <<>>
    BY NobodyListed
  <2>4. QED BY <1>1, <2>1, <2>2, <2>3, Delisted
<1>5. MbCalls' /\ MbRing'
  BY <1>1, <1>2 DEF MbInv, MbCalls, MbRing
<1>6. MbLists'
  BY <1>2, <1>3, <1>4 DEF MbInv, MbLists
<1>7. NobodyForgotten'
  <2>1. \A l \in {"recv_woken", "send_woken"} :
           \A u \in Threads : mb_call'[u].pc = l <=> mb_call[u].pc = l
    BY <1>1, <1>2
  <2>2. /\ Cardinality(Mailbox!At("recv_woken"))' = Cardinality(Mailbox!At("recv_woken"))
        /\ Cardinality(Mailbox!At("send_woken"))' = Cardinality(Mailbox!At("send_woken"))
    BY <2>1, MbAtNext
  <2>3. QED BY <1>1, <1>3, <1>4, <2>2, MbForgotten DEF MbInv
<1>8. QED BY <1>5, <1>6, <1>7 DEF MbInv

LEMMA MbResetInv ==
    ASSUME MbInv, Mailbox!Reset
    PROVE  MbInv'
<1>1. /\ mb_receivers' = <<>> /\ mb_senders' = <<>>
      /\ mb_call' = [t \in Threads |->
            IF t \in Elements(mb_receivers) \cup Elements(mb_senders) THEN Mailbox!Idle
            ELSE mb_call[t]]
      /\ mb_entry' = 0 /\ mb_in' = 0 /\ mb_out' = 0 /\ UNCHANGED <<mb_pool, mb_got>>
  BY Constants DEF Mailbox!Reset, Mailbox!Listed, Elements
<1>2. /\ mb_call' \in [Threads -> CallSet]
      /\ \A u \in Threads :
            mb_call'[u] = IF mb_call[u].pc \in {"send_wait", "recv_wait"}
                          THEN Mailbox!Idle ELSE mb_call[u]
  BY <1>1, IdleFacts DEF MbInv, MbCalls, MbLists
<1>3. MbCalls'
  BY <1>1, <1>2, IdleFacts DEF MbInv, MbCalls
<1>4. MbRing'
  BY <1>1, Constants DEF MbInv, MbRing
<1>5. MbLists'
  BY <1>1, <1>2, IdleFacts, NobodyListed DEF MbLists
<1>6. NobodyForgotten'
  BY <1>1, MbForgotten
<1>7. QED BY <1>3, <1>4, <1>5, <1>6 DEF MbInv

LEMMA MbInitInv == Mailbox!Init => MbInv
<1> SUFFICES ASSUME Mailbox!Init PROVE MbInv
  OBVIOUS
<1>1. /\ mb_pool = [i \in 0..MaxMsgs-1 |-> NoMail]
      /\ mb_entry = 0 /\ mb_in = 0 /\ mb_out = 0
      /\ mb_receivers = <<>> /\ mb_senders = <<>>
      /\ mb_call = [t \in Threads |-> Mailbox!Idle]
      /\ mb_got = [t \in Receivers |-> NoMail]
  BY Constants DEF Mailbox!Init
<1>2. MbCalls
  BY <1>1, IdleFacts DEF MbCalls
<1>3. MbRing
  BY <1>1, Constants DEF MbRing
<1>4. MbLists
  BY <1>1, IdleFacts, NobodyListed DEF MbLists
<1>5. NobodyForgotten
  BY <1>1, MbForgotten
<1>6. QED BY <1>2, <1>3, <1>4, <1>5 DEF MbInv

LEMMA MbTrySendInv ==
    ASSUME MbInv, NEW t \in Threads, mb_call[t].pc \in {"idle", "send_woken"},
           NEW mail \in Mails, NEW w \in Mailbox!Waits, Mailbox!TrySend(t, mail, w)
    PROVE  MbInv'
<1>1. CASE mb_entry < MaxMsgs
  <2>1. mb_entry # MaxMsgs
    BY <1>1, Constants DEF MbInv, MbRing
  <2>2. QED BY <1>1, <2>1, PutInv DEF Mailbox!TrySend
<1>2. CASE ~(mb_entry < MaxMsgs)
  BY <1>2, LeaveInv, SendSuspendInv DEF Mailbox!TrySend, Mailbox!ring
<1>3. QED BY <1>1, <1>2

LEMMA MbTryRecvInv ==
    ASSUME MbInv, NEW t \in Receivers, mb_call[t].pc \in {"idle", "recv_woken"},
           NEW w \in Mailbox!Waits, Mailbox!TryRecv(t, w)
    PROVE  MbInv'
<1>1. CASE mb_entry > 0
  <2>1. mb_entry # 0
    BY <1>1, Constants DEF MbInv, MbRing
  <2>2. QED BY <1>1, <2>1, GetInv DEF Mailbox!TryRecv
<1>2. CASE ~(mb_entry > 0)
  <2>1. t \in Threads
    BY Constants
  <2>2. QED BY <1>2, <2>1, LeaveInv, RecvSuspendInv DEF Mailbox!TryRecv, Mailbox!ring
<1>3. QED BY <1>1, <1>2

LEMMA RemainingWaits ==
    ASSUME MbInv, NEW t \in Threads
    PROVE  Mailbox!Remaining(t) \subseteq Mailbox!Waits
BY DEF MbInv, MbCalls, CallSet, Mailbox!Remaining, Mailbox!Waits

LEMMA MbNextInv == MbInv /\ [IpcNext]_ipcVars => MbInv'
<1> SUFFICES ASSUME MbInv, [IpcNext]_ipcVars PROVE MbInv'
  OBVIOUS
<1>1. CASE UNCHANGED mbVars
  BY <1>1, MbForgotten DEF mbVars, MbInv, MbCalls, MbRing, MbLists, NobodyForgotten,
     Mailbox!NobodyForgotten, Mailbox!At
<1>2. CASE Mailbox!Next
  <2>1. ASSUME NEW t \in Senders, NEW mail \in Mails, NEW w \in Mailbox!Waits,
               Mailbox!SendWait(t, mail, w)
        PROVE  MbInv'
    BY <2>1, Constants, MbTrySendInv DEF Mailbox!SendWait
  <2>2. ASSUME NEW t \in Receivers, NEW w \in Mailbox!Waits, Mailbox!Recv(t, w)
        PROVE  MbInv'
    BY <2>2, MbTryRecvInv DEF Mailbox!Recv
  <2>3. ASSUME NEW t \in Threads, Mailbox!SendRetry(t)
        PROVE  MbInv'
    <3>1. PICK w \in Mailbox!Remaining(t) : Mailbox!TrySend(t, mb_call[t].mail, w)
      BY <2>3 DEF Mailbox!SendRetry
    <3>2. mb_call[t].pc = "send_woken" /\ mb_call[t].mail \in Mails /\ w \in Mailbox!Waits
      BY <2>3, RemainingWaits DEF Mailbox!SendRetry, MbInv, MbCalls
    <3>3. QED BY <3>1, <3>2, MbTrySendInv
  <2>4. ASSUME NEW t \in Threads, Mailbox!RecvRetry(t)
        PROVE  MbInv'
    <3>1. PICK w \in Mailbox!Remaining(t) : Mailbox!TryRecv(t, w)
      BY <2>4 DEF Mailbox!RecvRetry
    <3>2. mb_call[t].pc = "recv_woken" /\ t \in Receivers /\ w \in Mailbox!Waits
      BY <2>4, RemainingWaits DEF Mailbox!RecvRetry, MbInv, MbCalls
    <3>3. QED BY <3>1, <3>2, MbTryRecvInv
  <2>5. QED BY <1>2, <2>1, <2>2, <2>3, <2>4, MbTimeoutInv, MbResetInv, Constants
            DEF Mailbox!Next
<1>3. QED BY <1>1, <1>2 DEF IpcNext, ipcVars, mbVars

LEMMA MailboxInvariant == IpcSpec => []MbInv
<1>1. IpcInit => MbInv
  BY MbInitInv DEF IpcInit
<1>2. QED BY <1>1, MbNextInv, PTL DEF IpcSpec

(* While a receiver is suspended on the mailbox, no more mails are in it   *)
(* than receivers that were resumed and are on their way; while a sender   *)
(* is, no more room: whatever rt_mb_send_wait, rt_mb_recv, a timeout and a *)
(* reset do in whatever order, nobody waits for what is there.             *)
THEOREM MailboxNeverForgets == IpcSpec => []NobodyForgotten
<1>1. MbInv => NobodyForgotten
  BY DEF MbInv
<1>2. QED BY <1>1, MailboxInvariant, PTL

-----------------------------------------------------------------------------
(* The mailbox implements a FIFO of bounded size.                          *)

LEMMA Wrap ==
    ASSUME NEW y \in 0..2*MaxMsgs-1
    PROVE  y % MaxMsgs = IF y < MaxMsgs THEN y ELSE y - MaxMsgs
BY Constants

(* The n mails of a ring of words from place out on.                       *)
MailSeq(words, n, out) == [i \in 1..n |-> <<words[(out + i - 1) % MaxMsgs]>>]

RingPlace(out, i) == IF out + i - 1 < MaxMsgs THEN out + i - 1 ELSE out + i - 1 - MaxMsgs

MailWords == {<<m>> : m \in Mails \cup {NoMail}}

LEMMA MailSeqFacts ==
    ASSUME NEW words \in [0..MaxMsgs-1 -> Mails \cup {NoMail}],
           NEW n \in 0..MaxMsgs, NEW out \in 0..MaxMsgs-1
    PROVE  /\ MailSeq(words, n, out) \in Seq(MailWords)
           /\ Len(MailSeq(words, n, out)) = n
           /\ \A i \in 1..n : /\ RingPlace(out, i) \in 0..MaxMsgs-1
                              /\ MailSeq(words, n, out)[i] = <<words[RingPlace(out, i)]>>
<1> DEFINE s == MailSeq(words, n, out)
<1>1. ASSUME NEW i \in 1..n
      PROVE  /\ (out + i - 1) % MaxMsgs = RingPlace(out, i)
             /\ RingPlace(out, i) \in 0..MaxMsgs-1
  <2> DEFINE y == out + i - 1
  <2>1. y \in 0..2*MaxMsgs-1
    BY Constants
  <2>2. y % MaxMsgs = IF y < MaxMsgs THEN y ELSE y - MaxMsgs
    <3> HIDE DEF y
    <3>1. QED BY <2>1, Wrap
  <2>3. RingPlace(out, i) = IF y < MaxMsgs THEN y ELSE y - MaxMsgs
    BY Constants DEF RingPlace
  <2>4. RingPlace(out, i) \in 0..MaxMsgs-1
    <3> HIDE DEF y
    <3>1. QED BY <2>1, <2>3, Constants
  <2>5. QED BY <2>2, <2>3, <2>4
<1>2. \A i \in 1..n : s[i] = <<words[RingPlace(out, i)]>>
  BY <1>1 DEF MailSeq
<1>3. s \in [1..n -> MailWords]
  <2>1. \A i \in 1..n : s[i] \in MailWords
    BY <1>1, <1>2 DEF MailWords
  <2>2. s = [i \in 1..n |-> s[i]]
    BY DEF MailSeq
  <2> HIDE DEF s
  <2>3. QED BY <2>1, <2>2
<1> HIDE DEF s
<1>4. s \in Seq(MailWords) /\ Len(s) = n
  BY <1>3, FunctionIsSeq
<1>5. QED BY <1>1, <1>2, <1>4 DEF s

(* A mail put behind the n that are there; the first one taken away.       *)
LEMMA MailSeqPut ==
    ASSUME NEW words \in [0..MaxMsgs-1 -> Mails \cup {NoMail}],
           NEW n \in 0..MaxMsgs-1, NEW out \in 0..MaxMsgs-1,
           NEW at \in 0..MaxMsgs-1, NEW mail \in Mails, at = RingPlace(out, n + 1)
    PROVE  MailSeq([words EXCEPT ![at] = mail], n + 1, out) =
               Append(MailSeq(words, n, out), <<mail>>)
<1>0. /\ MailSeq(words, n, out) \in Seq(MailWords) /\ Len(MailSeq(words, n, out)) = n
      /\ \A i \in 1..n : /\ RingPlace(out, i) \in 0..MaxMsgs-1
                         /\ MailSeq(words, n, out)[i] = <<words[RingPlace(out, i)]>>
  <2>1. n \in 0..MaxMsgs
    BY Constants
  <2>2. QED BY <2>1, MailSeqFacts
<1> DEFINE words2 == [words EXCEPT ![at] = mail]
           s == MailSeq(words, n, out)
           t == MailSeq(words2, n + 1, out)
           a == Append(s, <<mail>>)
<1>1. words2 \in [0..MaxMsgs-1 -> Mails \cup {NoMail}] /\ n + 1 \in 0..MaxMsgs
  BY Constants
<1>2. /\ s \in Seq(MailWords) /\ Len(s) = n
      /\ \A i \in 1..n : /\ RingPlace(out, i) \in 0..MaxMsgs-1
                         /\ s[i] = <<words[RingPlace(out, i)]>>
  BY <1>0
<1>3. /\ t \in Seq(MailWords) /\ Len(t) = n + 1
      /\ \A i \in 1..n+1 : t[i] = <<words2[RingPlace(out, i)]>>
  <2> HIDE DEF words2
  <2>1. QED BY <1>1, MailSeqFacts
<1>4. RingPlace(out, n + 1) = at /\ \A i \in 1..n : RingPlace(out, i) # at
  BY Constants DEF RingPlace
<1>5. words2[at] = mail /\ \A p \in 0..MaxMsgs-1 : p # at => words2[p] = words[p]
  OBVIOUS
<1> HIDE DEF s, t, words2
<1>6. /\ a \in Seq(MailWords) /\ Len(a) = n + 1 /\ a[n+1] = <<mail>>
      /\ \A i \in 1..n : a[i] = s[i]
  BY <1>2 DEF MailWords
<1> HIDE DEF a
<1>7. ASSUME NEW i \in 1..n+1 PROVE t[i] = a[i]
  <2>1. CASE i = n + 1
    BY <1>3, <1>4, <1>5, <1>6, <2>1
  <2>2. CASE i # n + 1
    <3>1. i \in 1..n
      BY <2>2
    <3>2. words2[RingPlace(out, i)] = words[RingPlace(out, i)]
      BY <1>2, <1>4, <1>5, <3>1
    <3>3. QED BY <1>2, <1>3, <1>6, <3>1, <3>2
  <2>3. QED BY <2>1, <2>2
<1>8. t = a
  BY <1>3, <1>6, <1>7, SeqEqual
<1>9. QED BY <1>8 DEF a, t, s, words2

LEMMA MailSeqGet ==
    ASSUME NEW words \in [0..MaxMsgs-1 -> Mails \cup {NoMail}],
           NEW n \in 1..MaxMsgs, NEW out \in 0..MaxMsgs-1
    PROVE  /\ MailSeq(words, n, out) # <<>>
           /\ Head(MailSeq(words, n, out)) = <<words[out]>>
           /\ MailSeq(words, n - 1, IF out + 1 < MaxMsgs THEN out + 1 ELSE 0) =
                 Tail(MailSeq(words, n, out))
<1> DEFINE next == IF out + 1 < MaxMsgs THEN out + 1 ELSE 0
           s == MailSeq(words, n, out)
           t == MailSeq(words, n - 1, next)
           a == Tail(s)
<1>1. next \in 0..MaxMsgs-1 /\ n \in 0..MaxMsgs /\ n - 1 \in 0..MaxMsgs
  BY Constants
<1>2. /\ s \in Seq(MailWords) /\ Len(s) = n
      /\ \A i \in 1..n : s[i] = <<words[RingPlace(out, i)]>>
  BY <1>1, MailSeqFacts
<1>3. \A i \in 1..n-1 : RingPlace(next, i) = RingPlace(out, i + 1)
  BY Constants DEF RingPlace
<1>4. RingPlace(out, 1) = out
  BY Constants DEF RingPlace
<1> HIDE DEF next
<1>5. /\ t \in Seq(MailWords) /\ Len(t) = n - 1
      /\ \A i \in 1..n-1 : t[i] = <<words[RingPlace(next, i)]>>
  BY <1>1, MailSeqFacts
<1> HIDE DEF s, t
<1>6. s # <<>> /\ Head(s) = s[1]
  BY <1>2
<1>7. /\ a \in Seq(MailWords) /\ Len(a) = n - 1
      /\ \A i \in 1..n-1 : a[i] = s[i+1]
  BY <1>2, <1>6
<1> HIDE DEF a
<1>8. t = a
  <2>1. ASSUME NEW i \in 1..n-1 PROVE t[i] = a[i]
    <3>1. i + 1 \in 1..n
      BY Constants
    <3>2. QED BY <1>2, <1>3, <1>5, <1>7, <3>1
  <2>2. QED BY <1>5, <1>7, <2>1, SeqEqual
<1>9. QED BY <1>2, <1>4, <1>6, <1>8 DEF a, t, s, next

MbContent == Mailbox!Content
MbGot == [t \in Receivers |-> <<mb_got[t]>>]

LEMMA ContentIs ==
    /\ MbContent = MailSeq(mb_pool, mb_entry, mb_out)
    /\ MbContent' = MailSeq(mb_pool', mb_entry', mb_out')
BY DEF MbContent, Mailbox!Content, MailSeq

(* What a step of the FIFO is, of the mails and the words received.        *)
LEMMA FifoSteps ==
    /\ \A m \in Mails :
          /\ Len(MbContent) < MaxMsgs /\ MbContent' = Append(MbContent, <<m>>)
          /\ MbGot' = MbGot
          => Mailbox!Fifo!Next
    /\ \A t \in Receivers :
          /\ MbContent # <<>> /\ MbContent' = Tail(MbContent)
          /\ MbGot' = [MbGot EXCEPT ![t] = Head(MbContent)]
          => Mailbox!Fifo!Next
    /\ MbContent' = <<>> /\ MbGot' = MbGot => Mailbox!Fifo!Next
    /\ MbContent' = MbContent /\ MbGot' = MbGot => UNCHANGED Mailbox!Fifo!vars
<1>1. ASSUME NEW m \in Mails, Len(MbContent) < MaxMsgs,
             MbContent' = Append(MbContent, <<m>>), MbGot' = MbGot
      PROVE  Mailbox!Fifo!Next
  <2>1. Mailbox!Fifo!Carries(<<m>>, <<m>>)
    BY DEF Mailbox!Fifo!Carries, Mailbox!Fifo!IsPrefix
  <2>2. Mailbox!Fifo!Put(<<m>>)
    BY <1>1, <2>1 DEF Mailbox!Fifo!Put, MbContent, MbGot
  <2>3. QED BY <2>2 DEF Mailbox!Fifo!Next
<1>2. ASSUME NEW t \in Receivers, MbContent # <<>>, MbContent' = Tail(MbContent),
             MbGot' = [MbGot EXCEPT ![t] = Head(MbContent)]
      PROVE  Mailbox!Fifo!Next
  <2>1. Mailbox!Fifo!Get(t)
    BY <1>2 DEF Mailbox!Fifo!Get, MbContent, MbGot
  <2>2. QED BY <2>1 DEF Mailbox!Fifo!Next
<1>3. MbContent' = <<>> /\ MbGot' = MbGot => Mailbox!Fifo!Next
  BY DEF Mailbox!Fifo!Next, Mailbox!Fifo!Flush, MbContent, MbGot
<1>4. MbContent' = MbContent /\ MbGot' = MbGot => UNCHANGED Mailbox!Fifo!vars
  BY DEF Mailbox!Fifo!vars, MbContent, MbGot
<1>5. QED BY <1>1, <1>2, <1>3, <1>4

LEMMA MbFifoInit == IpcInit => Mailbox!Fifo!Init
<1> SUFFICES ASSUME IpcInit PROVE Mailbox!Fifo!Init
  OBVIOUS
<1>1. mb_entry = 0 /\ mb_got = [t \in Receivers |-> NoMail]
  BY DEF IpcInit, Mailbox!Init
<1>2. Mailbox!Content = <<>>
  BY <1>1 DEF Mailbox!Content
<1>3. MbGot \in [Receivers -> {<<m>> : m \in Mails \cup {NoMail}}]
  BY <1>1 DEF MbGot
<1>4. QED BY <1>2, <1>3 DEF Mailbox!Fifo!Init, MbGot

LEMMA MbPutStep ==
    ASSUME MbInv, NEW t, NEW m \in Mails, NEW w, Mailbox!TrySend(t, m, w)
    PROVE  Mailbox!Fifo!Next \/ UNCHANGED Mailbox!Fifo!vars
<1>1. /\ mb_pool \in [0..MaxMsgs-1 -> Mails \cup {NoMail}] /\ mb_entry \in 0..MaxMsgs
      /\ mb_in \in 0..MaxMsgs-1 /\ mb_out \in 0..MaxMsgs-1
      /\ mb_in = IF mb_out + mb_entry < MaxMsgs THEN mb_out + mb_entry
                 ELSE mb_out + mb_entry - MaxMsgs
  BY DEF MbInv, MbRing
<1>2. mb_got' = mb_got
  BY DEF Mailbox!TrySend
<1>3. MbGot' = MbGot
  BY <1>2 DEF MbGot
<1>4. CASE mb_entry < MaxMsgs
  <2>1. /\ mb_pool' = [mb_pool EXCEPT ![mb_in] = m]
        /\ mb_entry' = mb_entry + 1 /\ mb_out' = mb_out
    <3>1. mb_entry # MaxMsgs
      BY <1>1, <1>4, Constants
    <3>2. QED BY <1>4, <3>1 DEF Mailbox!TrySend
  <2>2. mb_entry \in 0..MaxMsgs-1
    BY <1>1, <1>4, Constants
  <2>3. MbContent' = Append(MbContent, <<m>>)
    <3>1. mb_in = RingPlace(mb_out, mb_entry + 1)
      BY <1>1, <2>2, Constants DEF RingPlace
    <3>2. MailSeq([mb_pool EXCEPT ![mb_in] = m], mb_entry + 1, mb_out) =
             Append(MailSeq(mb_pool, mb_entry, mb_out), <<m>>)
      BY <1>1, <2>2, <3>1, MailSeqPut, ZenonT(30)
    <3>3. QED BY <2>1, <3>2, ContentIs
  <2>4. Len(MbContent) < MaxMsgs
    BY <1>1, <1>4, ContentIs, MailSeqFacts
  <2>5. QED BY <1>3, <2>3, <2>4, FifoSteps
<1>5. CASE ~(mb_entry < MaxMsgs)
  <2>1. UNCHANGED <<mb_pool, mb_entry, mb_out>>
    BY <1>5 DEF Mailbox!TrySend, Mailbox!ring
  <2>2. QED BY <1>3, <2>1, ContentIs, FifoSteps
<1>6. QED BY <1>4, <1>5

LEMMA MbGetStep ==
    ASSUME MbInv, NEW t \in Receivers, NEW w, Mailbox!TryRecv(t, w)
    PROVE  Mailbox!Fifo!Next \/ UNCHANGED Mailbox!Fifo!vars
<1>1. /\ mb_pool \in [0..MaxMsgs-1 -> Mails \cup {NoMail}] /\ mb_entry \in 0..MaxMsgs
      /\ mb_out \in 0..MaxMsgs-1 /\ mb_got \in [Receivers -> Mails \cup {NoMail}]
  BY DEF MbInv, MbRing, MbCalls
<1>2. CASE mb_entry > 0
  <2>1. mb_entry # 0 /\ mb_entry \in 1..MaxMsgs
    BY <1>1, <1>2, Constants
  <2>2. /\ mb_got' = [mb_got EXCEPT ![t] = mb_pool[mb_out]]
        /\ mb_pool' = mb_pool /\ mb_entry' = mb_entry - 1
        /\ mb_out' = Mailbox!After(mb_out)
    BY <1>2, <2>1 DEF Mailbox!TryRecv
  <2>3. mb_out' = IF mb_out + 1 < MaxMsgs THEN mb_out + 1 ELSE 0
    BY <1>1, <2>2, AfterFacts
  <2>4. /\ MbContent # <<>> /\ Head(MbContent) = <<mb_pool[mb_out]>>
        /\ MbContent' = Tail(MbContent)
    BY <1>1, <2>1, <2>2, <2>3, ContentIs, MailSeqGet
  <2>5. MbGot' = [MbGot EXCEPT ![t] = <<mb_pool[mb_out]>>]
    BY <1>1, <2>2 DEF MbGot
  <2>6. QED BY <2>4, <2>5, FifoSteps
<1>3. CASE ~(mb_entry > 0)
  <2>1. UNCHANGED <<mb_pool, mb_entry, mb_out, mb_got>>
    BY <1>3 DEF Mailbox!TryRecv, Mailbox!ring
  <2>2. QED BY <2>1, ContentIs, FifoSteps DEF MbGot
<1>4. QED BY <1>2, <1>3

LEMMA MbStep ==
    MbInv /\ [IpcNext]_ipcVars => [Mailbox!Fifo!Next]_(Mailbox!Fifo!vars)
<1> SUFFICES ASSUME MbInv, [IpcNext]_ipcVars
             PROVE  Mailbox!Fifo!Next \/ UNCHANGED Mailbox!Fifo!vars
  OBVIOUS
<1>1. CASE UNCHANGED <<mb_pool, mb_entry, mb_out, mb_got>>
  BY <1>1, ContentIs, FifoSteps DEF MbGot
<1>2. CASE Mailbox!Next
  <2>1. ASSUME NEW t \in Senders, NEW m \in Mails, NEW w \in Mailbox!Waits,
               Mailbox!SendWait(t, m, w)
        PROVE  Mailbox!Fifo!Next \/ UNCHANGED Mailbox!Fifo!vars
    BY <2>1, MbPutStep DEF Mailbox!SendWait
  <2>2. ASSUME NEW t \in Receivers, NEW w \in Mailbox!Waits, Mailbox!Recv(t, w)
        PROVE  Mailbox!Fifo!Next \/ UNCHANGED Mailbox!Fifo!vars
    BY <2>2, MbGetStep DEF Mailbox!Recv
  <2>3. ASSUME NEW t \in Threads, Mailbox!SendRetry(t)
        PROVE  Mailbox!Fifo!Next \/ UNCHANGED Mailbox!Fifo!vars
    <3>1. mb_call[t].mail \in Mails
      BY <2>3 DEF Mailbox!SendRetry, MbInv, MbCalls
    <3>2. QED BY <2>3, <3>1, MbPutStep DEF Mailbox!SendRetry
  <2>4. ASSUME NEW t \in Threads, Mailbox!RecvRetry(t)
        PROVE  Mailbox!Fifo!Next \/ UNCHANGED Mailbox!Fifo!vars
    <3>1. t \in Receivers
      BY <2>4 DEF Mailbox!RecvRetry, MbInv, MbCalls
    <3>2. QED BY <2>4, <3>1, MbGetStep DEF Mailbox!RecvRetry
  <2>5. ASSUME NEW t \in Threads, Mailbox!Timeout(t)
        PROVE  Mailbox!Fifo!Next \/ UNCHANGED Mailbox!Fifo!vars
    BY <1>1, <2>5 DEF Mailbox!Timeout, Mailbox!ring
  <2>6. ASSUME Mailbox!Reset
        PROVE  Mailbox!Fifo!Next \/ UNCHANGED Mailbox!Fifo!vars
    <3>1. mb_entry' = 0 /\ mb_got' = mb_got
      BY <2>6 DEF Mailbox!Reset
    <3>2. MbContent' = <<>> /\ MbGot' = MbGot
      BY <3>1 DEF MbContent, MbGot, Mailbox!Content
    <3>3. QED BY <3>2, FifoSteps
  <2>7. QED BY <1>2, <2>1, <2>2, <2>3, <2>4, <2>5, <2>6, Constants DEF Mailbox!Next
<1>3. QED BY <1>1, <1>2 DEF IpcNext, ipcVars, mbVars

(* The mailbox is a bounded FIFO: a mail that rt_mb_send_wait put in is    *)
(* received once, in its turn and as it was sent, however the ring wraps   *)
(* and whoever is suspended; only a reset discards mails.                  *)
THEOREM MailboxIsFifo == IpcSpec => MailboxSpec
<1>1. IpcSpec => Mailbox!Fifo!Init /\ [][Mailbox!Fifo!Next]_(Mailbox!Fifo!vars)
  BY MbFifoInit, MbStep, MailboxInvariant, PTL DEF IpcSpec
<1>2. QED BY <1>1 DEF MailboxSpec, Mailbox!FifoSpec, Mailbox!Fifo!Spec

-----------------------------------------------------------------------------
(* Linked lists of slots.                                                  *)

(* The slots that are linked from s on are those of the sequence q.        *)
Links(next, s, q) ==
    /\ q \in Seq(Slots) /\ IsInjective(q)
    /\ s = IF q = <<>> THEN NULL ELSE q[1]
    /\ \A i \in 1..Len(q) : next[q[i]] = IF i = Len(q) THEN NULL ELSE q[i+1]

(* The walk along the links that Chain denotes.                            *)
Walk(next, s) ==
    CHOOSE c : c = [i \in 0..MaxMsgs |->
        IF i = 0 THEN s ELSE IF c[i-1] = NULL THEN NULL ELSE next[c[i-1]]]

LEMMA ChainIsWalk ==
    ASSUME NEW s
    PROVE  Chain(s) = Walk(mq_next, s)
BY DEF Chain, Walk

(* As many slots as the list is long.                                      *)
LEMMA SlotsOfList ==
    ASSUME NEW q \in Seq(Slots), IsInjective(q)
    PROVE  /\ IsFiniteSet(Elements(q)) /\ Cardinality(Elements(q)) = Len(q)
           /\ Len(q) \in 0..MaxMsgs /\ Elements(q) \subseteq Slots
<1>1. Len(q) \in Nat /\ q \in [1..Len(q) -> Slots]
  BY LenProperties
<1>2. IsFiniteSet(1..Len(q)) /\ Cardinality(1..Len(q)) = Len(q)
  BY <1>1, FS_Interval
<1>3. q \in Bijection(1..Len(q), Elements(q))
  BY <1>1 DEF Bijection, Injection, Surjection, Elements, IsInjective
<1>4. IsFiniteSet(Elements(q)) /\ Cardinality(Elements(q)) = Len(q)
  BY <1>2, <1>3, FS_Bijection DEF ExistsBijection
<1>5. Elements(q) \subseteq Slots
  BY <1>1 DEF Elements
<1>6. IsFiniteSet(Slots) /\ Cardinality(Slots) = MaxMsgs
  BY Constants, FS_Interval DEF Slots
<1>7. Cardinality(Elements(q)) <= MaxMsgs
  BY <1>5, <1>6, FS_Subset
<1>8. QED BY <1>1, <1>4, <1>5, <1>7, Constants

LEMMA WalkFollows ==
    ASSUME NEW next, NEW s, NEW q, Links(next, s, q)
    PROVE  Walk(next, s) = [i \in 0..MaxMsgs |-> IF i < Len(q) THEN q[i+1] ELSE NULL]
<1> DEFINE F(c) == [i \in 0..MaxMsgs |->
               IF i = 0 THEN s ELSE IF c[i-1] = NULL THEN NULL ELSE next[c[i-1]]]
           h == [i \in 0..MaxMsgs |-> IF i < Len(q) THEN q[i+1] ELSE NULL]
           w == Walk(next, s)
<1>1. /\ q \in Seq(Slots) /\ Len(q) \in 0..MaxMsgs /\ NULL \notin Slots
      /\ \A i \in 1..Len(q) : q[i] \in Slots
      /\ MaxMsgs \in Nat
  BY SlotsOfList, Constants, ElementOfSeq DEF Links
<1>2. s = h[0] /\ \A i \in 1..MaxMsgs : h[i] = IF h[i-1] = NULL THEN NULL ELSE next[h[i-1]]
  <2>1. s = h[0]
    BY <1>1 DEF Links
  <2>2. ASSUME NEW i \in 1..MaxMsgs, i < Len(q)
        PROVE  h[i] = IF h[i-1] = NULL THEN NULL ELSE next[h[i-1]]
    <3>1. i \in 1..Len(q) /\ i # Len(q) /\ i - 1 \in 0..MaxMsgs /\ i \in 0..MaxMsgs
      BY <1>1, <2>2
    <3>2. h[i-1] = q[i] /\ h[i] = q[i+1] /\ q[i] # NULL
      BY <1>1, <2>2, <3>1
    <3>3. next[q[i]] = q[i+1]
      BY <3>1 DEF Links
    <3> HIDE DEF h
    <3>4. QED BY <3>2, <3>3
  <2>3. ASSUME NEW i \in 1..MaxMsgs, i = Len(q)
        PROVE  h[i] = IF h[i-1] = NULL THEN NULL ELSE next[h[i-1]]
    <3>1. i \in 1..Len(q) /\ i - 1 \in 0..MaxMsgs /\ i \in 0..MaxMsgs
      BY <1>1, <2>3
    <3>2. h[i-1] = q[i] /\ h[i] = NULL /\ q[i] # NULL
      BY <1>1, <2>3, <3>1
    <3>3. next[q[i]] = NULL
      BY <2>3, <3>1 DEF Links
    <3> HIDE DEF h
    <3>4. QED BY <3>2, <3>3
  <2>4. ASSUME NEW i \in 1..MaxMsgs, i > Len(q)
        PROVE  h[i] = IF h[i-1] = NULL THEN NULL ELSE next[h[i-1]]
    <3>1. h[i-1] = NULL /\ h[i] = NULL
      BY <1>1, <2>4
    <3> HIDE DEF h
    <3>2. QED BY <3>1
  <2> HIDE DEF h
  <2>5. QED BY <1>1, <2>1, <2>2, <2>3, <2>4
<1>3. h = F(h)
  <2>1. h = [i \in 0..MaxMsgs |-> h[i]]
    OBVIOUS
  <2> HIDE DEF h
  <2>2. \A i \in 0..MaxMsgs : h[i] = F(h)[i]
    BY <1>1, <1>2
  <2>3. F(h) = [i \in 0..MaxMsgs |-> F(h)[i]]
    OBVIOUS
  <2> HIDE DEF F
  <2>4. QED BY <2>1, <2>2, <2>3
<1>4. w = F(w)
  <2>1. \E c : c = F(c)
    BY <1>3
  <2>2. QED BY <2>1 DEF Walk
<1> HIDE DEF w, h
<1>5. \A i \in 0..MaxMsgs : w[i] = h[i]
  <2> DEFINE S == {i \in 0..MaxMsgs : w[i] = h[i]}
  <2>1. 0 \in S
    BY <1>1, <1>2, <1>4
  <2>2. ASSUME NEW i \in 0..MaxMsgs-1, i \in S PROVE i + 1 \in S
    <3>1. i + 1 \in 1..MaxMsgs /\ (i + 1) - 1 = i /\ w[i] = h[i] /\ i + 1 \in 0..MaxMsgs
      BY <1>1, <2>2
    <3>2. h[i+1] = IF h[i] = NULL THEN NULL ELSE next[h[i]]
      BY <1>2, <3>1
    <3>3. F(w)[i+1] = IF w[i] = NULL THEN NULL ELSE next[w[i]]
      BY <3>1
    <3> HIDE DEF F
    <3>4. QED BY <1>4, <3>1, <3>2, <3>3
  <2> HIDE DEF S
  <2>3. \A i \in 0..MaxMsgs : i \in S
    BY <1>1, <2>1, <2>2, IntervalInduction
  <2>4. QED BY <2>3 DEF S
<1>6. w = [i \in 0..MaxMsgs |-> w[i]]
  BY <1>4
<1>7. h = [i \in 0..MaxMsgs |-> h[i]]
  BY DEF h
<1>8. w = h
  <2> HIDE DEF F
  <2>1. QED BY <1>5, <1>6, <1>7
<1>9. QED BY <1>8 DEF w, h

LEMMA WalkFacts ==
    ASSUME NEW next, NEW s, NEW q, Links(next, s, q)
    PROVE  /\ Walk(next, s)[Len(q)] = NULL
           /\ \A i \in 1..Len(q) : Walk(next, s)[i-1] = q[i]
           /\ {Walk(next, s)[i] : i \in 0..MaxMsgs} \ {NULL} = Elements(q)
<1>1. /\ q \in Seq(Slots) /\ Len(q) \in 0..MaxMsgs /\ NULL \notin Slots
      /\ \A i \in 1..Len(q) : q[i] \in Slots
      /\ MaxMsgs \in Nat
  BY SlotsOfList, Constants, ElementOfSeq DEF Links
<1> DEFINE w == Walk(next, s)
<1>2. \A i \in 0..MaxMsgs : w[i] = IF i < Len(q) THEN q[i+1] ELSE NULL
  <2>1. w = [i \in 0..MaxMsgs |-> IF i < Len(q) THEN q[i+1] ELSE NULL]
    BY WalkFollows
  <2> HIDE DEF w
  <2>2. QED BY <2>1
<1> HIDE DEF w
<1>3. w[Len(q)] = NULL
  BY <1>1, <1>2
<1>4. ASSUME NEW i \in 1..Len(q) PROVE w[i-1] = q[i]
  <2>1. i - 1 \in 0..MaxMsgs /\ i - 1 < Len(q) /\ (i - 1) + 1 = i
    BY <1>1
  <2>2. QED BY <1>2, <2>1
<1>5. ASSUME NEW x \in Elements(q) PROVE x # NULL /\ \E i \in 0..MaxMsgs : x = w[i]
  <2>1. PICK i \in 1..Len(q) : x = q[i]
    BY DEF Elements
  <2>2. i - 1 \in 0..MaxMsgs
    BY <1>1
  <2>3. QED BY <1>1, <1>4, <2>1, <2>2
<1>6. ASSUME NEW i \in 0..MaxMsgs, w[i] # NULL PROVE w[i] \in Elements(q)
  <2>1. i < Len(q) /\ w[i] = q[i+1]
    BY <1>2, <1>6
  <2>2. i + 1 \in 1..Len(q)
    BY <1>1, <2>1
  <2>3. QED BY <2>1, <2>2 DEF Elements
<1>7. {w[i] : i \in 0..MaxMsgs} \ {NULL} = Elements(q)
  BY <1>5, <1>6
<1>8. QED BY <1>3, <1>4, <1>7 DEF w

(* Sequences of slots: taking the first, adding in front and at the end.   *)
LEMMA TakeFirst ==
    ASSUME NEW next, NEW s, NEW q, Links(next, s, q), s # NULL
    PROVE  /\ q # <<>> /\ s = Head(q) /\ s \in Elements(q) /\ s \in Slots
           /\ Links(next, next[s], Tail(q))
           /\ Elements(Tail(q)) = Elements(q) \ {s} /\ Len(Tail(q)) = Len(q) - 1
<1> DEFINE r == Tail(q)
<1>1. q \in Seq(Slots) /\ IsInjective(q) /\ q # <<>> /\ s = q[1]
  BY DEF Links
<1>2. Head(q) = q[1]
  BY <1>1
<1>3. /\ Head(q) \in Slots /\ Head(q) \in Elements(q)
      /\ r \in Seq(Slots) /\ Len(r) = Len(q) - 1
      /\ Elements(r) = Elements(q) \ {Head(q)}
      /\ IsInjective(r)
  BY <1>1, HeadLeaves
<1>0. Len(q) \in Nat /\ Len(q) >= 1
  BY <1>1, EmptySeq
<1>4. Len(q) \in Nat /\ \A i \in 1..Len(q) - 1 : r[i] = q[i+1]
  BY <1>0, <1>1, HeadTailProperties
<1> HIDE DEF r
<1>5. r = <<>> <=> Len(q) = 1
  <2>1. r = <<>> => Len(r) = 0
    BY EmptySeq
  <2>2. r # <<>> => Len(r) \in Nat \ {0}
    BY <1>3, EmptySeq
  <2>3. QED BY <1>0, <1>3, <2>1, <2>2
<1>6. next[s] = IF r = <<>> THEN NULL ELSE r[1]
  <2>1. next[q[1]] = IF 1 = Len(q) THEN NULL ELSE q[2]
    <3>1. 1 \in 1..Len(q)
      BY <1>0
    <3>2. \A i \in 1..Len(q) : next[q[i]] = IF i = Len(q) THEN NULL ELSE q[i+1]
      BY DEF Links
    <3>3. next[q[1]] = IF 1 = Len(q) THEN NULL ELSE q[1+1]
      BY <3>1, <3>2
    <3>4. QED BY <3>3
  <2>2. Len(q) # 1 => r[1] = q[2]
    <3>1. Len(q) # 1 => 1 \in 1..Len(q) - 1
      BY <1>0
    <3>2. \A i \in 1..Len(q) - 1 : r[i] = q[i+1]
      BY <1>4
    <3>3. Len(q) # 1 => r[1] = q[1+1]
      BY <3>1, <3>2
    <3>4. QED BY <3>3, SMTT(30)
  <2>3. QED BY <1>1, <1>5, <2>1, <2>2, SMTT(30)
<1>7. ASSUME NEW i \in 1..Len(r)
      PROVE  next[r[i]] = IF i = Len(r) THEN NULL ELSE r[i+1]
  <2> DEFINE j == i + 1
  <2>1. i \in 1..Len(q)-1 /\ j \in 1..Len(q) /\ Len(r) = Len(q) - 1
    BY <1>3, <1>4
  <2>2. r[i] = q[j]
    BY <1>4, <2>1
  <2>3. i = Len(r) <=> j = Len(q)
    BY <1>4, <2>1
  <2>4. i # Len(r) => j \in 1..Len(q)-1
    BY <1>4, <2>1
  <2> HIDE DEF j
  <2>5. next[q[j]] = IF j = Len(q) THEN NULL ELSE q[j+1]
    BY <2>1 DEF Links
  <2>6. i # Len(r) => r[j] = q[j+1]
    BY <1>4, <2>4
  <2>7. next[r[i]] = IF i = Len(r) THEN NULL ELSE r[j]
    BY <2>2, <2>3, <2>5, <2>6
  <2>8. QED BY <2>7 DEF j
<1>8. Links(next, next[s], r)
  BY <1>3, <1>6, <1>7 DEF Links
<1>9. QED BY <1>1, <1>2, <1>3, <1>8 DEF r

(* Writing the link of a slot that is not on the list.                     *)
LEMMA OtherLink ==
    ASSUME NEW next \in [Slots -> Slots \cup {NULL}], NEW s, NEW q, Links(next, s, q),
           NEW p, p \notin Elements(q), NEW v
    PROVE  Links([next EXCEPT ![p] = v], s, q)
<1>1. \A i \in 1..Len(q) : q[i] # p /\ q[i] \in Slots
  BY ElementOfSeq DEF Elements, Links
<1>2. \A i \in 1..Len(q) : [next EXCEPT ![p] = v][q[i]] = next[q[i]]
  BY <1>1
<1>3. QED BY <1>2 DEF Links

LinkTo(next, p, s) == [next EXCEPT ![p] = s]

LEMMA PutFirst ==
    ASSUME NEW next \in [Slots -> Slots \cup {NULL}], NEW s, NEW q, Links(next, s, q),
           NEW p \in Slots, p \notin Elements(q)
    PROVE  /\ Links(LinkTo(next, p, s), p, <<p>> \o q)
           /\ Elements(<<p>> \o q) = Elements(q) \cup {p}
           /\ Len(<<p>> \o q) = Len(q) + 1
<1> DEFINE r == <<p>> \o q
           next2 == LinkTo(next, p, s)
<1>1. q \in Seq(Slots) /\ IsInjective(q) /\ Len(q) \in Nat /\ DOMAIN q = 1..Len(q)
  BY LenProperties DEF Links
<1>2. /\ r \in Seq(Slots) /\ Len(r) = Len(q) + 1 /\ r[1] = p /\ r # <<>>
      /\ \A i \in 1..Len(q) : r[i+1] = q[i]
      /\ DOMAIN r = 1..Len(r)
  BY <1>1
<1>3. \A i \in 1..Len(q) : q[i] # p /\ q[i] \in Slots
  BY <1>1, ElementOfSeq DEF Elements
<1>4. next2[p] = s /\ \A i \in 1..Len(q) : next2[q[i]] = next[q[i]]
  BY <1>3 DEF LinkTo
<1> HIDE DEF r, next2
<1>0. Len(q) \in Nat
  BY <1>1
<1>5. ASSUME NEW i \in 1..Len(r)
      PROVE  i = 1 \/ \E j \in 1..Len(q) : i = j + 1 /\ r[i] = q[j]
  <2>1. i # 1 => i - 1 \in 1..Len(q) /\ i = (i - 1) + 1
    BY <1>1, <1>2
  <2>2. QED BY <1>2, <2>1
<1>6. Elements(r) = Elements(q) \cup {p}
  <2>1. 1 \in 1..Len(r) /\ \A j \in 1..Len(q) : j + 1 \in 1..Len(r)
    BY <1>1, <1>2
  <2>2. ASSUME NEW x \in Elements(r) PROVE x \in Elements(q) \cup {p}
    <3>1. PICK i \in 1..Len(r) : x = r[i]
      BY <2>2 DEF Elements
    <3>2. i = 1 \/ \E j \in 1..Len(q) : r[i] = q[j]
      BY <1>5
    <3>3. QED BY <1>2, <3>1, <3>2 DEF Elements
  <2>3. ASSUME NEW j \in 1..Len(q) PROVE q[j] \in Elements(r)
    BY <1>2, <2>1 DEF Elements
  <2>4. p \in Elements(r)
    BY <1>2, <2>1 DEF Elements
  <2>5. QED BY <2>2, <2>3, <2>4 DEF Elements
<1>7. ASSUME NEW a \in 1..Len(r), NEW b \in 1..Len(r), r[a] = r[b] PROVE a = b
  <2>1. a = 1 \/ \E j \in 1..Len(q) : a = j + 1 /\ r[a] = q[j]
    BY <1>5
  <2>2. b = 1 \/ \E j \in 1..Len(q) : b = j + 1 /\ r[b] = q[j]
    BY <1>5
  <2>3. \A i, j \in 1..Len(q) : q[i] = q[j] => i = j
    BY <1>1 DEF IsInjective
  <2>4. QED BY <1>2, <1>3, <1>7, <2>1, <2>2, <2>3
<1>8. ASSUME NEW i \in 1..Len(r)
      PROVE  next2[r[i]] = IF i = Len(r) THEN NULL ELSE r[i+1]
  <2>1. CASE i = 1
    <3>1. r[i] = p /\ next2[r[i]] = s
      BY <1>2, <1>4, <2>1
    <3>2. i = Len(r) <=> q = <<>>
      BY <1>1, <1>2, <2>1, EmptySeq
    <3>3. q # <<>> => 1 \in 1..Len(q)
      BY <1>1, EmptySeq
    <3>4. q # <<>> => r[i+1] = q[1]
      BY <1>2, <2>1, <3>3
    <3>5. QED BY <3>1, <3>2, <3>4 DEF Links
  <2>2. ASSUME NEW j \in 1..Len(q), i = j + 1, r[i] = q[j]
        PROVE  next2[r[i]] = IF i = Len(r) THEN NULL ELSE r[i+1]
    <3>1. next2[r[i]] = IF j = Len(q) THEN NULL ELSE q[j+1]
      BY <1>4, <2>2 DEF Links
    <3>2. i = Len(r) <=> j = Len(q)
      BY <1>0, <1>2, <2>2
    <3>3. j # Len(q) => j + 1 \in 1..Len(q)
      BY <1>0
    <3>4. j # Len(q) => r[i+1] = q[j+1]
      BY <1>2, <2>2, <3>3
    <3>5. QED BY <3>1, <3>2, <3>4
  <2>3. QED BY <1>5, <2>1, <2>2
<1>9. Links(next2, p, r)
  BY <1>2, <1>7, <1>8 DEF Links, IsInjective
<1>10. QED BY <1>2, <1>6, <1>9 DEF r, next2

LinkBehind(next, q, p) == IF q = <<>> THEN next ELSE [next EXCEPT ![q[Len(q)]] = p]
HeadOr(s, p) == IF s = NULL THEN p ELSE s

LEMMA PutLast ==
    ASSUME NEW next \in [Slots -> Slots \cup {NULL}], NEW s, NEW q, Links(next, s, q),
           NEW p \in Slots, p \notin Elements(q), next[p] = NULL
    PROVE  /\ Links(LinkBehind(next, q, p), HeadOr(s, p), Append(q, p))
           /\ Elements(Append(q, p)) = Elements(q) \cup {p}
           /\ Len(Append(q, p)) = Len(q) + 1
           /\ Append(q, p)[Len(q) + 1] = p
<1> DEFINE r == Append(q, p)
           n == Len(q)
           next2 == LinkBehind(next, q, p)
<1>0. n \in Nat
  BY LenProperties DEF Links
<1>1. q \in Seq(Slots) /\ IsInjective(q) /\ DOMAIN q = 1..n
  BY LenProperties DEF Links
<1>2. /\ r \in Seq(Slots) /\ Len(r) = n + 1 /\ r[n+1] = p /\ r # <<>>
      /\ \A i \in 1..n : r[i] = q[i]
      /\ DOMAIN r = 1..Len(r)
  <2>1. /\ r \in Seq(Slots) /\ Len(r) = n + 1 /\ r[n+1] = p
        /\ \A i \in 1..n : r[i] = q[i]
    BY <1>1, AppendProperties
  <2>2. DOMAIN r = 1..Len(r)
    BY <2>1, LenProperties
  <2>3. r # <<>>
    <3>1. Len(r) # 0
      BY <1>0, <2>1
    <3> HIDE DEF r
    <3>2. QED BY <3>1, EmptySeq
  <2>4. QED BY <2>1, <2>2, <2>3
<1>3. \A i \in 1..n : q[i] # p /\ q[i] \in Slots /\ q[i] # NULL
  <2>1. \A i \in 1..n : q[i] # p
    BY DEF Elements
  <2>2. \A i \in 1..n : q[i] \in Slots
    BY <1>1, ElementOfSeq
  <2>3. QED BY <2>1, <2>2, Constants
<1>4. q # <<>> <=> n > 0
  <2>1. q = <<>> => n = 0
    BY EmptySeq
  <2>2. q # <<>> => n \in Nat \ {0}
    BY <1>1, EmptySeq
  <2> HIDE DEF n
  <2>3. QED BY <1>0, <2>1, <2>2
<1>5. IF n = 0 THEN next2 = next
      ELSE next2 = [next EXCEPT ![q[n]] = p]
  <2>1. n # 0 => q # <<>> /\ n \in 1..n
    BY <1>0, <1>4
  <2>2. n = 0 => q = <<>>
    BY <1>0, <1>4
  <2>3. QED BY <2>1, <2>2 DEF LinkBehind
<1>6. IF s = NULL THEN n = 0 ELSE n > 0 /\ s = q[1]
  <2>1. 1 \in 1..n <=> n > 0
    BY <1>0
  <2>2. s = IF q = <<>> THEN NULL ELSE q[1]
    BY DEF Links
  <2>3. n = 0 <=> ~(n > 0)
    BY <1>0
  <2> HIDE DEF n
  <2>4. QED BY <1>3, <1>4, <2>1, <2>2, <2>3
<1>7. \A i \in 1..n : next[q[i]] = IF i = n THEN NULL ELSE q[i+1]
  BY DEF Links
<1>8. \A i, j \in 1..n : q[i] = q[j] => i = j
  BY <1>1 DEF IsInjective
<1> HIDE DEF r, n, next2
<1>9. \A i \in 1..Len(r) : i = n + 1 \/ (i \in 1..n /\ i # n + 1)
  BY <1>0, <1>2
<1>10. Elements(r) = Elements(q) \cup {p}
  <2>1. n + 1 \in 1..Len(r) /\ \A j \in 1..n : j \in 1..Len(r)
    BY <1>0, <1>2
  <2>2. ASSUME NEW x \in Elements(r) PROVE x \in Elements(q) \cup {p}
    BY <1>2, <1>9 DEF Elements, n
  <2>3. ASSUME NEW j \in 1..n PROVE q[j] \in Elements(r)
    BY <1>2, <2>1 DEF Elements
  <2>4. p \in Elements(r)
    BY <1>2, <2>1 DEF Elements
  <2>5. QED BY <2>2, <2>3, <2>4 DEF Elements, n
<1>11. ASSUME NEW a \in 1..Len(r), NEW b \in 1..Len(r), r[a] = r[b] PROVE a = b
  BY <1>2, <1>3, <1>8, <1>9, <1>11
<1>12. ASSUME NEW i \in 1..Len(r)
       PROVE  next2[r[i]] = IF i = Len(r) THEN NULL ELSE r[i+1]
  <2>1. CASE i = n + 1
    <3>1. i = Len(r) /\ r[i] = p
      BY <1>2, <2>1
    <3>2. next2[p] = NULL
      <4>1. n # 0 => q[n] # p
        <5>1. n # 0 => n \in 1..n
          BY <1>0
        <5>2. QED BY <1>3, <5>1
      <4>2. QED BY <1>5, <4>1
    <3>3. QED BY <3>1, <3>2
  <2>2. CASE i \in 1..n /\ i = n
    <3>1. n # 0 /\ i # Len(r) /\ r[i] = q[n] /\ r[i+1] = p
      BY <1>0, <1>2, <2>2
    <3>2. next2[q[n]] = p
      BY <1>3, <1>5, <2>2, <3>1
    <3>3. QED BY <3>1, <3>2
  <2>3. CASE i \in 1..n /\ i # n
    <3>1. n # 0 /\ i # Len(r) /\ i + 1 \in 1..n /\ n \in 1..n
      BY <1>0, <1>2, <2>3
    <3>2. r[i] = q[i] /\ r[i+1] = q[i+1]
      BY <1>2, <2>3, <3>1
    <3>3. q[i] # q[n]
      BY <1>8, <2>3, <3>1
    <3>4. next2[q[i]] = next[q[i]]
      BY <1>3, <1>5, <2>3, <3>1, <3>3
    <3>5. next[q[i]] = q[i+1]
      BY <1>7, <2>3
    <3>6. QED BY <3>1, <3>2, <3>4, <3>5
  <2>4. QED BY <1>9, <2>1, <2>2, <2>3
<1>13. HeadOr(s, p) = r[1]
  <2>1. n = 0 => r[1] = p
    BY <1>2
  <2>2. n > 0 => 1 \in 1..n
    BY <1>0
  <2>3. QED BY <1>0, <1>2, <1>6, <2>1, <2>2 DEF HeadOr
<1>14. Links(next2, HeadOr(s, p), r)
  BY <1>2, <1>11, <1>12, <1>13 DEF Links, IsInjective
<1>15. QED BY <1>2, <1>10, <1>14 DEF r, n, next2

(* The order in which a reset leaves the slots: those of q from the last   *)
(* to the first, and then those of f.                                      *)
Onto(q, f) == [k \in 1..Len(q)+Len(f) |->
                  IF k <= Len(q) THEN q[Len(q)+1-k] ELSE f[k-Len(q)]]

LastOr(q, s) == IF q = <<>> THEN s ELSE q[Len(q)]

LEMMA PutOnto ==
    ASSUME NEW next \in [Slots -> Slots \cup {NULL}], NEW s, NEW q, Links(next, s, q),
           NEW s2, NEW f, Links(next, s2, f), Elements(q) \cap Elements(f) = {},
           NEW next2,
           \A i \in 1..Len(q) : next2[q[i]] = IF i = 1 THEN s2 ELSE q[i-1],
           \A i \in 1..Len(f) : next2[f[i]] = next[f[i]]
    PROVE  /\ Links(next2, LastOr(q, s2), Onto(q, f))
           /\ Elements(Onto(q, f)) = Elements(q) \cup Elements(f)
           /\ Len(Onto(q, f)) = Len(q) + Len(f)
<1> DEFINE n == Len(q)
           m == Len(f)
           r == Onto(q, f)
<1>0. n \in Nat /\ m \in Nat
  BY LenProperties DEF Links
<1>1. /\ q \in Seq(Slots) /\ f \in Seq(Slots)
      /\ \A i, j \in 1..n : q[i] = q[j] => i = j
      /\ \A i, j \in 1..m : f[i] = f[j] => i = j
      /\ \A i \in 1..n, j \in 1..m : q[i] # f[j]
  <2>1. q \in Seq(Slots) /\ f \in Seq(Slots) /\ IsInjective(q) /\ IsInjective(f)
    BY DEF Links
  <2>2. DOMAIN q = 1..n /\ DOMAIN f = 1..m
    BY <2>1, LenProperties
  <2>3. \A i \in 1..n : q[i] \in Elements(q)
    BY DEF Elements
  <2>4. \A i \in 1..m : f[i] \in Elements(f)
    BY DEF Elements
  <2>5. \A i \in 1..n, j \in 1..m : q[i] # f[j]
    BY <2>3, <2>4
  <2>6. QED BY <2>1, <2>2, <2>5 DEF IsInjective
<1>2. \A i \in 1..n : next2[q[i]] = IF i = 1 THEN s2 ELSE q[i-1]
  OBVIOUS
<1>3. \A i \in 1..m : next2[f[i]] = IF i = m THEN NULL ELSE f[i+1]
  BY DEF Links
<1>4. s2 = IF f = <<>> THEN NULL ELSE f[1]
  BY DEF Links
<1>5. (q = <<>> <=> n = 0) /\ (f = <<>> <=> m = 0)
  <2>1. (q = <<>> => n = 0) /\ (f = <<>> => m = 0)
    BY EmptySeq
  <2>2. (q # <<>> => n \in Nat \ {0}) /\ (f # <<>> => m \in Nat \ {0})
    BY <1>1, EmptySeq
  <2> HIDE DEF n, m
  <2>3. QED BY <1>0, <2>1, <2>2
<1>6. /\ \A i \in 1..n : q[i] \in Slots
      /\ \A i \in 1..m : f[i] \in Slots
  BY <1>1, ElementOfSeq
<1>7. r = [k \in 1..n+m |-> IF k <= n THEN q[n+1-k] ELSE f[k-n]]
  BY DEF Onto
<1>8. Elements(q) = {q[i] : i \in 1..n} /\ Elements(f) = {f[i] : i \in 1..m}
  BY DEF Elements
<1> HIDE DEF n, m, r
<1>9. ASSUME NEW k \in 1..n+m
      PROVE  \/ k <= n /\ n+1-k \in 1..n /\ r[k] = q[n+1-k]
             \/ k > n /\ k-n \in 1..m /\ r[k] = f[k-n]
  BY <1>0, <1>7
<1>10. r \in Seq(Slots) /\ Len(r) = n + m
  <2>1. \A k \in 1..n+m : r[k] \in Slots
    BY <1>6, <1>9
  <2>2. r \in [1..n+m -> Slots]
    BY <1>7, <2>1
  <2>3. n + m \in Nat
    BY <1>0
  <2>4. QED BY <2>2, <2>3, FunctionIsSeq
<1>11. Elements(r) = Elements(q) \cup Elements(f)
  <2>1. \A x : x \in Elements(r) <=> \E k \in 1..n+m : x = r[k]
    BY <1>10 DEF Elements
  <2>2. \A x \in Elements(r) : x \in Elements(q) \cup Elements(f)
    BY <1>8, <1>9, <2>1
  <2>3. ASSUME NEW i \in 1..n PROVE \E k \in 1..n+m : r[k] = q[i]
    <3>1. n+1-i \in 1..n+m /\ n+1-i <= n /\ n+1-(n+1-i) = i
      BY <1>0
    <3>2. r[n+1-i] = q[n+1-(n+1-i)]
      BY <1>7, <3>1
    <3>3. QED BY <3>1, <3>2
  <2>4. ASSUME NEW i \in 1..m PROVE \E k \in 1..n+m : r[k] = f[i]
    <3>1. n+i \in 1..n+m /\ ~(n+i <= n) /\ (n+i)-n = i
      BY <1>0
    <3>2. r[n+i] = f[(n+i)-n]
      BY <1>7, <3>1
    <3>3. QED BY <3>1, <3>2
  <2>5. \A x \in Elements(q) \cup Elements(f) : \E k \in 1..n+m : r[k] = x
    BY <1>8, <2>3, <2>4
  <2>6. \A x \in Elements(q) \cup Elements(f) : x \in Elements(r)
    BY <2>1, <2>5
  <2>7. QED BY <2>2, <2>6
<1>12. ASSUME NEW a \in 1..n+m, NEW b \in 1..n+m, r[a] = r[b] PROVE a = b
  <2>1. CASE a <= n /\ b <= n
    <3>1. /\ n+1-a \in 1..n /\ r[a] = q[n+1-a]
          /\ n+1-b \in 1..n /\ r[b] = q[n+1-b]
      BY <1>0, <1>9, <2>1
    <3>2. n+1-a = n+1-b
      BY <1>1, <1>12, <3>1
    <3>3. QED BY <1>0, <3>2
  <2>2. CASE a > n /\ b > n
    <3>1. a-n \in 1..m /\ b-n \in 1..m /\ ~(a <= n) /\ ~(b <= n)
      BY <1>0, <2>2
    <3>2. r[a] = f[a-n] /\ r[b] = f[b-n]
      BY <1>7, <3>1
    <3>3. a-n = b-n
      BY <1>1, <1>12, <3>1, <3>2
    <3>4. QED BY <1>0, <3>3
  <2>3. CASE a <= n /\ b > n
    BY <1>0, <1>1, <1>9, <1>12, <2>3
  <2>4. CASE a > n /\ b <= n
    BY <1>0, <1>1, <1>9, <1>12, <2>4
  <2>5. QED BY <1>0, <2>1, <2>2, <2>3, <2>4
<1>13. ASSUME NEW k \in 1..n+m
       PROVE  next2[r[k]] = IF k = n + m THEN NULL ELSE r[k+1]
  <2>1. CASE k < n
    <3> DEFINE i == n+1-k
    <3>1. i \in 1..n /\ i # 1 /\ k <= n /\ k + 1 <= n /\ k+1 \in 1..n+m /\ k # n+m
      BY <1>0, <2>1
    <3>2. i - 1 = n+1-(k+1)
      BY <1>0
    <3>3. r[k] = q[i] /\ r[k+1] = q[i-1]
      BY <1>7, <3>1, <3>2
    <3> HIDE DEF i
    <3>4. QED BY <1>2, <3>1, <3>3
  <2>2. CASE k = n
    <3>1. k <= n /\ n+1-k = 1 /\ n >= 1 /\ 1 \in 1..n
      BY <1>0, <2>2
    <3>2. r[k] = q[1]
      BY <1>7, <3>1
    <3>3. next2[r[k]] = s2
      BY <1>2, <3>1, <3>2
    <3>4. k = n + m <=> m = 0
      BY <1>0, <2>2
    <3>5. m # 0 => k+1 \in 1..n+m /\ ~(k+1 <= n) /\ (k+1)-n = 1
      BY <1>0, <2>2
    <3>6. m # 0 => r[k+1] = f[1]
      BY <1>7, <3>5
    <3>7. QED BY <1>4, <1>5, <3>3, <3>4, <3>6
  <2>3. CASE k > n
    <3> DEFINE i == k-n
    <3>1. i \in 1..m /\ ~(k <= n) /\ (i = m <=> k = n + m)
      BY <1>0, <2>3
    <3>2. i # m => k+1 \in 1..n+m /\ ~(k+1 <= n) /\ (k+1)-n = i + 1
      BY <1>0, <2>3
    <3>3. r[k] = f[i] /\ (i # m => r[k+1] = f[i+1])
      BY <1>7, <3>1, <3>2
    <3> HIDE DEF i
    <3>4. QED BY <1>3, <3>1, <3>3
  <2>4. QED BY <1>0, <2>1, <2>2, <2>3
<1>14. LastOr(q, s2) = IF r = <<>> THEN NULL ELSE r[1]
  <2>0. LastOr(q, s2) = IF q = <<>> THEN s2 ELSE q[n]
    BY DEF LastOr, n
  <2>1. r = <<>> <=> n + m = 0
    <3>1. r = <<>> => n + m = 0
      BY <1>10, EmptySeq
    <3>2. r # <<>> => n + m # 0
      BY <1>10, EmptySeq
    <3>3. QED BY <3>1, <3>2
  <2>2. CASE n # 0
    <3>1. 1 \in 1..n+m /\ 1 <= n /\ n+1-1 = n /\ n + m # 0
      BY <1>0, <2>2
    <3>2. r[1] = q[n]
      BY <1>7, <3>1
    <3>3. QED BY <2>0, <1>5, <2>1, <2>2, <3>1, <3>2
  <2>3. CASE n = 0 /\ m # 0
    <3>1. 1 \in 1..n+m /\ ~(1 <= n) /\ 1-n = 1 /\ n + m # 0
      BY <1>0, <2>3
    <3>2. r[1] = f[1]
      BY <1>7, <3>1
    <3>3. QED BY <2>0, <1>4, <1>5, <2>1, <2>3, <3>1, <3>2
  <2>4. CASE n = 0 /\ m = 0
    <3>1. n + m = 0
      BY <2>4
    <3>2. QED BY <2>0, <1>4, <1>5, <2>1, <2>4, <3>1
  <2>5. QED BY <2>2, <2>3, <2>4
<1>15. \A a, b \in DOMAIN r : r[a] = r[b] => a = b
  <2>1. DOMAIN r = 1..n+m
    BY <1>7
  <2>2. QED BY <1>12, <2>1
<1>16. Links(next2, LastOr(q, s2), r)
  BY <1>10, <1>13, <1>14, <1>15 DEF Links, IsInjective
<1>17. QED BY <1>10, <1>11, <1>16 DEF r, n, m

-----------------------------------------------------------------------------
(* The message queue.                                                      *)

Sending   == {"send_wait", "send_woken", "send_copy", "send_link",
              "urgent_copy", "urgent_link"}
Receiving == {"recv_wait", "recv_woken", "recv_copy", "recv_free"}
Holding   == {"send_copy", "send_link", "urgent_copy", "urgent_link",
              "recv_copy", "recv_free"}

(* What each thread is in, what it sends and the slot it holds.            *)
MqCalls ==
    /\ mq_pc \in [Threads -> PC]
    /\ mq_msg \in [Threads -> Slots \cup {NULL}]
    /\ mq_sent \in [Threads -> Messages \cup {<<>>}]
    /\ mq_got \in [Receivers -> Words]
    /\ mq_wait \in [Threads -> Waits]
    /\ \A t \in Threads :
          /\ mq_msg[t] # NULL <=> mq_pc[t] \in Holding
          /\ mq_pc[t] \in Sending =>
                mq_sent[t] \in Messages /\ Len(mq_sent[t]) <= MsgSize
          /\ mq_pc[t] \in Receiving => t \in Receivers

(* The lists hold the threads that are suspended in a send or a receive.   *)
MqLists ==
    /\ mq_senders \in Seq(Threads) /\ IsInjective(mq_senders)
    /\ mq_receivers \in Seq(Threads) /\ IsInjective(mq_receivers)
    /\ \A t \in Threads :
          /\ t \in Elements(mq_senders) <=> mq_pc[t] = "send_wait"
          /\ t \in Elements(mq_receivers) <=> mq_pc[t] = "recv_wait"

(* The slots' contents; a slot that is to be linked carries its message,   *)
(* and ends the list if it is to be the last.                              *)
MqPool ==
    /\ mq_next \in [Slots -> Slots \cup {NULL}]
    /\ mq_data \in [Slots -> Words]
    /\ \A t \in Threads :
          /\ mq_pc[t] = "send_link" => mq_next[mq_msg[t]] = NULL
          /\ mq_pc[t] \in {"send_link", "urgent_link"} =>
                IsPrefix(mq_sent[t], mq_data[mq_msg[t]])

(* Every slot is in A, in B, or what exactly one thread holds.             *)
Partition(A, B, msg) ==
    /\ A \cap B = {}
    /\ \A t \in Threads : msg[t] # NULL => msg[t] \notin A \cup B
    /\ \A t, u \in Threads : msg[t] # NULL /\ msg[t] = msg[u] => t = u
    /\ Slots = A \cup B \cup {msg[t] : t \in {u \in Threads : msg[u] # NULL}}

(* The message list is q and the free list is f.                           *)
MqSlots(q, f) ==
    /\ Links(mq_next, mq_head, q) /\ Links(mq_next, mq_free, f)
    /\ mq_entry = Len(q)
    /\ mq_tail = IF q = <<>> THEN NULL ELSE q[Len(q)]
    /\ Partition(Elements(q), Elements(f), mq_msg)

MqInv ==
    /\ MqCalls /\ MqLists /\ MqPool /\ WaitersWoken
    /\ \E q, f \in Seq(Slots) : MqSlots(q, f)

LEMMA PartTake ==
    ASSUME NEW A, NEW B, NEW msg \in [Threads -> Slots \cup {NULL}],
           NEW t \in Threads, msg[t] = NULL, NEW s \in Slots, s \in B,
           Partition(A, B, msg)
    PROVE  Partition(A, B \ {s}, [msg EXCEPT ![t] = s])
<1> DEFINE msg2 == [msg EXCEPT ![t] = s]
<1>1. msg2[t] = s /\ s # NULL /\ \A u \in Threads : u # t => msg2[u] = msg[u]
  BY Constants
<1>2. /\ A \cap B = {}
      /\ \A u \in Threads : msg[u] # NULL => msg[u] \notin A \cup B
      /\ \A v, u \in Threads : msg[v] # NULL /\ msg[v] = msg[u] => v = u
      /\ Slots = A \cup B \cup {msg[v] : v \in {u \in Threads : msg[u] # NULL}}
  BY DEF Partition
<1> HIDE DEF msg2
<1>3. A \cap (B \ {s}) = {}
  BY <1>2
<1>4. \A u \in Threads : msg2[u] # NULL => msg2[u] \notin A \cup (B \ {s})
  BY <1>1, <1>2
<1>5. \A v, u \in Threads : msg2[v] # NULL /\ msg2[v] = msg2[u] => v = u
  BY <1>1, <1>2
<1>6. Slots = A \cup (B \ {s}) \cup {msg2[v] : v \in {u \in Threads : msg2[u] # NULL}}
  <2>1. ASSUME NEW x \in Slots
        PROVE  x \in A \cup (B \ {s}) \cup {msg2[v] : v \in {u \in Threads : msg2[u] # NULL}}
    BY <1>1, <1>2
  <2>2. ASSUME NEW v \in Threads, msg2[v] # NULL PROVE msg2[v] \in Slots
    BY <1>1, <1>2, <2>2
  <2>3. QED BY <1>2, <2>1, <2>2
<1>7. QED BY <1>3, <1>4, <1>5, <1>6 DEF Partition, msg2

LEMMA PartGive ==
    ASSUME NEW A, NEW B, NEW msg \in [Threads -> Slots \cup {NULL}],
           NEW t \in Threads, msg[t] # NULL, Partition(A, B, msg)
    PROVE  /\ Partition(A, B \cup {msg[t]}, [msg EXCEPT ![t] = NULL])
           /\ msg[t] \in Slots /\ msg[t] \notin A /\ msg[t] \notin B
<1> DEFINE msg2 == [msg EXCEPT ![t] = NULL]
           s == msg[t]
<1>1. msg2[t] = NULL /\ \A u \in Threads : u # t => msg2[u] = msg[u]
  OBVIOUS
<1>2. /\ A \cap B = {}
      /\ \A u \in Threads : msg[u] # NULL => msg[u] \notin A \cup B
      /\ \A v, u \in Threads : msg[v] # NULL /\ msg[v] = msg[u] => v = u
      /\ Slots = A \cup B \cup {msg[v] : v \in {u \in Threads : msg[u] # NULL}}
  BY DEF Partition
<1>3. s \in Slots /\ s \notin A /\ s \notin B
  BY <1>2
<1> HIDE DEF msg2
<1>4. A \cap (B \cup {s}) = {}
  BY <1>2, <1>3
<1>5. \A u \in Threads : msg2[u] # NULL => msg2[u] \notin A \cup (B \cup {s})
  BY <1>1, <1>2
<1>6. \A v, u \in Threads : msg2[v] # NULL /\ msg2[v] = msg2[u] => v = u
  BY <1>1, <1>2
<1>7. Slots = A \cup (B \cup {s}) \cup {msg2[v] : v \in {u \in Threads : msg2[u] # NULL}}
  <2>1. ASSUME NEW x \in Slots
        PROVE  x \in A \cup (B \cup {s}) \cup {msg2[v] : v \in {u \in Threads : msg2[u] # NULL}}
    BY <1>1, <1>2
  <2>2. ASSUME NEW v \in Threads, msg2[v] # NULL PROVE msg2[v] \in Slots
    BY <1>1, <1>2, <2>2
  <2>3. QED BY <1>2, <1>3, <2>1, <2>2
<1>8. QED BY <1>3, <1>4, <1>5, <1>6, <1>7 DEF Partition, msg2

LEMMA PartSwap ==
    ASSUME NEW A, NEW B, NEW msg
    PROVE  Partition(A, B, msg) <=> Partition(B, A, msg)
<1>1. A \cup B = B \cup A /\ A \cap B = B \cap A
  OBVIOUS
<1>2. QED BY <1>1 DEF Partition

(* The operators of the model, of the lists.                               *)
LEMMA ChainFacts ==
    ASSUME NEW q
    PROVE  /\ Links(mq_next, mq_head, q) =>
                 /\ ChainSlots(mq_head) = Elements(q)
                 /\ Chain(mq_head)[Len(q)] = NULL
                 /\ \A i \in 1..Len(q) : Chain(mq_head)[i-1] = q[i]
           /\ Links(mq_next, mq_free, q) => ChainSlots(mq_free) = Elements(q)
           /\ Links(mq_next', mq_head', q) =>
                 \A i \in 1..Len(q) : Chain(mq_head)'[i-1] = q[i]
           /\ Links(mq_next', mq_free', q) => ChainSlots(mq_free)' = Elements(q)
<1>1. /\ Chain(mq_head) = Walk(mq_next, mq_head) /\ Chain(mq_free) = Walk(mq_next, mq_free)
  BY ChainIsWalk
<1>2. /\ Chain(mq_head)' = Walk(mq_next', mq_head')
      /\ Chain(mq_free)' = Walk(mq_next', mq_free')
  BY DEF Chain, Walk
<1>3. /\ ChainSlots(mq_head) = {Walk(mq_next, mq_head)[i] : i \in 0..MaxMsgs} \ {NULL}
      /\ ChainSlots(mq_free) = {Walk(mq_next, mq_free)[i] : i \in 0..MaxMsgs} \ {NULL}
  BY <1>1 DEF ChainSlots
<1>4. ChainSlots(mq_free)' = {Walk(mq_next', mq_free')[i] : i \in 0..MaxMsgs} \ {NULL}
  BY <1>2 DEF ChainSlots
<1>5. QED BY <1>1, <1>2, <1>3, <1>4, WalkFacts

WordsOf(data, q) == [i \in 1..Len(q) |-> data[q[i]]]

LEMMA QueuedIs ==
    ASSUME NEW q
    PROVE  /\ Links(mq_next, mq_head, q) /\ mq_entry = Len(q) =>
                  QueuedWords = WordsOf(mq_data, q)
           /\ Links(mq_next', mq_head', q) /\ mq_entry' = Len(q) =>
                  QueuedWords' = WordsOf(mq_data', q)
BY ChainFacts DEF QueuedWords, WordsOf

(* The lists lose nothing, in the words of the model.                      *)
LEMMA SlotsKept ==
    ASSUME MqCalls, NEW q, NEW f, MqSlots(q, f)
    PROVE  SlotsConserved
<1>1. /\ Links(mq_next, mq_head, q) /\ Links(mq_next, mq_free, f) /\ mq_entry = Len(q)
      /\ q \in Seq(Slots) /\ IsInjective(q)
  BY DEF MqSlots, Links
<1>2. /\ ChainSlots(mq_head) = Elements(q) /\ Chain(mq_head)[Len(q)] = NULL
      /\ \A i \in 1..Len(q) : Chain(mq_head)[i-1] = q[i]
      /\ ChainSlots(mq_free) = Elements(f)
  BY <1>1, ChainFacts
<1>3. Cardinality(Elements(q)) = Len(q) /\ Len(q) \in Nat
  BY <1>1, SlotsOfList
<1>4. mq_tail = IF mq_entry = 0 THEN NULL ELSE Chain(mq_head)[mq_entry - 1]
  <2>1. q = <<>> <=> Len(q) = 0
    BY <1>1, <1>3, EmptySeq
  <2>2. Len(q) # 0 => Len(q) \in 1..Len(q)
    BY <1>3
  <2>3. mq_tail = IF q = <<>> THEN NULL ELSE q[Len(q)]
    BY DEF MqSlots
  <2>4. QED BY <1>1, <1>2, <2>1, <2>2, <2>3
<1>5. Partition(ChainSlots(mq_head), ChainSlots(mq_free), mq_msg)
  BY <1>2 DEF MqSlots
<1>6. QED BY <1>1, <1>2, <1>3, <1>4, <1>5 DEF SlotsConserved, Partition, Holders

(* Threads at a label.                                                     *)
LEMMA MqThreadsAt ==
    ASSUME NEW l
    PROVE  IsFiniteSet(At(l)) /\ Cardinality(At(l)) \in Nat
<1>1. IsFiniteSet(At(l))
  BY Constants, FS_Subset DEF At
<1>2. QED BY <1>1, FS_CardinalityType

LEMMA MqAtNext ==
    ASSUME NEW l, NEW t
    PROVE  /\ Cardinality(At(l))' \in Nat
           /\ (\A u \in Threads : mq_pc'[u] = l <=> mq_pc[u] = l) =>
                 Cardinality(At(l))' = Cardinality(At(l))
           /\ (\A u \in Threads : u # t => (mq_pc'[u] = l <=> mq_pc[u] = l)) =>
                 Cardinality(At(l))' >= Cardinality(At(l)) - 1
           /\ t \in Threads /\ mq_pc[t] # l /\ mq_pc'[t] = l
              /\ (\A u \in Threads : u # t => (mq_pc'[u] = l <=> mq_pc[u] = l)) =>
                 Cardinality(At(l))' = Cardinality(At(l)) + 1
<1> DEFINE A == At(l)
           B == {u \in Threads : mq_pc'[u] = l}
<1>1. A = {u \in Threads : mq_pc[u] = l} /\ IsFiniteSet(A) /\ Cardinality(A) \in Nat
  BY MqThreadsAt DEF At
<1>2. A' = B
  BY DEF At
<1>3. IsFiniteSet(B) /\ Cardinality(B) \in Nat
  BY Constants, FS_Subset, FS_CardinalityType
<1>4. ASSUME \A u \in Threads : mq_pc'[u] = l <=> mq_pc[u] = l
      PROVE  B = A
  BY <1>1, <1>4
<1>5. ASSUME \A u \in Threads : u # t => (mq_pc'[u] = l <=> mq_pc[u] = l)
      PROVE  Cardinality(B) >= Cardinality(A) - 1
  <2>1. B = A \/ B = A \cup {t} \/ B = A \ {t}
    BY <1>1, <1>5
  <2> HIDE DEF A, B
  <2>2. QED BY <1>1, <2>1, OneMoreOrLess
<1>6. ASSUME t \in Threads, mq_pc[t] # l, mq_pc'[t] = l,
             \A u \in Threads : u # t => (mq_pc'[u] = l <=> mq_pc[u] = l)
      PROVE  Cardinality(B) = Cardinality(A) + 1
  <2>1. B = A \cup {t} /\ t \notin A
    BY <1>1, <1>6
  <2> HIDE DEF A, B
  <2>2. QED BY <1>1, <2>1, OneMoreOrLess
<1> HIDE DEF A, B
<1>7. QED BY <1>2, <1>3, <1>4, <1>5, <1>6 DEF A

(* WaitersWoken, of the length of the free list.                           *)
LEMMA MqWoken ==
    ASSUME NEW f
    PROVE  /\ Links(mq_next, mq_free, f) =>
                 (WaitersWoken <=>
                    /\ mq_receivers # <<>> => mq_entry <= Cardinality(At("recv_woken"))
                    /\ mq_senders # <<>> => Len(f) <= Cardinality(At("send_woken")))
           /\ Links(mq_next', mq_free', f) =>
                 (WaitersWoken' <=>
                    /\ mq_receivers' # <<>> => mq_entry' <= Cardinality(At("recv_woken"))'
                    /\ mq_senders' # <<>> => Len(f) <= Cardinality(At("send_woken"))')
<1>1. ASSUME Links(mq_next, mq_free, f)
      PROVE  Cardinality(ChainSlots(mq_free)) = Len(f)
  BY <1>1, ChainFacts, SlotsOfList DEF Links
<1>2. ASSUME Links(mq_next', mq_free', f)
      PROVE  Cardinality(ChainSlots(mq_free)') = Len(f)
  <2>1. Cardinality(Elements(f)) = Len(f)
    BY <1>2, SlotsOfList DEF Links
  <2>2. ChainSlots(mq_free)' = Elements(f)
    BY <1>2, ChainFacts
  <2>3. QED BY <2>1, <2>2
<1>3. QED BY <1>1, <1>2 DEF WaitersWoken

-----------------------------------------------------------------------------
(* What the steps do to the lists of slots.                                *)

LEMMA TakeSlots ==
    ASSUME mq_msg \in [Threads -> Slots \cup {NULL}], NEW q, NEW f, MqSlots(q, f),
           NEW t \in Threads, mq_msg[t] = NULL, mq_free # NULL,
           mq_msg' = [mq_msg EXCEPT ![t] = mq_free], mq_free' = mq_next[mq_free],
           UNCHANGED <<mq_next, mq_head, mq_tail, mq_entry>>
    PROVE  /\ MqSlots(q, Tail(f))' /\ Tail(f) \in Seq(Slots)
           /\ Len(Tail(f)) = Len(f) - 1 /\ mq_free \in Slots
<1>1. /\ Links(mq_next, mq_head, q) /\ Links(mq_next, mq_free, f) /\ mq_entry = Len(q)
      /\ mq_tail = IF q = <<>> THEN NULL ELSE q[Len(q)]
      /\ Partition(Elements(q), Elements(f), mq_msg)
  BY DEF MqSlots
<1>2. /\ mq_free \in Elements(f) /\ mq_free \in Slots
      /\ Links(mq_next, mq_next[mq_free], Tail(f))
      /\ Elements(Tail(f)) = Elements(f) \ {mq_free} /\ Len(Tail(f)) = Len(f) - 1
  BY <1>1, TakeFirst
<1>3. Partition(Elements(q), Elements(Tail(f)), mq_msg')
  <2>1. Partition(Elements(q), Elements(f) \ {mq_free}, [mq_msg EXCEPT ![t] = mq_free])
    BY <1>1, <1>2, PartTake
  <2>2. QED BY <1>2, <2>1
<1>4. MqSlots(q, Tail(f))'
  BY <1>1, <1>2, <1>3 DEF MqSlots
<1>5. QED BY <1>2, <1>4 DEF Links

LEMMA UnlinkSlots ==
    ASSUME mq_msg \in [Threads -> Slots \cup {NULL}], NEW q, NEW f, MqSlots(q, f),
           NEW t \in Threads, mq_msg[t] = NULL, mq_entry > 0,
           mq_msg' = [mq_msg EXCEPT ![t] = mq_head], mq_head' = mq_next[mq_head],
           mq_tail' = TailAfterUnlink, mq_entry' = mq_entry - 1,
           UNCHANGED <<mq_next, mq_free>>
    PROVE  /\ MqSlots(Tail(q), f)' /\ Tail(q) \in Seq(Slots)
           /\ q # <<>> /\ mq_head = Head(q) /\ mq_head \in Slots
<1>1. /\ Links(mq_next, mq_head, q) /\ Links(mq_next, mq_free, f) /\ mq_entry = Len(q)
      /\ mq_tail = IF q = <<>> THEN NULL ELSE q[Len(q)]
      /\ Partition(Elements(q), Elements(f), mq_msg)
  BY DEF MqSlots
<1>0. Len(q) \in Nat /\ Len(q) >= 1
  BY <1>1, LenProperties DEF Links
<1>2. /\ q \in Seq(Slots) /\ q # <<>> /\ mq_head = q[1]
      /\ \A i, j \in 1..Len(q) : q[i] = q[j] => i = j
  <2>1. q \in Seq(Slots) /\ DOMAIN q = 1..Len(q)
    BY <1>1, LenProperties DEF Links
  <2>2. q # <<>>
    BY <1>0, EmptySeq
  <2>3. mq_head = q[1]
    BY <1>1, <2>2 DEF Links
  <2>4. IsInjective(q)
    BY <1>1 DEF Links
  <2>5. QED BY <2>1, <2>2, <2>3, <2>4 DEF IsInjective
<1>3. mq_head \in Slots /\ mq_head # NULL
  <2>1. 1 \in 1..Len(q)
    BY <1>0
  <2>2. QED BY <1>2, <2>1, ElementOfSeq, Constants
<1>4. /\ mq_head = Head(q) /\ mq_head \in Elements(q)
      /\ Links(mq_next, mq_next[mq_head], Tail(q))
      /\ Elements(Tail(q)) = Elements(q) \ {mq_head} /\ Len(Tail(q)) = Len(q) - 1
  BY <1>1, <1>3, TakeFirst
<1>5. Partition(Elements(Tail(q)), Elements(f), mq_msg')
  <2>1. Partition(Elements(f), Elements(q), mq_msg)
    BY <1>1, PartSwap
  <2>2. Partition(Elements(f), Elements(q) \ {mq_head}, mq_msg')
    BY <1>3, <1>4, <2>1, PartTake
  <2>3. QED BY <1>4, <2>2, PartSwap
<1>6. mq_tail' = IF Tail(q) = <<>> THEN NULL ELSE Tail(q)[Len(Tail(q))]
  <2>1. Tail(q) \in Seq(Slots) /\ \A i \in 1..Len(q)-1 : Tail(q)[i] = q[i+1]
    BY <1>2, HeadTailProperties
  <2> DEFINE r == Tail(q)
  <2> HIDE DEF r
  <2>2. r = <<>> <=> Len(q) = 1
    <3>1. r = <<>> => Len(r) = 0
      BY EmptySeq
    <3>2. r # <<>> => Len(r) \in Nat \ {0}
      BY <2>1, EmptySeq DEF r
    <3>3. Len(r) = Len(q) - 1
      BY <1>4 DEF r
    <3>4. QED BY <1>0, <3>1, <3>2, <3>3
  <2>3. mq_tail = mq_head <=> Len(q) = 1
    <3>1. 1 \in 1..Len(q) /\ Len(q) \in 1..Len(q)
      BY <1>0
    <3>2. QED BY <1>1, <1>2, <3>1
  <2>4. Len(q) # 1 => Tail(q)[Len(q) - 1] = q[Len(q)]
    <3> DEFINE n == Len(q)
    <3>0. n \in Nat /\ n >= 1
      BY <1>0
    <3>1. n # 1 => n - 1 \in 1..n - 1 /\ (n - 1) + 1 = n
      <4> HIDE DEF n
      <4>1. QED BY <3>0
    <3>2. QED BY <2>1, <3>1
  <2>5. mq_tail' = IF mq_tail = mq_head THEN NULL ELSE mq_tail
    BY DEF TailAfterUnlink
  <2>6. QED BY <1>0, <1>1, <1>4, <2>2, <2>3, <2>4, <2>5 DEF r
<1>7. MqSlots(Tail(q), f)'
  BY <1>1, <1>4, <1>5, <1>6 DEF MqSlots
<1>8. QED BY <1>2, <1>3, <1>4, <1>7 DEF Links

LEMMA LinkLastSlots ==
    ASSUME mq_msg \in [Threads -> Slots \cup {NULL}],
           mq_next \in [Slots -> Slots \cup {NULL}], NEW q, NEW f, MqSlots(q, f),
           NEW t \in Threads, NEW p, p = mq_msg[t], p # NULL, mq_next[p] = NULL,
           mq_next' = IF mq_tail = NULL THEN mq_next
                      ELSE [mq_next EXCEPT ![mq_tail] = p],
           mq_tail' = p, mq_head' = IF mq_head = NULL THEN p ELSE mq_head,
           mq_entry' = mq_entry + 1, mq_msg' = [mq_msg EXCEPT ![t] = NULL],
           UNCHANGED mq_free
    PROVE  /\ MqSlots(Append(q, p), f)' /\ Append(q, p) \in Seq(Slots)
           /\ mq_next' \in [Slots -> Slots \cup {NULL}]
           /\ \A u \in Threads \ {t} :
                 mq_msg[u] # NULL => mq_next'[mq_msg[u]] = mq_next[mq_msg[u]]
<1> DEFINE r == Append(q, p)
<1>1. /\ Links(mq_next, mq_head, q) /\ Links(mq_next, mq_free, f) /\ mq_entry = Len(q)
      /\ mq_tail = IF q = <<>> THEN NULL ELSE q[Len(q)]
      /\ Partition(Elements(q), Elements(f), mq_msg)
  BY DEF MqSlots
<1>2. /\ Partition(Elements(f), Elements(q) \cup {p}, mq_msg')
      /\ p \in Slots /\ p \notin Elements(q) /\ p \notin Elements(f)
  BY <1>1, PartSwap, PartGive
<1>3. /\ Links(mq_next', mq_head', r) /\ Elements(r) = Elements(q) \cup {p}
      /\ Len(r) = Len(q) + 1 /\ r[Len(q) + 1] = p
  <2>1. /\ Links(mq_next', mq_head', r)
        /\ Elements(r) = Elements(q) \cup {p}
        /\ Len(r) = Len(q) + 1 /\ r[Len(q) + 1] = p
    <3>1. mq_tail = NULL <=> q = <<>>
      <4>1. q # <<>> => Len(q) \in 1..Len(q)
        BY EmptySeq, LenProperties, <1>1 DEF Links
      <4>2. q # <<>> => q[Len(q)] # NULL
        BY <1>1, <4>1, ElementOfSeq, Constants DEF Links
      <4>3. QED BY <1>1, <4>2
    <3>2. mq_next' = LinkBehind(mq_next, q, p)
      BY <1>1, <3>1 DEF LinkBehind
    <3>3. mq_head' = HeadOr(mq_head, p)
      BY DEF HeadOr
    <3>4. /\ Links(LinkBehind(mq_next, q, p), HeadOr(mq_head, p), r)
          /\ Elements(r) = Elements(q) \cup {p}
          /\ Len(r) = Len(q) + 1 /\ r[Len(q) + 1] = p
      BY <1>1, <1>2, PutLast
    <3>5. QED BY <3>2, <3>3, <3>4
  <2> HIDE DEF r
  <2>2. QED BY <2>1
<1>4. q \in Seq(Slots) /\ Len(q) \in Nat /\ (q # <<>> => Len(q) \in 1..Len(q))
  <2>1. q \in Seq(Slots)
    BY <1>1 DEF Links
  <2>2. QED BY <2>1, EmptySeq, LenProperties
<1>5. mq_tail # NULL => mq_tail \in Elements(q) /\ mq_tail \in Slots
  <2>1. mq_tail # NULL => q # <<>> /\ mq_tail = q[Len(q)]
    BY <1>1
  <2>2. q # <<>> => q[Len(q)] \in Elements(q)
    BY <1>4 DEF Elements
  <2>3. QED BY <1>4, <2>1, <2>2, ElementOfSeq
<1>6. Links(mq_next', mq_free', f)
  <2>1. mq_tail # NULL => mq_tail \notin Elements(f)
    BY <1>1, <1>5 DEF Partition
  <2>2. CASE mq_tail = NULL
    BY <1>1, <2>2
  <2>3. CASE mq_tail # NULL
    BY <1>1, <2>1, <2>3, OtherLink
  <2>4. QED BY <2>2, <2>3
<1>7. Partition(Elements(r), Elements(f), mq_msg')
  BY <1>2, <1>3, PartSwap
<1>8. mq_tail' = IF r = <<>> THEN NULL ELSE r[Len(r)]
  <2>1. r # <<>>
    <3> HIDE DEF r
    <3>1. Len(r) # 0
      BY <1>3, <1>4
    <3>2. QED BY <3>1, EmptySeq
  <2> HIDE DEF r
  <2>2. QED BY <1>3, <2>1
<1>9. MqSlots(r, f)'
  <2> HIDE DEF r
  <2>1. QED BY <1>1, <1>3, <1>6, <1>7, <1>8 DEF MqSlots
<1>10. /\ mq_next' \in [Slots -> Slots \cup {NULL}]
       /\ \A u \in Threads \ {t} :
             mq_msg[u] # NULL => mq_next'[mq_msg[u]] = mq_next[mq_msg[u]]
  <2>1. \A u \in Threads \ {t} : mq_msg[u] # NULL => mq_msg[u] \notin Elements(q)
    BY <1>1 DEF Partition
  <2>2. \A u \in Threads : mq_msg[u] # NULL => mq_msg[u] \in Slots
    OBVIOUS
  <2>3. QED BY <1>2, <1>5, <2>1, <2>2
<1>11. r \in Seq(Slots)
  <2> HIDE DEF r
  <2>1. QED BY <1>3 DEF Links
<1>12. QED BY <1>9, <1>10, <1>11

LEMMA LinkFirstSlots ==
    ASSUME mq_msg \in [Threads -> Slots \cup {NULL}],
           mq_next \in [Slots -> Slots \cup {NULL}], NEW q, NEW f, MqSlots(q, f),
           NEW t \in Threads, NEW p, p = mq_msg[t], p # NULL,
           mq_next' = [mq_next EXCEPT ![p] = mq_head], mq_head' = p,
           mq_tail' = IF mq_tail = NULL THEN p ELSE mq_tail,
           mq_entry' = mq_entry + 1, mq_msg' = [mq_msg EXCEPT ![t] = NULL],
           UNCHANGED mq_free
    PROVE  /\ MqSlots(<<p>> \o q, f)' /\ <<p>> \o q \in Seq(Slots)
           /\ mq_next' \in [Slots -> Slots \cup {NULL}]
           /\ \A u \in Threads \ {t} :
                 mq_msg[u] # NULL => mq_next'[mq_msg[u]] = mq_next[mq_msg[u]]
<1> DEFINE r == <<p>> \o q
<1>1. /\ Links(mq_next, mq_head, q) /\ Links(mq_next, mq_free, f) /\ mq_entry = Len(q)
      /\ mq_tail = IF q = <<>> THEN NULL ELSE q[Len(q)]
      /\ Partition(Elements(q), Elements(f), mq_msg)
  BY DEF MqSlots
<1>2. /\ Partition(Elements(f), Elements(q) \cup {p}, mq_msg')
      /\ p \in Slots /\ p \notin Elements(q) /\ p \notin Elements(f)
  BY <1>1, PartSwap, PartGive
<1>3. Links(mq_next', p, r) /\ Elements(r) = Elements(q) \cup {p} /\ Len(r) = Len(q) + 1
  <2>1. /\ Links(LinkTo(mq_next, p, mq_head), p, r)
        /\ Elements(r) = Elements(q) \cup {p} /\ Len(r) = Len(q) + 1
    BY <1>1, <1>2, PutFirst
  <2> HIDE DEF r
  <2>2. QED BY <2>1 DEF LinkTo
<1>4. Links(mq_next', mq_free', f)
  BY <1>1, <1>2, OtherLink
<1>5. Partition(Elements(r), Elements(f), mq_msg')
  BY <1>2, <1>3, PartSwap
<1>6. q \in Seq(Slots) /\ Len(q) \in Nat /\ (q # <<>> => Len(q) \in 1..Len(q))
  <2>1. q \in Seq(Slots)
    BY <1>1 DEF Links
  <2>2. QED BY <2>1, EmptySeq, LenProperties
<1>7. q # <<>> => q[Len(q)] # NULL
  BY <1>6, ElementOfSeq, Constants
<1>8. r # <<>> /\ r[Len(r)] = IF q = <<>> THEN p ELSE q[Len(q)]
  <2>1. r # <<>>
    <3> HIDE DEF r
    <3>1. Len(r) # 0
      BY <1>3, <1>6
    <3>2. QED BY <3>1, EmptySeq
  <2>2. r[1] = p /\ \A i \in 1..Len(q) : r[i+1] = q[i]
    BY <1>2, <1>6
  <2>3. q = <<>> => Len(q) = 0
    BY EmptySeq
  <2> HIDE DEF r
  <2>4. QED BY <1>3, <1>6, <2>1, <2>2, <2>3
<1>9. mq_tail' = IF r = <<>> THEN NULL ELSE r[Len(r)]
  <2> HIDE DEF r
  <2>1. QED BY <1>1, <1>7, <1>8
<1>10. MqSlots(r, f)'
  <2> HIDE DEF r
  <2>1. QED BY <1>1, <1>3, <1>4, <1>5, <1>9 DEF MqSlots
<1>11. /\ mq_next' \in [Slots -> Slots \cup {NULL}]
       /\ \A u \in Threads \ {t} :
             mq_msg[u] # NULL => mq_next'[mq_msg[u]] = mq_next[mq_msg[u]]
  <2>1. \A u \in Threads \ {t} : mq_msg[u] # NULL => mq_msg[u] # p /\ mq_msg[u] \in Slots
    BY <1>1 DEF Partition
  <2>2. mq_head \in Slots \cup {NULL}
    BY <1>1, <1>6, ElementOfSeq, EmptySeq DEF Links
  <2>3. QED BY <2>1, <2>2
<1>12. r \in Seq(Slots)
  <2> HIDE DEF r
  <2>1. QED BY <1>3 DEF Links
<1>13. QED BY <1>10, <1>11, <1>12

LEMMA FreeSlots ==
    ASSUME mq_msg \in [Threads -> Slots \cup {NULL}],
           mq_next \in [Slots -> Slots \cup {NULL}], NEW q, NEW f, MqSlots(q, f),
           NEW t \in Threads, NEW p, p = mq_msg[t], p # NULL,
           mq_next' = [mq_next EXCEPT ![p] = mq_free], mq_free' = p,
           mq_msg' = [mq_msg EXCEPT ![t] = NULL],
           UNCHANGED <<mq_head, mq_tail, mq_entry>>
    PROVE  /\ MqSlots(q, <<p>> \o f)' /\ <<p>> \o f \in Seq(Slots)
           /\ Len(<<p>> \o f) = Len(f) + 1
           /\ mq_next' \in [Slots -> Slots \cup {NULL}]
           /\ \A u \in Threads \ {t} :
                 mq_msg[u] # NULL => mq_next'[mq_msg[u]] = mq_next[mq_msg[u]]
<1> DEFINE r == <<p>> \o f
<1>1. /\ Links(mq_next, mq_head, q) /\ Links(mq_next, mq_free, f) /\ mq_entry = Len(q)
      /\ mq_tail = IF q = <<>> THEN NULL ELSE q[Len(q)]
      /\ Partition(Elements(q), Elements(f), mq_msg)
  BY DEF MqSlots
<1>2. /\ Partition(Elements(q), Elements(f) \cup {p}, mq_msg')
      /\ p \in Slots /\ p \notin Elements(q) /\ p \notin Elements(f)
  BY <1>1, PartGive
<1>3. Links(mq_next', p, r) /\ Elements(r) = Elements(f) \cup {p} /\ Len(r) = Len(f) + 1
  <2>1. /\ Links(LinkTo(mq_next, p, mq_free), p, r)
        /\ Elements(r) = Elements(f) \cup {p} /\ Len(r) = Len(f) + 1
    BY <1>1, <1>2, PutFirst
  <2> HIDE DEF r
  <2>2. QED BY <2>1 DEF LinkTo
<1>4. Links(mq_next', mq_head', q)
  BY <1>1, <1>2, OtherLink
<1>5. Partition(Elements(q), Elements(r), mq_msg')
  BY <1>2, <1>3
<1>6. MqSlots(q, r)'
  <2> HIDE DEF r
  <2>1. QED BY <1>1, <1>3, <1>4, <1>5 DEF MqSlots
<1>7. /\ mq_next' \in [Slots -> Slots \cup {NULL}]
      /\ \A u \in Threads \ {t} :
            mq_msg[u] # NULL => mq_next'[mq_msg[u]] = mq_next[mq_msg[u]]
  <2>1. \A u \in Threads \ {t} : mq_msg[u] # NULL => mq_msg[u] # p /\ mq_msg[u] \in Slots
    BY <1>1 DEF Partition
  <2>2. mq_free \in Slots \cup {NULL}
    <3>1. f \in Seq(Slots) /\ (f # <<>> => 1 \in 1..Len(f))
      BY <1>1, EmptySeq DEF Links
    <3>2. f # <<>> => f[1] \in Slots
      BY <3>1, ElementOfSeq
    <3>3. QED BY <1>1, <3>2 DEF Links
  <2>3. QED BY <2>1, <2>2
<1>8. r \in Seq(Slots)
  <2> HIDE DEF r
  <2>1. QED BY <1>3 DEF Links
<1>9. QED BY <1>3, <1>6, <1>7, <1>8

(* Writing the link of a slot that a thread holds.                         *)
LEMMA HeldLinkSlots ==
    ASSUME mq_msg \in [Threads -> Slots \cup {NULL}],
           mq_next \in [Slots -> Slots \cup {NULL}], NEW q, NEW f, MqSlots(q, f),
           NEW t \in Threads, NEW p, p = mq_msg[t], p # NULL, NEW v \in Slots \cup {NULL},
           mq_next' = [mq_next EXCEPT ![p] = v],
           UNCHANGED <<mq_msg, mq_free, mq_head, mq_tail, mq_entry>>
    PROVE  MqSlots(q, f)' /\ mq_next' \in [Slots -> Slots \cup {NULL}]
<1>1. /\ Links(mq_next, mq_head, q) /\ Links(mq_next, mq_free, f)
      /\ Partition(Elements(q), Elements(f), mq_msg)
  BY DEF MqSlots
<1>2. p \notin Elements(q) /\ p \notin Elements(f)
  BY <1>1 DEF Partition
<1>3. Links(mq_next', mq_head', q) /\ Links(mq_next', mq_free', f)
  BY <1>1, <1>2, OtherLink
<1>4. QED BY <1>3 DEF MqSlots

(* A reset: the messages' slots in front of the free ones, backwards.      *)
ResetNext(next, free, order, n) ==
    [s \in Slots |->
        IF \E i \in 0..n-1 : order[i] = s
        THEN LET i == CHOOSE j \in 0..n-1 : order[j] = s
             IN  IF i = 0 THEN free ELSE order[i-1]
        ELSE next[s]]

LEMMA ResetSlots ==
    ASSUME mq_msg \in [Threads -> Slots \cup {NULL}],
           mq_next \in [Slots -> Slots \cup {NULL}], NEW q, NEW f, MqSlots(q, f),
           Reset
    PROVE  /\ MqSlots(<<>>, Onto(q, f))' /\ Onto(q, f) \in Seq(Slots)
           /\ mq_next' \in [Slots -> Slots \cup {NULL}]
           /\ \A u \in Threads :
                 mq_msg[u] # NULL => mq_next'[mq_msg[u]] = mq_next[mq_msg[u]]
<1> DEFINE n == Len(q)
<1>1. /\ Links(mq_next, mq_head, q) /\ Links(mq_next, mq_free, f) /\ mq_entry = n
      /\ Partition(Elements(q), Elements(f), mq_msg)
  BY DEF MqSlots
<1>2. /\ q \in Seq(Slots) /\ n \in Nat /\ n \in 0..MaxMsgs
      /\ \A i, j \in 1..n : q[i] = q[j] => i = j
      /\ \A i \in 1..n : q[i] \in Slots /\ q[i] \in Elements(q)
  <2>1. q \in Seq(Slots) /\ IsInjective(q)
    BY <1>1 DEF Links
  <2>2. n \in Nat /\ DOMAIN q = 1..n /\ n \in 0..MaxMsgs
    BY <2>1, LenProperties, SlotsOfList
  <2>3. \A i \in 1..n : q[i] \in Slots /\ q[i] \in Elements(q)
    BY <2>1, ElementOfSeq DEF Elements
  <2>4. QED BY <2>1, <2>2, <2>3 DEF IsInjective
<1>3. PICK order : order = Chain(mq_head)
  OBVIOUS
<1>4. /\ ChainSlots(mq_head) = Elements(q)
      /\ \A i \in 1..n : order[i-1] = q[i]
  BY <1>1, <1>3, ChainFacts
<1>5. Cardinality(ChainSlots(mq_head)) = n
  BY <1>1, <1>4, SlotsOfList DEF Links
<1>6. /\ mq_next' = ResetNext(mq_next, mq_free, order, n)
      /\ mq_free' = IF n = 0 THEN mq_free ELSE order[n-1]
      /\ mq_head' = NULL /\ mq_tail' = NULL /\ mq_entry' = 0 /\ mq_msg' = mq_msg
  <2> HIDE DEF n
  <2>1. QED BY <1>3, <1>5 DEF Reset, ResetNext
<1> HIDE DEF n
<1>7. \A i \in 0..n-1 : order[i] = q[i+1]
  <2>1. TAKE i \in 0..n-1
  <2>2. i + 1 \in 1..n /\ (i + 1) - 1 = i
    BY <1>2
  <2>3. order[(i+1)-1] = q[i+1]
    BY <1>4, <2>2
  <2>4. QED BY <2>2, <2>3
<1>8. ASSUME NEW i \in 1..n
      PROVE  mq_next'[q[i]] = IF i = 1 THEN mq_free ELSE q[i-1]
  <2>1. i - 1 \in 0..n-1 /\ order[i-1] = q[i] /\ q[i] \in Slots
    BY <1>2, <1>4
  <2> DEFINE j == CHOOSE k \in 0..n-1 : order[k] = q[i]
  <2>2. j \in 0..n-1 /\ order[j] = q[i]
    BY <2>1
  <2>3. mq_next'[q[i]] = IF j = 0 THEN mq_free ELSE order[j-1]
    BY <1>6, <2>1 DEF ResetNext
  <2> HIDE DEF j
  <2>4. j = i - 1
    <3>1. q[j+1] = q[i] /\ j + 1 \in 1..n
      BY <1>2, <1>7, <2>2
    <3>2. j + 1 = i
      BY <1>2, <3>1
    <3>3. QED BY <1>2, <2>2, <3>2
  <2>5. i # 1 => order[j-1] = q[i-1]
    <3>1. i # 1 => i - 1 \in 1..n /\ j - 1 = (i - 1) - 1
      BY <1>2, <2>4
    <3>2. i # 1 => order[(i-1)-1] = q[i-1]
      BY <1>4, <3>1
    <3>3. QED BY <3>1, <3>2
  <2>6. j = 0 <=> i = 1
    BY <1>2, <2>4
  <2>7. QED BY <2>3, <2>5, <2>6
<1>9. ASSUME NEW s \in Slots, s \notin Elements(q)
      PROVE  mq_next'[s] = mq_next[s]
  <2>1. ~ \E i \in 0..n-1 : order[i] = s
    <3>1. ASSUME NEW i \in 0..n-1 PROVE order[i] # s
      <4>1. i + 1 \in 1..n
        BY <1>2
      <4>2. order[i] = q[i+1] /\ q[i+1] \in Elements(q)
        BY <1>2, <1>7, <4>1
      <4>3. QED BY <1>9, <4>2
    <3>2. QED BY <3>1
  <2>2. QED BY <1>6, <2>1 DEF ResetNext
<1>10. \A i \in 1..Len(f) : mq_next'[f[i]] = mq_next[f[i]]
  <2>1. f \in Seq(Slots) /\ \A i \in 1..Len(f) : f[i] \in Slots /\ f[i] \in Elements(f)
    BY <1>1, ElementOfSeq DEF Links, Elements
  <2>2. Elements(f) \cap Elements(q) = {}
    BY <1>1 DEF Partition
  <2>3. QED BY <1>9, <2>1, <2>2
<1>11. mq_free' = IF q = <<>> THEN mq_free ELSE q[n]
  <2>1. q = <<>> <=> n = 0
    BY <1>2, EmptySeq DEF n
  <2>2. n # 0 => n \in 1..n
    BY <1>2
  <2>3. n # 0 => order[n-1] = q[n]
    BY <1>4, <2>2
  <2>4. QED BY <1>6, <2>1, <2>3
<1>12. PICK next2, r : next2 = mq_next' /\ r = Onto(q, f)
  OBVIOUS
<1>13. /\ Links(mq_next', mq_free', r)
       /\ Elements(r) = Elements(q) \cup Elements(f)
  <2>1. /\ \A i \in 1..Len(q) : next2[q[i]] = IF i = 1 THEN mq_free ELSE q[i-1]
        /\ \A i \in 1..Len(f) : next2[f[i]] = mq_next[f[i]]
    BY <1>8, <1>10, <1>12 DEF n
  <2>2. Elements(q) \cap Elements(f) = {}
    BY <1>1 DEF Partition
  <2>3. /\ Links(next2, LastOr(q, mq_free), Onto(q, f))
        /\ Elements(Onto(q, f)) = Elements(q) \cup Elements(f)
    BY <1>1, <2>1, <2>2, PutOnto, SMTT(30)
  <2>4. QED BY <1>11, <1>12, <2>3 DEF n, LastOr
<1>14. Partition({}, Elements(r), mq_msg')
  BY <1>1, <1>6, <1>13 DEF Partition
<1>15. Links(mq_next', NULL, <<>>) /\ Elements(<<>>) = {} /\ Len(<<>>) = 0
  BY NobodyListed, EmptySeq DEF Links
<1>16. MqSlots(<<>>, r)'
  BY <1>6, <1>13, <1>14, <1>15 DEF MqSlots
<1>17. mq_next' \in [Slots -> Slots \cup {NULL}]
  <2>1. \A s \in Slots : mq_next'[s] \in Slots \cup {NULL}
    <3>1. mq_free \in Slots \cup {NULL}
      <4>1. f \in Seq(Slots) /\ (f # <<>> => 1 \in 1..Len(f))
        BY <1>1, EmptySeq DEF Links
      <4>2. f # <<>> => f[1] \in Slots
        BY <4>1, ElementOfSeq
      <4>3. QED BY <1>1, <4>2 DEF Links
    <3>2. ASSUME NEW s \in Elements(q) PROVE mq_next'[s] \in Slots \cup {NULL}
      <4>1. PICK i \in 1..n : s = q[i]
        BY DEF Elements, n
      <4>2. i # 1 => i - 1 \in 1..n
        BY <1>2
      <4>3. QED BY <1>2, <1>8, <3>1, <4>1, <4>2
    <3>3. QED BY <1>9, <3>2
  <2>2. mq_next' = [s \in Slots |-> mq_next'[s]]
    BY <1>6 DEF ResetNext
  <2>3. QED BY <2>1, <2>2
<1>18. \A u \in Threads : mq_msg[u] # NULL => mq_next'[mq_msg[u]] = mq_next[mq_msg[u]]
  <2>1. \A u \in Threads : mq_msg[u] # NULL => mq_msg[u] \in Slots /\ mq_msg[u] \notin Elements(q)
    BY <1>1 DEF Partition
  <2>2. QED BY <1>9, <2>1
<1>19. Onto(q, f) \in Seq(Slots)
  BY <1>12, <1>13 DEF Links
<1>20. QED BY <1>12, <1>16, <1>17, <1>18, <1>19

-----------------------------------------------------------------------------
(* The steps of the message queue.                                         *)

(* Where a step that takes t to l, and resumes the first of a list, leaves *)
(* the threads.                                                            *)
Gone(t, l, list, woken) ==
    \A u \in Threads : mq_pc'[u] = IF list # <<>> /\ u = Head(list) THEN woken
                                   ELSE IF u = t THEN l ELSE mq_pc[u]

LEMMA GotoFacts ==
    ASSUME mq_pc \in [Threads -> PC], NEW t \in Threads, NEW l \in PC, NEW list,
           list # <<>> => Head(list) \in Threads \ {t}, NEW woken \in PC,
           mq_pc' = GotoAndResume(t, l, list, woken)
    PROVE  mq_pc' \in [Threads -> PC] /\ Gone(t, l, list, woken)
<1> DEFINE h == Head(list)
<1>1. CASE list = <<>>
  BY <1>1 DEF GotoAndResume, Gone
<1>2. CASE list # <<>>
  <2>1. mq_pc' = [mq_pc EXCEPT ![t] = l, ![h] = woken] /\ h \in Threads /\ h # t
    BY <1>2 DEF GotoAndResume
  <2> HIDE DEF h
  <2>2. /\ mq_pc' \in [Threads -> PC] /\ mq_pc'[h] = woken /\ mq_pc'[t] = l
        /\ \A u \in Threads : u # h /\ u # t => mq_pc'[u] = mq_pc[u]
    BY <2>1
  <2>3. QED BY <1>2, <2>2 DEF Gone, h
<1>3. QED BY <1>1, <1>2

LEMMA StayFacts ==
    ASSUME mq_pc \in [Threads -> PC], NEW t \in Threads, NEW l \in PC,
           mq_pc' = [mq_pc EXCEPT ![t] = l], NEW woken
    PROVE  mq_pc' \in [Threads -> PC] /\ Gone(t, l, <<>>, woken)
BY DEF Gone

(* A thread that is resumed was suspended in the list it heads.            *)
WasWaiting(t, list, woken) ==
    /\ woken \in {"send_woken", "recv_woken"}
    /\ list # <<>> =>
          /\ Head(list) \in Threads \ {t}
          /\ mq_pc[Head(list)] = IF woken = "send_woken" THEN "send_wait" ELSE "recv_wait"

LEMMA CallsStep ==
    ASSUME MqCalls, NEW t \in Threads, NEW l \in PC, NEW list, NEW woken,
           WasWaiting(t, list, woken), mq_pc' \in [Threads -> PC],
           Gone(t, l, list, woken),
           mq_msg' \in [Threads -> Slots \cup {NULL}],
           \A u \in Threads \ {t} : mq_msg'[u] = mq_msg[u],
           mq_msg'[t] # NULL <=> l \in Holding,
           mq_sent' \in [Threads -> Messages \cup {<<>>}],
           \A u \in Threads \ {t} : mq_sent'[u] = mq_sent[u],
           l \in Sending => mq_sent'[t] \in Messages /\ Len(mq_sent'[t]) <= MsgSize,
           l \in Receiving => t \in Receivers,
           mq_wait' \in [Threads -> Waits], mq_got' \in [Receivers -> Words]
    PROVE  MqCalls'
<1>1. ASSUME NEW u \in Threads
      PROVE  /\ mq_msg'[u] # NULL <=> mq_pc'[u] \in Holding
             /\ mq_pc'[u] \in Sending =>
                   mq_sent'[u] \in Messages /\ Len(mq_sent'[u]) <= MsgSize
             /\ mq_pc'[u] \in Receiving => u \in Receivers
  <2>1. CASE u = t
    <3>1. mq_pc'[u] = l
      BY <2>1 DEF Gone, WasWaiting
    <3>2. QED BY <2>1, <3>1
  <2>2. CASE u # t /\ mq_pc'[u] = mq_pc[u]
    BY <2>2 DEF MqCalls
  <2>3. CASE u # t /\ mq_pc'[u] # mq_pc[u]
    <3>1. mq_pc'[u] = woken /\ list # <<>> /\ u = Head(list)
      BY <2>3 DEF Gone
    <3>2. \/ mq_pc[u] = "send_wait" /\ mq_pc'[u] = "send_woken"
          \/ mq_pc[u] = "recv_wait" /\ mq_pc'[u] = "recv_woken"
      BY <3>1 DEF WasWaiting
    <3>3. QED BY <2>3, <3>2 DEF MqCalls, Sending, Receiving, Holding
  <2>4. QED BY <2>1, <2>2, <2>3
<1>2. QED BY <1>1 DEF MqCalls

LEMMA PoolStep ==
    ASSUME MqCalls, MqPool, NEW t \in Threads, NEW l \in PC, NEW list, NEW woken,
           WasWaiting(t, list, woken), Gone(t, l, list, woken),
           mq_next' \in [Slots -> Slots \cup {NULL}], mq_data' \in [Slots -> Words],
           \A u \in Threads \ {t} : mq_msg'[u] = mq_msg[u] /\ mq_sent'[u] = mq_sent[u],
           \A u \in Threads \ {t} : mq_msg[u] # NULL =>
              mq_next'[mq_msg[u]] = mq_next[mq_msg[u]] /\ mq_data'[mq_msg[u]] = mq_data[mq_msg[u]],
           l = "send_link" => mq_next'[mq_msg'[t]] = NULL,
           l \in {"send_link", "urgent_link"} => IsPrefix(mq_sent'[t], mq_data'[mq_msg'[t]])
    PROVE  MqPool'
<1>1. ASSUME NEW u \in Threads
      PROVE  /\ mq_pc'[u] = "send_link" => mq_next'[mq_msg'[u]] = NULL
             /\ mq_pc'[u] \in {"send_link", "urgent_link"} =>
                   IsPrefix(mq_sent'[u], mq_data'[mq_msg'[u]])
  <2>1. CASE u = t
    <3>1. mq_pc'[u] = l
      BY <2>1 DEF Gone, WasWaiting
    <3>2. QED BY <2>1, <3>1
  <2>2. CASE u # t /\ mq_pc'[u] = mq_pc[u]
    BY <2>2 DEF MqCalls, MqPool, Holding
  <2>3. CASE u # t /\ mq_pc'[u] # mq_pc[u]
    BY <2>3 DEF Gone, WasWaiting
  <2>4. QED BY <2>1, <2>2, <2>3
<1>2. QED BY <1>1 DEF MqPool

(* A step that leaves the lists alone.                                     *)
LEMMA ListsStay ==
    ASSUME MqLists, NEW t \in Threads, NEW l, NEW woken, Gone(t, l, <<>>, woken),
           mq_pc[t] \notin {"send_wait", "recv_wait"}, l \notin {"send_wait", "recv_wait"},
           UNCHANGED lists
    PROVE  MqLists'
BY DEF MqLists, Gone, lists

(* How many receivers and senders are on their way after it.               *)
LEMMA WokenStay ==
    ASSUME NEW t \in Threads, NEW l, NEW woken, Gone(t, l, <<>>, woken), NEW k, mq_pc[t] # k,
           l # k
    PROVE  Cardinality(At(k))' = Cardinality(At(k))
<1>1. \A u \in Threads : mq_pc'[u] = k <=> mq_pc[u] = k
  BY DEF Gone
<1>2. QED BY <1>1, MqAtNext

LEMMA WokenLeave ==
    ASSUME NEW t \in Threads, NEW l, NEW woken, Gone(t, l, <<>>, woken), NEW k
    PROVE  Cardinality(At(k))' >= Cardinality(At(k)) - 1
<1>1. \A u \in Threads : u # t => (mq_pc'[u] = k <=> mq_pc[u] = k)
  BY DEF Gone
<1>2. QED BY <1>1, MqAtNext

LEMMA WokenCome ==
    ASSUME NEW t \in Threads, mq_pc[t] \notin {"send_woken", "recv_woken"},
           NEW list, NEW woken,
           WasWaiting(t, list, woken), Gone(t, "idle", list, woken), list # <<>>
    PROVE  Cardinality(At(woken))' = Cardinality(At(woken)) + 1
<1>1. /\ Head(list) \in Threads /\ mq_pc[Head(list)] # woken /\ mq_pc'[Head(list)] = woken
      /\ \A u \in Threads : u # Head(list) => (mq_pc'[u] = woken <=> mq_pc[u] = woken)
  BY DEF Gone, WasWaiting
<1>2. QED BY <1>1, MqAtNext

LEMMA WokenOther ==
    ASSUME NEW t \in Threads, NEW list, NEW woken,
           WasWaiting(t, list, woken), Gone(t, "idle", list, woken), NEW k, mq_pc[t] # k,
           k \notin {"idle", woken, "send_wait", "recv_wait"}
    PROVE  Cardinality(At(k))' = Cardinality(At(k))
<1>1. \A u \in Threads : mq_pc'[u] = k <=> mq_pc[u] = k
  BY DEF Gone, WasWaiting
<1>2. QED BY <1>1, MqAtNext

(* A send, or an urgent one, reserves the first free slot.                 *)
LEMMA TakeInv ==
    ASSUME MqInv, NEW t \in Threads, mq_pc[t] \in {"idle", "send_woken"},
           NEW l \in {"send_copy", "urgent_copy"}, NEW m \in Messages, Len(m) <= MsgSize,
           mq_free # NULL, mq_msg' = [mq_msg EXCEPT ![t] = mq_free],
           mq_free' = mq_next[mq_free], mq_pc' = [mq_pc EXCEPT ![t] = l],
           mq_sent' = [mq_sent EXCEPT ![t] = m], mq_wait' \in [Threads -> Waits],
           UNCHANGED <<pool, mq_head, mq_tail, mq_entry, lists, mq_got>>
    PROVE  MqInv'
<1> l \in PC /\ UNCHANGED <<mq_next, mq_data, mq_receivers, mq_senders>>
  BY DEF PC, pool, lists
<1>1. PICK q, f \in Seq(Slots) : MqSlots(q, f)
  BY DEF MqInv
<1>2. mq_msg \in [Threads -> Slots \cup {NULL}] /\ mq_msg[t] = NULL
  BY DEF MqInv, MqCalls, Holding
<1>3. /\ MqSlots(q, Tail(f))' /\ Tail(f) \in Seq(Slots)
      /\ Len(Tail(f)) = Len(f) - 1 /\ mq_free \in Slots
  BY <1>1, <1>2, TakeSlots
<1>4. mq_pc' \in [Threads -> PC] /\ Gone(t, l, <<>>, "send_woken")
  BY StayFacts DEF MqInv, MqCalls
<1>5. WasWaiting(t, <<>>, "send_woken")
  BY DEF WasWaiting
<1>6. /\ mq_msg' \in [Threads -> Slots \cup {NULL}] /\ mq_msg'[t] # NULL
      /\ \A u \in Threads \ {t} : mq_msg'[u] = mq_msg[u]
      /\ mq_sent' \in [Threads -> Messages \cup {<<>>}] /\ mq_sent'[t] = m
      /\ \A u \in Threads \ {t} : mq_sent'[u] = mq_sent[u]
  BY <1>2, <1>3, Constants DEF MqInv, MqCalls
<1>7. MqCalls'
  <2>1. mq_got' \in [Receivers -> Words] /\ l \in Holding /\ l \notin Receiving
    BY DEF MqInv, MqCalls, Holding, Receiving
  <2>2. QED BY <1>4, <1>5, <1>6, <2>1, CallsStep DEF MqInv
<1>8. MqPool'
  <2>1. mq_next' \in [Slots -> Slots \cup {NULL}] /\ mq_data' \in [Slots -> Words]
    BY DEF MqInv, MqPool
  <2>2. QED BY <1>4, <1>5, <1>6, <2>1, PoolStep DEF MqInv
<1>9. MqLists'
  BY <1>4, ListsStay DEF MqInv
<1>10. WaitersWoken'
  <2> DEFINE R == Cardinality(At("recv_woken"))
             S == Cardinality(At("send_woken"))
             n == Len(f)
  <2>1. R' = R
    BY <1>4, WokenStay
  <2>2. S' >= S - 1 /\ S \in Nat /\ S' \in Nat /\ n \in Nat
    BY <1>1, <1>4, WokenLeave, MqThreadsAt, MqAtNext, LenProperties
  <2>3. /\ mq_receivers # <<>> => mq_entry <= R
        /\ mq_senders # <<>> => n <= S
    BY <1>1, MqWoken DEF MqInv, MqSlots
  <2>4. Links(mq_next', mq_free', Tail(f))
    BY <1>3 DEF MqSlots
  <2>5. Len(Tail(f)) = n - 1
    BY <1>3
  <2> HIDE DEF R, S, n
  <2>6. /\ mq_receivers' # <<>> => mq_entry' <= R'
        /\ mq_senders' # <<>> => Len(Tail(f)) <= S'
    BY <2>1, <2>2, <2>3, <2>5
  <2>7. QED BY <2>4, <2>6, MqWoken DEF R, S
<1>11. QED BY <1>1, <1>3, <1>7, <1>8, <1>9, <1>10 DEF MqInv

LEMMA NoSlots ==
    ASSUME NEW q, NEW f, MqSlots(q, f)
    PROVE  /\ mq_free = NULL => Len(f) = 0
           /\ mq_entry = 0 => q = <<>>
           /\ q \in Seq(Slots) /\ f \in Seq(Slots) /\ Len(f) \in Nat /\ mq_entry \in Nat
<1>1. /\ Links(mq_next, mq_head, q) /\ Links(mq_next, mq_free, f) /\ mq_entry = Len(q)
  BY DEF MqSlots
<1>2. f \in Seq(Slots) /\ q \in Seq(Slots)
  BY <1>1 DEF Links
<1>3. ASSUME mq_free = NULL, f # <<>> PROVE FALSE
  <2>1. f[1] = NULL /\ 1 \in 1..Len(f)
    BY <1>1, <1>2, <1>3, EmptySeq, LenProperties DEF Links
  <2>2. QED BY <1>2, <2>1, ElementOfSeq, Constants
<1>4. QED BY <1>1, <1>2, <1>3, EmptySeq, LenProperties

(* A call that fails, or is suspended, changes nothing of the slots.       *)
LEMMA SlotsStay ==
    ASSUME NEW q, NEW f, MqSlots(q, f),
           UNCHANGED <<mq_next, mq_free, mq_head, mq_tail, mq_entry, mq_msg>>
    PROVE  /\ MqSlots(q, f)' /\ Links(mq_next', mq_free', f)
           /\ Links(mq_next, mq_free, f)
BY DEF MqSlots

LEMMA WaitInv ==
    ASSUME MqInv, NEW t \in Threads,
           mq_pc[t] \in {"idle", "send_woken", "recv_woken"},
           NEW l \in {"idle", "send_wait", "recv_wait"},
           l \in Sending => mq_sent'[t] \in Messages /\ Len(mq_sent'[t]) <= MsgSize,
           l \in Receiving => t \in Receivers,
           mq_pc[t] = "send_woken" \/ l = "send_wait" => mq_free = NULL,
           mq_pc[t] = "recv_woken" \/ l = "recv_wait" => mq_entry = 0,
           mq_pc' = [mq_pc EXCEPT ![t] = l],
           mq_sent' \in [Threads -> Messages \cup {<<>>}],
           \A u \in Threads \ {t} : mq_sent'[u] = mq_sent[u],
           mq_wait' \in [Threads -> Waits],
           mq_senders' = IF l = "send_wait" THEN Enlist(mq_senders, t) ELSE mq_senders,
           mq_receivers' = IF l = "recv_wait" THEN Enlist(mq_receivers, t) ELSE mq_receivers,
           UNCHANGED <<pool, object, mq_msg, mq_got>>
    PROVE  MqInv'
<1> l \in PC /\ UNCHANGED <<mq_next, mq_data, mq_free, mq_head, mq_tail, mq_entry>>
  BY DEF PC, pool, object
<1>1. PICK q, f \in Seq(Slots) : MqSlots(q, f)
  BY DEF MqInv
<1>2. /\ MqSlots(q, f)' /\ Links(mq_next', mq_free', f) /\ Links(mq_next, mq_free, f)
  BY <1>1, SlotsStay
<1>3. mq_pc' \in [Threads -> PC] /\ Gone(t, l, <<>>, "send_woken")
  BY StayFacts DEF MqInv, MqCalls
<1>4. WasWaiting(t, <<>>, "send_woken")
  BY DEF WasWaiting
<1>5. MqCalls'
  <2>1. /\ mq_msg' \in [Threads -> Slots \cup {NULL}] /\ mq_msg'[t] = NULL
        /\ \A u \in Threads \ {t} : mq_msg'[u] = mq_msg[u]
        /\ mq_got' \in [Receivers -> Words] /\ l \notin Holding
    BY DEF MqInv, MqCalls, Holding
  <2>2. QED BY <1>3, <1>4, <2>1, CallsStep DEF MqInv
<1>6. MqPool'
  BY <1>3, <1>4, PoolStep DEF MqInv, MqPool
<1>7. MqLists'
  <2>1. /\ mq_senders \in Seq(Threads) /\ IsInjective(mq_senders) /\ t \notin Elements(mq_senders)
        /\ mq_receivers \in Seq(Threads) /\ IsInjective(mq_receivers)
        /\ t \notin Elements(mq_receivers)
    BY DEF MqInv, MqLists
  <2>2. /\ mq_senders' \in Seq(Threads) /\ IsInjective(mq_senders')
        /\ Elements(mq_senders') = IF l = "send_wait" THEN Elements(mq_senders) \cup {t}
                                   ELSE Elements(mq_senders)
    BY <2>1, EnlistFacts
  <2>3. /\ mq_receivers' \in Seq(Threads) /\ IsInjective(mq_receivers')
        /\ Elements(mq_receivers') = IF l = "recv_wait" THEN Elements(mq_receivers) \cup {t}
                                     ELSE Elements(mq_receivers)
    BY <2>1, EnlistFacts
  <2>4. QED BY <1>3, <2>2, <2>3 DEF MqInv, MqLists, Gone
<1>8. WaitersWoken'
  <2> DEFINE R == Cardinality(At("recv_woken"))
             S == Cardinality(At("send_woken"))
  <2>1. mq_pc[t] # "recv_woken" => R' = R
    BY <1>3, WokenStay
  <2>2. mq_pc[t] # "send_woken" => S' = S
    BY <1>3, WokenStay
  <2>3. S \in Nat /\ S' \in Nat /\ R \in Nat /\ R' \in Nat
    BY MqThreadsAt, MqAtNext
  <2>4. /\ mq_receivers # <<>> => mq_entry <= R
        /\ mq_senders # <<>> => Len(f) <= S
    BY <1>2, MqWoken DEF MqInv
  <2>5. /\ mq_free = NULL => Len(f) = 0
        /\ Len(f) \in Nat /\ mq_entry \in Nat
    BY <1>1, NoSlots
  <2> HIDE DEF R, S
  <2>6. /\ mq_receivers' # <<>> => mq_entry' <= R'
        /\ mq_senders' # <<>> => Len(f) <= S'
    BY <2>1, <2>2, <2>3, <2>4, <2>5
  <2>7. QED BY <1>2, <2>6, MqWoken DEF R, S
<1>9. QED BY <1>1, <1>2, <1>5, <1>6, <1>7, <1>8 DEF MqInv

(* The copy into a slot that the sender holds.                             *)
LEMMA OverlayFacts ==
    ASSUME NEW word \in Words, NEW m \in Messages, Len(m) <= MsgSize
    PROVE  Overlay(word, m) \in Words /\ IsPrefix(m, Overlay(word, m))
<1>1. m \in Seq(Bytes) /\ Len(m) \in Nat
  BY MqAssumption, LenProperties
<1>2. \A i \in 1..Len(m) : m[i] \in Bytes
  BY <1>1, ElementOfSeq
<1>3. \A i \in 1..MsgSize : (IF i <= Len(m) THEN m[i] ELSE word[i]) \in Bytes
  BY <1>1, <1>2, Constants DEF Words
<1>4. Overlay(word, m) \in [1..MsgSize -> Bytes]
  BY <1>3 DEF Overlay
<1>5. Overlay(word, m) \in Seq(Bytes) /\ Len(Overlay(word, m)) = MsgSize
  BY <1>4, FunctionIsSeq, Constants
<1>6. \A i \in 1..Len(m) : Overlay(word, m)[i] = m[i]
  BY <1>1, Constants DEF Overlay
<1>7. IsPrefix(m, Overlay(word, m))
  <2> DEFINE w == Overlay(word, m)
  <2>1. DOMAIN m \subseteq DOMAIN w
    BY <1>1, <1>5, Constants, LenProperties
  <2>2. QED BY <1>1, <1>5, <1>6, <2>1 DEF IsPrefix
<1>8. QED BY <1>4, <1>7 DEF Words

LEMMA CopyInv ==
    ASSUME MqInv, NEW t \in Threads, SendCopy(t)
    PROVE  MqInv'
<1> DEFINE l == IF mq_pc[t] = "send_copy" THEN "send_link" ELSE "urgent_link"
<1>1. PICK p : p = mq_msg[t]
  OBVIOUS
<1>2. /\ mq_pc[t] \in {"send_copy", "urgent_copy"}
      /\ mq_data' = [mq_data EXCEPT ![p] = Overlay(mq_data[p], mq_sent[t])]
      /\ mq_next' = IF l = "send_link" THEN [mq_next EXCEPT ![p] = NULL] ELSE mq_next
      /\ mq_pc' = [mq_pc EXCEPT ![t] = l]
      /\ UNCHANGED <<mq_head, mq_tail, mq_free, mq_entry, mq_receivers, mq_senders,
                     mq_msg, mq_sent, mq_got, mq_wait>>
  BY <1>1 DEF SendCopy, object, lists, calls
<1>3. l \in PC /\ l \in {"send_link", "urgent_link"}
  BY DEF PC
<1> HIDE DEF l
<1>4. PICK q, f \in Seq(Slots) : MqSlots(q, f)
  BY DEF MqInv
<1>5. /\ p \in Slots /\ p # NULL /\ mq_sent[t] \in Messages /\ Len(mq_sent[t]) <= MsgSize
      /\ \A u \in Threads \ {t} : mq_msg[u] # NULL => mq_msg[u] # p /\ mq_msg[u] \in Slots
  <2>1. p # NULL /\ p \in Slots /\ mq_sent[t] \in Messages /\ Len(mq_sent[t]) <= MsgSize
    BY <1>1, <1>2 DEF MqInv, MqCalls, Holding, Sending
  <2>2. QED BY <1>1, <1>4, <2>1 DEF MqSlots, Partition, MqInv, MqCalls
<1>6. /\ MqSlots(q, f)' /\ mq_next' \in [Slots -> Slots \cup {NULL}]
  <2>1. /\ mq_msg \in [Threads -> Slots \cup {NULL}]
        /\ mq_next \in [Slots -> Slots \cup {NULL}]
    BY DEF MqInv, MqCalls, MqPool
  <2>2. CASE l = "send_link"
    BY <1>1, <1>2, <1>4, <1>5, <2>1, <2>2, HeldLinkSlots, ZenonT(30)
  <2>3. CASE l # "send_link"
    BY <1>2, <1>4, <2>1, <2>3, SlotsStay
  <2>4. QED BY <2>2, <2>3
<1>7. /\ mq_data' \in [Slots -> Words] /\ IsPrefix(mq_sent[t], mq_data'[p])
      /\ l = "send_link" => mq_next'[p] = NULL
  <2>1. mq_data \in [Slots -> Words] /\ mq_next \in [Slots -> Slots \cup {NULL}]
    BY DEF MqInv, MqPool
  <2>2. PICK w : w = Overlay(mq_data[p], mq_sent[t])
    OBVIOUS
  <2>3. w \in Words /\ IsPrefix(mq_sent[t], w)
    BY <1>5, <2>1, <2>2, OverlayFacts
  <2>4. QED BY <1>2, <1>5, <2>1, <2>2, <2>3
<1>8. mq_pc' \in [Threads -> PC] /\ Gone(t, l, <<>>, "send_woken")
  BY <1>2, <1>3, StayFacts DEF MqInv, MqCalls
<1>9. WasWaiting(t, <<>>, "send_woken")
  BY DEF WasWaiting
<1>10. MqCalls'
  <2>1. /\ l \in Holding /\ l \in Sending /\ l \notin Receiving
        /\ mq_msg'[t] # NULL /\ mq_got' \in [Receivers -> Words]
        /\ mq_wait' \in [Threads -> Waits]
    BY <1>1, <1>2, <1>3, <1>5 DEF Holding, Sending, Receiving, MqInv, MqCalls
  <2>2. QED BY <1>2, <1>3, <1>5, <1>8, <1>9, <2>1, CallsStep DEF MqInv, MqCalls
<1>11. MqPool'
  <2>1. \A u \in Threads \ {t} : mq_msg[u] # NULL =>
           /\ mq_next'[mq_msg[u]] = mq_next[mq_msg[u]]
           /\ mq_data'[mq_msg[u]] = mq_data[mq_msg[u]]
    BY <1>2, <1>5 DEF MqInv, MqPool
  <2>2. QED BY <1>1, <1>2, <1>3, <1>6, <1>7, <1>8, <1>9, <2>1, PoolStep DEF MqInv
<1>12. MqLists'
  BY <1>2, <1>3, <1>8, ListsStay DEF MqInv, lists
<1>13. WaitersWoken'
  <2>1. /\ Cardinality(At("recv_woken"))' = Cardinality(At("recv_woken"))
        /\ Cardinality(At("send_woken"))' = Cardinality(At("send_woken"))
    BY <1>2, <1>3, <1>8, WokenStay
  <2>2. Links(mq_next, mq_free, f) /\ Links(mq_next', mq_free', f)
    BY <1>4, <1>6 DEF MqSlots
  <2>3. QED BY <1>2, <2>1, <2>2, MqWoken DEF MqInv
<1>14. QED BY <1>4, <1>6, <1>10, <1>11, <1>12, <1>13 DEF MqInv

(* A receive unlinks the first message.                                    *)
LEMMA UnlinkInv ==
    ASSUME MqInv, NEW t \in Receivers, mq_pc[t] \in {"idle", "recv_woken"},
           mq_entry > 0, mq_msg' = [mq_msg EXCEPT ![t] = mq_head],
           mq_head' = mq_next[mq_head], mq_tail' = TailAfterUnlink,
           mq_entry' = mq_entry - 1, mq_pc' = [mq_pc EXCEPT ![t] = "recv_copy"],
           mq_wait' \in [Threads -> Waits],
           UNCHANGED <<pool, mq_free, lists, mq_sent, mq_got>>
    PROVE  MqInv'
<1> t \in Threads /\ UNCHANGED <<mq_next, mq_data, mq_receivers, mq_senders>>
  BY Constants DEF pool, lists
<1>1. PICK q, f \in Seq(Slots) : MqSlots(q, f)
  BY DEF MqInv
<1>2. mq_msg \in [Threads -> Slots \cup {NULL}] /\ mq_msg[t] = NULL
  BY DEF MqInv, MqCalls, Holding
<1>3. MqSlots(Tail(q), f)' /\ Tail(q) \in Seq(Slots) /\ mq_head \in Slots
  BY <1>1, <1>2, UnlinkSlots
<1>4. mq_pc' \in [Threads -> PC] /\ Gone(t, "recv_copy", <<>>, "send_woken")
  <2>1. "recv_copy" \in PC
    BY DEF PC
  <2>2. QED BY <2>1, StayFacts DEF MqInv, MqCalls
<1>5. WasWaiting(t, <<>>, "send_woken")
  BY DEF WasWaiting
<1>6. /\ mq_msg' \in [Threads -> Slots \cup {NULL}] /\ mq_msg'[t] # NULL
      /\ \A u \in Threads \ {t} : mq_msg'[u] = mq_msg[u]
  BY <1>2, <1>3, Constants
<1>7. MqCalls'
  <2>1. /\ "recv_copy" \in PC /\ "recv_copy" \in Holding /\ "recv_copy" \notin Sending
        /\ mq_got' \in [Receivers -> Words]
        /\ mq_sent' \in [Threads -> Messages \cup {<<>>}]
        /\ \A u \in Threads \ {t} : mq_sent'[u] = mq_sent[u]
    BY DEF MqInv, MqCalls, Holding, Sending, PC
  <2>2. QED BY <1>4, <1>5, <1>6, <2>1, CallsStep DEF MqInv
<1>8. MqPool'
  <2>1. /\ mq_next' \in [Slots -> Slots \cup {NULL}] /\ mq_data' \in [Slots -> Words]
        /\ "recv_copy" \in PC
    BY DEF MqInv, MqPool, PC
  <2>2. QED BY <1>4, <1>5, <1>6, <2>1, PoolStep DEF MqInv
<1>9. MqLists'
  <2>1. /\ "recv_copy" \notin {"send_wait", "recv_wait"} /\ UNCHANGED lists
        /\ mq_pc[t] \notin {"send_wait", "recv_wait"}
    OBVIOUS
  <2>2. QED BY <1>4, <2>1, ListsStay DEF MqInv
<1>10. WaitersWoken'
  <2> DEFINE R == Cardinality(At("recv_woken"))
             S == Cardinality(At("send_woken"))
  <2>1. S' = S
    BY <1>4, WokenStay
  <2>2. R' >= R - 1 /\ R \in Nat /\ R' \in Nat /\ mq_entry \in Nat
    BY <1>1, <1>4, WokenLeave, MqThreadsAt, MqAtNext, NoSlots
  <2>3. /\ mq_receivers # <<>> => mq_entry <= R
        /\ mq_senders # <<>> => Len(f) <= S
    BY <1>1, MqWoken DEF MqInv, MqSlots
  <2>4. Links(mq_next', mq_free', f)
    BY <1>3 DEF MqSlots
  <2> HIDE DEF R, S
  <2>5. /\ mq_receivers' # <<>> => mq_entry' <= R'
        /\ mq_senders' # <<>> => Len(f) <= S'
    BY <2>1, <2>2, <2>3
  <2>6. QED BY <2>4, <2>5, MqWoken DEF R, S
<1>11. QED BY <1>1, <1>3, <1>7, <1>8, <1>9, <1>10 DEF MqInv

(* The copy out of the slot that the receiver holds.                       *)
LEMMA RecvCopyInv ==
    ASSUME MqInv, NEW t \in Threads, RecvCopy(t)
    PROVE  MqInv'
<1>1. /\ mq_pc[t] = "recv_copy" /\ mq_got' = [mq_got EXCEPT ![t] = mq_data[mq_msg[t]]]
      /\ mq_pc' = [mq_pc EXCEPT ![t] = "recv_free"]
      /\ UNCHANGED <<mq_next, mq_data, mq_head, mq_tail, mq_free, mq_entry, mq_receivers,
                     mq_senders, mq_msg, mq_sent, mq_wait>>
  BY DEF RecvCopy, pool, object, lists
<1>2. PICK q, f \in Seq(Slots) : MqSlots(q, f)
  BY DEF MqInv
<1>3. MqSlots(q, f)' /\ Links(mq_next', mq_free', f) /\ Links(mq_next, mq_free, f)
  BY <1>1, <1>2, SlotsStay
<1>4. "recv_free" \in PC /\ mq_pc' \in [Threads -> PC] /\ Gone(t, "recv_free", <<>>, "send_woken")
  <2>1. "recv_free" \in PC
    BY DEF PC
  <2>2. QED BY <1>1, <2>1, StayFacts DEF MqInv, MqCalls
<1>5. WasWaiting(t, <<>>, "send_woken")
  BY DEF WasWaiting
<1>6. /\ t \in Receivers /\ mq_msg[t] \in Slots /\ mq_msg[t] # NULL
  BY <1>1 DEF MqInv, MqCalls, Holding, Receiving
<1>7. MqCalls'
  <2>1. "recv_free" \in Holding /\ "recv_free" \notin Sending
    BY DEF Holding, Sending
  <2>2. mq_got' \in [Receivers -> Words]
    BY <1>1, <1>6 DEF MqInv, MqCalls, MqPool
  <2>3. QED BY <1>1, <1>4, <1>5, <1>6, <2>1, <2>2, CallsStep DEF MqInv, MqCalls
<1>8. MqPool'
  BY <1>1, <1>4, <1>5, PoolStep DEF MqInv, MqPool
<1>9. MqLists'
  BY <1>1, <1>4, ListsStay DEF MqInv, lists
<1>10. WaitersWoken'
  <2>1. /\ Cardinality(At("recv_woken"))' = Cardinality(At("recv_woken"))
        /\ Cardinality(At("send_woken"))' = Cardinality(At("send_woken"))
    BY <1>1, <1>4, WokenStay
  <2>2. QED BY <1>1, <1>3, <2>1, MqWoken DEF MqInv
<1>11. QED BY <1>2, <1>3, <1>7, <1>8, <1>9, <1>10 DEF MqInv

(* A step that ends a call and resumes the first thread of one list.       *)
LEMMA ResumeLists ==
    ASSUME MqLists, mq_pc \in [Threads -> PC], NEW t \in Threads,
           mq_pc[t] \notin {"send_wait", "recv_wait", "send_woken", "recv_woken"},
           NEW list, NEW woken,
           \/ /\ woken = "recv_woken" /\ list = mq_receivers
              /\ mq_receivers' = Rest(mq_receivers) /\ mq_senders' = mq_senders
           \/ /\ woken = "send_woken" /\ list = mq_senders
              /\ mq_senders' = Rest(mq_senders) /\ mq_receivers' = mq_receivers,
           mq_pc' = GotoAndResume(t, "idle", list, woken)
    PROVE  /\ MqLists' /\ mq_pc' \in [Threads -> PC]
           /\ Gone(t, "idle", list, woken) /\ WasWaiting(t, list, woken)
           /\ mq_senders' # <<>> => mq_senders # <<>>
           /\ mq_receivers' # <<>> => mq_receivers # <<>>
<1>1. /\ list \in Seq(Threads) /\ IsInjective(list)
      /\ \A u \in Threads : u \in Elements(list) =>
            mq_pc[u] = IF woken = "send_woken" THEN "send_wait" ELSE "recv_wait"
  BY DEF MqLists
<1>2. PICK rest : rest = Rest(list)
  OBVIOUS
<1>3. /\ rest \in Seq(Threads) /\ IsInjective(rest)
      /\ \A u : u \in Elements(rest) <=> u \in Elements(list) /\ ~(list # <<>> /\ u = Head(list))
      /\ rest # <<>> => list # <<>>
      /\ list # <<>> => Head(list) \in Threads /\ Head(list) \in Elements(list)
  <2>1. rest = IF list = <<>> THEN <<>> ELSE Tail(list)
    BY <1>2 DEF Rest
  <2>2. QED BY <1>1, <2>1, RestFacts
<1>4. WasWaiting(t, list, woken)
  BY <1>1, <1>3 DEF WasWaiting
<1>5. mq_pc' \in [Threads -> PC] /\ Gone(t, "idle", list, woken)
  <2>1. "idle" \in PC /\ woken \in PC
    BY DEF PC
  <2>2. QED BY <1>4, <2>1, GotoFacts DEF WasWaiting
<1>6. CASE woken = "recv_woken" /\ list = mq_receivers /\ mq_receivers' = rest
           /\ mq_senders' = mq_senders
  <2>1. ASSUME NEW u \in Threads
        PROVE  /\ u \in Elements(mq_senders) <=> mq_pc'[u] = "send_wait"
               /\ u \in Elements(rest) <=> mq_pc'[u] = "recv_wait"
    BY <1>3, <1>4, <1>5, <1>6 DEF MqLists, Gone, WasWaiting
  <2>2. MqLists'
    BY <1>3, <1>6, <2>1 DEF MqLists
  <2>3. QED BY <1>3, <1>4, <1>5, <1>6, <2>2
<1>7. CASE woken = "send_woken" /\ list = mq_senders /\ mq_senders' = rest
           /\ mq_receivers' = mq_receivers
  <2>1. ASSUME NEW u \in Threads
        PROVE  /\ u \in Elements(rest) <=> mq_pc'[u] = "send_wait"
               /\ u \in Elements(mq_receivers) <=> mq_pc'[u] = "recv_wait"
    BY <1>3, <1>4, <1>5, <1>7 DEF MqLists, Gone, WasWaiting
  <2>2. MqLists'
    BY <1>3, <1>7, <2>1 DEF MqLists
  <2>3. QED BY <1>3, <1>4, <1>5, <1>7, <2>2
<1>8. QED BY <1>2, <1>6, <1>7

(* What both ways of linking a message end with.                           *)
LEMMA LinkedInv ==
    ASSUME MqInv, NEW t \in Threads, mq_pc[t] \in {"send_link", "urgent_link"}, Linked(t),
           NEW q \in Seq(Slots), NEW f \in Seq(Slots), NEW r \in Seq(Slots),
           MqSlots(q, f), MqSlots(r, f)', mq_next' \in [Slots -> Slots \cup {NULL}],
           \A u \in Threads \ {t} :
              mq_msg[u] # NULL => mq_next'[mq_msg[u]] = mq_next[mq_msg[u]]
    PROVE  MqInv'
<1>1. /\ mq_entry' = mq_entry + 1
      /\ mq_receivers' = Rest(mq_receivers)
      /\ mq_pc' = GotoAndResume(t, "idle", mq_receivers, "recv_woken")
      /\ mq_msg' = [mq_msg EXCEPT ![t] = NULL]
      /\ mq_sent' = [mq_sent EXCEPT ![t] = <<>>]
      /\ UNCHANGED <<mq_data, mq_free, mq_senders, mq_got, mq_wait>>
  BY DEF Linked
<1>2. /\ MqLists' /\ mq_pc' \in [Threads -> PC]
      /\ Gone(t, "idle", mq_receivers, "recv_woken")
      /\ WasWaiting(t, mq_receivers, "recv_woken")
      /\ mq_receivers' # <<>> => mq_receivers # <<>>
  <2>1. MqLists /\ mq_pc \in [Threads -> PC]
    BY DEF MqInv, MqCalls
  <2>2. mq_pc[t] \notin {"send_wait", "recv_wait", "send_woken", "recv_woken"}
    OBVIOUS
  <2>3. QED BY <1>1, <2>1, <2>2, ResumeLists
<1>3. "idle" \in PC /\ "idle" \notin Holding /\ "idle" \notin Sending /\ "idle" \notin Receiving
  BY DEF PC, Holding, Sending, Receiving
<1>4. MqCalls'
  <2>1. /\ mq_msg' \in [Threads -> Slots \cup {NULL}] /\ mq_msg'[t] = NULL
        /\ \A u \in Threads \ {t} : mq_msg'[u] = mq_msg[u]
        /\ mq_sent' \in [Threads -> Messages \cup {<<>>}]
        /\ \A u \in Threads \ {t} : mq_sent'[u] = mq_sent[u]
        /\ mq_wait' \in [Threads -> Waits] /\ mq_got' \in [Receivers -> Words]
    BY <1>1 DEF MqInv, MqCalls
  <2>2. QED BY <1>2, <1>3, <2>1, CallsStep DEF MqInv
<1>5. MqPool'
  <2>1. /\ mq_data' \in [Slots -> Words]
        /\ \A u \in Threads \ {t} : mq_msg'[u] = mq_msg[u] /\ mq_sent'[u] = mq_sent[u]
        /\ \A u \in Threads \ {t} : mq_msg[u] # NULL =>
              mq_next'[mq_msg[u]] = mq_next[mq_msg[u]] /\ mq_data'[mq_msg[u]] = mq_data[mq_msg[u]]
    BY <1>1 DEF MqInv, MqCalls, MqPool
  <2>2. QED BY <1>2, <1>3, <2>1, PoolStep DEF MqInv
<1>6. WaitersWoken'
  <2> DEFINE R == Cardinality(At("recv_woken"))
             S == Cardinality(At("send_woken"))
  <2>1. S' = S
    <3>1. mq_pc[t] # "send_woken" /\ "send_woken" \notin {"idle", "recv_woken", "send_wait", "recv_wait"}
      OBVIOUS
    <3>2. QED BY <1>2, <3>1, WokenOther
  <2>2. mq_receivers # <<>> => R' = R + 1
    <3>1. mq_pc[t] \notin {"send_woken", "recv_woken"}
      OBVIOUS
    <3>2. QED BY <1>2, <3>1, WokenCome
  <2>3. /\ mq_receivers # <<>> => mq_entry <= R
        /\ mq_senders # <<>> => Len(f) <= S
    BY MqWoken DEF MqInv, MqSlots
  <2>4. Links(mq_next', mq_free', f)
    BY DEF MqSlots
  <2>5. mq_entry \in Nat /\ R \in Nat
    BY NoSlots, MqThreadsAt
  <2> HIDE DEF R, S
  <2>6. /\ mq_receivers' # <<>> => mq_entry' <= R'
        /\ mq_senders' # <<>> => Len(f) <= S'
    BY <1>1, <1>2, <2>1, <2>2, <2>3, <2>5
  <2>7. QED BY <2>4, <2>6, MqWoken DEF R, S
<1>7. QED BY <1>2, <1>4, <1>5, <1>6 DEF MqInv

LEMMA SendLinkSlots ==
    ASSUME MqInv, NEW t \in Threads, SendLink(t), NEW q, NEW f, MqSlots(q, f),
           NEW p, p = mq_msg[t]
    PROVE  /\ MqSlots(Append(q, p), f)' /\ Append(q, p) \in Seq(Slots)
           /\ mq_next' \in [Slots -> Slots \cup {NULL}] /\ p \in Slots
           /\ \A u \in Threads \ {t} :
                 mq_msg[u] # NULL => mq_next'[mq_msg[u]] = mq_next[mq_msg[u]]
<1>1. /\ mq_pc[t] = "send_link"
      /\ mq_next' = IF mq_tail = NULL THEN mq_next ELSE [mq_next EXCEPT ![mq_tail] = p]
      /\ mq_tail' = p
      /\ mq_head' = IF mq_head = NULL THEN p ELSE mq_head
      /\ mq_entry' = mq_entry + 1 /\ mq_msg' = [mq_msg EXCEPT ![t] = NULL]
      /\ mq_free' = mq_free
  BY DEF SendLink, Linked
<1>2. /\ mq_msg \in [Threads -> Slots \cup {NULL}]
      /\ mq_next \in [Slots -> Slots \cup {NULL}]
      /\ p # NULL /\ mq_next[p] = NULL /\ p \in Slots
  BY <1>1 DEF MqInv, MqCalls, MqPool, Holding
<1>3. QED BY <1>1, <1>2, LinkLastSlots

LEMMA UrgentLinkSlots ==
    ASSUME MqInv, NEW t \in Threads, UrgentLink(t), NEW q, NEW f, MqSlots(q, f),
           NEW p, p = mq_msg[t]
    PROVE  /\ MqSlots(<<p>> \o q, f)' /\ <<p>> \o q \in Seq(Slots)
           /\ mq_next' \in [Slots -> Slots \cup {NULL}] /\ p \in Slots
           /\ \A u \in Threads \ {t} :
                 mq_msg[u] # NULL => mq_next'[mq_msg[u]] = mq_next[mq_msg[u]]
<1>1. /\ mq_pc[t] = "urgent_link"
      /\ mq_next' = [mq_next EXCEPT ![p] = mq_head] /\ mq_head' = p
      /\ mq_tail' = IF mq_tail = NULL THEN p ELSE mq_tail
      /\ mq_entry' = mq_entry + 1 /\ mq_msg' = [mq_msg EXCEPT ![t] = NULL]
      /\ mq_free' = mq_free
  BY DEF UrgentLink, Linked
<1>2. /\ mq_msg \in [Threads -> Slots \cup {NULL}]
      /\ mq_next \in [Slots -> Slots \cup {NULL}]
      /\ p # NULL /\ p \in Slots
  BY <1>1 DEF MqInv, MqCalls, MqPool, Holding
<1>3. QED BY <1>1, <1>2, LinkFirstSlots

LEMMA LinkInv ==
    ASSUME MqInv, NEW t \in Threads, SendLink(t) \/ UrgentLink(t)
    PROVE  MqInv'
<1>1. PICK q, f \in Seq(Slots) : MqSlots(q, f)
  BY DEF MqInv
<1>2. PICK p : p = mq_msg[t]
  OBVIOUS
<1>3. CASE SendLink(t)
  <2>1. mq_pc[t] \in {"send_link", "urgent_link"} /\ Linked(t)
    BY <1>3 DEF SendLink
  <2>2. PICK r : r = Append(q, p)
    OBVIOUS
  <2>3. /\ MqSlots(r, f)' /\ r \in Seq(Slots)
        /\ mq_next' \in [Slots -> Slots \cup {NULL}]
        /\ \A u \in Threads \ {t} :
              mq_msg[u] # NULL => mq_next'[mq_msg[u]] = mq_next[mq_msg[u]]
    BY <1>1, <1>2, <1>3, <2>2, SendLinkSlots
  <2>4. QED BY <1>1, <2>1, <2>3, LinkedInv
<1>4. CASE UrgentLink(t)
  <2>1. mq_pc[t] \in {"send_link", "urgent_link"} /\ Linked(t)
    BY <1>4 DEF UrgentLink
  <2>2. PICK r : r = <<p>> \o q
    OBVIOUS
  <2>3. /\ MqSlots(r, f)' /\ r \in Seq(Slots)
        /\ mq_next' \in [Slots -> Slots \cup {NULL}]
        /\ \A u \in Threads \ {t} :
              mq_msg[u] # NULL => mq_next'[mq_msg[u]] = mq_next[mq_msg[u]]
    BY <1>1, <1>2, <1>4, <2>2, UrgentLinkSlots
  <2>4. QED BY <1>1, <2>1, <2>3, LinkedInv
<1>5. QED BY <1>3, <1>4

(* A receiver gives its slot back.                                         *)
LEMMA FreeInv ==
    ASSUME MqInv, NEW t \in Threads, RecvFree(t)
    PROVE  MqInv'
<1>1. PICK q, f \in Seq(Slots) : MqSlots(q, f)
  BY DEF MqInv
<1>2. PICK p : p = mq_msg[t]
  OBVIOUS
<1>3. /\ mq_pc[t] = "recv_free"
      /\ mq_next' = [mq_next EXCEPT ![p] = mq_free] /\ mq_free' = p
      /\ mq_senders' = Rest(mq_senders)
      /\ mq_pc' = GotoAndResume(t, "idle", mq_senders, "send_woken")
      /\ mq_msg' = [mq_msg EXCEPT ![t] = NULL]
      /\ UNCHANGED <<mq_data, mq_head, mq_tail, mq_entry, mq_receivers, mq_sent, mq_got, mq_wait>>
  BY <1>2 DEF RecvFree
<1>4. /\ mq_msg \in [Threads -> Slots \cup {NULL}]
      /\ mq_next \in [Slots -> Slots \cup {NULL}] /\ p # NULL
  BY <1>2, <1>3 DEF MqInv, MqCalls, MqPool, Holding
<1>5. PICK r : r = <<p>> \o f
  OBVIOUS
<1>6. /\ MqSlots(q, r)' /\ r \in Seq(Slots) /\ Len(r) = Len(f) + 1
      /\ mq_next' \in [Slots -> Slots \cup {NULL}]
      /\ \A u \in Threads \ {t} :
            mq_msg[u] # NULL => mq_next'[mq_msg[u]] = mq_next[mq_msg[u]]
  BY <1>1, <1>2, <1>3, <1>4, <1>5, FreeSlots, ZenonT(30)
<1>7. /\ MqLists' /\ mq_pc' \in [Threads -> PC]
      /\ Gone(t, "idle", mq_senders, "send_woken")
      /\ WasWaiting(t, mq_senders, "send_woken")
      /\ mq_senders' # <<>> => mq_senders # <<>>
  <2>1. MqLists /\ mq_pc \in [Threads -> PC]
    BY DEF MqInv, MqCalls
  <2>2. mq_pc[t] \notin {"send_wait", "recv_wait", "send_woken", "recv_woken"}
    BY <1>3
  <2>3. QED BY <1>3, <2>1, <2>2, ResumeLists
<1>8. "idle" \in PC /\ "idle" \notin Holding /\ "idle" \notin Sending /\ "idle" \notin Receiving
  BY DEF PC, Holding, Sending, Receiving
<1>9. MqCalls'
  <2>1. /\ mq_msg' \in [Threads -> Slots \cup {NULL}] /\ mq_msg'[t] = NULL
        /\ \A u \in Threads \ {t} : mq_msg'[u] = mq_msg[u]
        /\ mq_sent' \in [Threads -> Messages \cup {<<>>}]
        /\ \A u \in Threads \ {t} : mq_sent'[u] = mq_sent[u]
        /\ mq_wait' \in [Threads -> Waits] /\ mq_got' \in [Receivers -> Words]
    BY <1>3 DEF MqInv, MqCalls
  <2>2. QED BY <1>7, <1>8, <2>1, CallsStep DEF MqInv
<1>10. MqPool'
  <2>1. /\ mq_data' \in [Slots -> Words]
        /\ \A u \in Threads \ {t} : mq_msg'[u] = mq_msg[u] /\ mq_sent'[u] = mq_sent[u]
        /\ \A u \in Threads \ {t} : mq_msg[u] # NULL =>
              mq_next'[mq_msg[u]] = mq_next[mq_msg[u]] /\ mq_data'[mq_msg[u]] = mq_data[mq_msg[u]]
    BY <1>3, <1>6 DEF MqInv, MqCalls, MqPool
  <2>2. QED BY <1>6, <1>7, <1>8, <2>1, PoolStep DEF MqInv
<1>11. WaitersWoken'
  <2> DEFINE R == Cardinality(At("recv_woken"))
             S == Cardinality(At("send_woken"))
             n == Len(f)
  <2>1. R' = R
    <3>1. mq_pc[t] # "recv_woken" /\ "recv_woken" \notin {"idle", "send_woken", "send_wait", "recv_wait"}
      BY <1>3
    <3>2. QED BY <1>7, <3>1, WokenOther
  <2>2. mq_senders # <<>> => S' = S + 1
    <3>1. mq_pc[t] \notin {"send_woken", "recv_woken"}
      BY <1>3
    <3>2. QED BY <1>7, <3>1, WokenCome
  <2>3. /\ mq_receivers # <<>> => mq_entry <= R
        /\ mq_senders # <<>> => n <= S
    BY <1>1, MqWoken DEF MqInv, MqSlots
  <2>4. Links(mq_next', mq_free', r)
    BY <1>6 DEF MqSlots
  <2>5. n \in Nat /\ S \in Nat
    BY <1>1, NoSlots, MqThreadsAt
  <2>6. Len(r) = n + 1
    BY <1>6
  <2> HIDE DEF R, S, n
  <2>7. /\ mq_receivers' # <<>> => mq_entry' <= R'
        /\ mq_senders' # <<>> => Len(r) <= S'
    BY <1>3, <1>7, <2>1, <2>2, <2>3, <2>5, <2>6
  <2>8. QED BY <2>4, <2>7, MqWoken DEF R, S
<1>12. QED BY <1>1, <1>6, <1>7, <1>9, <1>10, <1>11 DEF MqInv

LEMMA DelistFacts ==
    ASSUME NEW s \in Seq(Threads), IsInjective(s), NEW t
    PROVE  /\ Delist(s, t) \in Seq(Threads) /\ IsInjective(Delist(s, t))
           /\ Elements(Delist(s, t)) = Elements(s) \ {t}
           /\ Delist(s, t) # <<>> => s # <<>>
<1>1. Delist(s, t) = RemoveFirst(s, t)
  BY DEF Delist
<1>2. t \notin Elements(s) => RemoveFirst(s, t) = s
  BY Delisted
<1>3. t \in Elements(s) => s # <<>>
  BY NobodyListed
<1>4. QED BY <1>1, <1>2, <1>3, Delisted

LEMMA TimeoutInv ==
    ASSUME MqInv, NEW t \in Threads, Timeout(t)
    PROVE  MqInv'
<1>1. /\ mq_pc[t] \in {"send_wait", "recv_wait"}
      /\ mq_senders' = Delist(mq_senders, t) /\ mq_receivers' = Delist(mq_receivers, t)
      /\ mq_pc' = [mq_pc EXCEPT ![t] = "idle"]
      /\ mq_sent' = [mq_sent EXCEPT ![t] = <<>>]
      /\ mq_wait' = [mq_wait EXCEPT ![t] = "none"]
      /\ UNCHANGED <<mq_next, mq_data, mq_head, mq_tail, mq_free, mq_entry, mq_msg, mq_got>>
  BY DEF Timeout, Fail, pool, object
<1>2. PICK q, f \in Seq(Slots) : MqSlots(q, f)
  BY DEF MqInv
<1>3. MqSlots(q, f)' /\ Links(mq_next', mq_free', f) /\ Links(mq_next, mq_free, f)
  BY <1>1, <1>2, SlotsStay
<1>4. "idle" \in PC /\ "idle" \notin Holding /\ "idle" \notin Sending /\ "idle" \notin Receiving
  BY DEF PC, Holding, Sending, Receiving
<1>5. mq_pc' \in [Threads -> PC] /\ Gone(t, "idle", <<>>, "send_woken")
  BY <1>1, <1>4, StayFacts DEF MqInv, MqCalls
<1>6. WasWaiting(t, <<>>, "send_woken")
  BY DEF WasWaiting
<1>7. MqCalls'
  <2>1. /\ mq_msg' \in [Threads -> Slots \cup {NULL}] /\ mq_msg'[t] = NULL
        /\ \A u \in Threads \ {t} : mq_msg'[u] = mq_msg[u]
        /\ mq_sent' \in [Threads -> Messages \cup {<<>>}]
        /\ \A u \in Threads \ {t} : mq_sent'[u] = mq_sent[u]
        /\ mq_wait' \in [Threads -> Waits] /\ mq_got' \in [Receivers -> Words]
    BY <1>1 DEF MqInv, MqCalls, Holding, Waits
  <2>2. QED BY <1>4, <1>5, <1>6, <2>1, CallsStep DEF MqInv
<1>8. MqPool'
  BY <1>1, <1>4, <1>5, <1>6, PoolStep DEF MqInv, MqPool, MqCalls
<1>9. /\ MqLists'
      /\ mq_senders' # <<>> => mq_senders # <<>>
      /\ mq_receivers' # <<>> => mq_receivers # <<>>
  <2>1. /\ mq_senders' \in Seq(Threads) /\ IsInjective(mq_senders')
        /\ Elements(mq_senders') = Elements(mq_senders) \ {t}
        /\ mq_senders' # <<>> => mq_senders # <<>>
    BY <1>1, DelistFacts DEF MqInv, MqLists
  <2>2. /\ mq_receivers' \in Seq(Threads) /\ IsInjective(mq_receivers')
        /\ Elements(mq_receivers') = Elements(mq_receivers) \ {t}
        /\ mq_receivers' # <<>> => mq_receivers # <<>>
    BY <1>1, DelistFacts DEF MqInv, MqLists
  <2>3. QED BY <1>5, <2>1, <2>2 DEF MqInv, MqLists, Gone
<1>10. WaitersWoken'
  <2>1. mq_pc[t] # "recv_woken" /\ mq_pc[t] # "send_woken"
    BY <1>1
  <2>2. /\ Cardinality(At("recv_woken"))' = Cardinality(At("recv_woken"))
        /\ Cardinality(At("send_woken"))' = Cardinality(At("send_woken"))
    BY <1>5, <2>1, WokenStay
  <2>3. QED BY <1>1, <1>3, <1>9, <2>2, MqWoken DEF MqInv
<1>11. QED BY <1>2, <1>3, <1>7, <1>8, <1>9, <1>10 DEF MqInv

LEMMA ResetInv ==
    ASSUME MqInv, Reset
    PROVE  MqInv'
<1> DEFINE Waiting(u) == mq_pc[u] \in {"send_wait", "recv_wait"}
<1>1. PICK q, f \in Seq(Slots) : MqSlots(q, f)
  BY DEF MqInv
<1>2. /\ mq_receivers' = <<>> /\ mq_senders' = <<>> /\ mq_entry' = 0
      /\ mq_data' = mq_data /\ mq_msg' = mq_msg /\ mq_got' = mq_got
  BY DEF Reset
<1>3. /\ mq_pc' = [u \in Threads |-> IF u \in Elements(mq_receivers) \cup Elements(mq_senders)
                                      THEN "idle" ELSE mq_pc[u]]
      /\ mq_sent' = [u \in Threads |-> IF u \in Elements(mq_receivers) \cup Elements(mq_senders)
                                      THEN <<>> ELSE mq_sent[u]]
      /\ mq_wait' = [u \in Threads |-> IF u \in Elements(mq_receivers) \cup Elements(mq_senders)
                                      THEN "none" ELSE mq_wait[u]]
  BY DEF Reset, Listed, Elements
<1>4. \A u \in Threads :
         /\ mq_pc'[u] = IF Waiting(u) THEN "idle" ELSE mq_pc[u]
         /\ mq_sent'[u] = IF Waiting(u) THEN <<>> ELSE mq_sent[u]
  BY <1>3 DEF MqInv, MqLists
<1>5. PICK r : r = Onto(q, f)
  OBVIOUS
<1>6. /\ MqSlots(<<>>, r)' /\ r \in Seq(Slots)
      /\ mq_next' \in [Slots -> Slots \cup {NULL}]
      /\ \A u \in Threads :
            mq_msg[u] # NULL => mq_next'[mq_msg[u]] = mq_next[mq_msg[u]]
  BY <1>1, <1>5, ResetSlots DEF MqInv, MqCalls, MqPool
<1>7. MqCalls'
  <2>1. /\ mq_pc' \in [Threads -> PC] /\ mq_msg' \in [Threads -> Slots \cup {NULL}]
        /\ mq_sent' \in [Threads -> Messages \cup {<<>>}]
        /\ mq_got' \in [Receivers -> Words] /\ mq_wait' \in [Threads -> Waits]
    BY <1>2, <1>3 DEF MqInv, MqCalls, PC, Waits
  <2>2. ASSUME NEW u \in Threads
        PROVE  /\ mq_msg'[u] # NULL <=> mq_pc'[u] \in Holding
               /\ mq_pc'[u] \in Sending =>
                     mq_sent'[u] \in Messages /\ Len(mq_sent'[u]) <= MsgSize
               /\ mq_pc'[u] \in Receiving => u \in Receivers
    BY <1>2, <1>4 DEF MqInv, MqCalls, Holding, Sending, Receiving
  <2>3. QED BY <2>1, <2>2 DEF MqCalls
<1>8. MqPool'
  <2>1. \A u \in Threads : mq_pc[u] \in {"send_link", "urgent_link"} => mq_msg[u] # NULL
    BY DEF MqInv, MqCalls, Holding
  <2>2. QED BY <1>2, <1>4, <1>6, <2>1 DEF MqInv, MqPool
<1>9. MqLists'
  BY <1>2, <1>4, NobodyListed DEF MqLists
<1>10. WaitersWoken'
  BY <1>2 DEF WaitersWoken
<1>11. <<>> \in Seq(Slots)
  BY NobodyListed
<1>12. QED BY <1>6, <1>7, <1>8, <1>9, <1>10, <1>11 DEF MqInv

(* rt_mq_init: the free list runs from the last slot down to slot 0.       *)
LEMMA MqInitInv == Init => MqInv
<1> SUFFICES ASSUME Init PROVE MqInv
  OBVIOUS
<1>1. /\ mq_next = [s \in Slots |-> IF s = 0 THEN NULL ELSE s - 1]
      /\ mq_data = [s \in Slots |-> [i \in 1..MsgSize |-> NoByte]]
      /\ mq_head = NULL /\ mq_tail = NULL /\ mq_free = MaxMsgs - 1 /\ mq_entry = 0
      /\ mq_receivers = <<>> /\ mq_senders = <<>>
      /\ mq_pc = [t \in Threads |-> "idle"] /\ mq_msg = [t \in Threads |-> NULL]
      /\ mq_sent = [t \in Threads |-> <<>>]
      /\ mq_got = [t \in Receivers |-> [i \in 1..MsgSize |-> NoByte]]
      /\ mq_wait = [t \in Threads |-> "none"]
  BY DEF Init
<1>2. [i \in 1..MsgSize |-> NoByte] \in Words
  BY DEF Words, Bytes
<1>3. MqCalls
  BY <1>1, <1>2 DEF MqCalls, PC, Waits, Holding, Sending, Receiving
<1>4. MqLists
  BY <1>1, NobodyListed DEF MqLists
<1>5. MqPool
  <2>1. mq_next \in [Slots -> Slots \cup {NULL}]
    BY <1>1, Constants DEF Slots
  <2>2. QED BY <1>1, <1>2, <2>1 DEF MqPool
<1>6. WaitersWoken
  BY <1>1 DEF WaitersWoken
<1> DEFINE n == MaxMsgs
           f == [k \in 1..n |-> n - k]
<1>7. n \in Nat /\ n >= 1 /\ Slots = 0..n-1
  BY Constants DEF Slots
<1>8. f \in Seq(Slots) /\ Len(f) = n
  <2>1. f \in [1..n -> Slots]
    <3> HIDE DEF n
    <3>1. QED BY <1>7
  <2> HIDE DEF f, n
  <2>2. QED BY <1>7, <2>1, FunctionIsSeq
<1>9. \A k \in 1..n : f[k] = n - k
  OBVIOUS
<1> HIDE DEF f, n
<1>10. IsInjective(f) /\ Elements(f) = Slots /\ f # <<>>
  <2>1. IsInjective(f)
    BY <1>7, <1>8, <1>9 DEF IsInjective
  <2>2. ASSUME NEW s \in Slots PROVE s \in Elements(f)
    <3>1. n - s \in 1..n /\ n - (n - s) = s
      BY <1>7
    <3>2. QED BY <1>8, <1>9, <3>1 DEF Elements
  <2>3. Elements(f) \subseteq Slots
    BY <1>8, ElementOfSeq DEF Elements
  <2>4. f # <<>>
    BY <1>7, <1>8, EmptySeq
  <2>5. QED BY <2>1, <2>2, <2>3, <2>4
<1>11. Links(mq_next, mq_free, f)
  <2>1. mq_free = f[1]
    BY <1>1, <1>7, <1>9 DEF n
  <2>2. ASSUME NEW i \in 1..n
        PROVE  mq_next[f[i]] = IF i = n THEN NULL ELSE f[i+1]
    <3>1. n - i \in Slots /\ (n - i = 0 <=> i = n) /\ (i # n => i + 1 \in 1..n)
          /\ (n - i) - 1 = n - (i + 1)
      BY <1>7
    <3>2. mq_next[n - i] = IF n - i = 0 THEN NULL ELSE (n - i) - 1
      BY <1>1, <3>1
    <3>3. QED BY <1>9, <3>1, <3>2
  <2>3. QED BY <1>8, <1>10, <2>1, <2>2 DEF Links
<1>12. Links(mq_next, mq_head, <<>>) /\ Len(<<>>) = 0 /\ <<>> \in Seq(Slots)
  BY <1>1, NobodyListed, EmptySeq DEF Links
<1>13. Partition(Elements(<<>>), Elements(f), mq_msg)
  BY <1>1, <1>10, NobodyListed DEF Partition
<1>14. MqSlots(<<>>, f)
  BY <1>1, <1>11, <1>12, <1>13 DEF MqSlots
<1>15. QED BY <1>3, <1>4, <1>5, <1>6, <1>8, <1>12, <1>14 DEF MqInv

LEMMA TrySendInv ==
    ASSUME MqInv, NEW t \in Threads, mq_pc[t] \in {"idle", "send_woken"},
           NEW m \in Messages, Len(m) <= MsgSize, NEW w \in Waits, TrySend(t, m, w)
    PROVE  MqInv'
<1>0. /\ mq_wait \in [Threads -> Waits] /\ mq_sent \in [Threads -> Messages \cup {<<>>}]
      /\ "none" \in Waits
  BY DEF MqInv, MqCalls, Waits
<1>1. CASE mq_free # NULL
  <2>1. /\ mq_msg' = [mq_msg EXCEPT ![t] = mq_free]
        /\ mq_free' = mq_next[mq_free]
        /\ mq_pc' = [mq_pc EXCEPT ![t] = "send_copy"]
        /\ mq_sent' = [mq_sent EXCEPT ![t] = m]
        /\ mq_wait' = [mq_wait EXCEPT ![t] = "none"]
        /\ UNCHANGED <<pool, mq_head, mq_tail, mq_entry, lists, mq_got>>
    BY <1>1 DEF TrySend, lists
  <2>2. mq_wait' \in [Threads -> Waits]
    BY <1>0, <2>1
  <2>3. QED BY <1>1, <2>1, <2>2, TakeInv
<1>2. CASE mq_free = NULL /\ w = "none"
  <2>1. /\ mq_pc' = [mq_pc EXCEPT ![t] = "idle"]
        /\ mq_sent' = [mq_sent EXCEPT ![t] = <<>>]
        /\ mq_wait' = [mq_wait EXCEPT ![t] = "none"]
        /\ UNCHANGED <<pool, object, mq_msg, mq_senders, mq_receivers, mq_got>>
    BY <1>2 DEF TrySend, Fail, object
  <2>2. /\ mq_wait' \in [Threads -> Waits] /\ mq_sent' \in [Threads -> Messages \cup {<<>>}]
        /\ \A u \in Threads \ {t} : mq_sent'[u] = mq_sent[u]
    BY <1>0, <2>1
  <2>3. /\ "idle" \in {"idle", "send_wait", "recv_wait"}
        /\ "idle" \notin Sending /\ "idle" \notin Receiving
        /\ mq_pc[t] \in {"idle", "send_woken", "recv_woken"} /\ mq_pc[t] # "recv_woken"
        /\ mq_senders' = IF "idle" = "send_wait" THEN Enlist(mq_senders, t) ELSE mq_senders
        /\ mq_receivers' = IF "idle" = "recv_wait" THEN Enlist(mq_receivers, t)
                           ELSE mq_receivers
    BY <2>1 DEF Sending, Receiving
  <2>4. QED BY <1>2, <2>1, <2>2, <2>3, WaitInv
<1>3. CASE mq_free = NULL /\ w # "none"
  <2>1. /\ mq_pc' = [mq_pc EXCEPT ![t] = "send_wait"]
        /\ mq_senders' = Enlist(mq_senders, t)
        /\ mq_sent' = [mq_sent EXCEPT ![t] = m]
        /\ mq_wait' = [mq_wait EXCEPT ![t] = w]
        /\ UNCHANGED <<pool, object, mq_msg, mq_receivers, mq_got>>
    BY <1>3 DEF TrySend, object
  <2>2. /\ mq_wait' \in [Threads -> Waits] /\ mq_sent' \in [Threads -> Messages \cup {<<>>}]
        /\ \A u \in Threads \ {t} : mq_sent'[u] = mq_sent[u]
        /\ mq_sent'[t] = m
    BY <1>0, <2>1
  <2>3. /\ "send_wait" \in {"idle", "send_wait", "recv_wait"}
        /\ "send_wait" \notin Receiving
        /\ mq_pc[t] \in {"idle", "send_woken", "recv_woken"} /\ mq_pc[t] # "recv_woken"
        /\ mq_senders' = IF "send_wait" = "send_wait" THEN Enlist(mq_senders, t)
                         ELSE mq_senders
        /\ mq_receivers' = IF "send_wait" = "recv_wait" THEN Enlist(mq_receivers, t)
                           ELSE mq_receivers
    BY <2>1 DEF Receiving
  <2>4. QED BY <1>3, <2>1, <2>2, <2>3, WaitInv
<1>4. QED BY <1>1, <1>2, <1>3

LEMMA TryRecvInv ==
    ASSUME MqInv, NEW t \in Receivers, mq_pc[t] \in {"idle", "recv_woken"},
           NEW w \in Waits, TryRecv(t, w)
    PROVE  MqInv'
<1>0. /\ mq_wait \in [Threads -> Waits] /\ mq_sent \in [Threads -> Messages \cup {<<>>}]
      /\ "none" \in Waits /\ t \in Threads
  BY Constants DEF MqInv, MqCalls, Waits
<1>1. CASE mq_entry > 0
  <2>0. mq_entry # 0
    BY <1>1
  <2>1. /\ mq_msg' = [mq_msg EXCEPT ![t] = mq_head]
        /\ mq_head' = mq_next[mq_head] /\ mq_tail' = TailAfterUnlink
        /\ mq_entry' = mq_entry - 1
        /\ mq_pc' = [mq_pc EXCEPT ![t] = "recv_copy"]
        /\ mq_wait' = [mq_wait EXCEPT ![t] = "none"]
        /\ UNCHANGED <<pool, mq_free, lists, mq_sent, mq_got>>
    BY <2>0 DEF TryRecv, lists
  <2>2. mq_wait' \in [Threads -> Waits]
    BY <1>0, <2>1
  <2>3. QED BY <1>1, <2>1, <2>2, UnlinkInv
<1>2. CASE ~(mq_entry > 0) /\ w = "none"
  <2>1. /\ mq_pc' = [mq_pc EXCEPT ![t] = "idle"] /\ mq_entry = 0
        /\ mq_sent' = [mq_sent EXCEPT ![t] = <<>>]
        /\ mq_wait' = [mq_wait EXCEPT ![t] = "none"]
        /\ UNCHANGED <<pool, object, mq_msg, mq_senders, mq_receivers, mq_got>>
    BY <1>2 DEF TryRecv, Fail, object
  <2>2. /\ mq_wait' \in [Threads -> Waits] /\ mq_sent' \in [Threads -> Messages \cup {<<>>}]
        /\ \A u \in Threads \ {t} : mq_sent'[u] = mq_sent[u]
    BY <1>0, <2>1
  <2>3. /\ "idle" \in {"idle", "send_wait", "recv_wait"}
        /\ "idle" \notin Sending /\ "idle" \notin Receiving
        /\ mq_pc[t] \in {"idle", "send_woken", "recv_woken"} /\ mq_pc[t] # "send_woken"
        /\ mq_senders' = IF "idle" = "send_wait" THEN Enlist(mq_senders, t) ELSE mq_senders
        /\ mq_receivers' = IF "idle" = "recv_wait" THEN Enlist(mq_receivers, t)
                           ELSE mq_receivers
    BY <2>1 DEF Sending, Receiving
  <2>4. QED BY <1>0, <2>1, <2>2, <2>3, WaitInv
<1>3. CASE ~(mq_entry > 0) /\ w # "none"
  <2>1. /\ mq_pc' = [mq_pc EXCEPT ![t] = "recv_wait"] /\ mq_entry = 0
        /\ mq_receivers' = Enlist(mq_receivers, t)
        /\ mq_wait' = [mq_wait EXCEPT ![t] = w]
        /\ UNCHANGED <<pool, object, mq_msg, mq_senders, mq_sent, mq_got>>
    BY <1>3 DEF TryRecv, object
  <2>2. /\ mq_wait' \in [Threads -> Waits] /\ mq_sent' \in [Threads -> Messages \cup {<<>>}]
        /\ \A u \in Threads \ {t} : mq_sent'[u] = mq_sent[u]
    BY <1>0, <2>1
  <2>3. /\ "recv_wait" \in {"idle", "send_wait", "recv_wait"}
        /\ "recv_wait" \notin Sending
        /\ mq_pc[t] \in {"idle", "send_woken", "recv_woken"} /\ mq_pc[t] # "send_woken"
        /\ mq_senders' = IF "recv_wait" = "send_wait" THEN Enlist(mq_senders, t)
                         ELSE mq_senders
        /\ mq_receivers' = IF "recv_wait" = "recv_wait" THEN Enlist(mq_receivers, t)
                           ELSE mq_receivers
    BY <2>1 DEF Sending
  <2>4. QED BY <1>0, <2>1, <2>2, <2>3, WaitInv
<1>4. QED BY <1>1, <1>2, <1>3

LEMMA MqRemaining ==
    ASSUME MqInv, NEW t \in Threads
    PROVE  Remaining(t) \subseteq Waits
BY DEF MqInv, MqCalls, Remaining, Waits

LEMMA MqNextInv == MqInv /\ [IpcNext]_ipcVars => MqInv'
<1> SUFFICES ASSUME MqInv, [IpcNext]_ipcVars PROVE MqInv'
  OBVIOUS
<1>1. CASE UNCHANGED vars
  <2>1. UNCHANGED <<mq_next, mq_data, mq_head, mq_tail, mq_free, mq_entry, mq_receivers,
                    mq_senders, mq_pc, mq_msg, mq_sent, mq_got, mq_wait>>
    BY <1>1 DEF vars, pool, object, lists, calls
  <2>2. MqCalls' /\ MqLists' /\ MqPool'
    BY <2>1 DEF MqInv, MqCalls, MqLists, MqPool
  <2>3. PICK q, f \in Seq(Slots) : MqSlots(q, f)
    BY DEF MqInv
  <2>4. MqSlots(q, f)' /\ Links(mq_next', mq_free', f) /\ Links(mq_next, mq_free, f)
    BY <2>1, <2>3, SlotsStay
  <2>5. /\ Cardinality(At("recv_woken"))' = Cardinality(At("recv_woken"))
        /\ Cardinality(At("send_woken"))' = Cardinality(At("send_woken"))
    BY <2>1 DEF At
  <2>6. WaitersWoken'
    BY <2>1, <2>4, <2>5, MqWoken DEF MqInv
  <2>7. QED BY <2>2, <2>4, <2>6 DEF MqInv
<1>2. CASE Next
  <2>1. ASSUME NEW t \in Threads, NEW m \in Messages, Urgent(t, m) PROVE MqInv'
    <3>1. /\ mq_pc[t] \in {"idle", "send_woken"} /\ Len(m) <= MsgSize /\ mq_free # NULL
          /\ mq_msg' = [mq_msg EXCEPT ![t] = mq_free]
          /\ mq_sent' = [mq_sent EXCEPT ![t] = m]
          /\ mq_free' = mq_next[mq_free]
          /\ mq_pc' = [mq_pc EXCEPT ![t] = "urgent_copy"]
          /\ mq_wait' \in [Threads -> Waits]
          /\ UNCHANGED <<pool, mq_head, mq_tail, mq_entry, lists, mq_got>>
      BY <2>1 DEF Urgent, MqInv, MqCalls
    <3>2. QED BY <3>1, TakeInv
  <2>2. ASSUME NEW t \in Threads, NEW m \in Messages, NEW w \in Waits, SendWait(t, m, w)
        PROVE  MqInv'
    BY <2>2, TrySendInv DEF SendWait
  <2>3. ASSUME NEW t \in Receivers, NEW w \in Waits, Recv(t, w) PROVE MqInv'
    BY <2>3, TryRecvInv DEF Recv
  <2>4. ASSUME NEW t \in Threads, SendRetry(t) PROVE MqInv'
    <3>1. PICK w \in Remaining(t) : TrySend(t, mq_sent[t], w)
      BY <2>4 DEF SendRetry
    <3>2. /\ mq_pc[t] = "send_woken" /\ w \in Waits
          /\ mq_sent[t] \in Messages /\ Len(mq_sent[t]) <= MsgSize
      BY <2>4, MqRemaining DEF SendRetry, MqInv, MqCalls, Sending
    <3>3. QED BY <3>1, <3>2, TrySendInv
  <2>5. ASSUME NEW t \in Threads, RecvRetry(t) PROVE MqInv'
    <3>1. PICK w \in Remaining(t) : TryRecv(t, w)
      BY <2>5 DEF RecvRetry
    <3>2. mq_pc[t] = "recv_woken" /\ w \in Waits /\ t \in Receivers
      BY <2>5, MqRemaining DEF RecvRetry, MqInv, MqCalls, Receiving
    <3>3. QED BY <3>1, <3>2, TryRecvInv
  <2>6. ASSUME NEW t \in Threads, Begin(t) PROVE MqInv'
    BY <2>1, <2>2, <2>3, <2>6 DEF Begin
  <2>7. ASSUME NEW t \in Threads, Continue(t) PROVE MqInv'
    BY <2>4, <2>5, <2>7, CopyInv, LinkInv, RecvCopyInv, FreeInv DEF Continue
  <2>8. QED BY <1>2, <2>6, <2>7, TimeoutInv, ResetInv DEF Next
<1>3. QED BY <1>1, <1>2 DEF IpcNext, ipcVars

LEMMA MqInvariant == IpcSpec => []MqInv
<1>1. IpcInit => MqInv
  BY MqInitInv DEF IpcInit
<1>2. QED BY <1>1, MqNextInv, PTL DEF IpcSpec

(* However the two critical sections of sends and receives interleave, the *)
(* slots of a queue are each on its message list, on its free list or with *)
(* one call, entry counts the messages and tail is the last of them: none  *)
(* is lost, listed twice or linked while another call copies into it.      *)
THEOREM QueueKeepsItsSlots == IpcSpec => []SlotsConserved
<1>1. MqInv => SlotsConserved
  BY SlotsKept DEF MqInv
<1>2. QED BY <1>1, MqInvariant, PTL

(* While a receiver is suspended on the queue, no more messages are queued *)
(* than receivers that were resumed and are on their way; while a sender   *)
(* is, no more slots free: rt_mq_send_wait, rt_mq_urgent, rt_mq_recv, a    *)
(* timeout and a reset never leave a thread waiting for what is there.     *)
THEOREM QueueWakesItsWaiters == IpcSpec => []WaitersWoken
<1>1. MqInv => WaitersWoken
  BY DEF MqInv
<1>2. QED BY <1>1, MqInvariant, PTL

-----------------------------------------------------------------------------
(* The message queue implements a bounded FIFO.                            *)
LEMMA WordsOfFacts ==
    ASSUME NEW data \in [Slots -> Words], NEW q \in Seq(Slots)
    PROVE  /\ WordsOf(data, q) \in Seq(Words) /\ Len(WordsOf(data, q)) = Len(q)
           /\ \A i \in 1..Len(q) : WordsOf(data, q)[i] = data[q[i]]
<1>1. WordsOf(data, q) \in [1..Len(q) -> Words]
  BY ElementOfSeq DEF WordsOf
<1>2. Len(q) \in Nat
  BY LenProperties
<1>3. QED BY <1>1, <1>2, FunctionIsSeq DEF WordsOf

LEMMA WordsLast ==
    ASSUME NEW data \in [Slots -> Words], NEW q \in Seq(Slots), NEW p \in Slots
    PROVE  WordsOf(data, Append(q, p)) = Append(WordsOf(data, q), data[p])
<1> DEFINE r == Append(q, p)
           s == WordsOf(data, q)
           a == WordsOf(data, r)
           b == Append(s, data[p])
<1>1. /\ r \in Seq(Slots) /\ Len(r) = Len(q) + 1 /\ r[Len(q)+1] = p /\ Len(q) \in Nat
      /\ \A i \in 1..Len(q) : r[i] = q[i]
  OBVIOUS
<1> HIDE DEF r
<1>2. /\ s \in Seq(Words) /\ Len(s) = Len(q)
      /\ \A i \in 1..Len(q) : s[i] = data[q[i]]
  BY WordsOfFacts
<1>3. /\ a \in Seq(Words) /\ Len(a) = Len(q) + 1
      /\ \A i \in 1..Len(q)+1 : a[i] = data[r[i]]
  BY <1>1, WordsOfFacts
<1> HIDE DEF s, a
<1>4. /\ b \in Seq(Words) /\ Len(b) = Len(q) + 1 /\ b[Len(q)+1] = data[p]
      /\ \A i \in 1..Len(q) : b[i] = s[i]
  BY <1>2
<1> HIDE DEF b
<1>5. ASSUME NEW i \in 1..Len(q)+1 PROVE a[i] = b[i]
  <2>1. CASE i = Len(q) + 1
    BY <1>1, <1>3, <1>4, <2>1
  <2>2. CASE i # Len(q) + 1
    <3>1. i \in 1..Len(q)
      BY <1>1, <2>2
    <3>2. a[i] = data[r[i]] /\ r[i] = q[i] /\ b[i] = s[i] /\ s[i] = data[q[i]]
      BY <1>1, <1>2, <1>3, <1>4, <3>1
    <3>3. QED BY <3>2
  <2>3. QED BY <2>1, <2>2
<1>6. a = b
  BY <1>3, <1>4, <1>5, SeqEqual
<1>7. QED BY <1>6 DEF a, b, s, r

LEMMA WordsFirst ==
    ASSUME NEW data \in [Slots -> Words], NEW q \in Seq(Slots), NEW p \in Slots
    PROVE  WordsOf(data, <<p>> \o q) = <<data[p]>> \o WordsOf(data, q)
<1> DEFINE r == <<p>> \o q
           s == WordsOf(data, q)
           a == WordsOf(data, r)
           b == <<data[p]>> \o s
<1>1. /\ r \in Seq(Slots) /\ Len(r) = Len(q) + 1 /\ r[1] = p /\ Len(q) \in Nat
      /\ \A i \in 1..Len(q) : r[i+1] = q[i]
  OBVIOUS
<1> HIDE DEF r
<1>2. /\ s \in Seq(Words) /\ Len(s) = Len(q)
      /\ \A i \in 1..Len(q) : s[i] = data[q[i]]
  BY WordsOfFacts
<1>3. /\ a \in Seq(Words) /\ Len(a) = Len(q) + 1
      /\ \A i \in 1..Len(q)+1 : a[i] = data[r[i]]
  BY <1>1, WordsOfFacts
<1> HIDE DEF s, a
<1>4. /\ b \in Seq(Words) /\ Len(b) = Len(q) + 1 /\ b[1] = data[p]
      /\ \A i \in 1..Len(q) : b[i+1] = s[i]
  BY <1>2
<1> HIDE DEF b
<1>5. ASSUME NEW i \in 1..Len(q)+1 PROVE a[i] = b[i]
  <2>1. CASE i = 1
    BY <1>1, <1>3, <1>4, <2>1
  <2>2. CASE i # 1
    <3>1. i - 1 \in 1..Len(q) /\ (i - 1) + 1 = i
      BY <1>1, <2>2
    <3>2. r[i] = q[i-1] /\ b[i] = s[i-1]
      BY <1>1, <1>4, <3>1
    <3>3. QED BY <1>2, <1>3, <3>1, <3>2
  <2>3. QED BY <2>1, <2>2
<1>6. a = b
  BY <1>3, <1>4, <1>5, SeqEqual
<1>7. QED BY <1>6 DEF a, b, s, r

LEMMA WordsTaken ==
    ASSUME NEW data \in [Slots -> Words], NEW q \in Seq(Slots), q # <<>>
    PROVE  /\ WordsOf(data, q) # <<>> /\ Head(WordsOf(data, q)) = data[Head(q)]
           /\ WordsOf(data, Tail(q)) = Tail(WordsOf(data, q))
<1> DEFINE r == Tail(q)
           s == WordsOf(data, q)
           a == WordsOf(data, r)
           b == Tail(s)
<1>1. /\ r \in Seq(Slots) /\ Len(r) = Len(q) - 1 /\ Head(q) = q[1]
      /\ Len(q) \in Nat /\ Len(q) >= 1
      /\ \A i \in 1..Len(q)-1 : r[i] = q[i+1]
  <2>1. Len(q) \in Nat /\ Len(q) # 0
    BY LenProperties, EmptySeq
  <2>2. QED BY <2>1, HeadTailProperties
<1> HIDE DEF r
<1>2. /\ s \in Seq(Words) /\ Len(s) = Len(q)
      /\ \A i \in 1..Len(q) : s[i] = data[q[i]]
  BY WordsOfFacts
<1>3. /\ a \in Seq(Words) /\ Len(a) = Len(q) - 1
      /\ \A i \in 1..Len(q)-1 : a[i] = data[r[i]]
  BY <1>1, WordsOfFacts
<1> HIDE DEF s, a
<1>4. s # <<>> /\ Head(s) = data[Head(q)]
  <2>1. s # <<>>
    BY <1>1, <1>2, EmptySeq
  <2>2. 1 \in 1..Len(q) /\ Head(s) = s[1]
    BY <1>1, <1>2, <2>1
  <2>3. QED BY <1>1, <1>2, <2>1, <2>2
<1>5. /\ b \in Seq(Words) /\ Len(b) = Len(q) - 1
      /\ \A i \in 1..Len(q)-1 : b[i] = s[i+1]
  BY <1>2, <1>4, HeadTailProperties
<1> HIDE DEF b
<1>6. ASSUME NEW i \in 1..Len(q)-1 PROVE a[i] = b[i]
  <2>1. i + 1 \in 1..Len(q)
    BY <1>1
  <2>2. a[i] = data[r[i]] /\ r[i] = q[i+1]
    BY <1>1, <1>3
  <2>3. b[i] = s[i+1] /\ s[i+1] = data[q[i+1]]
    BY <1>2, <1>5, <2>1
  <2>4. QED BY <2>2, <2>3
<1>7. a = b
  BY <1>3, <1>5, <1>6, SeqEqual
<1>8. QED BY <1>4, <1>7 DEF a, b, s, r

(* What the receivers have been given: a receiver that unlinked a message  *)
(* and has yet to copy it has been given what the slot holds.              *)
FifoGot == [t \in Receivers |-> IF mq_pc[t] = "recv_copy" THEN mq_data[mq_msg[t]]
                                ELSE mq_got[t]]

LEMMA QueueSteps ==
    /\ \A m \in Messages, w \in Words :
          /\ Len(m) <= MsgSize /\ Len(QueuedWords) < MaxMsgs /\ IsPrefix(m, w)
          /\ QueuedWords' = Append(QueuedWords, w) \/ QueuedWords' = <<w>> \o QueuedWords
          /\ FifoGot' = FifoGot
          => Fifo!Next
    /\ \A t \in Receivers :
          /\ QueuedWords # <<>> /\ QueuedWords' = Tail(QueuedWords)
          /\ FifoGot' = [FifoGot EXCEPT ![t] = Head(QueuedWords)]
          => Fifo!Next
    /\ QueuedWords' = <<>> /\ FifoGot' = FifoGot => Fifo!Next
    /\ QueuedWords' = QueuedWords /\ FifoGot' = FifoGot => UNCHANGED Fifo!vars
<1>1. ASSUME NEW m \in Messages, NEW w \in Words, Len(m) <= MsgSize,
             Len(QueuedWords) < MaxMsgs, IsPrefix(m, w),
             QueuedWords' = Append(QueuedWords, w) \/ QueuedWords' = <<w>> \o QueuedWords,
             FifoGot' = FifoGot
      PROVE  Fifo!Next
  <2>1. Fifo!Carries(w, m)
    BY <1>1 DEF Fifo!Carries, Fifo!IsPrefix, IsPrefix
  <2>2. Fifo!Put(m) \/ Fifo!PutUrgent(m)
    BY <1>1, <2>1 DEF Fifo!Put, Fifo!PutUrgent, FifoGot
  <2>3. m \in {k \in Messages : Len(k) <= MsgSize}
    BY <1>1
  <2>4. QED BY <2>2, <2>3 DEF Fifo!Next
<1>2. ASSUME NEW t \in Receivers, QueuedWords # <<>>, QueuedWords' = Tail(QueuedWords),
             FifoGot' = [FifoGot EXCEPT ![t] = Head(QueuedWords)]
      PROVE  Fifo!Next
  <2>1. Fifo!Get(t)
    BY <1>2 DEF Fifo!Get, FifoGot
  <2>2. QED BY <2>1 DEF Fifo!Next
<1>3. QueuedWords' = <<>> /\ FifoGot' = FifoGot => Fifo!Next
  BY DEF Fifo!Next, Fifo!Flush, FifoGot
<1>4. QueuedWords' = QueuedWords /\ FifoGot' = FifoGot => UNCHANGED Fifo!vars
  BY DEF Fifo!vars, FifoGot
<1>5. QED BY <1>1, <1>2, <1>3, <1>4

LEMMA QueueFifoInit == IpcInit => Fifo!Init
<1> SUFFICES ASSUME IpcInit PROVE Fifo!Init
  OBVIOUS
<1>1. /\ mq_entry = 0 /\ mq_pc = [t \in Threads |-> "idle"]
      /\ mq_got = [t \in Receivers |-> [i \in 1..MsgSize |-> NoByte]]
  BY DEF IpcInit, Init
<1>2. QueuedWords = <<>>
  BY <1>1 DEF QueuedWords
<1>3. [i \in 1..MsgSize |-> NoByte] \in Words
  BY DEF Words, Bytes
<1>4. FifoGot \in [Receivers -> Words]
  BY <1>1, <1>3, Constants DEF FifoGot
<1>5. QED BY <1>2, <1>4 DEF Fifo!Init, FifoGot

(* A step after which everyone has been given what they had.               *)
LEMMA GotStays ==
    ASSUME \A u \in Receivers :
              \/ /\ mq_pc[u] # "recv_copy" /\ mq_pc'[u] # "recv_copy"
                 /\ mq_got'[u] = mq_got[u]
              \/ /\ mq_pc[u] = "recv_copy" /\ mq_pc'[u] = "recv_copy"
                 /\ mq_data'[mq_msg'[u]] = mq_data[mq_msg[u]]
              \/ /\ mq_pc[u] = "recv_copy" /\ mq_pc'[u] # "recv_copy"
                 /\ mq_got'[u] = mq_data[mq_msg[u]]
    PROVE  FifoGot' = FifoGot
BY DEF FifoGot

(* A step that leaves the message list and what is in it.                  *)
LEMMA QueueStays ==
    ASSUME NEW q \in Seq(Slots), Links(mq_next, mq_head, q), mq_entry = Len(q),
           Links(mq_next', mq_head', q), mq_entry' = Len(q),
           \A i \in 1..Len(q) : mq_data'[q[i]] = mq_data[q[i]]
    PROVE  QueuedWords' = QueuedWords
<1>1. QueuedWords = WordsOf(mq_data, q) /\ QueuedWords' = WordsOf(mq_data', q)
  BY QueuedIs
<1>2. WordsOf(mq_data, q) = WordsOf(mq_data', q)
  BY DEF WordsOf
<1>3. QED BY <1>1, <1>2

LEMMA SlotsQueue ==
    ASSUME NEW q, NEW f
    PROVE  /\ MqSlots(q, f) => Links(mq_next, mq_head, q) /\ mq_entry = Len(q)
           /\ MqSlots(q, f)' => Links(mq_next', mq_head', q) /\ mq_entry' = Len(q)
BY DEF MqSlots

(* The message that a send links.                                          *)
LEMMA LinkedWord ==
    ASSUME MqInv, NEW t \in Threads, SendLink(t) \/ UrgentLink(t)
    PROVE  \E w \in Words :
              /\ mq_sent[t] \in Messages /\ Len(mq_sent[t]) <= MsgSize
              /\ IsPrefix(mq_sent[t], w)
              /\ QueuedWords' = IF SendLink(t) THEN Append(QueuedWords, w)
                                             ELSE <<w>> \o QueuedWords
              /\ Len(QueuedWords) < MaxMsgs
              /\ FifoGot' = FifoGot
<1>1. PICK q, f \in Seq(Slots) : MqSlots(q, f)
  BY DEF MqInv
<1>2. PICK p, w : p = mq_msg[t] /\ w = mq_data[p]
  OBVIOUS
<1>3. PICK r : r = IF SendLink(t) THEN Append(q, p) ELSE <<p>> \o q
  OBVIOUS
<1>4. MqSlots(r, f)' /\ r \in Seq(Slots) /\ p \in Slots
  BY <1>1, <1>2, <1>3, SendLinkSlots, UrgentLinkSlots
<1>5. mq_data \in [Slots -> Words] /\ mq_data' = mq_data /\ mq_entry' = mq_entry + 1
  BY DEF MqInv, MqPool, SendLink, UrgentLink, Linked
<1>6. /\ mq_sent[t] \in Messages /\ Len(mq_sent[t]) <= MsgSize /\ w \in Words
      /\ IsPrefix(mq_sent[t], w)
  BY <1>2, <1>4, <1>5 DEF MqInv, MqCalls, MqPool, Sending, SendLink, UrgentLink
<1>7. QueuedWords = WordsOf(mq_data, q) /\ QueuedWords' = WordsOf(mq_data, r)
  BY <1>1, <1>4, <1>5, QueuedIs, SlotsQueue
<1>8. QueuedWords' = IF SendLink(t) THEN Append(QueuedWords, w) ELSE <<w>> \o QueuedWords
  <2>1. WordsOf(mq_data, Append(q, p)) = Append(WordsOf(mq_data, q), mq_data[p])
    BY <1>1, <1>4, <1>5, WordsLast
  <2>2. WordsOf(mq_data, <<p>> \o q) = <<mq_data[p]>> \o WordsOf(mq_data, q)
    BY <1>1, <1>4, <1>5, WordsFirst
  <2>3. QED BY <1>2, <1>3, <1>7, <2>1, <2>2
<1>9. Len(QueuedWords) < MaxMsgs
  <2>1. Len(QueuedWords) = Len(q) /\ mq_entry = Len(q) /\ mq_entry' = Len(r)
    BY <1>1, <1>4, <1>5, <1>7, WordsOfFacts, SlotsQueue
  <2>2. Len(r) \in 0..MaxMsgs
    BY <1>4, SlotsQueue, SlotsOfList DEF Links
  <2>3. Len(q) \in Nat
    BY <1>1, LenProperties
  <2>4. QED BY <1>5, <2>1, <2>2, <2>3, Constants
<1>10. FifoGot' = FifoGot
  <2>1. /\ mq_pc' = GotoAndResume(t, "idle", mq_receivers, "recv_woken")
        /\ mq_msg' = [mq_msg EXCEPT ![t] = NULL] /\ mq_got' = mq_got
        /\ mq_receivers' = Rest(mq_receivers) /\ mq_senders' = mq_senders
        /\ mq_pc[t] \in {"send_link", "urgent_link"}
    BY DEF SendLink, UrgentLink, Linked
  <2>2. MqLists /\ mq_pc \in [Threads -> PC]
    BY DEF MqInv, MqCalls
  <2>3. mq_pc[t] \notin {"send_wait", "recv_wait", "send_woken", "recv_woken"}
    BY <2>1
  <2>4. /\ Gone(t, "idle", mq_receivers, "recv_woken")
        /\ WasWaiting(t, mq_receivers, "recv_woken")
    BY <2>1, <2>2, <2>3, ResumeLists
  <2>5. \A u \in Receivers :
           \/ /\ mq_pc[u] # "recv_copy" /\ mq_pc'[u] # "recv_copy"
              /\ mq_got'[u] = mq_got[u]
           \/ /\ mq_pc[u] = "recv_copy" /\ mq_pc'[u] = "recv_copy"
              /\ mq_data'[mq_msg'[u]] = mq_data[mq_msg[u]]
    BY <1>5, <2>1, <2>4, Constants DEF Gone, WasWaiting, MqInv, MqCalls
  <2>6. QED BY <2>5, GotStays
<1>11. QED BY <1>6, <1>8, <1>9, <1>10

LEMMA LinkStep ==
    ASSUME MqInv, NEW t \in Threads, SendLink(t) \/ UrgentLink(t)
    PROVE  Fifo!Next
BY LinkedWord, QueueSteps

(* The message that a receive unlinks.                                     *)
LEMMA UnlinkedWord ==
    ASSUME MqInv, NEW t \in Receivers, mq_pc[t] \in {"idle", "recv_woken"}, NEW w,
           TryRecv(t, w), mq_entry > 0
    PROVE  /\ QueuedWords # <<>> /\ QueuedWords' = Tail(QueuedWords)
           /\ FifoGot' = [FifoGot EXCEPT ![t] = Head(QueuedWords)]
<1>0. mq_entry # 0 /\ t \in Threads
  BY Constants
<1>1. PICK q, f \in Seq(Slots) : MqSlots(q, f)
  BY DEF MqInv
<1>2. /\ mq_msg' = [mq_msg EXCEPT ![t] = mq_head]
      /\ mq_head' = mq_next[mq_head] /\ mq_tail' = TailAfterUnlink
      /\ mq_entry' = mq_entry - 1
      /\ mq_pc' = [mq_pc EXCEPT ![t] = "recv_copy"]
      /\ UNCHANGED <<mq_next, mq_data, mq_free, mq_got>>
  BY <1>0 DEF TryRecv, pool
<1>3. mq_msg \in [Threads -> Slots \cup {NULL}] /\ mq_msg[t] = NULL
  BY <1>0 DEF MqInv, MqCalls, Holding
<1>4. /\ MqSlots(Tail(q), f)' /\ Tail(q) \in Seq(Slots)
      /\ q # <<>> /\ mq_head = Head(q) /\ mq_head \in Slots
  BY <1>0, <1>1, <1>2, <1>3, UnlinkSlots
<1>5. mq_data \in [Slots -> Words]
  BY DEF MqInv, MqPool
<1>6. QueuedWords = WordsOf(mq_data, q) /\ QueuedWords' = WordsOf(mq_data, Tail(q))
  BY <1>1, <1>2, <1>4, QueuedIs, SlotsQueue
<1>7. /\ QueuedWords # <<>> /\ Head(QueuedWords) = mq_data[mq_head]
      /\ QueuedWords' = Tail(QueuedWords)
  BY <1>1, <1>4, <1>5, <1>6, WordsTaken
<1>8. FifoGot' = [FifoGot EXCEPT ![t] = mq_data[mq_head]]
  BY <1>0, <1>2, Constants DEF FifoGot, MqInv, MqCalls
<1>9. QED BY <1>7, <1>8

LEMMA UnlinkStep ==
    ASSUME MqInv, NEW t \in Receivers, mq_pc[t] \in {"idle", "recv_woken"}, NEW w,
           TryRecv(t, w), mq_entry > 0
    PROVE  Fifo!Next
BY UnlinkedWord, QueueSteps

(* What is queued and what has been given are words.                       *)
LEMMA QueueTyped ==
    ASSUME MqInv
    PROVE  /\ QueuedWords \in Seq(Words) /\ Len(QueuedWords) = mq_entry
           /\ mq_entry \in Nat /\ FifoGot \in [Receivers -> Words]
<1>1. PICK q, f \in Seq(Slots) : MqSlots(q, f)
  BY DEF MqInv
<1>2. mq_data \in [Slots -> Words]
  BY DEF MqInv, MqPool
<1>3. QueuedWords = WordsOf(mq_data, q) /\ mq_entry = Len(q)
  BY <1>1, QueuedIs, SlotsQueue
<1>4. WordsOf(mq_data, q) \in Seq(Words) /\ Len(WordsOf(mq_data, q)) = Len(q)
  BY <1>1, <1>2, WordsOfFacts
<1>5. Len(q) \in Nat
  BY <1>1, LenProperties
<1>6. FifoGot \in [Receivers -> Words]
  <2>1. ASSUME NEW t \in Receivers
        PROVE  (IF mq_pc[t] = "recv_copy" THEN mq_data[mq_msg[t]] ELSE mq_got[t]) \in Words
    BY <1>2, Constants DEF MqInv, MqCalls, Holding
  <2>2. QED BY <2>1 DEF FifoGot
<1>7. QED BY <1>3, <1>4, <1>5, <1>6

(* With no slot free and none but t holding one, the others are queued.    *)
LEMMA FullQueue ==
    ASSUME MqInv, mq_free = NULL, NEW t \in Threads,
           \A u \in Threads \ {t} : mq_msg[u] = NULL
    PROVE  MaxMsgs <= Len(QueuedWords) + (IF mq_msg[t] = NULL THEN 0 ELSE 1)
<1>1. PICK q, f \in Seq(Slots) : MqSlots(q, f)
  BY DEF MqInv
<1>2. q \in Seq(Slots) /\ IsInjective(q) /\ mq_entry = Len(q)
  BY <1>1 DEF MqSlots, Links
<1>3. Elements(f) = {}
  <2>1. NULL = IF f = <<>> THEN NULL ELSE f[1]
    BY <1>1 DEF MqSlots, Links
  <2>2. f # <<>> => f[1] \in Slots
    BY <1>1, EmptySeq, ElementOfSeq
  <2>3. QED BY <2>1, <2>2, Constants, NobodyListed
<1>4. Slots \subseteq Elements(q) \cup IF mq_msg[t] = NULL THEN {} ELSE {mq_msg[t]}
  BY <1>1, <1>3 DEF MqSlots, Partition
<1>5. /\ IsFiniteSet(Elements(q)) /\ Cardinality(Elements(q)) = Len(q)
      /\ Len(q) \in Nat
  BY <1>2, SlotsOfList
<1>6. IsFiniteSet(Slots) /\ Cardinality(Slots) = MaxMsgs
  BY Constants, FS_Interval DEF Slots
<1>7. CASE mq_msg[t] = NULL
  <2>1. Slots \subseteq Elements(q)
    BY <1>4, <1>7
  <2>2. MaxMsgs <= Len(q)
    BY <1>5, <1>6, <2>1, FS_Subset
  <2>3. QED BY <1>2, <1>7, <2>2, <1>5, QueueTyped, Constants
<1>8. CASE mq_msg[t] # NULL
  <2>1. Slots \subseteq Elements(q) \cup {mq_msg[t]}
    BY <1>4, <1>8
  <2>2. /\ IsFiniteSet(Elements(q) \cup {mq_msg[t]})
        /\ Cardinality(Elements(q) \cup {mq_msg[t]}) <= Len(q) + 1
    <3>1. PICK A, x : A = Elements(q) /\ x = mq_msg[t]
      OBVIOUS
    <3>2. /\ IsFiniteSet(A \cup {x})
          /\ Cardinality(A \cup {x}) = IF x \in A THEN Cardinality(A) ELSE Cardinality(A) + 1
      BY <1>5, <3>1, FS_AddElement
    <3>3. QED BY <1>5, <3>1, <3>2
  <2>3. /\ MaxMsgs <= Cardinality(Elements(q) \cup {mq_msg[t]})
        /\ Cardinality(Elements(q) \cup {mq_msg[t]}) \in Nat
    BY <1>6, <2>1, <2>2, FS_Subset, FS_CardinalityType
  <2>4. MaxMsgs <= Len(q) + 1
    BY <1>5, <2>2, <2>3, Constants
  <2>5. QED BY <1>2, <1>8, <2>4, QueueTyped
<1>9. QED BY <1>7, <1>8

(* A step that changes neither the slots' contents nor the message list.   *)
LEMMA StutterStep ==
    ASSUME NEW q \in Seq(Slots), Links(mq_next, mq_head, q), mq_entry = Len(q),
           Links(mq_next', mq_head', q), mq_entry' = Len(q),
           mq_data' = mq_data, FifoGot' = FifoGot
    PROVE  UNCHANGED Fifo!vars
<1>1. QueuedWords' = QueuedWords
  BY QueueStays
<1>2. QED BY <1>1, QueueSteps

(* A call that takes a free slot, fails or is suspended.                   *)
LEMMA OutsideStep ==
    ASSUME MqInv, NEW t \in Threads, NEW l \in PC \ {"recv_copy"},
           mq_pc[t] # "recv_copy", mq_pc' = [mq_pc EXCEPT ![t] = l],
           mq_msg' = mq_msg \/ mq_msg' = [mq_msg EXCEPT ![t] = mq_free],
           UNCHANGED <<mq_next, mq_data, mq_head, mq_entry, mq_got>>
    PROVE  UNCHANGED Fifo!vars
<1>1. PICK q, f \in Seq(Slots) : MqSlots(q, f)
  BY DEF MqInv
<1>2. /\ Links(mq_next, mq_head, q) /\ mq_entry = Len(q)
      /\ Links(mq_next', mq_head', q) /\ mq_entry' = Len(q)
  BY <1>1, SlotsQueue
<1>3. \A u \in Receivers :
         \/ /\ mq_pc[u] # "recv_copy" /\ mq_pc'[u] # "recv_copy"
            /\ mq_got'[u] = mq_got[u]
         \/ /\ mq_pc[u] = "recv_copy" /\ mq_pc'[u] = "recv_copy"
            /\ mq_data'[mq_msg'[u]] = mq_data[mq_msg[u]]
  BY Constants DEF MqInv, MqCalls
<1>4. FifoGot' = FifoGot
  BY <1>3, GotStays
<1>5. QED BY <1>1, <1>2, <1>4, StutterStep

LEMMA TrySendStep ==
    ASSUME MqInv, NEW t \in Threads, mq_pc[t] \in {"idle", "send_woken"},
           NEW m, NEW w, TrySend(t, m, w)
    PROVE  UNCHANGED Fifo!vars
<1>1. PICK l : l \in {"send_copy", "idle", "send_wait"} /\ mq_pc' = [mq_pc EXCEPT ![t] = l]
  BY DEF TrySend, Fail
<1>2. /\ mq_msg' = mq_msg \/ mq_msg' = [mq_msg EXCEPT ![t] = mq_free]
      /\ UNCHANGED <<mq_next, mq_data, mq_head, mq_entry, mq_got>>
  BY DEF TrySend, pool
<1>3. l \in PC \ {"recv_copy"} /\ mq_pc[t] # "recv_copy"
  BY <1>1 DEF PC
<1>4. QED BY <1>1, <1>2, <1>3, OutsideStep

LEMMA TryRecvStep ==
    ASSUME MqInv, NEW t \in Receivers, mq_pc[t] \in {"idle", "recv_woken"}, NEW w,
           TryRecv(t, w)
    PROVE  Fifo!Next \/ UNCHANGED Fifo!vars
<1>1. CASE mq_entry > 0
  BY <1>1, UnlinkStep
<1>2. CASE ~(mq_entry > 0)
  <2>1. PICK l : l \in {"idle", "recv_wait"} /\ mq_pc' = [mq_pc EXCEPT ![t] = l]
    BY <1>2 DEF TryRecv, Fail
  <2>2. /\ mq_msg' = mq_msg
        /\ UNCHANGED <<mq_next, mq_data, mq_head, mq_entry, mq_got>>
    BY <1>2 DEF TryRecv, pool
  <2>3. l \in PC \ {"recv_copy"} /\ mq_pc[t] # "recv_copy" /\ t \in Threads
    BY <2>1, Constants DEF PC
  <2>4. QED BY <2>1, <2>2, <2>3, OutsideStep
<1>3. QED BY <1>1, <1>2

(* The copies.  No slot of the message list, and none another call copies  *)
(* out of, is written by the copy into a slot.                             *)
LEMMA SendCopyStep ==
    ASSUME MqInv, NEW t \in Threads, SendCopy(t)
    PROVE  UNCHANGED Fifo!vars
<1>1. PICK q, f \in Seq(Slots) : MqSlots(q, f)
  BY DEF MqInv
<1>2. PICK p : p = mq_msg[t]
  OBVIOUS
<1>3. /\ mq_pc[t] \in {"send_copy", "urgent_copy"}
      /\ mq_data' = [mq_data EXCEPT ![p] = Overlay(mq_data[p], mq_sent[t])]
      /\ mq_next' = [mq_next EXCEPT ![p] = NULL] \/ mq_next' = mq_next
      /\ \E l \in {"send_link", "urgent_link"} : mq_pc' = [mq_pc EXCEPT ![t] = l]
      /\ UNCHANGED <<mq_head, mq_entry, mq_msg, mq_got>>
  BY <1>2 DEF SendCopy, object, calls
<1>4. /\ p # NULL /\ p \notin Elements(q)
      /\ \A u \in Threads \ {t} : mq_msg[u] # NULL => mq_msg[u] # p
  <2>1. p # NULL
    BY <1>2, <1>3 DEF MqInv, MqCalls, Holding
  <2>2. QED BY <1>1, <1>2, <2>1 DEF MqSlots, Partition
<1>5. /\ Links(mq_next, mq_head, q) /\ mq_entry = Len(q)
      /\ Links(mq_next', mq_head', q) /\ mq_entry' = Len(q)
  <2>1. Links(mq_next, mq_head, q) /\ mq_entry = Len(q)
    BY <1>1, SlotsQueue
  <2>2. mq_next' = [mq_next EXCEPT ![p] = NULL] => Links(mq_next', mq_head, q)
    <3>1. Links([mq_next EXCEPT ![p] = NULL], mq_head, q)
      BY <1>4, <2>1, OtherLink DEF MqInv, MqPool
    <3>2. QED BY <3>1
  <2>3. QED BY <1>3, <2>1, <2>2
<1>6. \A i \in 1..Len(q) : mq_data'[q[i]] = mq_data[q[i]]
  <2>1. \A i \in 1..Len(q) : q[i] \in Elements(q) /\ q[i] \in Slots
    BY <1>1, ElementOfSeq DEF Elements
  <2>2. QED BY <1>3, <1>4, <2>1 DEF MqInv, MqPool
<1>7. QueuedWords' = QueuedWords
  BY <1>1, <1>5, <1>6, QueueStays
<1>8. FifoGot' = FifoGot
  <2>1. ASSUME NEW u \in Receivers
        PROVE  \/ /\ mq_pc[u] # "recv_copy" /\ mq_pc'[u] # "recv_copy"
                  /\ mq_got'[u] = mq_got[u]
               \/ /\ mq_pc[u] = "recv_copy" /\ mq_pc'[u] = "recv_copy"
                  /\ mq_data'[mq_msg'[u]] = mq_data[mq_msg[u]]
    <3>1. u \in Threads /\ (u # t => mq_pc'[u] = mq_pc[u])
          /\ mq_pc[t] # "recv_copy" /\ mq_pc'[t] # "recv_copy"
      BY <1>3, Constants DEF MqInv, MqCalls
    <3>2. mq_pc[u] = "recv_copy" => u # t /\ mq_msg[u] # NULL /\ mq_msg[u] \in Slots
      BY <3>1 DEF MqInv, MqCalls, Holding
    <3>3. mq_pc[u] = "recv_copy" => mq_data'[mq_msg[u]] = mq_data[mq_msg[u]]
      BY <1>3, <1>4, <3>1, <3>2 DEF MqInv, MqPool
    <3>4. mq_got' = mq_got /\ mq_msg' = mq_msg
      BY <1>3
    <3>5. CASE u = t
      BY <3>1, <3>4, <3>5
    <3>6. CASE u # t
      BY <3>1, <3>3, <3>4, <3>6
    <3>7. QED BY <3>5, <3>6
  <2>2. QED BY <2>1, GotStays
<1>9. QED BY <1>7, <1>8, QueueSteps

LEMMA RecvCopyStep ==
    ASSUME MqInv, NEW t \in Threads, RecvCopy(t)
    PROVE  UNCHANGED Fifo!vars
<1>1. /\ mq_pc[t] = "recv_copy" /\ mq_got' = [mq_got EXCEPT ![t] = mq_data[mq_msg[t]]]
      /\ mq_pc' = [mq_pc EXCEPT ![t] = "recv_free"]
      /\ UNCHANGED <<mq_next, mq_data, mq_head, mq_entry, mq_msg>>
  BY DEF RecvCopy, pool, object
<1>2. PICK q, f \in Seq(Slots) : MqSlots(q, f)
  BY DEF MqInv
<1>3. /\ Links(mq_next, mq_head, q) /\ mq_entry = Len(q)
      /\ Links(mq_next', mq_head', q) /\ mq_entry' = Len(q)
  BY <1>1, <1>2, SlotsQueue
<1>4. \A u \in Receivers :
         \/ /\ mq_pc[u] # "recv_copy" /\ mq_pc'[u] # "recv_copy"
            /\ mq_got'[u] = mq_got[u]
         \/ /\ mq_pc[u] = "recv_copy" /\ mq_pc'[u] = "recv_copy"
            /\ mq_data'[mq_msg'[u]] = mq_data[mq_msg[u]]
         \/ /\ mq_pc[u] = "recv_copy" /\ mq_pc'[u] # "recv_copy"
            /\ mq_got'[u] = mq_data[mq_msg[u]]
  BY <1>1, Constants DEF MqInv, MqCalls
<1>5. FifoGot' = FifoGot
  BY <1>4, GotStays
<1>6. QED BY <1>1, <1>2, <1>3, <1>5, StutterStep

LEMMA FreeStep ==
    ASSUME MqInv, NEW t \in Threads, RecvFree(t)
    PROVE  UNCHANGED Fifo!vars
<1>1. PICK q, f \in Seq(Slots) : MqSlots(q, f)
  BY DEF MqInv
<1>2. PICK p : p = mq_msg[t]
  OBVIOUS
<1>3. /\ mq_pc[t] = "recv_free"
      /\ mq_next' = [mq_next EXCEPT ![p] = mq_free] /\ mq_free' = p
      /\ mq_senders' = Rest(mq_senders) /\ mq_receivers' = mq_receivers
      /\ mq_pc' = GotoAndResume(t, "idle", mq_senders, "send_woken")
      /\ mq_msg' = [mq_msg EXCEPT ![t] = NULL]
      /\ UNCHANGED <<mq_data, mq_head, mq_tail, mq_entry, mq_got>>
  BY <1>2 DEF RecvFree
<1>4. p # NULL /\ p \notin Elements(q)
  <2>1. p # NULL
    BY <1>2, <1>3 DEF MqInv, MqCalls, Holding
  <2>2. QED BY <1>1, <1>2, <2>1 DEF MqSlots, Partition
<1>5. /\ Links(mq_next, mq_head, q) /\ mq_entry = Len(q)
      /\ Links(mq_next', mq_head', q) /\ mq_entry' = Len(q)
  <2>1. Links(mq_next, mq_head, q) /\ mq_entry = Len(q)
    BY <1>1, SlotsQueue
  <2>2. Links(mq_next', mq_head, q)
    BY <1>3, <1>4, <2>1, OtherLink DEF MqInv, MqPool
  <2>3. QED BY <1>3, <2>1, <2>2
<1>6. FifoGot' = FifoGot
  <2>1. MqLists /\ mq_pc \in [Threads -> PC]
    BY DEF MqInv, MqCalls
  <2>2. mq_pc[t] \notin {"send_wait", "recv_wait", "send_woken", "recv_woken"}
    BY <1>3
  <2>3. Gone(t, "idle", mq_senders, "send_woken") /\ WasWaiting(t, mq_senders, "send_woken")
    BY <1>3, <2>1, <2>2, ResumeLists
  <2>4. \A u \in Receivers :
           \/ /\ mq_pc[u] # "recv_copy" /\ mq_pc'[u] # "recv_copy"
              /\ mq_got'[u] = mq_got[u]
           \/ /\ mq_pc[u] = "recv_copy" /\ mq_pc'[u] = "recv_copy"
              /\ mq_data'[mq_msg'[u]] = mq_data[mq_msg[u]]
    BY <1>3, <2>3, Constants DEF Gone, WasWaiting, MqInv, MqCalls
  <2>5. QED BY <2>4, GotStays
<1>7. QED BY <1>1, <1>3, <1>5, <1>6, StutterStep

LEMMA ResetStep ==
    ASSUME MqInv, Reset
    PROVE  Fifo!Next
<1>1. /\ mq_pc' = [u \in Threads |-> IF u \in Elements(mq_receivers) \cup Elements(mq_senders)
                                      THEN "idle" ELSE mq_pc[u]]
      /\ mq_data' = mq_data /\ mq_msg' = mq_msg /\ mq_got' = mq_got /\ mq_entry' = 0
  BY DEF Reset, Listed, Elements
<1>2. \A u \in Threads : mq_pc'[u] = "recv_copy" <=> mq_pc[u] = "recv_copy"
  BY <1>1 DEF MqInv, MqLists
<1>3. \A u \in Receivers :
         \/ /\ mq_pc[u] # "recv_copy" /\ mq_pc'[u] # "recv_copy"
            /\ mq_got'[u] = mq_got[u]
         \/ /\ mq_pc[u] = "recv_copy" /\ mq_pc'[u] = "recv_copy"
            /\ mq_data'[mq_msg'[u]] = mq_data[mq_msg[u]]
  BY <1>1, <1>2, Constants
<1>4. FifoGot' = FifoGot
  BY <1>3, GotStays
<1>5. QueuedWords' = <<>>
  BY <1>1 DEF QueuedWords
<1>6. QED BY <1>4, <1>5, QueueSteps

LEMMA QueueStep ==
    MqInv /\ [IpcNext]_ipcVars => [Fifo!Next]_(Fifo!vars)
<1> SUFFICES ASSUME MqInv, [IpcNext]_ipcVars
             PROVE  Fifo!Next \/ UNCHANGED Fifo!vars
  OBVIOUS
<1>1. CASE UNCHANGED vars
  <2>1. UNCHANGED <<mq_next, mq_data, mq_head, mq_entry, mq_pc, mq_msg, mq_got>>
    BY <1>1 DEF vars, pool, object, calls
  <2>2. FifoGot' = FifoGot
    BY <2>1 DEF FifoGot
  <2>3. PICK q, f \in Seq(Slots) : MqSlots(q, f)
    BY DEF MqInv
  <2>4. /\ Links(mq_next, mq_head, q) /\ mq_entry = Len(q)
        /\ Links(mq_next', mq_head', q) /\ mq_entry' = Len(q)
    BY <2>1, <2>3, SlotsQueue
  <2>5. QED BY <2>1, <2>2, <2>3, <2>4, StutterStep
<1>2. CASE Next
  <2>1. ASSUME NEW t \in Threads, NEW m, Urgent(t, m) PROVE UNCHANGED Fifo!vars
    <3>1. /\ "urgent_copy" \in PC \ {"recv_copy"} /\ mq_pc[t] # "recv_copy"
          /\ mq_pc' = [mq_pc EXCEPT ![t] = "urgent_copy"]
          /\ mq_msg' = [mq_msg EXCEPT ![t] = mq_free]
          /\ UNCHANGED <<mq_next, mq_data, mq_head, mq_entry, mq_got>>
      BY <2>1 DEF Urgent, pool, PC
    <3>2. QED BY <3>1, OutsideStep
  <2>2. ASSUME NEW t \in Threads, NEW m, NEW w, SendWait(t, m, w)
        PROVE  UNCHANGED Fifo!vars
    BY <2>2, TrySendStep DEF SendWait
  <2>3. ASSUME NEW t \in Threads, SendRetry(t) PROVE UNCHANGED Fifo!vars
    BY <2>3, TrySendStep DEF SendRetry
  <2>4. ASSUME NEW t \in Receivers, NEW w, Recv(t, w)
        PROVE  Fifo!Next \/ UNCHANGED Fifo!vars
    BY <2>4, TryRecvStep DEF Recv
  <2>5. ASSUME NEW t \in Threads, RecvRetry(t)
        PROVE  Fifo!Next \/ UNCHANGED Fifo!vars
    <3>1. t \in Receivers /\ mq_pc[t] = "recv_woken"
      BY <2>5 DEF RecvRetry, MqInv, MqCalls, Receiving
    <3>2. QED BY <2>5, <3>1, TryRecvStep DEF RecvRetry
  <2>6. ASSUME NEW t \in Threads, Timeout(t) PROVE UNCHANGED Fifo!vars
    <3>1. /\ "idle" \in PC \ {"recv_copy"} /\ mq_pc[t] # "recv_copy"
          /\ mq_pc' = [mq_pc EXCEPT ![t] = "idle"] /\ mq_msg' = mq_msg
          /\ UNCHANGED <<mq_next, mq_data, mq_head, mq_entry, mq_got>>
      BY <2>6 DEF Timeout, Fail, pool, object, PC
    <3>2. QED BY <3>1, OutsideStep
  <2>7. ASSUME NEW t \in Threads, Begin(t)
        PROVE  Fifo!Next \/ UNCHANGED Fifo!vars
    BY <2>1, <2>2, <2>4, <2>7 DEF Begin
  <2>8. ASSUME NEW t \in Threads, Continue(t)
        PROVE  Fifo!Next \/ UNCHANGED Fifo!vars
    BY <2>3, <2>5, <2>8, SendCopyStep, LinkStep, RecvCopyStep, FreeStep DEF Continue
  <2>9. QED BY <1>2, <2>6, <2>7, <2>8, ResetStep DEF Next
<1>3. QED BY <1>1, <1>2 DEF IpcNext, ipcVars

(* The message queue is a bounded FIFO: a message that rt_mq_send_wait or  *)
(* rt_mq_urgent linked is received once, in its turn and as it was sent,   *)
(* although both copies run outside the critical sections and any number   *)
(* of sends, receives, timeouts and resets interleave with them.           *)
THEOREM QueueIsFifo == IpcSpec => FifoSpec
<1>1. IpcSpec => Fifo!Init /\ [][Fifo!Next]_(Fifo!vars)
  BY QueueFifoInit, QueueStep, MqInvariant, PTL DEF IpcSpec
<1>2. QED BY <1>1 DEF FifoSpec, Fifo!Spec

-----------------------------------------------------------------------------
(* The event.                                                              *)
EvCallSet == [pc : {"idle", "timed", "forever"}, set : SUBSET Flags,
              all : BOOLEAN, clear : BOOLEAN]

(* The list holds the threads that are suspended, each for some flags that *)
(* are not there.                                                          *)
EvCalls ==
    /\ ev_set \subseteq Flags
    /\ ev_call \in [Senders -> EvCallSet]
    /\ ev_waiters \in Seq(Senders) /\ IsInjective(ev_waiters)
    /\ \A t \in Senders :
          /\ t \in Elements(ev_waiters) <=> ev_call[t].pc # "idle"
          /\ t \in Elements(ev_waiters) => ev_call[t].set # {}

EvInv == EvCalls /\ NobodySatisfied

LEMMA EvEnlist ==
    ASSUME NEW s \in Seq(Threads), NEW e \in Threads
    PROVE  Event!Enlist(s, e) = Enlist(s, e)
BY DEF Enlist, Event!Enlist, Place, Event!Place, SelectInSeq, Event!SelectInSeq,
       Min, Event!Min, InsertAt, Event!InsertAt

LEMMA EvDelist ==
    ASSUME NEW s, NEW e
    PROVE  Event!Delist(s, e) = RemoveFirst(s, e)
BY DEF Event!Delist, Event!RemoveFirst, RemoveFirst, Event!RemoveAt, RemoveAt,
       Event!SelectInSeq, SelectInSeq, Event!Min, Min

LEMMA EvIdle == Event!Idle \in EvCallSet /\ Event!Idle.pc = "idle"
BY DEF Event!Idle, EvCallSet

(* What one waiter gets of the flags that the walk finds.                  *)
LEMMA GivesFacts ==
    ASSUME NEW have \in SUBSET Flags, NEW c \in EvCallSet, NEW g, g = Event!Gives(have, c)
    PROVE  /\ g \in [got : SUBSET Flags, rest : SUBSET Flags]
           /\ g.got \subseteq c.set /\ g.got \subseteq have /\ g.rest \subseteq have
           /\ g.got # {} /\ c.all => g.got = c.set
           /\ c.clear => g.got \cap g.rest = {}
           /\ g.got = {} /\ c.set # {} => ~Event!Satisfied(have, c.set, c.all)
<1>1. c.set \in SUBSET Flags /\ c.all \in BOOLEAN /\ c.clear \in BOOLEAN
  BY DEF EvCallSet
<1> DEFINE got == IF Event!Satisfied(have, c.set, c.all) THEN c.set \cap have ELSE {}
<1>2. g = [got |-> got, rest |-> IF c.clear THEN have \ got ELSE have]
  BY DEF Event!Gives
<1>3. /\ got \subseteq c.set /\ got \subseteq have
      /\ got # {} /\ c.all => got = c.set
      /\ got = {} /\ c.set # {} => ~Event!Satisfied(have, c.set, c.all)
  BY <1>1 DEF Event!Satisfied
<1> HIDE DEF got
<1>4. g.got = got /\ g.rest = IF c.clear THEN have \ got ELSE have
  BY <1>2
<1>5. got \in SUBSET Flags /\ g.rest \in SUBSET Flags
  BY <1>1, <1>3, <1>4
<1>6. g \in [got : SUBSET Flags, rest : SUBSET Flags]
  BY <1>2, <1>4, <1>5
<1>7. QED BY <1>3, <1>4, <1>6

LEMMA GivesTyped ==
    ASSUME NEW have \in SUBSET Flags, NEW c \in EvCallSet
    PROVE  Event!Gives(have, c) \in [got : SUBSET Flags, rest : SUBSET Flags]
<1>1. PICK g : g = Event!Gives(have, c)
  OBVIOUS
<1>2. g \in [got : SUBSET Flags, rest : SUBSET Flags]
  BY <1>1, GivesFacts
<1>3. QED BY <1>1, <1>2

LEMMA StillUnsatisfied ==
    ASSUME NEW have, NEW fewer, fewer \subseteq have, NEW want, NEW all,
           ~Event!Satisfied(have, want, all)
    PROVE  ~Event!Satisfied(fewer, want, all)
BY DEF Event!Satisfied

(* The walk.                                                               *)
Walked(g, flags) ==
    /\ g[0].rest = flags
    /\ \A i \in 0..Len(ev_waiters) : g[i].rest \in SUBSET Flags
    /\ \A i \in 1..Len(ev_waiters) : g[i] = Event!Gives(g[i-1].rest, ev_call[ev_waiters[i]])

LEMMA GivenFacts ==
    ASSUME EvCalls, NEW flags \in SUBSET Flags
    PROVE  Walked(Event!Given(flags, ev_waiters), flags)
<1> DEFINE n == Len(ev_waiters)
           A == [got : SUBSET Flags, rest : SUBSET Flags]
           a == [got |-> {}, rest |-> flags]
           f == [i \in 1..n |-> [x \in A |-> Event!Gives(x.rest, ev_call[ev_waiters[i]])]]
           h == Iterate(A, n, a, f)
<1>1. n \in Nat /\ a \in A /\ a.rest = flags
  BY LenProperties DEF EvCalls
<1>2. ASSUME NEW i \in 1..n PROVE ev_call[ev_waiters[i]] \in EvCallSet
  <2>1. ev_waiters[i] \in Senders
    BY ElementOfSeq DEF EvCalls
  <2>2. QED BY <2>1 DEF EvCalls
<1>3. f \in [1..n -> [A -> A]]
  <2>1. ASSUME NEW i \in 1..n, NEW x \in A
        PROVE  Event!Gives(x.rest, ev_call[ev_waiters[i]]) \in A
    <3>1. x.rest \in SUBSET Flags /\ ev_call[ev_waiters[i]] \in EvCallSet
      BY <1>2
    <3>2. QED BY <3>1, GivesTyped
  <2>2. QED BY <2>1
<1>4. \A i \in 1..n, x \in A : f[i][x] = Event!Gives(x.rest, ev_call[ev_waiters[i]])
  OBVIOUS
<1> HIDE DEF n, A, a, f
<1>5. h \in [0..n -> A] /\ h[0] = a
  BY <1>1, <1>3, Iteration
<1>6. ASSUME NEW i \in 1..n PROVE h[i] = Event!Gives(h[i-1].rest, ev_call[ev_waiters[i]])
  <2>1. h[i] = f[i][h[i-1]]
    BY <1>1, <1>3, Iteration
  <2>2. h[i-1] \in A
    BY <1>1, <1>5
  <2>3. QED BY <1>4, <2>1, <2>2
<1> HIDE DEF h
<1>7. h = [i \in 0..n |-> IF i = 0 THEN a ELSE Event!Gives(h[i-1].rest, ev_call[ev_waiters[i]])]
  BY <1>1, <1>5, <1>6
<1> DEFINE g == CHOOSE k : k = [i \in 0..n |->
                    IF i = 0 THEN a ELSE Event!Gives(k[i-1].rest, ev_call[ev_waiters[i]])]
<1>8. g = [i \in 0..n |-> IF i = 0 THEN a ELSE Event!Gives(g[i-1].rest, ev_call[ev_waiters[i]])]
  BY <1>7
<1>9. Event!Given(flags, ev_waiters) = g
  BY DEF Event!Given, n, a
<1> HIDE DEF g
<1> DEFINE S == {i \in 0..n : g[i] \in A}
<1>10. 0 \in S
  BY <1>1, <1>8
<1>11. ASSUME NEW m \in 0..n-1, m \in S PROVE m + 1 \in S
  <2>1. g[m+1] = Event!Gives(g[m].rest, ev_call[ev_waiters[m+1]])
    BY <1>1, <1>8
  <2>2. g[m].rest \in SUBSET Flags
    BY <1>11 DEF A
  <2>3. m + 1 \in 1..n
    BY <1>1
  <2>4. g[m+1] \in A
    <3>1. ev_call[ev_waiters[m+1]] \in EvCallSet
      BY <1>2, <2>3
    <3>2. QED BY <2>1, <2>2, <3>1, GivesTyped DEF A
  <2>5. m + 1 \in 0..n
    BY <1>1
  <2>6. QED BY <2>4, <2>5
<1> HIDE DEF S
<1>12. \A i \in 0..n : i \in S
  BY <1>1, <1>10, <1>11, IntervalInduction
<1>13. \A i \in 0..n : g[i].rest \in SUBSET Flags
  BY <1>12 DEF S, A
<1>14. g[0].rest = flags
  BY <1>1, <1>8
<1>15. \A i \in 1..n : g[i] = Event!Gives(g[i-1].rest, ev_call[ev_waiters[i]])
  BY <1>1, <1>8
<1>16. QED BY <1>9, <1>13, <1>14, <1>15 DEF Walked, n

(* The flags that remain for those behind only become fewer.               *)
LEMMA RestShrinks ==
    ASSUME EvCalls, NEW g, NEW flags, Walked(g, flags),
           NEW i \in 0..Len(ev_waiters), NEW j \in 0..Len(ev_waiters), i <= j
    PROVE  g[j].rest \subseteq g[i].rest
<1> DEFINE n == Len(ev_waiters)
           S == {k \in 0..n : i <= k => g[k].rest \subseteq g[i].rest}
<1>1. n \in Nat
  BY LenProperties DEF EvCalls
<1>2. 0 \in S
  BY <1>1
<1>3. ASSUME NEW m \in 0..n-1, m \in S PROVE m + 1 \in S
  <2>1. m + 1 \in 0..n /\ m + 1 \in 1..n /\ m \in 0..n
    BY <1>1
  <2>2. g[m+1].rest \subseteq g[m].rest
    <3>1. PICK have, c : have = g[m].rest /\ c = ev_call[ev_waiters[m+1]]
      OBVIOUS
    <3>2. ev_waiters[m+1] \in Senders
      BY <2>1, ElementOfSeq DEF EvCalls
    <3>3. have \in SUBSET Flags /\ c \in EvCallSet
      BY <2>1, <3>1, <3>2 DEF EvCalls, Walked
    <3>4. PICK k : k = g[m+1]
      OBVIOUS
    <3>5. k = Event!Gives(have, c)
      BY <1>1, <2>1, <3>1, <3>4 DEF Walked
    <3>6. QED BY <3>1, <3>3, <3>4, <3>5, GivesFacts, ZenonT(30)
  <2>3. CASE i <= m
    BY <1>3, <2>1, <2>2, <2>3
  <2>4. CASE i = m + 1
    BY <2>1, <2>4
  <2>5. CASE i > m + 1
    BY <2>1, <2>5
  <2>6. QED BY <1>1, <2>3, <2>4, <2>5
<1> HIDE DEF S
<1>4. \A k \in 0..n : k \in S
  BY <1>1, <1>2, <1>3, IntervalInduction
<1>5. QED BY <1>4 DEF S

(* What the i-th thread of the list gets, and the flags behind it.         *)
LEMMA WalkStep ==
    ASSUME EvCalls, NEW g, NEW flags \in SUBSET Flags, Walked(g, flags),
           NEW i \in 1..Len(ev_waiters), NEW c, c = ev_call[ev_waiters[i]]
    PROVE  /\ c \in EvCallSet
           /\ g[i].got \subseteq c.set /\ g[i].got \subseteq flags
           /\ g[i].got # {} /\ c.all => g[i].got = c.set
           /\ \A j \in i..Len(ev_waiters) :
                 /\ g[i].got # {} /\ c.clear => g[i].got \cap g[j].rest = {}
                 /\ g[i].got = {} => ~Event!Satisfied(g[j].rest, c.set, c.all)
           /\ \A j \in i+1..Len(ev_waiters) :
                 g[i].got # {} /\ c.clear => g[i].got \cap g[j].got = {}
<1>1. PICK n : n = Len(ev_waiters)
  OBVIOUS
<1>2. n \in Nat
  BY <1>1, LenProperties DEF EvCalls
<1>3. ASSUME NEW k \in 1..n, NEW d, d = ev_call[ev_waiters[k]], NEW have, have = g[k-1].rest
      PROVE  /\ d \in EvCallSet /\ d.set # {}
             /\ g[k].got \subseteq d.set /\ g[k].got \subseteq have /\ g[k].rest \subseteq have
             /\ g[k].got # {} /\ d.all => g[k].got = d.set
             /\ d.clear => g[k].got \cap g[k].rest = {}
             /\ g[k].got = {} => ~Event!Satisfied(have, d.set, d.all)
             /\ have \subseteq flags
  <2>1. ev_waiters[k] \in Senders /\ ev_waiters[k] \in Elements(ev_waiters)
    BY <1>1, ElementOfSeq DEF EvCalls, Elements
  <2>2. d \in EvCallSet /\ d.set # {}
    BY <1>3, <2>1 DEF EvCalls
  <2>3. k - 1 \in 0..n /\ 0 \in 0..n /\ 0 <= k - 1
    BY <1>2
  <2>4. have \in SUBSET Flags /\ have \subseteq g[0].rest
    <3>1. g[k-1].rest \subseteq g[0].rest
      BY <1>1, <2>3, RestShrinks
    <3>2. QED BY <1>1, <1>3, <2>3, <3>1 DEF Walked
  <2>5. have \subseteq flags
    BY <2>4 DEF Walked
  <2>6. PICK x : x = g[k]
    OBVIOUS
  <2>7. x = Event!Gives(have, d)
    BY <1>1, <1>3, <2>6 DEF Walked
  <2>8. /\ x.got \subseteq d.set /\ x.got \subseteq have /\ x.rest \subseteq have
        /\ x.got # {} /\ d.all => x.got = d.set
        /\ d.clear => x.got \cap x.rest = {}
        /\ x.got = {} /\ d.set # {} => ~Event!Satisfied(have, d.set, d.all)
    BY <2>2, <2>4, <2>7, GivesFacts, ZenonT(30)
  <2>9. QED BY <2>2, <2>5, <2>6, <2>8
<1>4. PICK have : have = g[i-1].rest
  OBVIOUS
<1>5. /\ c \in EvCallSet /\ c.set # {}
      /\ g[i].got \subseteq c.set /\ g[i].got \subseteq have /\ g[i].rest \subseteq have
      /\ g[i].got # {} /\ c.all => g[i].got = c.set
      /\ c.clear => g[i].got \cap g[i].rest = {}
      /\ g[i].got = {} => ~Event!Satisfied(have, c.set, c.all)
      /\ have \subseteq flags
  BY <1>1, <1>3, <1>4
<1>6. ASSUME NEW j \in i..n
      PROVE  /\ g[i].got # {} /\ c.clear => g[i].got \cap g[j].rest = {}
             /\ g[i].got = {} => ~Event!Satisfied(g[j].rest, c.set, c.all)
  <2>1. i \in 0..n /\ j \in 0..n /\ i <= j
    BY <1>1, <1>2
  <2>2. g[j].rest \subseteq g[i].rest
    BY <1>1, <2>1, RestShrinks
  <2>3. PICK fewer : fewer = g[j].rest
    OBVIOUS
  <2>4. fewer \subseteq have
    BY <1>5, <2>2, <2>3
  <2>5. g[i].got = {} => ~Event!Satisfied(fewer, c.set, c.all)
    BY <1>5, <2>4, StillUnsatisfied
  <2>6. QED BY <1>5, <2>2, <2>3, <2>5
<1>7. ASSUME NEW j \in i+1..n, g[i].got # {}, c.clear
      PROVE  g[i].got \cap g[j].got = {}
  <2>1. j - 1 \in i..n /\ j \in 1..n
    BY <1>1, <1>2
  <2>2. g[i].got \cap g[j-1].rest = {}
    BY <1>6, <1>7, <2>1
  <2>3. PICK d, r : d = ev_call[ev_waiters[j]] /\ r = g[j-1].rest
    OBVIOUS
  <2>4. g[j].got \subseteq r
    BY <1>3, <2>1, <2>3
  <2>5. QED BY <2>2, <2>3, <2>4
<1>8. QED BY <1>1, <1>5, <1>6, <1>7

(* The list without those who got flags.                                   *)
LEMMA RemainFacts ==
    ASSUME EvCalls, NEW g
    PROVE  /\ Event!Remain(ev_waiters, g) \in Seq(Senders)
           /\ IsInjective(Event!Remain(ev_waiters, g))
           /\ Elements(Event!Remain(ev_waiters, g))
                 = Elements(ev_waiters)
                   \ {ev_waiters[i] : i \in {j \in 1..Len(ev_waiters) : g[j].got # {}}}
<1> DEFINE n == Len(ev_waiters)
           A == {s \in Seq(Senders) : IsInjective(s)}
           Step(x, i) == IF g[i].got = {} THEN x ELSE Event!Delist(x, ev_waiters[i])
           f == [i \in 1..n |-> [x \in A |-> Step(x, i)]]
           h == Iterate(A, n, ev_waiters, f)
<1>1. n \in Nat /\ ev_waiters \in A
  BY LenProperties DEF EvCalls
<1>2. ASSUME NEW x \in A, NEW e
      PROVE  /\ Event!Delist(x, e) \in A
             /\ Elements(Event!Delist(x, e)) = Elements(x) \ {e}
  <2>1. Event!Delist(x, e) = RemoveFirst(x, e)
    BY EvDelist
  <2>2. e \notin Elements(x) => RemoveFirst(x, e) = x
    BY Delisted
  <2>3. e \in Elements(x) => Elements(RemoveFirst(x, e)) = Elements(x) \ {e}
    BY Delisted
  <2>4. RemoveFirst(x, e) \in Seq(Senders) /\ IsInjective(RemoveFirst(x, e))
    BY Delisted
  <2>5. QED BY <2>1, <2>2, <2>3, <2>4
<1>3. f \in [1..n -> [A -> A]]
  <2>1. ASSUME NEW i \in 1..n, NEW x \in A PROVE Step(x, i) \in A
    BY <1>2
  <2> HIDE DEF A, Step
  <2>2. QED BY <2>1
<1>4. \A i \in 1..n, x \in A : f[i][x] = Step(x, i)
  OBVIOUS
<1> HIDE DEF n, A, f
<1>5. h \in [0..n -> A] /\ h[0] = ev_waiters
  BY <1>1, <1>3, Iteration
<1>6. ASSUME NEW i \in 1..n PROVE h[i] = Step(h[i-1], i)
  <2>1. h[i] = f[i][h[i-1]]
    BY <1>1, <1>3, Iteration
  <2>2. h[i-1] \in A
    BY <1>1, <1>5
  <2> HIDE DEF Step
  <2>3. QED BY <1>4, <2>1, <2>2
<1> HIDE DEF h
<1>7. h = [i \in 0..n |-> IF i = 0 THEN ev_waiters
                          ELSE IF g[i].got = {} THEN h[i-1]
                          ELSE Event!Delist(h[i-1], ev_waiters[i])]
  BY <1>1, <1>5, <1>6
<1> DEFINE l == CHOOSE k : k = [i \in 0..n |->
                    IF i = 0 THEN ev_waiters
                    ELSE IF g[i].got = {} THEN k[i-1]
                    ELSE Event!Delist(k[i-1], ev_waiters[i])]
<1>8. l = [i \in 0..n |-> IF i = 0 THEN ev_waiters
                          ELSE IF g[i].got = {} THEN l[i-1]
                          ELSE Event!Delist(l[i-1], ev_waiters[i])]
  BY <1>7
<1>9. Event!Remain(ev_waiters, g) = l[n]
  BY DEF Event!Remain, n
<1> HIDE DEF l
<1> DEFINE Off(i) == {ev_waiters[j] : j \in {k \in 1..i : g[k].got # {}}}
           S == {i \in 0..n : l[i] \in A /\ Elements(l[i]) = Elements(ev_waiters) \ Off(i)}
<1>10. 0 \in S
  <2>1. Off(0) = {} /\ l[0] = ev_waiters /\ 0 \in 0..n
    BY <1>1, <1>8
  <2>2. QED BY <1>1, <2>1
<1>11. ASSUME NEW m \in 0..n-1, m \in S PROVE m + 1 \in S
  <2>1. l[m+1] = IF g[m+1].got = {} THEN l[m] ELSE Event!Delist(l[m], ev_waiters[m+1])
    BY <1>1, <1>8
  <2>2. m + 1 \in 0..n /\ l[m] \in A /\ Elements(l[m]) = Elements(ev_waiters) \ Off(m)
    BY <1>1, <1>11
  <2>3. Off(m+1) = IF g[m+1].got = {} THEN Off(m) ELSE Off(m) \cup {ev_waiters[m+1]}
    <3>1. 1..m+1 = 1..m \cup {m+1}
      BY <1>1
    <3>2. QED BY <3>1
  <2>4. /\ Event!Delist(l[m], ev_waiters[m+1]) \in A
        /\ Elements(Event!Delist(l[m], ev_waiters[m+1])) = Elements(l[m]) \ {ev_waiters[m+1]}
    BY <1>2, <2>2
  <2> HIDE DEF Off
  <2>5. QED BY <2>1, <2>2, <2>3, <2>4
<1> HIDE DEF S
<1>12. \A i \in 0..n : i \in S
  BY <1>1, <1>10, <1>11, IntervalInduction
<1>13. l[n] \in A /\ Elements(l[n]) = Elements(ev_waiters) \ Off(n)
  BY <1>1, <1>12 DEF S
<1>14. QED BY <1>9, <1>13 DEF A, n

LEMMA EvUnsatisfied ==
    NobodySatisfied <=> \A u \in Elements(ev_waiters) :
                           ~Event!Satisfied(ev_set, ev_call[u].set, ev_call[u].all)
BY DEF NobodySatisfied, Event!NobodySatisfied, Event!Listed, Elements

LEMMA EvUnsatisfiedNext ==
    NobodySatisfied' <=> \A u \in Elements(ev_waiters') :
                           ~Event!Satisfied(ev_set', ev_call'[u].set, ev_call'[u].all)
BY DEF NobodySatisfied, Event!NobodySatisfied, Event!Listed, Elements, Event!Satisfied

LEMMA EvListed ==
    ASSUME EvCalls
    PROVE  Elements(ev_waiters) \subseteq Senders
BY ElementOfSeq DEF EvCalls, Elements

LEMMA EvSenders == Seq(Senders) \subseteq Seq(Threads)
<1>1. ASSUME NEW s \in Seq(Senders) PROVE s \in Seq(Threads)
  <2>1. Len(s) \in Nat /\ s \in [1..Len(s) -> Senders]
    BY LenProperties
  <2>2. s \in [1..Len(s) -> Threads]
    BY <2>1 DEF Threads
  <2>3. QED BY <2>1, <2>2, FunctionIsSeq
<1>2. QED BY <1>1

LEMMA NarrowSeq ==
    ASSUME NEW S, NEW T, NEW s \in Seq(S), Elements(s) \subseteq T
    PROVE  s \in Seq(T)
<1>1. Len(s) \in Nat /\ s \in [1..Len(s) -> S]
  BY LenProperties
<1>2. s \in [1..Len(s) -> T]
  BY <1>1 DEF Elements
<1>3. QED BY <1>1, <1>2, FunctionIsSeq

LEMMA EvRecvInv ==
    ASSUME EvInv, NEW t \in Senders, NEW want \in Event!Wanted, NEW all \in BOOLEAN,
           NEW clear \in BOOLEAN, NEW w \in {"none", "timed", "forever"},
           Event!Recv(t, want, all, clear, w)
    PROVE  EvInv'
<1>1. \A u \in Elements(ev_waiters) : ~Event!Satisfied(ev_set, ev_call[u].set, ev_call[u].all)
  BY EvUnsatisfied DEF EvInv
<1>2. CASE Event!Satisfied(ev_set, want, all)
  <2>1. ev_set' \subseteq ev_set /\ UNCHANGED <<ev_waiters, ev_call>>
    BY <1>2 DEF Event!Recv
  <2>2. EvCalls'
    BY <2>1 DEF EvInv, EvCalls
  <2>3. ASSUME NEW u \in Elements(ev_waiters)
        PROVE  ~Event!Satisfied(ev_set', ev_call[u].set, ev_call[u].all)
    BY <1>1, <2>1, StillUnsatisfied
  <2>4. QED BY <2>1, <2>2, <2>3, EvUnsatisfiedNext DEF EvInv
<1>3. CASE ~Event!Satisfied(ev_set, want, all)
  <2> DEFINE c == [pc |-> w, set |-> want, all |-> all, clear |-> clear]
  <2>1. /\ ev_call[t].pc = "idle" /\ w # "none"
        /\ ev_waiters' = Event!Enlist(ev_waiters, t)
        /\ ev_call' = [ev_call EXCEPT ![t] = c]
        /\ ev_set' = ev_set
    BY <1>3 DEF Event!Recv
  <2>2. c \in EvCallSet /\ c.set # {} /\ c.pc # "idle" /\ c.set = want /\ c.all = all
    BY <2>1 DEF EvCallSet, Event!Wanted
  <2> HIDE DEF c
  <2>3. /\ ev_call' \in [Senders -> EvCallSet] /\ ev_call'[t] = c
        /\ \A u \in Senders \ {t} : ev_call'[u] = ev_call[u]
    BY <2>1, <2>2 DEF EvInv, EvCalls
  <2>4. /\ ev_waiters' \in Seq(Senders) /\ IsInjective(ev_waiters')
        /\ Elements(ev_waiters') = Elements(ev_waiters) \cup {t}
    <3>1. ev_waiters \in Seq(Threads) /\ t \in Threads
      BY EvSenders DEF EvInv, EvCalls, Threads
    <3>2. ev_waiters' = Enlist(ev_waiters, t)
      BY <2>1, <3>1, EvEnlist
    <3>3. t \notin Elements(ev_waiters) /\ IsInjective(ev_waiters)
      BY <2>1 DEF EvInv, EvCalls
    <3>4. /\ ev_waiters' \in Seq(Threads) /\ IsInjective(ev_waiters')
          /\ Elements(ev_waiters') = Elements(ev_waiters) \cup {t}
      BY <3>1, <3>2, <3>3, EnlistFacts
    <3>5. Elements(ev_waiters') \subseteq Senders
      BY <3>4, EvListed DEF EvInv
    <3>6. QED BY <3>4, <3>5, NarrowSeq
  <2>5. EvCalls'
    BY <2>1, <2>2, <2>3, <2>4 DEF EvInv, EvCalls
  <2>6. ASSUME NEW u \in Elements(ev_waiters')
        PROVE  ~Event!Satisfied(ev_set', ev_call'[u].set, ev_call'[u].all)
    <3>1. CASE u = t
      BY <1>3, <2>1, <2>2, <2>3, <3>1
    <3>2. CASE u # t
      <4>1. u \in Elements(ev_waiters) /\ u \in Senders
        BY <2>4, <3>2, EvListed DEF EvInv
      <4>2. QED BY <1>1, <2>1, <2>3, <3>2, <4>1
    <3>3. QED BY <3>1, <3>2
  <2>7. QED BY <2>5, <2>6, EvUnsatisfiedNext DEF EvInv
<1>4. QED BY <1>2, <1>3

LEMMA EvTimeoutInv ==
    ASSUME EvInv, NEW t \in Senders, Event!Timeout(t)
    PROVE  EvInv'
<1>1. /\ ev_waiters' = Event!Delist(ev_waiters, t)
      /\ ev_call' = [ev_call EXCEPT ![t] = Event!Idle]
      /\ ev_set' = ev_set
      /\ ev_call[t].pc = "timed"
  BY DEF Event!Timeout
<1>2. /\ ev_call' \in [Senders -> EvCallSet] /\ ev_call'[t].pc = "idle"
      /\ \A u \in Senders \ {t} : ev_call'[u] = ev_call[u]
  BY <1>1, EvIdle DEF EvInv, EvCalls
<1>3. /\ ev_waiters' \in Seq(Senders) /\ IsInjective(ev_waiters')
      /\ Elements(ev_waiters') = Elements(ev_waiters) \ {t}
  <2>1. ev_waiters \in Seq(Senders) /\ IsInjective(ev_waiters) /\ t \in Elements(ev_waiters)
    BY <1>1 DEF EvInv, EvCalls
  <2>2. ev_waiters' = RemoveFirst(ev_waiters, t)
    BY <1>1, EvDelist
  <2>3. QED BY <2>1, <2>2, Delisted
<1>4. EvCalls'
  BY <1>1, <1>2, <1>3 DEF EvInv, EvCalls
<1>5. ASSUME NEW u \in Elements(ev_waiters')
      PROVE  ~Event!Satisfied(ev_set', ev_call'[u].set, ev_call'[u].all)
  <2>1. u \in Elements(ev_waiters) /\ u \in Senders \ {t}
    BY <1>3, EvListed DEF EvInv
  <2>2. \A v \in Elements(ev_waiters) :
           ~Event!Satisfied(ev_set, ev_call[v].set, ev_call[v].all)
    BY EvUnsatisfied DEF EvInv
  <2>3. QED BY <1>1, <1>2, <2>1, <2>2
<1>6. QED BY <1>4, <1>5, EvUnsatisfiedNext DEF EvInv

LEMMA EvResetInv ==
    ASSUME ev_set' = {}, ev_waiters' = <<>>, ev_call' = [t \in Senders |-> Event!Idle]
    PROVE  EvInv'
<1>1. EvCalls'
  BY EvIdle, NobodyListed DEF EvCalls
<1>2. Elements(ev_waiters') = {}
  BY NobodyListed
<1>3. QED BY <1>1, <1>2, EvUnsatisfiedNext DEF EvInv

(* What a send gives to whom.                                              *)
LEMMA EvSendFacts ==
    ASSUME EvInv, NEW flags \in Event!Wanted, Event!Send(flags)
    PROVE  \E g : /\ Walked(g, ev_set \cup flags)
                  /\ ev_set' = g[Len(ev_waiters)].rest
                  /\ ev_waiters' = Event!Remain(ev_waiters, g)
                  /\ \A i \in 1..Len(ev_waiters) :
                        /\ ev_got'[ev_waiters[i]] = g[i].got
                        /\ ev_call'[ev_waiters[i]] = IF g[i].got = {} THEN ev_call[ev_waiters[i]]
                                                     ELSE Event!Idle
                  /\ \A t \in Senders : t \notin Elements(ev_waiters) => ev_call'[t] = ev_call[t]
                  /\ ev_call' \in [Senders -> EvCallSet]
<1> DEFINE n == Len(ev_waiters)
<1>1. PICK g : g = Event!Given(ev_set \cup flags, ev_waiters)
  OBVIOUS
<1>2. PICK fl : fl = ev_set \cup flags
  OBVIOUS
<1>3. fl \in SUBSET Flags
  BY <1>2 DEF Event!Wanted, EvInv, EvCalls
<1>4. Walked(g, fl)
  BY <1>1, <1>2, <1>3, GivenFacts DEF EvInv
<1> DEFINE Got(t) == UNION {g[i].got : i \in {j \in 1..n : ev_waiters[j] = t}}
<1>5. /\ ev_set' = g[n].rest
      /\ ev_waiters' = Event!Remain(ev_waiters, g)
      /\ ev_call' = [t \in Senders |-> IF Got(t) = {} THEN ev_call[t] ELSE Event!Idle]
      /\ ev_got' = [t \in Senders |-> Got(t)]
  BY <1>1 DEF Event!Send
<1>6. ASSUME NEW i \in 1..n PROVE Got(ev_waiters[i]) = g[i].got
  <2>1. {j \in 1..n : ev_waiters[j] = ev_waiters[i]} = {i}
    <3>1. IsInjective(ev_waiters) /\ ev_waiters \in Seq(Senders)
      BY DEF EvInv, EvCalls
    <3>2. QED BY <3>1 DEF IsInjective
  <2>2. QED BY <2>1
<1>7. ASSUME NEW t \in Senders, t \notin Elements(ev_waiters) PROVE Got(t) = {}
  <2>1. {j \in 1..n : ev_waiters[j] = t} = {}
    BY <1>7 DEF Elements
  <2>2. QED BY <2>1
<1> HIDE DEF Got
<1>8. \A i \in 1..n : ev_waiters[i] \in Senders
  BY ElementOfSeq DEF EvInv, EvCalls
<1>9. ev_call' \in [Senders -> EvCallSet]
  BY <1>5, EvIdle DEF EvInv, EvCalls
<1>10. \A i \in 1..n :
          /\ ev_got'[ev_waiters[i]] = g[i].got
          /\ ev_call'[ev_waiters[i]] = IF g[i].got = {} THEN ev_call[ev_waiters[i]]
                                       ELSE Event!Idle
  BY <1>5, <1>6, <1>8
<1>11. \A t \in Senders : t \notin Elements(ev_waiters) => ev_call'[t] = ev_call[t]
  BY <1>5, <1>7
<1>12. QED BY <1>2, <1>4, <1>5, <1>9, <1>10, <1>11

LEMMA EvSendInv ==
    ASSUME EvInv, NEW flags \in Event!Wanted, Event!Send(flags)
    PROVE  EvInv' /\ Event!GivenOnce
<1>1. PICK n, fl : n = Len(ev_waiters) /\ fl = ev_set \cup flags
  OBVIOUS
<1>2. fl \in SUBSET Flags
  BY <1>1 DEF Event!Wanted, EvInv, EvCalls
<1>3. PICK g :
         /\ Walked(g, fl) /\ ev_set' = g[n].rest /\ ev_waiters' = Event!Remain(ev_waiters, g)
         /\ \A i \in 1..n :
               /\ ev_got'[ev_waiters[i]] = g[i].got
               /\ ev_call'[ev_waiters[i]] = IF g[i].got = {} THEN ev_call[ev_waiters[i]]
                                            ELSE Event!Idle
         /\ \A t \in Senders : t \notin Elements(ev_waiters) => ev_call'[t] = ev_call[t]
         /\ ev_call' \in [Senders -> EvCallSet]
  BY <1>1, EvSendFacts
<1>4. n \in Nat
  BY <1>1, LenProperties DEF EvInv, EvCalls
<1>5. ASSUME NEW i \in 1..n, NEW c, c = ev_call[ev_waiters[i]]
      PROVE  /\ g[i].got \subseteq c.set
             /\ g[i].got # {} /\ c.all => g[i].got = c.set
             /\ \A j \in i..n :
                   /\ g[i].got # {} /\ c.clear => g[i].got \cap g[j].rest = {}
                   /\ g[i].got = {} => ~Event!Satisfied(g[j].rest, c.set, c.all)
             /\ \A j \in i+1..n : g[i].got # {} /\ c.clear => g[i].got \cap g[j].got = {}
  BY <1>1, <1>2, <1>3, <1>5, WalkStep DEF EvInv
<1>6. ev_set' \in SUBSET Flags
  BY <1>1, <1>3, <1>4 DEF Walked
<1>7. /\ ev_waiters' \in Seq(Senders) /\ IsInjective(ev_waiters')
      /\ Elements(ev_waiters')
            = Elements(ev_waiters) \ {ev_waiters[i] : i \in {j \in 1..n : g[j].got # {}}}
  BY <1>1, <1>3, RemainFacts DEF EvInv
<1>8. ASSUME NEW i \in 1..n
      PROVE  ev_waiters[i] \in Elements(ev_waiters') <=> g[i].got = {}
  <2>1. \A j \in 1..n : ev_waiters[j] = ev_waiters[i] => j = i
    <3>1. IsInjective(ev_waiters) /\ ev_waiters \in Seq(Senders)
      BY DEF EvInv, EvCalls
    <3>2. QED BY <1>1, <3>1 DEF IsInjective
  <2>2. ev_waiters[i] \in Elements(ev_waiters)
    BY <1>1 DEF Elements
  <2>3. QED BY <1>7, <2>1, <2>2
<1>9. EvCalls'
  <2>1. ASSUME NEW t \in Senders
        PROVE  /\ t \in Elements(ev_waiters') <=> ev_call'[t].pc # "idle"
               /\ t \in Elements(ev_waiters') => ev_call'[t].set # {}
    <3>1. /\ t \in Elements(ev_waiters) <=> ev_call[t].pc # "idle"
          /\ t \in Elements(ev_waiters) => ev_call[t].set # {}
      BY DEF EvInv, EvCalls
    <3>2. CASE t \in Elements(ev_waiters)
      <4>1. PICK i \in 1..n : t = ev_waiters[i]
        BY <1>1, <3>2 DEF Elements
      <4>2. ev_call'[t] = IF g[i].got = {} THEN ev_call[t] ELSE Event!Idle
        BY <1>3, <4>1
      <4>3. QED BY <1>8, <3>1, <3>2, <4>1, <4>2, EvIdle
    <3>3. CASE t \notin Elements(ev_waiters)
      BY <1>3, <1>7, <3>1, <3>3
    <3>4. QED BY <3>2, <3>3
  <2>2. QED BY <1>3, <1>6, <1>7, <2>1 DEF EvCalls
<1>10. ASSUME NEW u \in Elements(ev_waiters')
       PROVE  ~Event!Satisfied(ev_set', ev_call'[u].set, ev_call'[u].all)
  <2>1. u \in Elements(ev_waiters)
    BY <1>7
  <2>2. PICK i \in 1..n : u = ev_waiters[i]
    BY <1>1, <2>1 DEF Elements
  <2>3. g[i].got = {} /\ ev_call'[u] = ev_call[u] /\ n \in i..n
    BY <1>3, <1>4, <1>8, <2>2
  <2>4. PICK c : c = ev_call[ev_waiters[i]]
    OBVIOUS
  <2>5. ~Event!Satisfied(g[n].rest, c.set, c.all)
    BY <1>5, <2>3, <2>4
  <2>6. QED BY <1>3, <2>2, <2>3, <2>4, <2>5
<1>11. EvInv'
  BY <1>9, <1>10, EvUnsatisfiedNext DEF EvInv
<1>12. ASSUME NEW i \in 1..n, ev_got'[ev_waiters[i]] # {}
       PROVE  /\ ev_got'[ev_waiters[i]] \subseteq ev_call[ev_waiters[i]].set
              /\ ev_call[ev_waiters[i]].all =>
                    ev_got'[ev_waiters[i]] = ev_call[ev_waiters[i]].set
              /\ ev_call[ev_waiters[i]].clear =>
                    /\ ev_got'[ev_waiters[i]] \cap ev_set' = {}
                    /\ \A j \in i+1..n :
                          ev_got'[ev_waiters[i]] \cap ev_got'[ev_waiters[j]] = {}
  <2>1. PICK c : c = ev_call[ev_waiters[i]]
    OBVIOUS
  <2>2. ev_got'[ev_waiters[i]] = g[i].got /\ g[i].got # {} /\ n \in i..n
    BY <1>3, <1>4, <1>12
  <2>3. \A j \in i+1..n : ev_got'[ev_waiters[j]] = g[j].got
    BY <1>3, <1>4
  <2>4. /\ g[i].got \subseteq c.set
        /\ c.all => g[i].got = c.set
        /\ c.clear => g[i].got \cap g[n].rest = {}
        /\ c.clear => \A j \in i+1..n : g[i].got \cap g[j].got = {}
    BY <1>5, <2>1, <2>2
  <2>5. QED BY <1>3, <2>1, <2>2, <2>3, <2>4
<1>13. Event!GivenOnce
  BY <1>1, <1>12 DEF Event!GivenOnce
<1>14. QED BY <1>11, <1>13

LEMMA NothingGiven ==
    ASSUME EvInv, ev_got' = [u \in Senders |-> {}]
    PROVE  Event!GivenOnce
<1>1. \A i \in 1..Len(ev_waiters) : ev_got'[ev_waiters[i]] = {}
  BY ElementOfSeq DEF EvInv, EvCalls
<1>2. QED BY <1>1 DEF Event!GivenOnce

LEMMA EvNextInv ==
    ASSUME EvInv, [IpcNext]_ipcVars
    PROVE  EvInv' /\ (Event!GivenOnce \/ UNCHANGED evVars)
<1>1. CASE UNCHANGED evVars
  <2>1. UNCHANGED <<ev_set, ev_waiters, ev_call>>
    BY <1>1 DEF evVars
  <2>2. EvCalls'
    BY <2>1 DEF EvInv, EvCalls
  <2>3. NobodySatisfied'
    BY <2>1, EvUnsatisfied, EvUnsatisfiedNext DEF EvInv
  <2>4. QED BY <1>1, <2>2, <2>3 DEF EvInv
<1>2. CASE Event!Next
  <2>1. ASSUME NEW t \in Senders, NEW want \in Event!Wanted, NEW all \in BOOLEAN,
               NEW clear \in BOOLEAN, NEW w \in {"none", "timed", "forever"},
               Event!Recv(t, want, all, clear, w)
        PROVE  EvInv' /\ Event!GivenOnce
    <3>1. EvInv'
      BY <2>1, EvRecvInv
    <3>2. ev_got' = [u \in Senders |-> {}]
      BY <2>1 DEF Event!Recv
    <3>3. QED BY <3>1, <3>2, NothingGiven
  <2>2. ASSUME NEW flags \in Event!Wanted, Event!Send(flags)
        PROVE  EvInv' /\ Event!GivenOnce
    BY <2>2, EvSendInv
  <2>3. ASSUME NEW t \in Senders, Event!Timeout(t)
        PROVE  EvInv' /\ Event!GivenOnce
    <3>1. EvInv'
      BY <2>3, EvTimeoutInv
    <3>2. ev_got' = [u \in Senders |-> {}]
      BY <2>3 DEF Event!Timeout
    <3>3. QED BY <3>1, <3>2, NothingGiven
  <2>4. ASSUME Event!Reset
        PROVE  EvInv' /\ Event!GivenOnce
    <3>1. EvInv' /\ ev_got' = [u \in Senders |-> {}]
      BY <2>4, EvResetInv DEF Event!Reset
    <3>2. QED BY <3>1, NothingGiven
  <2>5. QED BY <1>2, <2>1, <2>2, <2>3, <2>4 DEF Event!Next
<1>3. QED BY <1>1, <1>2 DEF IpcNext, ipcVars

LEMMA EvInitInv == IpcInit => EvInv
<1> SUFFICES ASSUME IpcInit PROVE EvInv
  OBVIOUS
<1>1. /\ ev_set = {} /\ ev_waiters = <<>> /\ ev_call = [t \in Senders |-> Event!Idle]
  BY DEF IpcInit, Event!Init
<1>2. EvCalls
  BY <1>1, EvIdle, NobodyListed DEF EvCalls
<1>3. Elements(ev_waiters) = {}
  BY <1>1, NobodyListed
<1>4. QED BY <1>2, <1>3, EvUnsatisfied DEF EvInv

LEMMA EventInvariant == IpcSpec => []EvInv
<1>1. EvInv /\ [IpcNext]_ipcVars => EvInv'
  BY EvNextInv
<1>2. QED BY <1>1, EvInitInv, PTL DEF IpcSpec

(* Nobody is suspended on the event for flags that are there:              *)
(* rt_event_recv suspends only who is not satisfied, and the walk of       *)
(* rt_event_send passes over nobody whom the flags satisfy that the        *)
(* waiters before it have left.                                            *)
THEOREM EventSatisfiesItsWaiters == IpcSpec => []NobodySatisfied
<1>1. EvInv => NobodySatisfied
  BY DEF EvInv
<1>2. QED BY <1>1, EventInvariant, PTL

(* rt_event_send gives a waiter only what it asked for, all of it if it    *)
(* asked for all, and a flag that a waiter clears to nobody behind it.     *)
THEOREM EventGivesFlagsOnce == IpcSpec => FlagsGivenOnce
<1>1. EvInv /\ [IpcNext]_ipcVars => [Event!GivenOnce]_(Event!vars)
  BY EvNextInv DEF evVars, Event!vars
<1>2. IpcSpec => [][Event!GivenOnce]_(Event!vars)
  BY <1>1, EventInvariant, PTL DEF IpcSpec
<1>3. QED BY <1>2 DEF FlagsGivenOnce, Event!FlagsGivenOnce

(* The variables of the three objects have their types.                     *)
THEOREM IpcTyped == IpcSpec => []IpcTypeOK
<1>1. MqInv => TypeOK
  <2> SUFFICES ASSUME MqInv PROVE TypeOK
    OBVIOUS
  <2>1. PICK q, f \in Seq(Slots) : MqSlots(q, f)
    BY DEF MqInv
  <2>2. IsInjective(q)
    BY <2>1 DEF MqSlots, Links
  <2>3. mq_entry \in 0..MaxMsgs
    BY <2>1, <2>2, SlotsOfList DEF MqSlots
  <2>4. {mq_head, mq_tail, mq_free} \subseteq Slots \cup {NULL}
    <3>1. \A i \in 1..Len(q) : q[i] \in Slots
      BY ElementOfSeq
    <3>2. \A i \in 1..Len(f) : f[i] \in Slots
      BY ElementOfSeq
    <3>3. /\ q # <<>> => 1 \in 1..Len(q) /\ Len(q) \in 1..Len(q)
          /\ f # <<>> => 1 \in 1..Len(f)
      BY EmptySeq, LenProperties
    <3>4. QED BY <2>1, <3>1, <3>2, <3>3 DEF MqSlots, Links
  <2>5. /\ Listed(mq_receivers) = {t \in Threads : mq_pc[t] = "recv_wait"}
        /\ Listed(mq_senders) = {t \in Threads : mq_pc[t] = "send_wait"}
    <3>1. Elements(mq_receivers) \subseteq Threads /\ Elements(mq_senders) \subseteq Threads
      BY ElementOfSeq DEF Elements, MqInv, MqLists
    <3>2. QED BY <3>1 DEF MqInv, MqLists, Elements, Listed
  <2>6. QED BY <2>3, <2>4, <2>5 DEF TypeOK, MqInv, MqCalls, MqPool
<1>2. MbInv => Mailbox!TypeOK
  <2> SUFFICES ASSUME MbInv PROVE Mailbox!TypeOK
    OBVIOUS
  <2>1. /\ mb_pool \in [0..MaxMsgs-1 -> Mails \cup {NoMail}]
        /\ mb_entry \in 0..MaxMsgs /\ {mb_in, mb_out} \subseteq 0..MaxMsgs-1
        /\ mb_got \in [Receivers -> Mails \cup {NoMail}]
    BY DEF MbInv, MbRing, MbCalls
  <2>2. \A t \in Threads :
           /\ mb_call[t].pc \in {"idle", "send_wait", "send_woken",
                                 "recv_wait", "recv_woken"}
           /\ mb_call[t].mail \in Mails \cup {NoMail} /\ mb_call[t].wait \in Mailbox!Waits
    BY DEF MbInv, MbCalls, CallSet
  <2>3. /\ Mailbox!Listed(mb_senders) = {t \in Threads : mb_call[t].pc = "send_wait"}
        /\ Mailbox!Listed(mb_receivers) = {t \in Threads : mb_call[t].pc = "recv_wait"}
    <3>1. Elements(mb_receivers) \subseteq Threads /\ Elements(mb_senders) \subseteq Threads
      BY ElementOfSeq DEF Elements, MbInv, MbLists
    <3>2. QED BY <3>1 DEF MbInv, MbLists, Elements, Mailbox!Listed
  <2>4. QED BY <2>1, <2>2, <2>3, Constants DEF Mailbox!TypeOK
<1>3. EvInv => Event!TypeOK
  <2> SUFFICES ASSUME EvInv PROVE Event!TypeOK
    OBVIOUS
  <2>1. ASSUME NEW t \in Senders
        PROVE  /\ ev_call[t].pc \in {"idle", "timed", "forever"}
               /\ ev_call[t].set \subseteq Flags
               /\ {ev_call[t].all, ev_call[t].clear} \subseteq BOOLEAN
    <3>1. ev_call[t] \in EvCallSet
      BY DEF EvInv, EvCalls
    <3>2. QED BY <3>1 DEF EvCallSet
  <2>2. Event!Listed(ev_waiters) = {t \in Senders : ev_call[t].pc # "idle"}
    BY EvListed DEF EvInv, EvCalls, Elements, Event!Listed
  <2>3. Event!IsInjective(ev_waiters)
    BY DEF EvInv, EvCalls, IsInjective, Event!IsInjective
  <2>4. QED BY <2>1, <2>2, <2>3 DEF Event!TypeOK, EvInv, EvCalls
<1>4. MqInv /\ MbInv /\ EvInv => IpcTypeOK
  BY <1>1, <1>2, <1>3 DEF IpcTypeOK
<1>5. QED BY <1>4, MqInvariant, MailboxInvariant, EventInvariant, PTL
=============================================================================
