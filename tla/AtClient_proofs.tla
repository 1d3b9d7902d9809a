---------------------------- MODULE AtClient_proofs ----------------------------
(***************************************************************************)
(* Proofs about the AT client (AtClient): the parser writes only into the  *)
(* response object of a call in progress, and a call begun with no answer  *)
(* outstanding gets its own answer.                                        *)
(***************************************************************************)
EXTENDS AtClient, SeqLemmas

Waits == {"take", "asleep", "expired", "woken"}     \* the command is written
Busy  == {"write"} \cup Waits                       \* and before: registered

(* The lock is a queue; its first is the only one in the critical section. *)
LockOK ==
    /\ IsInjective(lock)
    /\ \A c \in Callers :
          /\ pc[c] # "idle" <=> c \in Elements(lock)
          /\ pc[c] # "idle" => result[c] = "none"
          /\ pc[c] \in Busy => lock # <<>> /\ c = Head(lock)

(* Who waits for the lock is still going to write its command.             *)
Written == lock # <<>> /\ pc[Head(lock)] \in Waits

CommandsOK ==
    /\ Len(reply) + Len(lock) <= MaxCmd + (IF Written THEN 1 ELSE 0)
    /\ \A c \in Callers :
          /\ cmd[c] <= Len(reply)
          /\ pc[c] \in Waits \/ result[c] \in {"EOK", "ERROR"} => cmd[c] > 0

(* A response object is registered only for a call in progress.            *)
RespOK ==
    resp # NULL => lock # <<>> /\ resp = Head(lock) /\ pc[resp] \in Busy

(* A call leaves at most one token behind: a wait that ends with it takes  *)
(* one, and a response gives one, once.                                    *)
NoticeOK ==
    /\ lock = <<>> \/ pc[Head(lock)] = "enter" => resp_notice <= 1
    /\ \A c \in Callers :
          /\ pc[c] \in {"write", "take"} =>
                IF resp = c THEN resp_notice <= 1 ELSE resp_notice >= 1
          /\ pc[c] = "asleep" => resp = c /\ resp_notice = 0
          /\ pc[c] \in {"expired", "woken"} =>
                resp_notice <= IF resp = c THEN 0 ELSE 1

ClientInv == TypeOK /\ LockOK /\ CommandsOK /\ RespOK /\ NoticeOK

-----------------------------------------------------------------------------
(* The lines of own from the j-th on are those under way, in order: in the *)
(* FIFO, URCs between them, and then still to be sent.                     *)
UnderWay(own, j) ==
    \E g \in [0..Len(fifo) -> 0..Len(own)] :
        /\ g[0] = j
        /\ \A i \in 1..Len(fifo) :
              \/ fifo[i] = Urc /\ g[i] = g[i-1]
              \/ g[i] = g[i-1] + 1 /\ fifo[i] = own[g[i]]
        /\ Len(todo) = Len(own) - g[Len(fifo)]
        /\ \A i \in 1..Len(todo) : todo[i] = own[g[Len(fifo)] + i]

(* The response object of c has lines of its answer only, and the first j  *)
(* of them if the whole answer fits.                                       *)
Kept(c, j) ==
    /\ \A i \in 1..Len(lines[c]) : lines[c][i].cmd = cmd[c]
    /\ Length(OwnAnswer(c)) < BufSize => lines[c] = SubSeq(OwnAnswer(c), 1, j)

Fresh(c) ==
    /\ resp = c /\ resp_notice = 0
    /\ lines[c] = <<>> /\ todo = <<>>
    /\ \A i \in 1..Len(fifo) : fifo[i] = Urc

Waiting(c) ==
    /\ resp = c /\ resp_notice = 0 /\ pc[c] # "woken"
    /\ \E j \in 0..Len(OwnAnswer(c)) :
          /\ UnderWay(OwnAnswer(c), j)
          /\ \A i \in 1..j : OwnAnswer(c)[i].kind \notin Final
          /\ Kept(c, j)

Answered(c) ==
    LET own == OwnAnswer(c)
    IN  /\ resp = NULL /\ own # <<>>
        /\ own[Len(own)].kind \in Final /\ resp_status = own[Len(own)].kind
        /\ Kept(c, Len(own))

(* A call begun with no answer outstanding waits for the rest of its own,  *)
(* or has it.                                                              *)
CleanOK ==
    \A c \in Callers : clean[c] =>
        /\ pc[c] = "write" => Fresh(c)
        /\ pc[c] \in Waits => Waiting(c) \/ Answered(c)

AnswerInv == CleanOK /\ AnswersMatch

-----------------------------------------------------------------------------
(* ClientInv.                                                              *)
LEMMA InitClient == Init => ClientInv
<1> SUFFICES ASSUME Init PROVE ClientInv
  OBVIOUS
<1>1. /\ <<>> \in Seq(Lines) /\ <<>> \in Seq(Callers) /\ <<>> \in Seq(Replies)
      /\ Len(<<>>) = 0 /\ Elements(<<>>) = {} /\ IsInjective(<<>>)
  BY EmptySeq DEF Elements, IsInjective
<1>2. TypeOK
  <2>1. /\ todo \in Seq(Lines) /\ fifo \in Seq(Lines) /\ Len(fifo) <= MaxLines
        /\ lock \in Seq(Callers) /\ reply \in Seq(Replies) /\ Len(reply) <= MaxCmd
    BY <1>1, AtAssumption DEF Init
  <2>2. cmd \in [Callers -> 0..MaxCmd] /\ lines \in [Callers -> Seq(Lines)]
    BY <1>1, AtAssumption DEF Init
  <2>3. pc \in [Callers -> {"idle"}] /\ result \in [Callers -> {"none"}]
    BY DEF Init
  <2>4. clean \in [Callers -> BOOLEAN] /\ completed \in [Callers -> BOOLEAN]
    BY DEF Init
  <2>5. rx_notice \in BOOLEAN /\ parser = "read" /\ resp = NULL /\ resp_status = "OK" /\ resp_notice = 0
    BY DEF Init
  <2>6. QED BY <2>1, <2>2, <2>3, <2>4, <2>5 DEF TypeOK
<1>3. LockOK /\ RespOK
  BY <1>1, AtAssumption DEF Init, LockOK, RespOK, Busy, Waits
<1>4. CommandsOK /\ NoticeOK
  BY <1>1, AtAssumption DEF Init, CommandsOK, NoticeOK, Written, Waits
<1>5. QED BY <1>2, <1>3, <1>4 DEF ClientInv

(* What is known of the caller at the head of the queue.                   *)
LEMMA AtHead ==
    ASSUME ClientInv, NEW c \in Callers, pc[c] \in Busy
    PROVE  /\ lock # <<>> /\ c = Head(lock) /\ c \in Elements(lock)
           /\ \A d \in Callers : pc[d] \in Busy => d = c
           /\ Written <=> pc[c] \in Waits
BY DEF ClientInv, LockOK, Written, Busy, Waits

(* A step that leaves the lock alone, keeps who waits for it and who has   *)
(* written, and changes no command.                                        *)
LEMMA SameLock ==
    ASSUME ClientInv, TypeOK', UNCHANGED <<lock, reply, cmd, result>>,
           \A c \in Callers : \/ pc'[c] = pc[c]
                              \/ pc[c] \in Waits /\ pc'[c] \in Waits
    PROVE  LockOK' /\ CommandsOK'
<1>1. \A c \in Callers : /\ pc'[c] = "idle" <=> pc[c] = "idle"
                         /\ pc'[c] \in Busy <=> pc[c] \in Busy
                         /\ pc'[c] \in Waits <=> pc[c] \in Waits
  BY DEF Busy, Waits
<1>2. LockOK'
  BY <1>1 DEF ClientInv, LockOK
<1>3. Written' <=> Written
  <2>1. lock # <<>> => Head(lock) \in Callers
    BY HeadTailProperties DEF ClientInv, TypeOK
  <2>2. QED BY <1>1, <2>1 DEF Written
<1>4. CommandsOK'
  BY <1>1, <1>3 DEF ClientInv, CommandsOK
<1>5. QED BY <1>2, <1>4

(* A step that changes only where the parser is and what it has read.      *)
LEMMA Aside ==
    ASSUME ClientInv, TypeOK', UNCHANGED <<reply, resp, resp_notice, lock, pc, cmd, result>>
    PROVE  ClientInv'
<1>1. LockOK' /\ CommandsOK'
  BY SameLock
<1>2. RespOK' /\ NoticeOK'
  BY DEF ClientInv, RespOK, NoticeOK
<1>3. QED BY <1>1, <1>2 DEF ClientInv

LEMMA ReceiveTyped ==
    ASSUME TypeOK, NEW line \in Lines, Receive(line),
           UNCHANGED <<reply, client, resp_notice, calls>>, todo' \in Seq(Lines)
    PROVE  TypeOK'
<1>1. fifo' \in Seq(Lines) /\ Len(fifo') <= MaxLines
  <2>1. Append(fifo, line) \in Seq(Lines) /\ Len(Append(fifo, line)) = Len(fifo) + 1
    BY AppendProperties DEF TypeOK
  <2>2. Len(fifo) \in Nat
    BY LenProperties DEF TypeOK
  <2>3. QED BY <2>1, <2>2, AtAssumption DEF Receive
<1>2. rx_notice' \in BOOLEAN /\ parser' \in {"read", "reset", "take", "asleep"}
  BY DEF TypeOK, Receive
<1>3. QED BY <1>1, <1>2 DEF TypeOK, client, calls

LEMMA AnswerClient == ASSUME ClientInv, Answer PROVE ClientInv'
<1>1. TypeOK
  BY DEF ClientInv
<1>2. Head(todo) \in Lines /\ Tail(todo) \in Seq(Lines)
  BY <1>1, HeadTailProperties DEF TypeOK, Answer
<1>3. TypeOK'
  BY <1>1, <1>2, ReceiveTyped DEF Answer
<1>4. QED BY <1>3, Aside DEF Answer, client, calls

LEMMA UrcClient == ASSUME ClientInv, ReceiveUrc PROVE ClientInv'
<1>1. TypeOK /\ Urc \in Lines
  BY AtAssumption DEF ClientInv, Urc, Lines
<1>2. TypeOK'
  BY <1>1, ReceiveTyped DEF ReceiveUrc, modem, TypeOK
<1>3. QED BY <1>2, Aside DEF ReceiveUrc, modem, client, calls

LEMMA SilentClient ==
    ASSUME ClientInv, ReadNothing \/ ResetNotice \/ TakeNotice \/ UNCHANGED vars
    PROVE  ClientInv'
<1>1. UNCHANGED <<modem, fifo, client, resp_notice, calls>>
  BY DEF ReadNothing, ResetNotice, TakeNotice, vars
<1>2. parser' \in {"read", "reset", "take", "asleep"} /\ rx_notice' \in BOOLEAN
  BY DEF ReadNothing, ResetNotice, TakeNotice, vars, ClientInv, TypeOK
<1>3. TypeOK'
  BY <1>1, <1>2 DEF ClientInv, TypeOK, modem, client, calls
<1>4. QED BY <1>1, <1>3, Aside DEF modem, client, calls

(* The parser stores a line: the object belongs to the call in progress,   *)
(* whose wait it may end or spare.                                         *)
LEMMA StoreClient ==
    ASSUME ClientInv, NEW line \in Lines, resp # NULL, line.kind # "urc", StoreLine(resp, line),
           fifo' \in Seq(Lines), Len(fifo') <= MaxLines,
           UNCHANGED <<modem, rx_notice, parser>>
    PROVE  ClientInv'
<1> DEFINE c == resp
<1>1. c \in Callers /\ TypeOK /\ pc[c] \in Busy
  BY DEF ClientInv, TypeOK, RespOK
<1>2. lines' \in [Callers -> Seq(Lines)]
  <2>1. Append(lines[c], line) \in Seq(Lines)
    BY <1>1, AppendProperties DEF TypeOK
  <2>2. lines' = lines \/ lines' = [lines EXCEPT ![c] = Append(lines[c], line)]
    BY DEF StoreLine
  <2>3. QED BY <1>1, <2>1, <2>2 DEF TypeOK
<1>3. resp_status' \in {"OK", "ERROR", "TIMEOUT", "BUFF_FULL"}
  BY <1>1 DEF StoreLine, TypeOK, Final
<1>4. CASE line.kind \notin Final
  <2>1. UNCHANGED <<resp, completed, pc, resp_notice, lock, cmd, result, clean, reply>>
    BY <1>4 DEF StoreLine, modem
  <2>2. TypeOK'
    BY <1>1, <1>2, <1>3, <2>1 DEF TypeOK, modem
  <2>3. QED BY <2>1, <2>2, Aside
<1>5. CASE line.kind \in Final
  <2>1. EndResponse(c) /\ UNCHANGED <<lock, cmd, result, clean, reply>>
    BY <1>5 DEF StoreLine, modem
  <2>2. \/ pc[c] = "asleep" /\ pc' = [pc EXCEPT ![c] = "woken"] /\ UNCHANGED resp_notice
        \/ pc[c] # "asleep" /\ UNCHANGED pc /\ resp_notice' = resp_notice + 1
    BY <2>1 DEF EndResponse
  <2>3. resp_notice' \in 0..2
    <3>1. resp_notice \in 0..2
      BY <1>1 DEF TypeOK
    <3>2. pc[c] # "asleep" => resp_notice <= 1
      BY <1>1, <3>1 DEF ClientInv, NoticeOK, Busy, Waits
    <3>3. QED BY <2>2, <3>1, <3>2
  <2>4. TypeOK'
    BY <1>1, <1>2, <1>3, <2>1, <2>2, <2>3 DEF TypeOK, modem, EndResponse
  <2>5. LockOK' /\ CommandsOK'
    <3>1. \A d \in Callers : pc'[d] = pc[d] \/ (pc[d] \in Waits /\ pc'[d] \in Waits)
      BY <1>1, <2>2 DEF TypeOK, Waits
    <3>2. QED BY <2>1, <2>4, <3>1, SameLock
  <2>6. RespOK'
    BY <2>1 DEF EndResponse, RespOK
  <2>7. NoticeOK'
    <3>1. /\ lock # <<>> /\ Head(lock) = c
          /\ \A d \in Callers : pc[d] \in Busy => d = c
      BY <1>1, AtHead
    <3>2. resp' = NULL /\ NULL \notin Callers /\ lock' = lock
      BY <2>1, AtAssumption DEF EndResponse
    <3>3. pc'[c] # "enter" /\ \A d \in Callers : d # c => pc'[d] = pc[d] /\ pc[d] \notin Busy
      BY <1>1, <2>2, <3>1 DEF TypeOK, Busy, Waits
    <3>4. /\ pc'[c] \in {"write", "take"} => resp_notice' >= 1
          /\ pc'[c] # "asleep"
          /\ pc'[c] \in {"expired", "woken"} => resp_notice' <= 1
      BY <1>1, <2>2, <2>3 DEF ClientInv, TypeOK, NoticeOK, Busy, Waits
    <3>5. QED BY <1>1, <3>1, <3>2, <3>3, <3>4 DEF NoticeOK, Busy, Waits
  <2>8. QED BY <2>4, <2>5, <2>6, <2>7 DEF ClientInv
<1>6. QED BY <1>4, <1>5

LEMMA ParseClient == ASSUME ClientInv, Parse PROVE ClientInv'
<1>1. TypeOK
  BY DEF ClientInv
<1>2. /\ Head(fifo) \in Lines
      /\ fifo' \in Seq(Lines) /\ Len(fifo') <= MaxLines
  <2>1. /\ Head(fifo) \in Lines /\ Tail(fifo) \in Seq(Lines)
        /\ Len(Tail(fifo)) = Len(fifo) - 1
    BY <1>1, HeadTailProperties DEF TypeOK, Parse
  <2>2. Len(fifo) \in Nat /\ Len(fifo) <= MaxLines
    BY <1>1, LenProperties DEF TypeOK
  <2>3. QED BY <2>1, <2>2, AtAssumption DEF Parse
<1>3. CASE resp # NULL /\ Head(fifo).kind # "urc"
  BY <1>2, <1>3, StoreClient DEF Parse
<1>4. CASE ~(resp # NULL /\ Head(fifo).kind # "urc")
  <2>1. UNCHANGED <<client, resp_notice, calls, modem, rx_notice, parser>>
    BY <1>4 DEF Parse
  <2>2. TypeOK'
    BY <1>1, <1>2, <2>1 DEF TypeOK, client, calls, modem
  <2>3. QED BY <2>1, <2>2, Aside DEF client, calls, modem
<1>5. QED BY <1>3, <1>4

(* The callers.                                                            *)
LEMMA EnterClient == ASSUME ClientInv, NEW c \in Callers, Enter(c) PROVE ClientInv'
<1>1. TypeOK /\ pc[c] = "idle" /\ Len(lock) \in Nat /\ Len(reply) \in Nat
  BY LenProperties DEF ClientInv, TypeOK, Enter
<1>2. /\ lock' = Append(lock, c)
      /\ pc' = [pc EXCEPT ![c] = "enter"] /\ result' = [result EXCEPT ![c] = "none"]
      /\ UNCHANGED <<todo, reply, fifo, rx_notice, parser, resp, resp_status, resp_notice, cmd, lines, clean>>
      /\ completed' = [completed EXCEPT ![c] = FALSE]
      /\ Len(reply) + Len(lock) < MaxCmd
  BY DEF Enter, Runs, modem, client
<1>3. c \notin Elements(lock) /\ IsInjective(lock)
  BY <1>1 DEF ClientInv, LockOK
<1>4. /\ lock' \in Seq(Callers) /\ Len(lock') = Len(lock) + 1 /\ lock' # <<>>
      /\ Elements(lock') = Elements(lock) \cup {c} /\ IsInjective(lock')
      /\ Head(lock') = c \/ (lock # <<>> /\ Head(lock') = Head(lock))
      /\ lock # <<>> => Head(lock') = Head(lock)
  <2>1. lock \in Seq(Callers) /\ 0 \in 0..Len(lock)+1
    BY <1>1 DEF TypeOK
  <2>2. /\ Append(lock, c) \in Seq(Callers) /\ Len(Append(lock, c)) = Len(lock) + 1
        /\ Append(lock, c) # <<>>
        /\ Elements(Append(lock, c)) = Elements(lock) \cup {c}
        /\ IsInjective(Append(lock, c))
        /\ Head(Append(lock, c)) = c \/ (lock # <<>> /\ Head(Append(lock, c)) = Head(lock))
    BY <1>3, <2>1, Enlisted
  <2>3. lock # <<>> => Head(Append(lock, c)) = Head(lock)
    <3>1. lock # <<>> => 1 \in 1..Len(lock)
      BY <1>1, <2>1, EmptySeq
    <3>2. \A i \in 1..Len(lock) : Append(lock, c)[i] = lock[i]
      BY <2>1, AppendProperties
    <3>3. Head(lock) = lock[1] /\ Head(Append(lock, c)) = Append(lock, c)[1]
      OBVIOUS
    <3>4. QED BY <3>1, <3>2, <3>3
  <2>4. QED BY <1>2, <2>2, <2>3
<1>5. TypeOK'
  BY <1>1, <1>2, <1>4 DEF TypeOK
<1>6. /\ pc'[c] = "enter" /\ result'[c] = "none"
      /\ \A d \in Callers : d # c => pc'[d] = pc[d] /\ result'[d] = result[d]
  BY <1>1, <1>2 DEF TypeOK
<1>7. LockOK'
  <2>1. ASSUME NEW d \in Callers
        PROVE  /\ pc'[d] # "idle" <=> d \in Elements(lock')
               /\ pc'[d] # "idle" => result'[d] = "none"
               /\ pc'[d] \in Busy => lock' # <<>> /\ d = Head(lock')
    BY <1>4, <1>6 DEF ClientInv, LockOK, Busy, Waits
  <2>2. QED BY <1>4, <2>1 DEF LockOK
<1>8. CommandsOK'
  <2>1. Written' => Written
    <3>1. lock # <<>> => Head(lock) \in Callers
      BY <1>1, HeadTailProperties DEF TypeOK
    <3>2. QED BY <1>4, <1>6, <3>1 DEF Written, Waits
  <2>2. Len(reply') + Len(lock') <= MaxCmd
    BY <1>1, <1>2, <1>4, AtAssumption
  <2>3. \A d \in Callers :
          /\ cmd'[d] <= Len(reply')
          /\ pc'[d] \in Waits \/ result'[d] \in {"EOK", "ERROR"} => cmd'[d] > 0
    BY <1>2, <1>6 DEF ClientInv, CommandsOK, Waits
  <2>4. QED BY <1>1, <1>2, <1>4, <2>2, <2>3, AtAssumption DEF CommandsOK
<1>9. RespOK'
  <2>1. resp # NULL => resp \in Callers /\ lock # <<>> /\ resp = Head(lock) /\ pc[resp] \in Busy
    BY <1>1 DEF ClientInv, RespOK, TypeOK
  <2>2. resp # NULL => resp # c
    BY <1>1, <2>1 DEF Busy, Waits
  <2>3. QED BY <1>2, <1>4, <1>6, <2>1, <2>2 DEF RespOK
<1>10. NoticeOK'
  <2>1. lock' = <<>> \/ pc'[Head(lock')] = "enter" => resp_notice' <= 1
    <3>1. CASE lock = <<>>
      BY <1>2, <3>1 DEF ClientInv, NoticeOK
    <3>2. CASE lock # <<>>
      <4>1. Head(lock) \in Elements(lock) /\ Head(lock) \in Callers
        BY <1>1, <1>3, <3>2, HeadLeaves DEF TypeOK
      <4>2. pc'[Head(lock')] = pc[Head(lock)]
        BY <1>3, <1>4, <1>6, <3>2, <4>1
      <4>3. QED BY <1>2, <1>4, <4>2 DEF ClientInv, NoticeOK
    <3>3. QED BY <3>1, <3>2
  <2>2. QED BY <1>2, <1>6, <2>1 DEF ClientInv, NoticeOK
<1>11. QED BY <1>5, <1>7, <1>8, <1>9, <1>10 DEF ClientInv

LEMMA BeginClient == ASSUME ClientInv, NEW c \in Callers, Begin(c) PROVE ClientInv'
<1>1. /\ TypeOK /\ pc[c] = "enter" /\ Head(lock) = c
      /\ lock # <<>>
  <2>1. TypeOK /\ pc[c] = "enter" /\ Head(lock) = c
    BY DEF ClientInv, Begin, Register
  <2>2. c \in Elements(lock)
    BY <2>1 DEF ClientInv, LockOK
  <2>3. QED BY <2>1, <2>2, EmptyList DEF TypeOK
<1>2. /\ resp' = c /\ resp_status' = "OK" /\ pc' = [pc EXCEPT ![c] = "write"]
      /\ UNCHANGED <<todo, reply, fifo, rx_notice, parser, resp_notice, lock, cmd, result, completed>>
      /\ lines' = [lines EXCEPT ![c] = <<>>]
      /\ clean' \in [Callers -> BOOLEAN]
  BY <1>1 DEF Begin, Register, Runs, modem, TypeOK
<1>3. TypeOK'
  <2>1. lines' \in [Callers -> Seq(Lines)]
    BY <1>1, <1>2, EmptySeq DEF TypeOK
  <2>2. QED BY <1>1, <1>2, <2>1 DEF TypeOK
<1>4. /\ pc'[c] = "write"
      /\ \A d \in Callers : d # c => pc'[d] = pc[d] /\ pc[d] \notin Busy
  <2>1. \A d \in Callers : pc[d] \in Busy => d = c
    BY <1>1 DEF ClientInv, LockOK
  <2>2. QED BY <1>1, <1>2, <2>1 DEF TypeOK
<1>5. LockOK'
  <2>1. ASSUME NEW d \in Callers
        PROVE  /\ pc'[d] # "idle" <=> d \in Elements(lock')
               /\ pc'[d] # "idle" => result'[d] = "none"
               /\ pc'[d] \in Busy => lock' # <<>> /\ d = Head(lock')
    BY <1>1, <1>2, <1>4 DEF ClientInv, LockOK
  <2>2. QED BY <1>2, <2>1 DEF ClientInv, LockOK
<1>6. CommandsOK'
  <2>1. ~Written /\ ~Written'
    BY <1>1, <1>2, <1>4 DEF Written, Waits
  <2>2. \A d \in Callers :
          /\ cmd'[d] <= Len(reply')
          /\ pc'[d] \in Waits \/ result'[d] \in {"EOK", "ERROR"} => cmd'[d] > 0
    BY <1>2, <1>4 DEF ClientInv, CommandsOK, Waits
  <2>3. QED BY <1>2, <2>1, <2>2 DEF ClientInv, CommandsOK
<1>7. RespOK'
  BY <1>1, <1>2, <1>4 DEF RespOK, Busy
<1>8. NoticeOK'
  <2>1. resp_notice <= 1
    BY <1>1 DEF ClientInv, NoticeOK
  <2>2. QED BY <1>1, <1>2, <1>4, <2>1 DEF NoticeOK, Busy, Waits
<1>9. QED BY <1>3, <1>5, <1>6, <1>7, <1>8 DEF ClientInv

LEMMA AnswerLines ==
    ASSUME NEW r \in Replies, NEW n \in 0..MaxCmd
    PROVE  /\ [i \in DOMAIN r |-> [cmd |-> n, kind |-> r[i]]] \in Seq(Lines)
           /\ Len([i \in DOMAIN r |-> [cmd |-> n, kind |-> r[i]]]) = Len(r)
<1>1. r \in Seq(Kinds) /\ Len(r) \in Nat /\ DOMAIN r = 1..Len(r)
  BY AtAssumption, LenProperties
<1>2. \A i \in 1..Len(r) : [cmd |-> n, kind |-> r[i]] \in Lines
  BY <1>1, ElementOfSeq DEF Lines
<1> DEFINE f == [i \in 1..Len(r) |-> [cmd |-> n, kind |-> r[i]]]
<1>3. f \in [1..Len(r) -> Lines]
  BY <1>2
<1> HIDE DEF f
<1>4. f \in Seq(Lines) /\ Len(f) = Len(r)
  BY <1>1, <1>3, FunctionIsSeq
<1>5. QED BY <1>1, <1>4 DEF f

LEMMA WriteClient == ASSUME ClientInv, NEW c \in Callers, Write(c) PROVE ClientInv'
<1>1. /\ TypeOK /\ pc[c] = "write" /\ Len(reply) \in Nat /\ Len(lock) \in Nat
  BY LenProperties DEF ClientInv, TypeOK, Write
<1>2. /\ lock # <<>> /\ c = Head(lock) /\ ~Written
      /\ \A d \in Callers : d # c => pc[d] \notin Busy
  <2>1. pc[c] \in Busy /\ pc[c] \notin Waits
    BY <1>1 DEF Busy, Waits
  <2>2. QED BY <2>1, AtHead
<1> DEFINE n == Len(reply) + 1
<1>3. PICK r \in Replies :
         /\ reply' = Append(reply, r) /\ cmd' = [cmd EXCEPT ![c] = n]
         /\ todo' = todo \o [i \in DOMAIN r |-> [cmd |-> n, kind |-> r[i]]]
  BY DEF Write
<1>4. /\ pc' = [pc EXCEPT ![c] = "take"]
      /\ UNCHANGED <<fifo, rx_notice, parser, resp, resp_status, resp_notice, lock, lines, result, clean, completed>>
  BY DEF Write, Runs, client
<1>5. Len(reply) + Len(lock) <= MaxCmd /\ Len(lock) >= 1
  <2>1. Len(lock) # 0
    BY <1>1, <1>2, EmptySeq DEF TypeOK
  <2>2. QED BY <1>1, <1>2, <2>1, AtAssumption DEF ClientInv, CommandsOK
<1>6. n \in 1..MaxCmd
  BY <1>1, <1>5, AtAssumption
<1>7. reply' \in Seq(Replies) /\ Len(reply') = n
  BY <1>1, <1>3, AppendProperties DEF TypeOK
<1>8. todo' \in Seq(Lines)
  <2>1. [i \in DOMAIN r |-> [cmd |-> n, kind |-> r[i]]] \in Seq(Lines)
    BY <1>6, AnswerLines
  <2>2. QED BY <1>1, <1>3, <2>1, ConcatProperties DEF TypeOK
<1> HIDE DEF n
<1>9. TypeOK'
  <2>1. pc' \in [Callers -> {"idle", "enter", "write", "take", "asleep", "expired", "woken"}]
    BY <1>1, <1>4 DEF TypeOK
  <2>2. n \in 0..MaxCmd
    BY <1>6, AtAssumption
  <2>3. cmd' \in [Callers -> 0..MaxCmd]
    BY <1>1, <1>3, <2>2 DEF TypeOK
  <2>4. Len(reply') <= MaxCmd
    BY <1>6, <1>7, AtAssumption
  <2>5. QED BY <1>1, <1>4, <1>7, <1>8, <2>1, <2>3, <2>4 DEF TypeOK
<1>10. /\ pc'[c] = "take" /\ cmd'[c] = n
       /\ \A d \in Callers : d # c => pc'[d] = pc[d] /\ cmd'[d] = cmd[d] /\ pc[d] \notin Busy
  BY <1>1, <1>2, <1>3, <1>4 DEF TypeOK
<1>11. LockOK'
  <2>1. ASSUME NEW d \in Callers
        PROVE  /\ pc'[d] # "idle" <=> d \in Elements(lock')
               /\ pc'[d] # "idle" => result'[d] = "none"
               /\ pc'[d] \in Busy => lock' # <<>> /\ d = Head(lock')
    BY <1>1, <1>2, <1>4, <1>10 DEF ClientInv, LockOK
  <2>2. QED BY <1>4, <2>1 DEF ClientInv, LockOK
<1>12. CommandsOK'
  <2>1. Written'
    BY <1>2, <1>4, <1>10 DEF Written, Waits
  <2>2. Len(reply') + Len(lock') <= MaxCmd + 1
    BY <1>1, <1>4, <1>5, <1>7, AtAssumption DEF n
  <2>3. ASSUME NEW d \in Callers
        PROVE  /\ cmd'[d] <= Len(reply')
               /\ pc'[d] \in Waits \/ result'[d] \in {"EOK", "ERROR"} => cmd'[d] > 0
    <3>1. CASE d = c
      BY <1>1, <1>6, <1>7, <1>10, <3>1
    <3>2. CASE d # c
      <4>1. cmd[d] <= Len(reply) /\ (pc[d] \in Waits \/ result[d] \in {"EOK", "ERROR"} => cmd[d] > 0)
        BY DEF ClientInv, CommandsOK
      <4>2. cmd[d] \in Int
        BY <1>1, AtAssumption DEF TypeOK
      <4>3. QED BY <1>1, <1>4, <1>7, <1>10, <3>2, <4>1, <4>2 DEF n
    <3>3. QED BY <3>1, <3>2
  <2>4. QED BY <2>1, <2>2, <2>3 DEF CommandsOK
<1>13. RespOK'
  BY <1>1, <1>2, <1>4, <1>10 DEF ClientInv, RespOK, TypeOK, Busy, Waits
<1>14. NoticeOK'
  BY <1>1, <1>2, <1>4, <1>10 DEF ClientInv, NoticeOK, Busy, Waits
<1>15. QED BY <1>9, <1>11, <1>12, <1>13, <1>14 DEF ClientInv

LEMMA TakeClient == ASSUME ClientInv, NEW c \in Callers, TakeResp(c) PROVE ClientInv'
<1>1. /\ TypeOK /\ pc[c] = "take"
      /\ pc[c] \in Busy /\ pc[c] \in Waits
  BY DEF ClientInv, TakeResp, Busy, Waits
<1>2. /\ \/ resp_notice > 0 /\ pc' = [pc EXCEPT ![c] = "woken"] /\ resp_notice' = resp_notice - 1
         \/ resp_notice = 0 /\ pc' = [pc EXCEPT ![c] = "asleep"] /\ resp_notice' = 0
      /\ UNCHANGED <<todo, reply, fifo, rx_notice, parser, resp, resp_status, lock, cmd, lines, result,
                     clean, completed>>
  <2>1. resp_notice \in 0..2
    BY <1>1 DEF TypeOK
  <2>2. resp_notice > 0 \/ resp_notice = 0
    BY <2>1
  <2>3. QED BY <2>1, <2>2 DEF TakeResp, Runs, modem, client
<1>3. resp_notice \in 0..2 /\ resp_notice' \in 0..2
  BY <1>1, <1>2 DEF TypeOK
<1>4. TypeOK'
  BY <1>1, <1>2, <1>3 DEF TypeOK
<1>5. /\ pc'[c] \in {"woken", "asleep"}
      /\ \A d \in Callers : d # c => pc'[d] = pc[d] /\ pc[d] \notin Busy
  BY <1>1, <1>2, AtHead DEF TypeOK
<1>6. LockOK' /\ CommandsOK'
  BY <1>1, <1>2, <1>4, <1>5, SameLock DEF Waits
<1>7. RespOK'
  BY <1>1, <1>2, <1>5 DEF ClientInv, RespOK, TypeOK, Busy, Waits
<1>8. NoticeOK'
  <2>1. lock # <<>> /\ c = Head(lock)
    BY <1>1, AtHead
  <2>2. IF resp = c THEN resp_notice <= 1 ELSE resp_notice >= 1
    BY <1>1 DEF ClientInv, NoticeOK
  <2>3. /\ pc'[c] = "woken" => resp_notice' <= IF resp' = c THEN 0 ELSE 1
        /\ pc'[c] = "asleep" => resp' = c /\ resp_notice' = 0
    <3>1. pc'[c] = "woken" => resp_notice' = resp_notice - 1
      BY <1>1, <1>2 DEF TypeOK
    <3>2. pc'[c] = "asleep" => resp_notice = 0 /\ resp_notice' = 0
      BY <1>1, <1>2 DEF TypeOK
    <3>3. QED BY <1>2, <1>3, <2>2, <3>1, <3>2
  <2>4. QED BY <1>2, <1>5, <2>1, <2>3 DEF NoticeOK, Busy, Waits
<1>9. QED BY <1>4, <1>6, <1>7, <1>8 DEF ClientInv

LEMMA ExpireClient == ASSUME ClientInv, NEW c \in Callers, Expire(c) PROVE ClientInv'
<1>1. /\ TypeOK /\ pc[c] = "asleep"
      /\ pc[c] \in Busy /\ pc[c] \in Waits
  BY DEF ClientInv, Expire, Busy, Waits
<1>2. /\ pc' = [pc EXCEPT ![c] = "expired"]
      /\ UNCHANGED <<todo, reply, fifo, rx_notice, parser, resp, resp_status, resp_notice, lock, cmd, lines,
                     result, clean, completed>>
  BY DEF Expire, modem, client
<1>3. TypeOK'
  BY <1>1, <1>2 DEF TypeOK
<1>4. /\ pc'[c] = "expired"
      /\ \A d \in Callers : d # c => pc'[d] = pc[d] /\ pc[d] \notin Busy
  BY <1>1, <1>2, AtHead DEF TypeOK
<1>5. LockOK' /\ CommandsOK'
  BY <1>1, <1>2, <1>3, <1>4, SameLock DEF Waits
<1>6. RespOK'
  BY <1>1, <1>2, <1>4 DEF ClientInv, RespOK, TypeOK, Busy, Waits
<1>7. NoticeOK'
  <2>1. lock # <<>> /\ c = Head(lock)
    BY <1>1, AtHead
  <2>2. QED BY <1>1, <1>2, <1>4, <2>1 DEF ClientInv, NoticeOK, Busy, Waits
<1>8. QED BY <1>3, <1>5, <1>6, <1>7 DEF ClientInv

LEMMA FinishClient == ASSUME ClientInv, NEW c \in Callers, Finish(c) PROVE ClientInv'
<1>1. /\ TypeOK /\ pc[c] \in {"expired", "woken"}
      /\ pc[c] \in Busy /\ pc[c] \in Waits
      /\ IsInjective(lock) /\ Len(lock) \in Nat
  BY LenProperties DEF ClientInv, LockOK, TypeOK, Finish, Return, Busy, Waits
<1>2. /\ resp' = NULL /\ lock' = Tail(lock)
      /\ resp_status' \in {"TIMEOUT", resp_status}
      /\ pc' = [pc EXCEPT ![c] = "idle"]
      /\ result' = [result EXCEPT ![c] = result'[c]]
      /\ result'[c] \in {"EOK", "ERROR", "ETIMEOUT"}
      /\ UNCHANGED <<todo, reply, fifo, rx_notice, parser, resp_notice, cmd, lines, clean, completed>>
  BY <1>1 DEF Finish, Return, Runs, modem, TypeOK
<1>3. /\ lock # <<>> /\ c = Head(lock) /\ Written
      /\ \A d \in Callers : d # c => pc[d] \notin Busy
  BY <1>1, AtHead
<1>4. /\ lock' \in Seq(Callers) /\ Len(lock') = Len(lock) - 1
      /\ Elements(lock') = Elements(lock) \ {c} /\ IsInjective(lock')
  BY <1>1, <1>2, <1>3, HeadLeaves DEF TypeOK
<1>5. TypeOK'
  BY <1>1, <1>2, <1>4 DEF TypeOK
<1>6. /\ pc'[c] = "idle"
      /\ \A d \in Callers : d # c => pc'[d] = pc[d] /\ result'[d] = result[d]
      /\ \A d \in Callers : pc'[d] \notin Busy
  BY <1>1, <1>2, <1>3 DEF TypeOK, Busy, Waits
<1>7. LockOK'
  <2>1. ASSUME NEW d \in Callers
        PROVE  /\ pc'[d] # "idle" <=> d \in Elements(lock')
               /\ pc'[d] # "idle" => result'[d] = "none"
    BY <1>4, <1>6 DEF ClientInv, LockOK
  <2>2. QED BY <1>4, <1>6, <2>1 DEF LockOK
<1>8. CommandsOK'
  <2>1. ~Written'
    <3>1. lock' # <<>> => Head(lock') \in Callers
      BY <1>4, HeadTailProperties
    <3>2. QED BY <1>6, <3>1 DEF Written, Busy
  <2>2. Len(reply') + Len(lock') <= MaxCmd
    <3>1. Len(reply) \in Nat
      BY <1>1, LenProperties DEF TypeOK
    <3>2. Len(reply) + Len(lock) <= MaxCmd + 1
      BY <1>3 DEF ClientInv, CommandsOK
    <3>3. QED BY <1>1, <1>2, <1>4, <3>1, <3>2, AtAssumption
  <2>3. \A d \in Callers :
          /\ cmd'[d] <= Len(reply')
          /\ pc'[d] \in Waits \/ result'[d] \in {"EOK", "ERROR"} => cmd'[d] > 0
    <3>1. cmd[c] > 0
      BY <1>1 DEF ClientInv, CommandsOK
    <3>2. QED BY <1>2, <1>6, <3>1 DEF ClientInv, CommandsOK, Busy
  <2>4. Len(reply') + Len(lock') <= MaxCmd + (IF Written' THEN 1 ELSE 0)
    <3>1. Len(reply') + Len(lock') \in Int
      BY <1>4, <1>5, LenProperties DEF TypeOK
    <3>2. QED BY <2>1, <2>2, <3>1, AtAssumption
  <2>5. QED BY <2>3, <2>4 DEF CommandsOK
<1>9. RespOK'
  BY <1>2 DEF RespOK
<1>10. NoticeOK'
  <2>1. resp_notice <= 1
    BY <1>1 DEF ClientInv, NoticeOK, TypeOK
  <2>2. QED BY <1>2, <1>6, <2>1 DEF NoticeOK, Busy, Waits
<1>11. QED BY <1>5, <1>7, <1>8, <1>9, <1>10 DEF ClientInv

LEMMA NextClient == ASSUME ClientInv, [Next]_vars PROVE ClientInv'
<1>1. CASE Answer \/ ReceiveUrc
  BY <1>1, AnswerClient, UrcClient
<1>2. CASE Parser \/ UNCHANGED vars
  BY <1>2, SilentClient, ParseClient DEF Parser
<1>3. ASSUME NEW c \in Callers, Enter(c) \/ Caller(c) \/ Expire(c) PROVE ClientInv'
  BY <1>3, EnterClient, BeginClient, WriteClient, TakeClient, FinishClient, ExpireClient DEF Caller
<1>4. QED BY <1>1, <1>2, <1>3 DEF Next

LEMMA ClientCorrect == Spec => []ClientInv
<1>1. ClientInv /\ [Next]_vars => ClientInv'
  BY NextClient
<1>2. QED BY <1>1, InitClient, PTL DEF Spec

(* The parser never writes into the response object of a call that is      *)
(* over, and the variables keep their types: at_obj_exec_cmd deregisters   *)
(* the object on every way out before it releases client->lock.            *)
THEOREM ResponseOwned == Spec => []RespOwned
<1>1. ClientInv => RespOwned
  BY DEF ClientInv, RespOwned, RespOK, Busy, Waits
<1>2. QED BY <1>1, ClientCorrect, PTL

-----------------------------------------------------------------------------
(* The length of a response.                                               *)
Real == [cmd : 0..MaxCmd, kind : Kinds]

(* h[i] is the length of the first i lines.                                *)
Measures(h, ls) ==
    /\ h \in [0..Len(ls) -> Nat]
    /\ h[0] = 0
    /\ \A i \in 1..Len(ls) : h[i] = h[i-1] + Size[ls[i].kind]

LEMMA LengthMeasured ==
    ASSUME NEW ls \in Seq(Real)
    PROVE  \E h : Measures(h, ls) /\ Length(ls) = h[Len(ls)]
<1> DEFINE n == Len(ls)
           A == Nat
           z == 0
           g == [i \in 1..n |-> [x \in A |-> x + Size[ls[i].kind]]]
           h == Iterate(A, n, z, g)
<1>1. n \in Nat /\ \A i \in 1..n : Size[ls[i].kind] \in Nat
  <2>1. \A i \in 1..n : ls[i] \in Real
    BY ElementOfSeq
  <2>2. QED BY <2>1, AtAssumption, LenProperties DEF Real
<1>2. z \in A /\ g \in [1..n -> [A -> A]]
  BY <1>1
<1>3. \A i \in 1..n, x \in Nat : g[i][x] = x + Size[ls[i].kind]
  BY <1>1
<1> HIDE DEF n, A, z, g
<1>4. h \in [0..n -> A] /\ h[0] = z
  BY <1>1, <1>2, Iteration
<1>5. ASSUME NEW i \in 1..n PROVE h[i] = g[i][h[i-1]]
  BY <1>1, <1>2, Iteration
<1> HIDE DEF h
<1>6. h \in [0..n -> Nat] /\ h[0] = 0
  BY <1>4 DEF A, z
<1>7. ASSUME NEW i \in 1..n PROVE h[i] = h[i-1] + Size[ls[i].kind]
  <2>1. h[i-1] \in Nat
    BY <1>1, <1>6
  <2>2. QED BY <1>3, <1>5, <2>1
<1>8. Measures(h, ls)
  BY <1>6, <1>7 DEF Measures, n
<1>9. h = [i \in 0..n |-> IF i = 0 THEN 0 ELSE h[i-1] + Size[ls[i].kind]]
  BY <1>1, <1>6, <1>7
<1> DEFINE d == CHOOSE f : f = [i \in 0..n |-> IF i = 0 THEN 0 ELSE f[i-1] + Size[ls[i].kind]]
<1>10. d = [i \in 0..n |-> IF i = 0 THEN 0 ELSE d[i-1] + Size[ls[i].kind]]
  BY <1>9
<1>11. Length(ls) = d[n]
  BY DEF Length, n
<1> HIDE DEF d
<1>12. d[0] = 0 /\ \A i \in 1..n : d[i] = d[i-1] + Size[ls[i].kind]
  BY <1>1, <1>10
<1> DEFINE S == {i \in 0..n : d[i] = h[i]}
<1>13. 0 \in S
  BY <1>1, <1>6, <1>12
<1>14. ASSUME NEW m \in 0..n-1, m \in S PROVE m + 1 \in S
  <2>1. m + 1 \in 1..n /\ (m + 1) - 1 = m
    BY <1>1
  <2>2. d[m+1] = d[m] + Size[ls[m+1].kind] /\ h[m+1] = h[m] + Size[ls[m+1].kind]
    BY <1>7, <1>12, <2>1
  <2>3. QED BY <1>14, <2>1, <2>2
<1>15. \A m \in 0..n : m \in S
  <2> HIDE DEF S
  <2>1. QED BY <1>1, <1>13, <1>14, IntervalInduction
<1>16. d[n] = h[n]
  BY <1>1, <1>15
<1>17. QED BY <1>8, <1>11, <1>16 DEF n

LEMMA MeasuresAgree ==
    ASSUME NEW ls \in Seq(Real), NEW h, NEW k, Measures(h, ls), Measures(k, ls)
    PROVE  h = k
<1> DEFINE n == Len(ls)
           S == {i \in 0..n : h[i] = k[i]}
<1>1. n \in Nat
  BY LenProperties
<1>2. 0 \in S
  BY <1>1 DEF Measures
<1>3. ASSUME NEW m \in 0..n-1, m \in S PROVE m + 1 \in S
  <2>1. m + 1 \in 1..n /\ (m + 1) - 1 = m
    BY <1>1
  <2>2. h[m+1] = h[m] + Size[ls[m+1].kind] /\ k[m+1] = k[m] + Size[ls[m+1].kind]
    BY <2>1 DEF Measures
  <2>3. QED BY <1>3, <2>1, <2>2
<1>4. \A m \in 0..n : m \in S
  <2> HIDE DEF S
  <2>1. QED BY <1>1, <1>2, <1>3, IntervalInduction
<1>5. QED BY <1>4 DEF Measures

(* What a call has stored of an answer, with the answer's next line, is    *)
(* not longer than the answer.                                             *)
LEMMA PrefixLength ==
    ASSUME NEW ls \in Seq(Real), NEW j \in 0..Len(ls)-1
    PROVE  Length(SubSeq(ls, 1, j)) + Size[ls[j+1].kind] <= Length(ls)
<1> DEFINE n == Len(ls)
           p == SubSeq(ls, 1, j)
<1>1. n \in Nat /\ j \in Nat /\ \A i \in 1..n : ls[i] \in Real
  BY LenProperties, ElementOfSeq
<1>2. \A i \in 1..n : Size[ls[i].kind] \in Nat
  BY <1>1, AtAssumption DEF Real
<1>3. p \in Seq(Real) /\ Len(p) = j /\ \A i \in 1..j : p[i] = ls[i]
  BY <1>1, SubSeqProperties
<1> HIDE DEF p
<1>4. PICK h : Measures(h, ls) /\ Length(ls) = h[n]
  BY LengthMeasured
<1>5. PICK k : Measures(k, p) /\ Length(p) = k[j]
  BY <1>3, LengthMeasured
<1> DEFINE c == [i \in 0..j |-> h[i]]
<1>6. Measures(c, p)
  <2>1. c \in [0..j -> Nat] /\ c[0] = 0
    BY <1>1, <1>4 DEF Measures
  <2>2. ASSUME NEW i \in 1..j PROVE c[i] = c[i-1] + Size[p[i].kind]
    <3>1. i \in 1..n /\ i \in 0..j /\ i - 1 \in 0..j /\ p[i] = ls[i]
      BY <1>1, <1>3
    <3>2. h[i] = h[i-1] + Size[ls[i].kind]
      BY <1>4, <3>1 DEF Measures
    <3>3. QED BY <3>1, <3>2
  <2> HIDE DEF c
  <2>3. QED BY <1>3, <2>1, <2>2 DEF Measures
<1>7. Length(p) = h[j]
  <2>1. c = k
    <3> HIDE DEF c
    <3>1. QED BY <1>3, <1>5, <1>6, MeasuresAgree
  <2>2. QED BY <1>1, <1>5, <2>1
<1> DEFINE S == {i \in 0..n : i > j => h[j+1] <= h[i]}
<1>8. 0 \in S
  BY <1>1
<1>9. ASSUME NEW m \in 0..n-1, m \in S PROVE m + 1 \in S
  <2>1. m + 1 \in 1..n /\ (m + 1) - 1 = m
    BY <1>1
  <2>2. h[m+1] = h[m] + Size[ls[m+1].kind] /\ h[m] \in Nat /\ h[m+1] \in Nat /\ h[j+1] \in Nat
    BY <1>1, <1>4, <2>1 DEF Measures
  <2>3. Size[ls[m+1].kind] \in Nat
    BY <1>2, <2>1
  <2>4. m + 1 > j => h[j+1] <= h[m+1]
    <3>1. h[m] <= h[m+1]
      BY <2>2, <2>3
    <3>2. CASE m = j
      BY <2>2, <3>2
    <3>3. CASE m > j
      <4>1. h[j+1] <= h[m]
        BY <1>9, <3>3
      <4>2. QED BY <2>2, <3>1, <4>1
    <3>4. m \in Nat /\ j \in Nat
      BY <1>1
    <3>5. QED BY <3>2, <3>3, <3>4
  <2>5. QED BY <2>1, <2>4
<1>10. \A m \in 0..n : m \in S
  <2> HIDE DEF S
  <2>1. QED BY <1>1, <1>8, <1>9, IntervalInduction
<1>11. h[j+1] = h[j] + Size[ls[j+1].kind]
  <2>1. j + 1 \in 1..n /\ (j + 1) - 1 = j
    BY <1>1
  <2>2. QED BY <1>4, <2>1 DEF Measures
<1>12. h[j+1] <= h[n]
  BY <1>1, <1>10
<1>13. QED BY <1>4, <1>7, <1>11, <1>12 DEF p

-----------------------------------------------------------------------------
(* AnswerInv.  The answer to a command stays what it is.                   *)
LEMMA OwnTyped ==
    ASSUME ClientInv, NEW c \in Callers, cmd[c] > 0
    PROVE  /\ cmd[c] \in 1..Len(reply) /\ reply[cmd[c]] \in Replies
           /\ OwnAnswer(c) \in Seq(Real)
           /\ Len(OwnAnswer(c)) = Len(reply[cmd[c]])
           /\ \A i \in 1..Len(OwnAnswer(c)) :
                 OwnAnswer(c)[i] = [cmd |-> cmd[c], kind |-> reply[cmd[c]][i]]
           /\ \A i \in 1..Len(OwnAnswer(c)) - 1 : OwnAnswer(c)[i].kind \notin Final
<1> DEFINE r == reply[cmd[c]]
           n == cmd[c]
<1>1. n \in 1..Len(reply) /\ n \in 0..MaxCmd
  <2>1. Len(reply) \in Nat /\ n \in 0..MaxCmd
    BY LenProperties DEF ClientInv, TypeOK
  <2>2. n <= Len(reply)
    BY DEF ClientInv, CommandsOK
  <2>3. QED BY <2>1, <2>2, AtAssumption
<1>2. r \in Replies /\ r \in Seq(Kinds)
  BY <1>1, ElementOfSeq, AtAssumption DEF ClientInv, TypeOK
<1>3. Len(r) \in Nat /\ DOMAIN r = 1..Len(r) /\ \A i \in 1..Len(r) : r[i] \in Kinds
  BY <1>2, LenProperties, ElementOfSeq
<1>4. OwnAnswer(c) = [i \in 1..Len(r) |-> [cmd |-> n, kind |-> r[i]]]
  BY <1>3 DEF OwnAnswer
<1> HIDE DEF r, n
<1>5. [i \in 1..Len(r) |-> [cmd |-> n, kind |-> r[i]]] \in [1..Len(r) -> Real]
  BY <1>1, <1>3 DEF Real
<1>6. OwnAnswer(c) \in Seq(Real) /\ Len(OwnAnswer(c)) = Len(r)
  <2>1. PICK f : f = OwnAnswer(c) /\ f \in [1..Len(r) -> Real]
    BY <1>4, <1>5
  <2>2. f \in Seq(Real) /\ Len(f) = Len(r)
    BY <1>3, <2>1, FunctionIsSeq
  <2>3. QED BY <2>1, <2>2
<1>7. \A i \in 1..Len(r) : OwnAnswer(c)[i] = [cmd |-> n, kind |-> r[i]]
  BY <1>3, <1>4
<1>8. \A i \in 1..Len(r) - 1 : OwnAnswer(c)[i].kind \notin Final
  <2>1. \A i \in 1..Len(r) - 1 : i \in 1..Len(r) /\ r[i] \notin Final
    BY <1>2, <1>3, AtAssumption
  <2>2. ASSUME NEW i \in 1..Len(r) - 1 PROVE OwnAnswer(c)[i].kind \notin Final
    <3>1. OwnAnswer(c)[i] = [cmd |-> n, kind |-> r[i]] /\ r[i] \notin Final
      BY <1>7, <2>1
    <3>2. QED BY <3>1
  <2>3. QED BY <2>2
<1>9. QED BY <1>1, <1>2, <1>6, <1>7, <1>8 DEF r, n

LEMMA OwnStable ==
    ASSUME ClientInv, NEW c \in Callers, cmd[c] > 0, cmd'[c] = cmd[c],
           UNCHANGED reply \/ \E r \in Replies : reply' = Append(reply, r)
    PROVE  OwnAnswer(c)' = OwnAnswer(c)
<1>1. cmd[c] \in 1..Len(reply)
  BY OwnTyped
<1>2. reply'[cmd[c]] = reply[cmd[c]]
  BY <1>1, AppendProperties DEF ClientInv, TypeOK
<1>3. QED BY <1>2 DEF OwnAnswer

(* Calls that are over keep what they got.                                 *)
LEMMA MatchesStable ==
    ASSUME NEW c \in Callers, OwnAnswer(c)' = OwnAnswer(c), cmd'[c] = cmd[c],
           lines'[c] = lines[c], result'[c] = result[c], Matches(c)
    PROVE  Matches(c)'
<1>1. PICK own : own = OwnAnswer(c) /\ own = OwnAnswer(c)'
  OBVIOUS
<1>2. /\ \A i \in DOMAIN lines[c] : lines[c][i].cmd = cmd[c]
      /\ Length(own) < BufSize => lines[c] = own
      /\ own # <<>>
      /\ result[c] = IF own[Len(own)].kind = "OK" THEN "EOK" ELSE "ERROR"
  BY <1>1 DEF Matches
<1>3. QED BY <1>1, <1>2 DEF Matches

LEMMA AnswersStable ==
    ASSUME ClientInv, AnswersMatch,
           UNCHANGED reply \/ \E r \in Replies : reply' = Append(reply, r),
           \A c \in Callers : clean'[c] /\ result'[c] \in {"EOK", "ERROR"} =>
               /\ clean[c] /\ result'[c] = result[c]
               /\ cmd'[c] = cmd[c] /\ lines'[c] = lines[c]
    PROVE  AnswersMatch'
<1>1. ASSUME NEW c \in Callers, clean'[c] /\ result'[c] \in {"EOK", "ERROR"} PROVE Matches(c)'
  <2>1. Matches(c) /\ cmd[c] > 0
    BY <1>1 DEF AnswersMatch, ClientInv, CommandsOK
  <2>2. QED BY <1>1, <2>1, OwnStable, MatchesStable
<1>2. QED BY <1>1 DEF AnswersMatch

(* A step that leaves the calls alone leaves their answers alone.          *)
LEMMA KeptStable ==
    ASSUME NEW c \in Callers, NEW j, Kept(c, j),
           OwnAnswer(c)' = OwnAnswer(c), cmd'[c] = cmd[c], lines'[c] = lines[c]
    PROVE  Kept(c, j)'
<1>1. PICK own : own = OwnAnswer(c) /\ own = OwnAnswer(c)'
  OBVIOUS
<1>2. Length(own) < BufSize => lines[c] = SubSeq(own, 1, j)
  BY <1>1 DEF Kept
<1>3. QED BY <1>1, <1>2 DEF Kept

LEMMA AnsweredStable ==
    ASSUME NEW c \in Callers, Answered(c), resp' = NULL, resp_status' = resp_status,
           OwnAnswer(c)' = OwnAnswer(c), cmd'[c] = cmd[c], lines'[c] = lines[c]
    PROVE  Answered(c)'
<1>1. PICK own : own = OwnAnswer(c) /\ own = OwnAnswer(c)'
  OBVIOUS
<1>2. PICK n : n = Len(own)
  OBVIOUS
<1>3. Kept(c, n)'
  BY <1>1, <1>2, KeptStable DEF Answered
<1>4. QED BY <1>1, <1>2, <1>3 DEF Answered

-----------------------------------------------------------------------------
(* The lines under way move on.                                            *)
LEMMA UnderWaySent ==
    ASSUME TypeOK, NEW own \in Seq(Real), NEW j, UnderWay(own, j), todo # <<>>,
           fifo' = Append(fifo, Head(todo)), todo' = Tail(todo)
    PROVE  UnderWay(own, j)'
<1> DEFINE n == Len(fifo)
           m == Len(own)
<1>1. PICK g \in [0..n -> 0..m] :
        /\ g[0] = j
        /\ \A i \in 1..n : \/ fifo[i] = Urc /\ g[i] = g[i-1]
                           \/ g[i] = g[i-1] + 1 /\ fifo[i] = own[g[i]]
        /\ Len(todo) = m - g[n]
        /\ \A i \in 1..Len(todo) : todo[i] = own[g[n] + i]
  BY DEF UnderWay
<1>2. /\ n \in Nat /\ m \in Nat /\ Len(todo) \in Nat \ {0} /\ g[n] \in 0..m
      /\ Head(todo) = todo[1] /\ todo[1] \in Lines
  <2>1. n \in Nat
    BY LenProperties DEF TypeOK
  <2>2. m \in Nat
    BY LenProperties
  <2>3. Len(todo) \in Nat \ {0}
    BY EmptySeq DEF TypeOK
  <2>4. Head(todo) = todo[1] /\ Head(todo) \in Lines
    BY HeadTailProperties DEF TypeOK
  <2>5. g[n] \in 0..m
    BY <1>1, <2>1
  <2>6. QED BY <2>1, <2>2, <2>3, <2>4, <2>5
<1>3. /\ Len(fifo') = n + 1 /\ \A i \in 1..n : fifo'[i] = fifo[i]
      /\ fifo'[n+1] = todo[1]
  BY <1>2, AppendProperties DEF TypeOK
<1>4. /\ Len(todo') = Len(todo) - 1
      /\ \A i \in 1..Len(todo') : todo'[i] = todo[i+1]
  BY HeadTailProperties DEF TypeOK
<1> HIDE DEF n, m
<1> DEFINE k == [i \in 0..n+1 |-> IF i = n+1 THEN g[n] + 1 ELSE g[i]]
<1>5. k \in [0..n+1 -> 0..m] /\ k[0] = j
  <2>1. g[n] + 1 \in 0..m
    BY <1>1, <1>2
  <2>2. QED BY <1>1, <1>2, <2>1
<1>6. ASSUME NEW i \in 1..n+1
      PROVE  \/ fifo'[i] = Urc /\ k[i] = k[i-1]
             \/ k[i] = k[i-1] + 1 /\ fifo'[i] = own[k[i]]
  <2>1. CASE i = n + 1
    <3>1. k[i] = g[n] + 1 /\ k[i-1] = g[n]
      BY <1>2, <2>1
    <3>2. todo[1] = own[g[n] + 1]
      BY <1>1, <1>2
    <3>3. QED BY <1>3, <2>1, <3>1, <3>2
  <2>2. CASE i # n + 1
    <3>1. i \in 1..n /\ k[i] = g[i] /\ k[i-1] = g[i-1]
      BY <1>2, <2>2
    <3>2. QED BY <1>1, <1>3, <3>1
  <2>3. QED BY <2>1, <2>2
<1>7. k[n+1] = g[n] + 1
  BY <1>2
<1> HIDE DEF k
<1>8. Len(todo') = m - k[n+1]
  BY <1>1, <1>2, <1>4, <1>7
<1>9. ASSUME NEW i \in 1..Len(todo') PROVE todo'[i] = own[k[n+1] + i]
  <2>1. i + 1 \in 1..Len(todo) /\ g[n] + (i + 1) = k[n+1] + i
    BY <1>2, <1>4, <1>7
  <2>2. QED BY <1>1, <1>4, <2>1
<1>10. PICK l : l = n+1
  OBVIOUS
<1>11. /\ Len(fifo') = l /\ k \in [0..l -> 0..Len(own)] /\ k[0] = j
       /\ \A i \in 1..l : \/ fifo'[i] = Urc /\ k[i] = k[i-1]
                          \/ k[i] = k[i-1] + 1 /\ fifo'[i] = own[k[i]]
       /\ Len(todo') = Len(own) - k[l]
       /\ \A i \in 1..Len(todo') : todo'[i] = own[k[l] + i]
  BY <1>3, <1>5, <1>6, <1>8, <1>9, <1>10 DEF m
<1>12. QED
  <2>1. PICK f, t : f = fifo' /\ t = todo'
    OBVIOUS
  <2>2. \E h \in [0..Len(f) -> 0..Len(own)] :
           /\ h[0] = j
           /\ \A i \in 1..Len(f) : \/ f[i] = Urc /\ h[i] = h[i-1]
                                   \/ h[i] = h[i-1] + 1 /\ f[i] = own[h[i]]
           /\ Len(t) = Len(own) - h[Len(f)]
           /\ \A i \in 1..Len(t) : t[i] = own[h[Len(f)] + i]
    <3>1. k \in [0..Len(f) -> 0..Len(own)] /\ k[0] = j
      BY <1>11, <2>1
    <3>2. \A i \in 1..Len(f) : \/ f[i] = Urc /\ k[i] = k[i-1]
                               \/ k[i] = k[i-1] + 1 /\ f[i] = own[k[i]]
      BY <1>11, <2>1
    <3>3. Len(f) = l
      BY <1>11, <2>1
    <3>4. Len(t) = Len(own) - k[Len(f)]
      BY <1>11, <2>1, <3>3
    <3>5. \A i \in 1..Len(t) : t[i] = own[k[Len(f)] + i]
      BY <1>11, <2>1, <3>3
    <3>6. QED BY <3>1, <3>2, <3>4, <3>5, Zenon
  <2>3. QED BY <2>1, <2>2 DEF UnderWay

LEMMA UnderWayUrc ==
    ASSUME TypeOK, NEW own \in Seq(Real), NEW j, UnderWay(own, j),
           fifo' = Append(fifo, Urc), todo' = todo
    PROVE  UnderWay(own, j)'
<1> DEFINE n == Len(fifo)
           m == Len(own)
<1>1. PICK g \in [0..n -> 0..m] :
        /\ g[0] = j
        /\ \A i \in 1..n : \/ fifo[i] = Urc /\ g[i] = g[i-1]
                           \/ g[i] = g[i-1] + 1 /\ fifo[i] = own[g[i]]
        /\ Len(todo) = m - g[n]
        /\ \A i \in 1..Len(todo) : todo[i] = own[g[n] + i]
  BY DEF UnderWay
<1>2. n \in Nat /\ m \in Nat /\ g[n] \in 0..m
  <2>1. n \in Nat
    BY LenProperties DEF TypeOK
  <2>2. m \in Nat
    BY LenProperties
  <2>3. g[n] \in 0..m
    BY <1>1, <2>1
  <2>4. QED BY <2>1, <2>2, <2>3
<1>3. /\ Len(fifo') = n + 1 /\ \A i \in 1..n : fifo'[i] = fifo[i]
      /\ fifo'[n+1] = Urc
  <2>1. Urc \in Lines
    BY AtAssumption DEF Urc, Lines
  <2>2. QED BY <2>1, AppendProperties DEF TypeOK
<1> HIDE DEF n, m
<1> DEFINE k == [i \in 0..n+1 |-> IF i = n+1 THEN g[n] ELSE g[i]]
<1>4. k \in [0..n+1 -> 0..m] /\ k[0] = j
  BY <1>1, <1>2
<1>5. ASSUME NEW i \in 1..n+1
      PROVE  \/ fifo'[i] = Urc /\ k[i] = k[i-1]
             \/ k[i] = k[i-1] + 1 /\ fifo'[i] = own[k[i]]
  <2>1. CASE i = n + 1
    BY <1>2, <1>3, <2>1
  <2>2. CASE i # n + 1
    <3>1. i \in 1..n /\ k[i] = g[i] /\ k[i-1] = g[i-1]
      BY <1>2, <2>2
    <3>2. QED BY <1>1, <1>3, <3>1
  <2>3. QED BY <2>1, <2>2
<1>6. k[n+1] = g[n]
  BY <1>2
<1> HIDE DEF k
<1>7. /\ Len(todo') = m - k[n+1]
      /\ \A i \in 1..Len(todo') : todo'[i] = own[k[n+1] + i]
  BY <1>1, <1>6
<1>8. PICK l : l = n+1
  OBVIOUS
<1>9. /\ Len(fifo') = l /\ k \in [0..l -> 0..Len(own)] /\ k[0] = j
      /\ \A i \in 1..l : \/ fifo'[i] = Urc /\ k[i] = k[i-1]
                         \/ k[i] = k[i-1] + 1 /\ fifo'[i] = own[k[i]]
      /\ Len(todo') = Len(own) - k[l]
      /\ \A i \in 1..Len(todo') : todo'[i] = own[k[l] + i]
  BY <1>3, <1>4, <1>5, <1>7, <1>8 DEF m
<1>10. QED
  <2>1. PICK f, t : f = fifo' /\ t = todo'
    OBVIOUS
  <2>2. \E h \in [0..Len(f) -> 0..Len(own)] :
           /\ h[0] = j
           /\ \A i \in 1..Len(f) : \/ f[i] = Urc /\ h[i] = h[i-1]
                                   \/ h[i] = h[i-1] + 1 /\ f[i] = own[h[i]]
           /\ Len(t) = Len(own) - h[Len(f)]
           /\ \A i \in 1..Len(t) : t[i] = own[h[Len(f)] + i]
    <3>1. k \in [0..Len(f) -> 0..Len(own)] /\ k[0] = j
      BY <1>9, <2>1
    <3>2. \A i \in 1..Len(f) : \/ f[i] = Urc /\ k[i] = k[i-1]
                               \/ k[i] = k[i-1] + 1 /\ f[i] = own[k[i]]
      BY <1>9, <2>1
    <3>3. Len(f) = l
      BY <1>9, <2>1
    <3>4. Len(t) = Len(own) - k[Len(f)]
      BY <1>9, <2>1, <3>3
    <3>5. \A i \in 1..Len(t) : t[i] = own[k[Len(f)] + i]
      BY <1>9, <2>1, <3>3
    <3>6. QED BY <3>1, <3>2, <3>4, <3>5, Zenon
  <2>3. QED BY <2>1, <2>2 DEF UnderWay

(* The parser reads the first of them, or a URC before it.                 *)
LEMMA UnderWayRead ==
    ASSUME TypeOK, NEW own \in Seq(Real), NEW j \in 0..Len(own), UnderWay(own, j), fifo # <<>>,
           fifo' = Tail(fifo), todo' = todo
    PROVE  \/ Head(fifo) = Urc /\ UnderWay(own, j)'
           \/ /\ j < Len(own) /\ Head(fifo) = own[j+1]
              /\ UnderWay(own, j + 1)'
<1> DEFINE n == Len(fifo)
           m == Len(own)
<1>1. PICK g \in [0..n -> 0..m] :
        /\ g[0] = j
        /\ \A i \in 1..n : \/ fifo[i] = Urc /\ g[i] = g[i-1]
                           \/ g[i] = g[i-1] + 1 /\ fifo[i] = own[g[i]]
        /\ Len(todo) = m - g[n]
        /\ \A i \in 1..Len(todo) : todo[i] = own[g[n] + i]
  BY DEF UnderWay
<1>2. n \in Nat \ {0} /\ m \in Nat /\ Head(fifo) = fifo[1]
  BY LenProperties, EmptySeq DEF TypeOK
<1>3. Len(fifo') = n - 1 /\ \A i \in 1..n-1 : fifo'[i] = fifo[i+1]
  BY HeadTailProperties DEF TypeOK
<1> HIDE DEF n, m
<1>4. 1 \in 1..n /\ 1 \in 0..n /\ g[1] \in 0..m
  BY <1>1, <1>2
<1>5. PICK e : e = g[1]
  OBVIOUS
<1>6. \/ fifo[1] = Urc /\ e = j
      \/ e = j + 1 /\ fifo[1] = own[e]
  <2>1. g[1-1] = j
    BY <1>1
  <2>2. QED BY <1>1, <1>4, <1>5, <2>1
<1> DEFINE k == [i \in 0..n-1 |-> g[i+1]]
<1>7. k \in [0..n-1 -> 0..m] /\ k[0] = e /\ k[n-1] = g[n]
  BY <1>1, <1>2, <1>5
<1>8. ASSUME NEW i \in 1..n-1
      PROVE  \/ fifo'[i] = Urc /\ k[i] = k[i-1]
             \/ k[i] = k[i-1] + 1 /\ fifo'[i] = own[k[i]]
  <2>1. i + 1 \in 1..n /\ k[i] = g[i+1] /\ k[i-1] = g[(i+1)-1]
    BY <1>2
  <2>2. \/ fifo[i+1] = Urc /\ g[i+1] = g[(i+1)-1]
        \/ g[i+1] = g[(i+1)-1] + 1 /\ fifo[i+1] = own[g[i+1]]
    BY <1>1, <2>1
  <2>3. QED BY <1>3, <2>1, <2>2
<1> HIDE DEF k
<1>9. /\ Len(todo') = m - k[n-1]
      /\ \A i \in 1..Len(todo') : todo'[i] = own[k[n-1] + i]
  BY <1>1, <1>7
<1>10. PICK l : l = n-1
  OBVIOUS
<1>11. /\ Len(fifo') = l /\ k \in [0..l -> 0..Len(own)] /\ k[0] = e
       /\ \A i \in 1..l : \/ fifo'[i] = Urc /\ k[i] = k[i-1]
                          \/ k[i] = k[i-1] + 1 /\ fifo'[i] = own[k[i]]
       /\ Len(todo') = Len(own) - k[l]
       /\ \A i \in 1..Len(todo') : todo'[i] = own[k[l] + i]
  BY <1>3, <1>7, <1>8, <1>9, <1>10 DEF m
<1>12. UnderWay(own, e)'
  <2>1. PICK f, t : f = fifo' /\ t = todo'
    OBVIOUS
  <2>2. \E h \in [0..Len(f) -> 0..Len(own)] :
           /\ h[0] = e
           /\ \A i \in 1..Len(f) : \/ f[i] = Urc /\ h[i] = h[i-1]
                                   \/ h[i] = h[i-1] + 1 /\ f[i] = own[h[i]]
           /\ Len(t) = Len(own) - h[Len(f)]
           /\ \A i \in 1..Len(t) : t[i] = own[h[Len(f)] + i]
    <3>1. k \in [0..Len(f) -> 0..Len(own)] /\ k[0] = e
      BY <1>11, <2>1
    <3>2. \A i \in 1..Len(f) : \/ f[i] = Urc /\ k[i] = k[i-1]
                               \/ k[i] = k[i-1] + 1 /\ f[i] = own[k[i]]
      BY <1>11, <2>1
    <3>3. Len(f) = l
      BY <1>11, <2>1
    <3>4. Len(t) = Len(own) - k[Len(f)]
      BY <1>11, <2>1, <3>3
    <3>5. \A i \in 1..Len(t) : t[i] = own[k[Len(f)] + i]
      BY <1>11, <2>1, <3>3
    <3>6. QED BY <3>1, <3>2, <3>4, <3>5, Zenon
  <2>3. QED BY <2>1, <2>2 DEF UnderWay
<1>13. CASE fifo[1] = Urc /\ e = j
  BY <1>2, <1>12, <1>13
<1>14. CASE e = j + 1 /\ fifo[1] = own[e]
  <2>1. e \in 0..m
    BY <1>4, <1>5
  <2>2. j < m
    BY <1>2, <1>14, <2>1
  <2>3. QED BY <1>2, <1>12, <1>14, <2>2 DEF m
<1>15. QED BY <1>6, <1>13, <1>14

-----------------------------------------------------------------------------
(* A call in progress while the modem and the parser go on: its own answer *)
(* is the lines under way.                                                 *)
LEMMA CleanWaits ==
    ASSUME ClientInv, CleanOK, NEW c \in Callers, clean[c], pc[c] \in Waits
    PROVE  /\ Waiting(c) \/ Answered(c)
           /\ cmd[c] > 0 /\ OwnAnswer(c) \in Seq(Real)
BY OwnTyped DEF ClientInv, CommandsOK, CleanOK

LEMMA WaitingStable ==
    ASSUME ClientInv, NEW c \in Callers, Waiting(c), cmd[c] > 0,
           UNCHANGED <<resp, resp_notice, reply>>, pc'[c] # "woken",
           cmd'[c] = cmd[c], lines'[c] = lines[c],
           \A own \in Seq(Real) : \A j \in 0..Len(own) : UnderWay(own, j) => UnderWay(own, j)'
    PROVE  Waiting(c)'
<1>1. PICK own : own = OwnAnswer(c) /\ own = OwnAnswer(c)'
  BY OwnStable
<1>2. own \in Seq(Real)
  BY <1>1, OwnTyped
<1>3. PICK j \in 0..Len(own) :
         /\ UnderWay(own, j)
         /\ \A i \in 1..j : own[i].kind \notin Final
         /\ Kept(c, j)
  BY <1>1 DEF Waiting
<1>4. UnderWay(own, j)' /\ Kept(c, j)'
  BY <1>1, <1>2, <1>3, KeptStable
<1>5. resp' = c /\ resp_notice' = 0 /\ pc'[c] # "woken"
  BY DEF Waiting
<1>6. QED BY <1>1, <1>3, <1>4, <1>5 DEF Waiting

(* A step of the modem, or of the parser where it reads no line.           *)
LEMMA QuietAnswers ==
    ASSUME ClientInv, AnswerInv, UNCHANGED <<client, resp_notice, calls, reply>>,
           \A own \in Seq(Real) : \A j \in 0..Len(own) : UnderWay(own, j) => UnderWay(own, j)',
           \A c \in Callers : Fresh(c) => Fresh(c)'
    PROVE  AnswerInv'
<1>1. AnswersMatch'
  BY AnswersStable DEF AnswerInv, calls
<1>2. ASSUME NEW c \in Callers, clean'[c]
      PROVE  /\ pc'[c] = "write" => Fresh(c)'
             /\ pc'[c] \in Waits => Waiting(c)' \/ Answered(c)'
  <2>1. clean[c] /\ pc'[c] = pc[c]
    BY <1>2 DEF calls
  <2>2. CASE pc[c] = "write"
    BY <2>1, <2>2 DEF AnswerInv, CleanOK, Waits
  <2>3. CASE pc[c] \in Waits
    <3>1. (Waiting(c) \/ Answered(c)) /\ cmd[c] > 0
      BY <2>1, <2>3, CleanWaits DEF AnswerInv
    <3>2. ASSUME Waiting(c) PROVE Waiting(c)'
      <4>1. pc'[c] # "woken" /\ cmd'[c] = cmd[c] /\ lines'[c] = lines[c]
        BY <3>2 DEF Waiting, calls
      <4>2. UNCHANGED <<resp, resp_notice, reply>>
        BY DEF client
      <4>3. QED BY <3>1, <3>2, <4>1, <4>2, WaitingStable
    <3>3. ASSUME Answered(c) PROVE Answered(c)'
      <4>1. OwnAnswer(c)' = OwnAnswer(c)
        BY <3>1, OwnStable DEF calls
      <4>2. resp' = NULL
        BY <3>3 DEF Answered, client
      <4>3. QED BY <3>3, <4>1, <4>2, AnsweredStable DEF client, calls
    <3>4. QED BY <2>1, <2>3, <3>1, <3>2, <3>3 DEF Waits
  <2>4. QED BY <2>1, <2>2, <2>3 DEF Waits
<1>3. QED BY <1>1, <1>2 DEF AnswerInv, CleanOK

LEMMA AnswerAnswers == ASSUME ClientInv, AnswerInv, Answer PROVE AnswerInv'
<1>1. /\ UNCHANGED <<client, resp_notice, calls, reply>>
      /\ todo # <<>> /\ fifo' = Append(fifo, Head(todo)) /\ todo' = Tail(todo)
      /\ TypeOK
  BY DEF Answer, Receive, ClientInv
<1>2. \A own \in Seq(Real) : \A j \in 0..Len(own) : UnderWay(own, j) => UnderWay(own, j)'
  BY <1>1, UnderWaySent
<1>3. \A c \in Callers : Fresh(c) => Fresh(c)'
  BY <1>1 DEF Fresh
<1>4. QED BY <1>1, <1>2, <1>3, QuietAnswers

LEMMA UrcAnswers == ASSUME ClientInv, AnswerInv, ReceiveUrc PROVE AnswerInv'
<1>1. /\ UNCHANGED <<client, resp_notice, calls, reply>>
      /\ fifo' = Append(fifo, Urc) /\ todo' = todo
      /\ TypeOK
  BY DEF ReceiveUrc, Receive, ClientInv, modem
<1>2. \A own \in Seq(Real) : \A j \in 0..Len(own) : UnderWay(own, j) => UnderWay(own, j)'
  BY <1>1, UnderWayUrc
<1>3. ASSUME NEW c \in Callers, Fresh(c) PROVE Fresh(c)'
  <2>1. /\ Len(fifo') = Len(fifo) + 1 /\ Len(fifo) \in Nat
        /\ \A i \in 1..Len(fifo) : fifo'[i] = fifo[i]
        /\ fifo'[Len(fifo)+1] = Urc
    <3>1. Urc \in Lines
      BY AtAssumption DEF Urc, Lines
    <3>2. QED BY <1>1, <3>1, AppendProperties, LenProperties DEF TypeOK
  <2>2. \A i \in 1..Len(fifo') : fifo'[i] = Urc
    BY <1>3, <2>1 DEF Fresh
  <2>3. resp' = c /\ resp_notice' = 0 /\ lines'[c] = <<>> /\ todo' = <<>>
    BY <1>1, <1>3 DEF Fresh, client, calls
  <2>4. QED BY <2>2, <2>3 DEF Fresh
<1>4. QED BY <1>1, <1>2, <1>3, QuietAnswers

LEMMA SilentAnswers ==
    ASSUME ClientInv, AnswerInv, ReadNothing \/ ResetNotice \/ TakeNotice \/ UNCHANGED vars
    PROVE  AnswerInv'
<1>1. UNCHANGED <<client, resp_notice, calls, reply>> /\ UNCHANGED <<fifo, todo>>
  BY DEF ReadNothing, ResetNotice, TakeNotice, vars, modem
<1>2. ASSUME NEW own \in Seq(Real), NEW j \in 0..Len(own), UnderWay(own, j)
      PROVE  UnderWay(own, j)'
  BY <1>1, <1>2 DEF UnderWay
<1>3. \A c \in Callers : Fresh(c) => Fresh(c)'
  BY <1>1 DEF Fresh, client, calls
<1>4. QED BY <1>1, <1>2, <1>3, QuietAnswers

(* The parser reads a line and drops it.                                   *)
LEMMA DropAnswers ==
    ASSUME ClientInv, AnswerInv, fifo # <<>>, fifo' = Tail(fifo),
           resp = NULL \/ Head(fifo).kind = "urc",
           UNCHANGED <<modem, client, resp_notice, calls>>
    PROVE  AnswerInv'
<1>1. TypeOK /\ UNCHANGED <<todo, reply>>
  BY DEF ClientInv, modem
<1>2. /\ Len(fifo) \in Nat \ {0} /\ Head(fifo) = fifo[1]
      /\ Len(fifo') = Len(fifo) - 1 /\ \A i \in 1..Len(fifo') : fifo'[i] = fifo[i+1]
  BY <1>1, EmptySeq, HeadTailProperties DEF TypeOK
<1>3. ASSUME NEW c \in Callers, Fresh(c) PROVE Fresh(c)'
  <2>1. \A i \in 1..Len(fifo') : fifo'[i] = Urc
    BY <1>2, <1>3 DEF Fresh
  <2>2. resp' = c /\ resp_notice' = 0 /\ lines'[c] = <<>> /\ todo' = <<>>
    BY <1>1, <1>3 DEF Fresh, client, calls
  <2>3. QED BY <2>1, <2>2 DEF Fresh
<1>4. ASSUME NEW c \in Callers, Waiting(c), cmd[c] > 0 PROVE Waiting(c)'
  <2>1. PICK own : own = OwnAnswer(c) /\ own = OwnAnswer(c)'
    BY <1>1, <1>4, OwnStable DEF calls
  <2>2. own \in Seq(Real)
    BY <1>4, <2>1, OwnTyped
  <2>3. PICK j \in 0..Len(own) :
           /\ UnderWay(own, j)
           /\ \A i \in 1..j : own[i].kind \notin Final
           /\ Kept(c, j)
    BY <1>4, <2>1 DEF Waiting
  <2>4. Head(fifo).kind = "urc"
    BY <1>4, AtAssumption DEF Waiting
  <2>5. UnderWay(own, j)'
    <3>1. \/ UnderWay(own, j)'
          \/ j < Len(own) /\ Head(fifo) = own[j+1]
      BY <1>1, <2>2, <2>3, UnderWayRead
    <3>2. j < Len(own) => own[j+1].kind # "urc"
      <4>1. Len(own) \in Nat
        BY <2>2, LenProperties
      <4>2. j < Len(own) => own[j+1] \in Real
        BY <2>2, <4>1, ElementOfSeq
      <4>3. QED BY <4>2 DEF Real, Kinds, Final
    <3>3. QED BY <2>4, <3>1, <3>2
  <2>6. Kept(c, j)'
    BY <2>1, <2>3, KeptStable DEF calls
  <2>7. resp' = c /\ resp_notice' = 0 /\ pc'[c] # "woken"
    BY <1>4 DEF Waiting, client, calls
  <2>8. QED BY <2>1, <2>3, <2>5, <2>6, <2>7 DEF Waiting
<1>5. AnswersMatch'
  BY <1>1, AnswersStable DEF AnswerInv, calls
<1>6. ASSUME NEW c \in Callers, clean'[c]
      PROVE  /\ pc'[c] = "write" => Fresh(c)'
             /\ pc'[c] \in Waits => Waiting(c)' \/ Answered(c)'
  <2>1. clean[c] /\ pc'[c] = pc[c]
    BY <1>6 DEF calls
  <2>2. CASE pc[c] = "write"
    BY <1>3, <2>1, <2>2 DEF AnswerInv, CleanOK, Waits
  <2>3. CASE pc[c] \in Waits
    <3>1. (Waiting(c) \/ Answered(c)) /\ cmd[c] > 0
      BY <2>1, <2>3, CleanWaits DEF AnswerInv
    <3>2. ASSUME Waiting(c) PROVE Waiting(c)'
      BY <1>4, <3>1, <3>2
    <3>3. ASSUME Answered(c) PROVE Answered(c)'
      <4>1. OwnAnswer(c)' = OwnAnswer(c)
        BY <1>1, <3>1, OwnStable DEF calls
      <4>2. resp' = NULL
        BY <3>3 DEF Answered, client
      <4>3. QED BY <3>3, <4>1, <4>2, AnsweredStable DEF client, calls
    <3>4. QED BY <2>1, <2>3, <3>1, <3>2, <3>3 DEF Waits
  <2>4. QED BY <2>1, <2>2, <2>3 DEF Waits
<1>7. QED BY <1>5, <1>6 DEF AnswerInv, CleanOK

(* The next line of an answer that fits in the buffer fits beside those    *)
(* before it, so the parser keeps it.                                      *)
LEMMA NextLineKept ==
    ASSUME ClientInv, NEW c \in Callers, cmd[c] > 0, NEW own \in Seq(Real), own = OwnAnswer(c),
           NEW j \in 0..Len(own)-1, Kept(c, j), StoreLine(c, own[j+1]),
           OwnAnswer(c)' = own
    PROVE  Kept(c, j + 1)'
<1> DEFINE line == own[j+1]
<1>1. /\ TypeOK /\ lines[c] \in Seq(Lines) /\ Len(lines[c]) \in Nat
      /\ Len(own) \in Nat /\ line \in Real /\ line.cmd = cmd[c]
  <2>1. TypeOK /\ lines[c] \in Seq(Lines)
    BY DEF ClientInv, TypeOK
  <2>2. Len(own) \in Nat /\ j + 1 \in 1..Len(own)
    BY LenProperties
  <2>3. line \in Real /\ line.cmd = cmd[c]
    <3>1. line \in Real
      BY <2>2, ElementOfSeq
    <3>2. line = [cmd |-> cmd[c], kind |-> reply[cmd[c]][j+1]]
      BY <2>2, OwnTyped
    <3>3. QED BY <3>1, <3>2
  <2>4. QED BY <2>1, <2>2, <2>3, LenProperties
<1>2. \/ lines'[c] = lines[c]
      \/ lines'[c] = Append(lines[c], line)
  BY <1>1 DEF StoreLine, TypeOK
<1>3. \A i \in 1..Len(lines'[c]) : lines'[c][i].cmd = cmd'[c]
  <2>1. cmd' = cmd /\ \A i \in 1..Len(lines[c]) : lines[c][i].cmd = cmd[c]
    BY DEF StoreLine, Kept
  <2>2. CASE lines'[c] = lines[c]
    BY <2>1, <2>2
  <2>3. CASE lines'[c] = Append(lines[c], line)
    <3>1. line \in Lines
      BY <1>1 DEF Real, Lines
    <3>2. /\ Len(Append(lines[c], line)) = Len(lines[c]) + 1
          /\ \A i \in 1..Len(lines[c]) : Append(lines[c], line)[i] = lines[c][i]
          /\ Append(lines[c], line)[Len(lines[c])+1] = line
      BY <1>1, <3>1, AppendProperties
    <3> HIDE DEF line
    <3>3. QED BY <1>1, <2>1, <2>3, <3>2
  <2>4. QED BY <1>2, <2>2, <2>3
<1>4. ASSUME Length(own) < BufSize PROVE lines'[c] = SubSeq(own, 1, j + 1)
  <2>1. lines[c] = SubSeq(own, 1, j)
    BY <1>4 DEF Kept
  <2>2. Length(lines[c]) + Size[line.kind] <= Length(own)
    BY <2>1, PrefixLength
  <2>3. Length(lines[c]) + Size[line.kind] < BufSize
    <3>1. \E h : Measures(h, own) /\ Length(own) = h[Len(own)]
      BY LengthMeasured
    <3>2. Length(own) \in Nat
      BY <1>1, <3>1 DEF Measures
    <3>3. lines[c] \in Seq(Real)
      <4>1. \A i \in 1..j : own[i] \in Real
        BY <1>1, ElementOfSeq
      <4>2. QED BY <2>1, <4>1, SubSeqProperties
    <3>4. \E h : Measures(h, lines[c]) /\ Length(lines[c]) = h[Len(lines[c])]
      BY <3>3, LengthMeasured
    <3>5. Length(lines[c]) \in Nat
      BY <1>1, <3>4 DEF Measures
    <3>6. Size[line.kind] \in Nat
      BY <1>1, AtAssumption DEF Real
    <3>7. QED BY <1>4, <2>2, <3>2, <3>5, <3>6, AtAssumption
  <2>4. lines'[c] = Append(SubSeq(own, 1, j), line)
    BY <1>1, <2>1, <2>3 DEF StoreLine, TypeOK
  <2>5. Append(SubSeq(own, 1, j), own[j+1]) = SubSeq(own, 1, j + 1)
    <3>1. \A i \in 1..j+1 : own[i] \in Real
      BY <1>1, ElementOfSeq
    <3>2. /\ SubSeq(own, 1, j) \in Seq(Real) /\ Len(SubSeq(own, 1, j)) = j
          /\ \A i \in 1..j : SubSeq(own, 1, j)[i] = own[i]
      BY <1>1, <3>1, SubSeqProperties
    <3>3. /\ SubSeq(own, 1, j + 1) \in Seq(Real) /\ Len(SubSeq(own, 1, j + 1)) = j + 1
          /\ \A i \in 1..j+1 : SubSeq(own, 1, j + 1)[i] = own[i]
      BY <1>1, <3>1, SubSeqProperties
    <3>4. /\ Append(SubSeq(own, 1, j), own[j+1]) \in Seq(Real)
          /\ Len(Append(SubSeq(own, 1, j), own[j+1])) = j + 1
          /\ \A i \in 1..j : Append(SubSeq(own, 1, j), own[j+1])[i] = SubSeq(own, 1, j)[i]
          /\ Append(SubSeq(own, 1, j), own[j+1])[j+1] = own[j+1]
      BY <1>1, <3>2, AppendProperties
    <3>5. QED BY <3>2, <3>3, <3>4, SeqEqual
  <2>6. QED BY <2>4, <2>5
<1>5. QED BY <1>3, <1>4 DEF Kept

(* The parser stores a line: if the call is a clean one, the next line of  *)
(* its answer, and it has the answer when the line is final.               *)
LEMMA StoreAnswers ==
    ASSUME ClientInv, AnswerInv, fifo # <<>>, fifo' = Tail(fifo),
           resp # NULL, Head(fifo).kind # "urc", StoreLine(resp, Head(fifo)),
           UNCHANGED modem
    PROVE  AnswerInv'
<1>0. PICK c, line : c = resp /\ line = Head(fifo) /\ StoreLine(c, line)
  OBVIOUS
<1>1. /\ c \in Callers /\ TypeOK /\ pc[c] \in Busy
      /\ \A d \in Callers : pc[d] \in Busy => d = c
      /\ result[c] = "none"
  <2>1. c \in Callers /\ TypeOK /\ pc[c] \in Busy
    BY <1>0 DEF ClientInv, TypeOK, RespOK
  <2>2. result[c] = "none"
    BY <2>1 DEF ClientInv, LockOK, Busy, Waits
  <2>3. QED BY <2>1, <2>2, AtHead
<1>2. /\ UNCHANGED <<todo, reply, cmd, result, clean>>
      /\ \A d \in Callers : d # c => lines'[d] = lines[d]
      /\ \A d \in Callers : d # c => pc'[d] = pc[d]
      /\ pc'[c] = pc[c] \/ (pc[c] = "asleep" /\ pc'[c] = "woken")
  BY <1>0, <1>1 DEF StoreLine, EndResponse, TypeOK, modem
<1>3. AnswersMatch'
  BY <1>1, <1>2, AnswersStable DEF AnswerInv
<1>4. /\ Len(fifo) \in Nat \ {0} /\ line = fifo[1] /\ line # Urc
  BY <1>0, <1>1, EmptySeq DEF TypeOK, Urc
<1>5. ASSUME clean[c]
      PROVE  pc'[c] \in Waits /\ (Waiting(c)' \/ Answered(c)')
  <2>1. pc[c] \in Waits
    <3>1. ~Fresh(c)
      BY <1>4 DEF Fresh
    <3>2. QED BY <1>1, <1>5, <3>1 DEF AnswerInv, CleanOK, Busy
  <2>2. Waiting(c) /\ cmd[c] > 0
    BY <1>0, <1>1, <1>5, <2>1, CleanWaits DEF AnswerInv, Answered
  <2>3. PICK own : own = OwnAnswer(c) /\ own = OwnAnswer(c)'
    BY <1>1, <1>2, <2>2, OwnStable
  <2>4. own \in Seq(Real) /\ Len(own) \in Nat
        /\ \A i \in 1..Len(own) - 1 : own[i].kind \notin Final
    BY <1>1, <2>2, <2>3, OwnTyped, LenProperties
  <2>5. PICK j \in 0..Len(own) :
           /\ UnderWay(own, j)
           /\ \A i \in 1..j : own[i].kind \notin Final
           /\ Kept(c, j)
    BY <2>2, <2>3 DEF Waiting
  <2>6. j < Len(own) /\ line = own[j+1] /\ UnderWay(own, j + 1)'
    BY <1>0, <1>1, <1>2, <1>4, <2>4, <2>5, UnderWayRead
  <2>7. j \in 0..Len(own)-1 /\ j + 1 \in 0..Len(own)
    BY <2>4, <2>6
  <2>8. PICK k : k = j + 1
    OBVIOUS
  <2>9. Kept(c, k)'
    BY <1>0, <1>1, <2>2, <2>3, <2>4, <2>5, <2>6, <2>7, <2>8, NextLineKept
  <2>10. CASE line.kind \in Final
    <3>1. k = Len(own) /\ own # <<>>
      <4>1. ~(j + 1 \in 1..Len(own)-1)
        BY <2>4, <2>6, <2>10
      <4>2. own # <<>>
        BY <2>6, <2>7, EmptySeq
      <4>3. QED BY <2>4, <2>7, <2>8, <4>1, <4>2
    <3>2. resp' = NULL /\ resp_status' = line.kind /\ line = own[k]
      BY <1>0, <2>6, <2>8, <2>10 DEF StoreLine, EndResponse
    <3>3. Answered(c)'
      BY <2>3, <2>9, <2>10, <3>1, <3>2 DEF Answered
    <3>4. QED BY <1>2, <2>1, <3>3 DEF Waits
  <2>11. CASE line.kind \notin Final
    <3>1. UNCHANGED <<resp, pc, resp_notice>>
      BY <1>0, <2>11 DEF StoreLine
    <3>2. resp' = c /\ resp_notice' = 0 /\ pc'[c] # "woken"
      BY <2>2, <3>1 DEF Waiting
    <3>3. UnderWay(own, k)' /\ k \in 0..Len(own)
      BY <2>6, <2>7, <2>8
    <3>4. \A i \in 1..k : own[i].kind \notin Final
      BY <2>5, <2>6, <2>7, <2>8, <2>11
    <3>5. Waiting(c)'
      BY <2>3, <2>9, <3>2, <3>3, <3>4 DEF Waiting
    <3>6. QED BY <2>1, <3>1, <3>5
  <2>12. QED BY <2>10, <2>11
<1>6. ASSUME NEW d \in Callers, clean'[d]
      PROVE  /\ pc'[d] = "write" => Fresh(d)'
             /\ pc'[d] \in Waits => Waiting(d)' \/ Answered(d)'
  <2>1. CASE d = c
    BY <1>2, <1>5, <1>6, <2>1 DEF Waits
  <2>2. CASE d # c
    BY <1>1, <1>2, <2>2 DEF Busy
  <2>3. QED BY <2>1, <2>2
<1>7. QED BY <1>3, <1>6 DEF AnswerInv, CleanOK

LEMMA ParseAnswers == ASSUME ClientInv, AnswerInv, Parse PROVE AnswerInv'
<1>1. fifo # <<>> /\ fifo' = Tail(fifo) /\ UNCHANGED modem
  BY DEF Parse
<1>2. CASE resp # NULL /\ Head(fifo).kind # "urc"
  BY <1>1, <1>2, StoreAnswers DEF Parse
<1>3. CASE ~(resp # NULL /\ Head(fifo).kind # "urc")
  BY <1>1, <1>3, DropAnswers DEF Parse
<1>4. QED BY <1>2, <1>3

-----------------------------------------------------------------------------
(* A caller's step that changes no response object and no command.         *)
LEMMA StepAnswers ==
    ASSUME ClientInv, AnswerInv,
           UNCHANGED <<fifo, todo, reply, client, cmd, lines, clean>>,
           resp_notice = 0 => resp_notice' = 0,
           \A c \in Callers : result'[c] = result[c] \/ result'[c] = "none",
           \A c \in Callers :
              \/ pc'[c] = pc[c] \/ pc'[c] \notin Busy
              \/ pc[c] \in Waits /\ pc'[c] \in Waits
                 /\ (pc'[c] = "woken" => resp_notice > 0)
    PROVE  AnswerInv'
<1>1. AnswersMatch'
  BY AnswersStable DEF AnswerInv
<1>2. ASSUME NEW c \in Callers, clean'[c]
      PROVE  /\ pc'[c] = "write" => Fresh(c)'
             /\ pc'[c] \in Waits => Waiting(c)' \/ Answered(c)'
  <2>1. CASE pc'[c] = "write"
    <3>1. pc[c] = "write"
      BY <2>1 DEF Busy, Waits
    <3>2. Fresh(c)
      BY <1>2, <3>1 DEF AnswerInv, CleanOK
    <3>3. QED BY <2>1, <3>2 DEF Fresh, client, Waits
  <2>2. CASE pc'[c] \in Waits
    <3>1. pc[c] \in Waits /\ (pc'[c] = "woken" => pc[c] = "woken" \/ resp_notice > 0)
      BY <2>2 DEF Busy, Waits
    <3>2. (Waiting(c) \/ Answered(c)) /\ cmd[c] > 0
      BY <1>2, <3>1, CleanWaits DEF AnswerInv
    <3>3. ASSUME Waiting(c) PROVE Waiting(c)'
      <4>1. UNCHANGED <<resp, resp_notice, reply>> /\ pc'[c] # "woken"
        BY <3>1, <3>3 DEF Waiting, client
      <4>2. ASSUME NEW own \in Seq(Real), NEW j \in 0..Len(own), UnderWay(own, j)
            PROVE  UnderWay(own, j)'
        BY <4>2 DEF UnderWay
      <4>3. cmd'[c] = cmd[c] /\ lines'[c] = lines[c]
        OBVIOUS
      <4>4. QED BY <3>2, <3>3, <4>1, <4>2, <4>3, WaitingStable
    <3>4. ASSUME Answered(c) PROVE Answered(c)'
      <4>1. OwnAnswer(c)' = OwnAnswer(c)
        BY <3>2, OwnStable
      <4>2. resp' = NULL
        BY <3>4 DEF Answered, client
      <4>3. QED BY <3>4, <4>1, <4>2, AnsweredStable DEF client
    <3>5. QED BY <2>2, <3>2, <3>3, <3>4 DEF Waits
  <2>3. QED BY <2>1, <2>2
<1>3. QED BY <1>1, <1>2 DEF AnswerInv, CleanOK

LEMMA EnterAnswers == ASSUME ClientInv, AnswerInv, NEW c \in Callers, Enter(c) PROVE AnswerInv'
<1>1. /\ UNCHANGED <<fifo, todo, reply, client, cmd, lines, clean, resp_notice>>
      /\ pc' = [pc EXCEPT ![c] = "enter"] /\ result' = [result EXCEPT ![c] = "none"]
      /\ TypeOK
  BY DEF Enter, Runs, modem, ClientInv
<1>2. \A d \in Callers : /\ result'[d] = result[d] \/ result'[d] = "none"
                         /\ pc'[d] = pc[d] \/ pc'[d] \notin Busy
  BY <1>1 DEF TypeOK, Busy, Waits
<1>3. QED BY <1>1, <1>2, StepAnswers

(* Where a wait begins with a token, the call has its answer already.      *)
LEMMA TakeAnswers == ASSUME ClientInv, AnswerInv, NEW c \in Callers, TakeResp(c) PROVE AnswerInv'
<1>1. /\ UNCHANGED <<fifo, todo, reply, client, cmd, lines, clean, result>>
      /\ pc[c] = "take"
      /\ pc' = [pc EXCEPT ![c] = IF resp_notice > 0 THEN "woken" ELSE "asleep"]
      /\ TypeOK
  BY DEF TakeResp, Runs, modem, ClientInv
<1>2. resp_notice = 0 => resp_notice' = 0
  BY DEF TakeResp
<1>3. \A d \in Callers :
          \/ pc'[d] = pc[d] \/ pc'[d] \notin Busy
          \/ pc[d] \in Waits /\ pc'[d] \in Waits
             /\ (pc'[d] = "woken" => resp_notice > 0)
  BY <1>1 DEF TypeOK, Waits
<1>4. QED BY <1>1, <1>2, <1>3, StepAnswers

LEMMA ExpireAnswers == ASSUME ClientInv, AnswerInv, NEW c \in Callers, Expire(c) PROVE AnswerInv'
<1>1. /\ UNCHANGED <<fifo, todo, reply, client, cmd, lines, clean, result, resp_notice>>
      /\ pc[c] = "asleep" /\ pc' = [pc EXCEPT ![c] = "expired"]
      /\ TypeOK
  BY DEF Expire, modem, ClientInv
<1>2. \A d \in Callers :
          \/ pc'[d] = pc[d] \/ pc'[d] \notin Busy
          \/ pc[d] \in Waits /\ pc'[d] \in Waits
             /\ (pc'[d] = "woken" => resp_notice > 0)
  BY <1>1 DEF TypeOK, Waits
<1>3. QED BY <1>1, <1>2, StepAnswers

LEMMA BeginAnswers == ASSUME ClientInv, AnswerInv, NEW c \in Callers, Begin(c) PROVE AnswerInv'
<1>1. /\ TypeOK /\ pc[c] = "enter" /\ Head(lock) = c
      /\ resp' = c /\ pc' = [pc EXCEPT ![c] = "write"]
      /\ UNCHANGED <<todo, fifo, reply, resp_notice, cmd, result>>
      /\ lines' = [lines EXCEPT ![c] = <<>>]
      /\ clean' = [clean EXCEPT ![c] =
                      todo = <<>> /\ resp_notice = 0 /\ \A i \in DOMAIN fifo : fifo[i] = Urc]
  BY DEF Begin, Register, Runs, modem, ClientInv
<1>2. /\ \A d \in Callers : d # c => pc'[d] = pc[d] /\ pc[d] \notin Busy
      /\ \A d \in Callers : d # c => clean'[d] = clean[d] /\ lines'[d] = lines[d]
      /\ pc'[c] = "write" /\ result'[c] = "none"
  <2>1. \A d \in Callers : pc[d] \in Busy => d = c
    BY <1>1 DEF ClientInv, LockOK
  <2>2. QED BY <1>1, <2>1 DEF TypeOK, ClientInv, LockOK
<1>3. AnswersMatch'
  BY <1>1, <1>2, AnswersStable DEF AnswerInv
<1>4. clean'[c] => Fresh(c)'
  <2>1. clean'[c] => todo = <<>> /\ resp_notice = 0 /\ \A i \in DOMAIN fifo : fifo[i] = Urc
    BY <1>1 DEF TypeOK
  <2>2. DOMAIN fifo = 1..Len(fifo) /\ lines'[c] = <<>>
    BY <1>1, LenProperties DEF TypeOK
  <2>3. QED BY <1>1, <2>1, <2>2 DEF Fresh
<1>5. ASSUME NEW d \in Callers, clean'[d]
      PROVE  /\ pc'[d] = "write" => Fresh(d)'
             /\ pc'[d] \in Waits => Waiting(d)' \/ Answered(d)'
  BY <1>2, <1>4, <1>5 DEF Busy, Waits
<1>6. QED BY <1>3, <1>5 DEF AnswerInv, CleanOK

(* A command written: its whole answer is under way.                       *)
LEMMA AllUnderWay ==
    ASSUME TypeOK, NEW own \in Seq(Real), todo' = own, UNCHANGED fifo,
           \A i \in 1..Len(fifo) : fifo[i] = Urc
    PROVE  UnderWay(own, 0)'
<1>1. Len(fifo) \in Nat /\ Len(own) \in Nat
  BY LenProperties DEF TypeOK
<1>2. PICK g : g = [i \in 0..Len(fifo) |-> 0]
  OBVIOUS
<1>3. /\ g \in [0..Len(fifo) -> 0..Len(own)] /\ g[0] = 0
      /\ \A i \in 1..Len(fifo) : fifo[i] = Urc /\ g[i] = g[i-1]
      /\ g[Len(fifo)] = 0
  BY <1>1, <1>2
<1>4. Len(todo') = Len(own) - 0 /\ \A i \in 1..Len(todo') : todo'[i] = own[0 + i]
  BY <1>1
<1>5. QED BY <1>3, <1>4 DEF UnderWay

LEMMA WriteAnswers == ASSUME ClientInv, AnswerInv, NEW c \in Callers, Write(c) PROVE AnswerInv'
<1>1. ClientInv'
  BY WriteClient
<1>2. PICK n, r :
         /\ n = Len(reply) + 1 /\ r \in Replies
         /\ reply' = Append(reply, r) /\ cmd' = [cmd EXCEPT ![c] = n]
         /\ todo' = todo \o [i \in DOMAIN r |-> [cmd |-> n, kind |-> r[i]]]
  <2>1. PICK r \in Replies :
           /\ reply' = Append(reply, r) /\ cmd' = [cmd EXCEPT ![c] = Len(reply) + 1]
           /\ todo' = todo \o [i \in DOMAIN r |-> [cmd |-> Len(reply) + 1, kind |-> r[i]]]
    BY DEF Write
  <2>2. PICK n : n = Len(reply) + 1
    OBVIOUS
  <2>3. QED BY <2>1, <2>2
<1>3. /\ pc[c] = "write" /\ pc' = [pc EXCEPT ![c] = "take"] /\ TypeOK
      /\ UNCHANGED <<fifo, resp, resp_status, resp_notice, lines, result, clean>>
  BY DEF Write, Runs, client, ClientInv
<1>4. /\ \A d \in Callers : d # c => pc'[d] = pc[d] /\ pc[d] \notin Busy /\ cmd'[d] = cmd[d]
      /\ result'[c] = "none" /\ cmd'[c] = n /\ pc'[c] = "take"
  <2>1. \A d \in Callers : pc[d] \in Busy => d = c
    BY <1>3, AtHead DEF Busy
  <2>2. result[c] = "none"
    BY <1>3 DEF ClientInv, LockOK
  <2>3. QED BY <1>2, <1>3, <2>1, <2>2 DEF TypeOK
<1>5. AnswersMatch'
  BY <1>2, <1>3, <1>4, AnswersStable DEF AnswerInv
<1>6. ASSUME clean[c] PROVE Waiting(c)'
  <2>1. Fresh(c)
    BY <1>3, <1>6 DEF AnswerInv, CleanOK
  <2>2. PICK own : own = OwnAnswer(c)'
    OBVIOUS
  <2>3. own = [i \in DOMAIN r |-> [cmd |-> n, kind |-> r[i]]]
    <3>1. Len(reply) \in Nat /\ reply'[n] = r
      BY <1>2, <1>3, AppendProperties, LenProperties DEF TypeOK
    <3>2. QED BY <1>4, <2>2, <3>1 DEF OwnAnswer
  <2>4. n > 0
    BY <1>2, <1>3, LenProperties DEF TypeOK
  <2>5. own \in Seq(Real)
    <3>1. r \in Seq(Kinds) /\ Len(r) \in Nat /\ DOMAIN r = 1..Len(r)
      BY <1>2, AtAssumption, LenProperties
    <3>2. n \in 0..MaxCmd
      BY <1>1, <1>4 DEF ClientInv, TypeOK
    <3>3. own \in [1..Len(r) -> Real]
      BY <2>3, <3>1, <3>2, ElementOfSeq DEF Real
    <3>4. QED BY <3>1, <3>3, FunctionIsSeq
  <2>6. todo' = own
    BY <1>2, <2>1, <2>3, <2>5, ConcatEmptySeq DEF Fresh
  <2>7. UnderWay(own, 0)'
    BY <1>3, <2>1, <2>5, <2>6, AllUnderWay DEF Fresh
  <2>8. Kept(c, 0)'
    <3>1. lines'[c] = <<>> /\ Len(<<>>) = 0
      BY <1>3, <2>1 DEF Fresh
    <3>2. SubSeq(own, 1, 0) = <<>>
      BY <2>5, SubSeqEmpty
    <3>3. QED BY <2>2, <3>1, <3>2 DEF Kept
  <2>9. resp' = c /\ resp_notice' = 0 /\ pc'[c] # "woken" /\ 0 \in 0..Len(own)
    BY <1>3, <1>4, <2>1, <2>5, LenProperties DEF Fresh
  <2>10. QED BY <2>2, <2>7, <2>8, <2>9 DEF Waiting
<1>7. ASSUME NEW d \in Callers, clean'[d]
      PROVE  /\ pc'[d] = "write" => Fresh(d)'
             /\ pc'[d] \in Waits => Waiting(d)' \/ Answered(d)'
  BY <1>3, <1>4, <1>6, <1>7 DEF Busy, Waits
<1>8. QED BY <1>5, <1>7 DEF AnswerInv, CleanOK

(* A call woken has its answer, for while it waits for the rest of it no   *)
(* token is there.                                                         *)
LEMMA FinishAnswers == ASSUME ClientInv, AnswerInv, NEW c \in Callers, Finish(c) PROVE AnswerInv'
<1>1. /\ pc[c] \in {"expired", "woken"} /\ pc' = [pc EXCEPT ![c] = "idle"] /\ TypeOK
      /\ UNCHANGED <<fifo, todo, reply, resp_notice, cmd, lines, clean>>
      /\ result' = [result EXCEPT ![c] = IF pc[c] = "expired" THEN "ETIMEOUT"
                                         ELSE IF resp_status = "OK" THEN "EOK" ELSE "ERROR"]
  BY DEF Finish, Return, Runs, modem, ClientInv
<1>2. /\ \A d \in Callers : d # c => pc'[d] = pc[d] /\ pc[d] \notin Busy /\ result'[d] = result[d]
      /\ pc'[c] = "idle"
      /\ result'[c] = IF pc[c] = "expired" THEN "ETIMEOUT"
                      ELSE IF resp_status = "OK" THEN "EOK" ELSE "ERROR"
  <2>1. \A d \in Callers : pc[d] \in Busy => d = c
    BY <1>1, AtHead DEF Busy, Waits
  <2>2. QED BY <1>1, <2>1 DEF TypeOK
<1>3. ASSUME NEW d \in Callers, clean'[d], result'[d] \in {"EOK", "ERROR"} PROVE Matches(d)'
  <2>1. CASE d # c
    <3>1. Matches(d) /\ cmd[d] > 0
      BY <1>1, <1>2, <1>3, <2>1 DEF AnswerInv, AnswersMatch, ClientInv, CommandsOK
    <3>2. OwnAnswer(d)' = OwnAnswer(d)
      BY <1>1, <3>1, OwnStable
    <3>3. QED BY <1>1, <1>2, <2>1, <3>1, <3>2, MatchesStable
  <2>2. CASE d = c
    <3>1. clean[c] /\ pc[c] = "woken" /\ result'[c] = IF resp_status = "OK" THEN "EOK" ELSE "ERROR"
      BY <1>1, <1>2, <1>3, <2>2
    <3>2. Answered(c) /\ cmd[c] > 0 /\ OwnAnswer(c) \in Seq(Real)
      BY <3>1, CleanWaits DEF AnswerInv, Waits, Waiting
    <3>3. PICK own : own = OwnAnswer(c) /\ own = OwnAnswer(c)'
      BY <1>1, <3>2, OwnStable
    <3>4. PICK m : m = Len(own)
      OBVIOUS
    <3>5. /\ own # <<>> /\ resp_status = own[m].kind /\ Kept(c, m)
      BY <3>2, <3>3, <3>4 DEF Answered
    <3>6. /\ \A i \in 1..Len(lines[c]) : lines[c][i].cmd = cmd[c]
          /\ Length(own) < BufSize => lines[c] = SubSeq(own, 1, m)
      BY <3>3, <3>5 DEF Kept
    <3>7. SubSeq(own, 1, m) = own
      BY <3>2, <3>3, <3>4, SubSeqFull
    <3>8. DOMAIN lines[c] = 1..Len(lines[c])
      BY <1>1, LenProperties DEF TypeOK
    <3>9. QED BY <1>1, <2>2, <3>1, <3>3, <3>4, <3>5, <3>6, <3>7, <3>8 DEF Matches
  <2>3. QED BY <2>1, <2>2
<1>4. AnswersMatch'
  BY <1>3 DEF AnswersMatch
<1>5. ASSUME NEW d \in Callers, clean'[d]
      PROVE  /\ pc'[d] = "write" => Fresh(d)'
             /\ pc'[d] \in Waits => Waiting(d)' \/ Answered(d)'
  BY <1>2 DEF Busy, Waits
<1>6. QED BY <1>4, <1>5 DEF AnswerInv, CleanOK

-----------------------------------------------------------------------------
LEMMA InitAnswers == Init => AnswerInv
BY DEF Init, AnswerInv, CleanOK, AnswersMatch

LEMMA NextAnswers == ASSUME ClientInv, AnswerInv, [Next]_vars PROVE AnswerInv'
<1>1. CASE \E c \in Callers : Enter(c) \/ Caller(c) \/ Expire(c)
  BY <1>1, EnterAnswers, BeginAnswers, WriteAnswers, TakeAnswers, ExpireAnswers,
     FinishAnswers DEF Caller
<1>2. CASE Answer \/ ReceiveUrc \/ Parser \/ UNCHANGED vars
  BY <1>2, AnswerAnswers, UrcAnswers, SilentAnswers, ParseAnswers DEF Parser
<1>3. QED BY <1>1, <1>2 DEF Next

(* at_obj_exec_cmd with a timeout that has run before: a call that begins  *)
(* when the modem owes no answer and no token is left returns the lines of *)
(* its own answer and the result they say, for any number of callers, any  *)
(* replies and any size of the buffer.                                     *)
THEOREM AnswersOwn == Spec => []AnswersMatch
<1>1. Init => AnswerInv
  BY InitAnswers
<1>2. ClientInv /\ AnswerInv /\ [Next]_vars => AnswerInv'
  BY NextAnswers
<1>3. AnswerInv => AnswersMatch
  BY DEF AnswerInv
<1>4. QED BY <1>1, <1>2, <1>3, ClientCorrect, PTL DEF Spec
=============================================================================
