------------------------------ MODULE AtClient ------------------------------
(***************************************************************************)
(* The AT client (src/components/net/at/src/at_client.c): threads that     *)
(* execute commands on a modem, the parser thread that reads its lines,    *)
(* and two semaphores.  The parser (priority 9) is more urgent than the    *)
(* shell that executes commands (20): on the one core, a caller steps only *)
(* while the parser is suspended; interrupts come at any time.  A line     *)
(* arrives with its last byte.  Commands get the numbers 1, 2, ...         *)
(***************************************************************************)
EXTENDS Integers, Sequences

CONSTANTS
    Callers,
    Replies,    \* what the modem may answer a command with: sequences of
                \* kinds of lines; <<>> when it does not answer
    Size,       \* Size[k]: the length of a line of kind k
    BufSize,    \* buf_size of the callers' response objects
    MaxCmd,     \* bound on the number of commands
    MaxLines,   \* bound on the lines received and not yet read
    NULL

Final == {"OK", "ERROR"}        \* the lines that end a response
Kinds == {"data"} \cup Final

ASSUME AtAssumption ==
    /\ NULL \notin Callers
    /\ Replies \subseteq Seq(Kinds)
    /\ \A r \in Replies : \A i \in 1..Len(r) - 1 : r[i] \notin Final
    /\ MaxCmd \in Nat /\ MaxLines \in Nat
    /\ BufSize \in Nat /\ Size \in [Kinds -> Nat]

(* Command 0 stands for lines that answer no command: URCs, of which some  *)
(* arrive at any time, and lines too long for the parser's buffer.         *)
Lines == [cmd : 0..MaxCmd, kind : Kinds \cup {"urc"}]
Urc   == [cmd |-> 0, kind |-> "urc"]

VARIABLES
    todo,           \* the lines the modem is going to send
    fifo,           \* the lines in the serial device's buffer
    rx_notice,      \* whether the semaphore has a token: the parser resets it
                    \* before it takes it, so their number does not matter
    parser,         \* where the parser is in at_client_getchar: "read",
                    \* "reset", "take", or "asleep" in rt_sem_take
    resp,           \* client->resp, as the caller it belongs to, or NULL
    resp_status, resp_notice,
    lock,           \* who is in at_obj_exec_cmd; the first owns client->lock
    pc,             \* "idle", "enter", "write", "take", "asleep" (in
                    \* rt_sem_take), "expired", "woken"
    cmd,            \* the command a caller executes
    lines,          \* the lines in its response object
    result,         \* what its call returned
    reply,          \* what the modem answers to each command written
    clean,          \* history: when the call began no answer was outstanding
    completed       \* history: its response object got a final line

modem  == <<todo, reply>>
client == <<resp, resp_status>>
calls  == <<lock, pc, cmd, lines, result, clean, completed>>
vars   == <<modem, fifo, rx_notice, parser, client, resp_notice, calls>>

TypeOK ==
    /\ todo \in Seq(Lines) /\ fifo \in Seq(Lines) /\ Len(fifo) <= MaxLines
    /\ rx_notice \in BOOLEAN
    /\ parser \in {"read", "reset", "take", "asleep"}
    /\ resp \in Callers \cup {NULL}
    /\ resp_status \in {"OK", "ERROR", "TIMEOUT", "BUFF_FULL"}
    /\ resp_notice \in 0..2
    /\ lock \in Seq(Callers)
    /\ pc \in [Callers -> {"idle", "enter", "write", "take", "asleep", "expired", "woken"}]
    /\ cmd \in [Callers -> 0..MaxCmd]
    /\ lines \in [Callers -> Seq(Lines)]
    /\ result \in [Callers -> {"none", "EOK", "ERROR", "ETIMEOUT"}]
    /\ reply \in Seq(Replies) /\ Len(reply) <= MaxCmd
    /\ clean \in [Callers -> BOOLEAN] /\ completed \in [Callers -> BOOLEAN]

Init ==
    /\ todo = <<>> /\ fifo = <<>> /\ rx_notice = FALSE
    /\ parser = "read"
    /\ resp = NULL /\ resp_status = "OK" /\ resp_notice = 0
    /\ lock = <<>>
    /\ pc = [c \in Callers |-> "idle"]
    /\ cmd = [c \in Callers |-> 0]
    /\ lines = [c \in Callers |-> <<>>]
    /\ result = [c \in Callers |-> "none"]
    /\ reply = <<>>
    /\ clean = [c \in Callers |-> FALSE]
    /\ completed = [c \in Callers |-> FALSE]

-----------------------------------------------------------------------------
(* at_client_rx_ind, in the interrupt of a line: a suspended parser gets   *)
(* the token directly.                                                     *)
Receive(line) ==
    /\ Len(fifo) < MaxLines
    /\ fifo' = Append(fifo, line)
    /\ IF parser = "asleep"
       THEN parser' = "read" /\ UNCHANGED rx_notice
       ELSE rx_notice' = TRUE /\ UNCHANGED parser

Answer == /\ todo # <<>>
          /\ Receive(Head(todo))
          /\ todo' = Tail(todo)
          /\ UNCHANGED <<reply, client, resp_notice, calls>>

ReceiveUrc == Receive(Urc) /\ UNCHANGED <<modem, client, resp_notice, calls>>

-----------------------------------------------------------------------------
(* at_client_getchar when rt_device_read returns 0, ...                    *)
ReadNothing ==
    /\ parser = "read" /\ fifo = <<>>
    /\ parser' = "reset"
    /\ UNCHANGED <<modem, fifo, rx_notice, client, resp_notice, calls>>

(* ... rt_sem_control(rx_notice, RT_IPC_CMD_RESET), ...                    *)
ResetNotice ==
    /\ parser = "reset"
    /\ rx_notice' = FALSE
    /\ parser' = "take"
    /\ UNCHANGED <<modem, fifo, client, resp_notice, calls>>

(* ... and rt_sem_take(rx_notice, RT_WAITING_FOREVER).                     *)
TakeNotice ==
    /\ parser = "take"
    /\ parser' = IF rx_notice THEN "read" ELSE "asleep"
    /\ rx_notice' = FALSE
    /\ UNCHANGED <<modem, fifo, client, resp_notice, calls>>

Length(ls) == LET f[n \in 0..Len(ls)] ==
                      IF n = 0 THEN 0 ELSE f[n-1] + Size[ls[n].kind]
              IN  f[Len(ls)]

(* client->resp = RT_NULL; rt_sem_release(client->resp_notice).            *)
EndResponse(c) ==
    /\ resp' = NULL
    /\ completed' = [completed EXCEPT ![c] = TRUE]
    /\ IF pc[c] = "asleep"
       THEN pc' = [pc EXCEPT ![c] = "woken"] /\ UNCHANGED resp_notice
       ELSE resp_notice' = resp_notice + 1 /\ UNCHANGED pc

(* client_parser with a line that is no URC, for the response object of c: *)
(* copied if it fits, whatever it says; a final line sets the status over. *)
(* Atomic, for the interrupts that may come between touch none of this but *)
(* the wait for resp_notice, and that is only ended by the last statement. *)
StoreLine(c, line) ==
    LET fits == Length(lines[c]) + Size[line.kind] < BufSize
    IN  /\ lines' = IF fits THEN [lines EXCEPT ![c] = Append(@, line)] ELSE lines
        /\ resp_status' = IF line.kind \in Final THEN line.kind
                          ELSE IF fits THEN resp_status ELSE "BUFF_FULL"
        /\ IF line.kind \in Final
           THEN EndResponse(c)
           ELSE UNCHANGED <<resp, completed, pc, resp_notice>>
        /\ UNCHANGED <<lock, cmd, result, clean>>

(* The parser reads a line; URCs and lines nobody waits for change nothing. *)
Parse ==
    /\ parser = "read" /\ fifo # <<>>
    /\ fifo' = Tail(fifo)
    /\ IF resp # NULL /\ Head(fifo).kind # "urc"
       THEN StoreLine(resp, Head(fifo))
       ELSE UNCHANGED <<client, resp_notice, calls>>
    /\ UNCHANGED <<modem, rx_notice, parser>>

-----------------------------------------------------------------------------
(* at_obj_exec_cmd(client, resp, ...), resp # RT_NULL: one action is what  *)
(* the caller does between two points where the parser may run.            *)
Runs(c) == parser = "asleep" /\ UNCHANGED <<fifo, rx_notice, parser>>

(* rt_mutex_take(client->lock): a FIFO mutex.                              *)
Enter(c) ==
    /\ Runs(c) /\ pc[c] = "idle" /\ Len(reply) + Len(lock) < MaxCmd
    /\ lock' = Append(lock, c)
    /\ pc' = [pc EXCEPT ![c] = "enter"]
    /\ result' = [result EXCEPT ![c] = "none"]
    /\ completed' = [completed EXCEPT ![c] = FALSE]
    /\ UNCHANGED <<modem, client, resp_notice, cmd, lines, clean>>

Register(c) ==
    /\ Runs(c) /\ pc[c] = "enter" /\ Head(lock) = c
    /\ resp' = c /\ resp_status' = "OK"
    /\ pc' = [pc EXCEPT ![c] = "write"]
    /\ clean' = [clean EXCEPT ![c] =
                    todo = <<>> /\ resp_notice = 0 /\ \A i \in DOMAIN fifo : fifo[i] = Urc]
    /\ UNCHANGED <<modem, resp_notice, lock, cmd, result, completed>>

(* Mutant: the response object keeps the lines of an earlier command.      *)
BeginStale(c) == Register(c) /\ UNCHANGED lines

(* The response object is emptied and registered.                          *)
Begin(c) == Register(c) /\ lines' = [lines EXCEPT ![c] = <<>>]

(* at_vprintfln: the modem has the command, and answers in its own time.   *)
Write(c) ==
    /\ Runs(c) /\ pc[c] = "write"
    /\ \E r \in Replies :
          LET n == Len(reply) + 1
          IN  /\ reply' = Append(reply, r)
              /\ cmd' = [cmd EXCEPT ![c] = n]
              /\ todo' = todo \o [i \in DOMAIN r |-> [cmd |-> n, kind |-> r[i]]]
    /\ pc' = [pc EXCEPT ![c] = "take"]
    /\ UNCHANGED <<client, resp_notice, lock, lines, result, clean, completed>>

(* rt_sem_take(client->resp_notice, resp->timeout).                        *)
TakeResp(c) ==
    /\ Runs(c) /\ pc[c] = "take"
    /\ pc' = [pc EXCEPT ![c] = IF resp_notice > 0 THEN "woken" ELSE "asleep"]
    /\ UNCHANGED <<modem, client, lock, cmd, lines, result, clean, completed>>
    /\ resp_notice' = IF resp_notice > 0 THEN resp_notice - 1 ELSE 0

(* Its timer: the caller is resumed, but a busy parser goes on first.      *)
Expire(c) ==
    /\ pc[c] = "asleep"
    /\ pc' = [pc EXCEPT ![c] = "expired"]
    /\ UNCHANGED <<modem, fifo, rx_notice, parser, client, resp_notice,
                   lock, cmd, lines, result, clean, completed>>

Return(c) ==
    /\ Runs(c) /\ pc[c] \in {"expired", "woken"}
    /\ resp_status' = IF pc[c] = "expired" THEN "TIMEOUT" ELSE resp_status
    /\ result' = [result EXCEPT ![c] = IF pc[c] = "expired" THEN "ETIMEOUT"
                                       ELSE IF resp_status = "OK" THEN "EOK" ELSE "ERROR"]
    /\ pc' = [pc EXCEPT ![c] = "idle"]
    /\ UNCHANGED <<modem, resp_notice, cmd, lines, clean, completed>>

(* Mutant: the response object stays registered after the call.            *)
FinishRegistered(c) == Return(c) /\ UNCHANGED resp /\ lock' = Tail(lock)

(* Mutant: the call returns with the lock when it times out.               *)
FinishLocked(c) ==
    /\ Return(c)
    /\ resp' = NULL
    /\ lock' = IF pc[c] = "expired" THEN lock ELSE Tail(lock)

(* From the take's return to the end, through __exit: the response object  *)
(* is deregistered and client->lock released.                              *)
Finish(c) == Return(c) /\ resp' = NULL /\ lock' = Tail(lock)

-----------------------------------------------------------------------------
Parser == ReadNothing \/ ResetNotice \/ TakeNotice \/ Parse

Caller(c) == Begin(c) \/ Write(c) \/ TakeResp(c) \/ Finish(c)

Next == \/ Answer \/ ReceiveUrc \/ Parser
        \/ \E c \in Callers : Enter(c) \/ Caller(c) \/ Expire(c)

Spec == Init /\ [][Next]_vars

(* The parser runs when it can, and again and again it has read everything *)
(* and sleeps: a line takes far longer to arrive than to be read.  Timers  *)
(* expire.  A caller runs if again and again it can.  The modem may fall   *)
(* silent.                                                                 *)
FairSpec ==
    /\ Spec
    /\ WF_vars(Parser)
    /\ []<>(parser = "asleep")
    /\ \A c \in Callers : SF_vars(Caller(c)) /\ WF_vars(Expire(c))

-----------------------------------------------------------------------------
(* The parser writes into a response object only during its owner's call:  *)
(* after it the owner may free it (at_delete_resp).  The variables keep    *)
(* their types.                                                            *)
RespOwned ==
    /\ TypeOK
    /\ resp # NULL => /\ lock # <<>> /\ resp = Head(lock)
                      /\ pc[resp] \notin {"idle", "enter"}

OwnAnswer(c) == [i \in DOMAIN reply[cmd[c]] |->
                    [cmd |-> cmd[c], kind |-> reply[cmd[c]][i]]]

(* The call of c got its own answer, all of it if it fits, and the result  *)
(* says what the answer said.                                              *)
Matches(c) ==
    LET own == OwnAnswer(c)
    IN  /\ \A i \in DOMAIN lines[c] : lines[c][i].cmd = cmd[c]
        /\ Length(own) < BufSize => lines[c] = own
        /\ own # <<>>
        /\ result[c] = IF own[Len(own)].kind = "OK" THEN "EOK" ELSE "ERROR"

(* A call that begins when no answer is outstanding gets its own answer,   *)
(* however many calls timed out before it.                                 *)
AnswersMatch ==
    \A c \in Callers : clean[c] /\ result[c] \in {"EOK", "ERROR"} => Matches(c)

(* Every call returns, whatever the modem does and whoever waits before it. *)
ExecReturns == \A c \in Callers : pc[c] = "enter" ~> pc[c] = "idle"

(* "the response data will auto return when received 'OK' or 'ERROR'"      *)
(* (at.h, of line_num = 0): no call times out while its final line has     *)
(* been received and the parser sleeps.                                    *)
AutoReturn ==
    [][\A c \in Callers :
          Expire(c) /\ parser = "asleep" =>
              \A i \in DOMAIN fifo : ~(fifo[i].cmd = cmd[c] /\ fifo[i].kind \in Final)]_vars

(* "Send commands to AT server and wait response.  @return 0 : success"    *)
(* (at_obj_exec_cmd): a call returns 0 only after a final line has come    *)
(* while it waited.                                                        *)
SuccessMeansResponse ==
    \A c \in Callers : result[c] = "EOK" => completed[c]
=============================================================================
