------------------------------ MODULE IpcList ------------------------------
(***************************************************************************)
(* The list of threads suspended on a kernel object (struct rt_ipc_object, *)
(* src/ipc.c) as a sequence, first to be resumed first.                    *)
(***************************************************************************)
EXTENDS Integers, Sequences, SequencesExt

CONSTANTS
    Flag,       \* the object's RT_IPC_FLAG: "FIFO" or "PRIO"
    Prio        \* Prio[t], current_priority of thread t; lower is more urgent

(* Mutant: the thread is put first.                                        *)
PlaceFirst(list, t) == IF list = <<>> THEN 0 ELSE 1

(* Where rt_ipc_list_suspend puts thread t: before the first thread that   *)
(* is strictly less urgent (PRIO), or at the end (FIFO, or none is): 0.    *)
Place(list, t) ==
    IF Flag = "FIFO" THEN 0 ELSE SelectInSeq(list, LAMBDA s : Prio[t] < Prio[s])

Enlist(list, t) ==
    LET n == Place(list, t)
    IN  IF n = 0 THEN Append(list, t) ELSE InsertAt(list, n, t)

(* rt_list_remove of a thread, by a resume or by the thread's timer; a     *)
(* thread that is on no list is not affected.                              *)
Delist(list, t) == RemoveFirst(list, t)

Listed(list) == {list[i] : i \in 1..Len(list)}
=============================================================================
