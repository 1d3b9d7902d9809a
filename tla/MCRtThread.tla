----------------------------- MODULE MCRtThread -----------------------------
(* The main thread, one that is more urgent and one that is as urgent and   *)
(* may end; a counter of 7 ticks, waits of 2, sleeps of 1, and slices of 1  *)
(* tick, the main thread's of 2.                                            *)
EXTENDS RtThread, TLC
CONSTANTS main, t1, t2, idle
MCPrio  == t1 :> 1 @@ main :> 2 @@ t2 :> 2 @@ idle :> 3
MCSlice == t1 :> 1 @@ main :> 2 @@ t2 :> 1 @@ idle :> 1
MCMakes == main :> {"release", "reset", "sleep", "yield", "create", "delete"}
           @@ t1 :> {"take"} @@ t2 :> {"take", "release", "yield", "exit"}
=============================================================================
