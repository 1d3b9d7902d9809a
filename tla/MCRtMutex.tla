----------------------------- MODULE MCRtMutex -----------------------------
(* Three threads of different urgency: t1 the most, t3 the least urgent.    *)
EXTENDS RtMutex, TLC
CONSTANTS t1, t2, t3, m1, m2
MCUses == {{m1}, {m1, m2}}
MCBase == t1 :> 1 @@ t2 :> 2 @@ t3 :> 3
=============================================================================
