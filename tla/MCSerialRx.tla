---------------------------- MODULE MCSerialRx ----------------------------
(* A ring of 3 slots (2 usable) and streams of 4 and 5 distinct bytes: the  *)
(* indices wrap, the FIFO overruns, and bytes pile up before the callback  *)
(* is registered.                                                           *)
EXTENDS SerialRx

MCStreams == {<<1, 2, 3, 4>>, <<5, 6, 7, 8, 9>>}
=============================================================================
