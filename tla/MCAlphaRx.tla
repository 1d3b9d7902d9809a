----------------------------- MODULE MCAlphaRx -----------------------------
(* A FIFO of 3 usable bytes and a queue of one slot.  Paced, the chip sends *)
(* three payloads of 2 and 3 bytes (alpha payloads have at least two), and  *)
(* frames are refused or find the slot of a longer one.  Unpaced, it sends  *)
(* two: bytes are lost in the UART or evicted from the FIFO anywhere in a   *)
(* frame, and the framer then takes payload for lengths.                    *)
EXTENDS AlphaRx

MCPacedScripts == { << <<0, 1>>, <<4, 1, 0>>, <<7, 1>> >> }
MCScripts      == MCPacedScripts \cup { << <<3, 0>>, <<0, 1>> >> }
MCStreams      == {EncodeAll(s) : s \in MCScripts}
=============================================================================
