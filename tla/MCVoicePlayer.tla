--------------------------- MODULE MCVoicePlayer ---------------------------
(* Buffers of 3 half-words and clips of 1 to 10: shorter than a buffer,     *)
(* exactly one, exactly two, and up to two refills of either buffer, with a *)
(* last chunk that is full and one that is not.                             *)
EXTENDS VoicePlayer

MCSizes == 1..10
=============================================================================
