------------------------------ MODULE MCEthIf ------------------------------
(* Mailboxes of one message, so that each is full at times, and a ring of  *)
(* two descriptors: a frame can arrive while erx has another in hand.      *)
EXTENDS EthIf
=============================================================================
