----------------------------- MODULE MCAtClient -----------------------------
(* Two callers, three commands.  The longest answer fills the buffer so     *)
(* that its second line is dropped and its last line kept.                  *)
EXTENDS AtClient, TLC
CONSTANTS c1, c2
MCReplies == {<<>>, <<"ERROR">>, <<"data", "data", "OK">>}
MCSize == "data" :> 2 @@ "OK" :> 1 @@ "ERROR" :> 1
=============================================================================
