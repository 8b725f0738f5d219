--------------------------- MODULE MCVidorMailbox ---------------------------
(* An instance of VidorMailbox for TLC: the mailbox and one register, one  *)
(* word beside 0, and a result of it that is not one of them.              *)
EXTENDS VidorMailbox

MCResult == [w \in Word |-> IF w = 0 THEN 0 ELSE 10 + w]
=============================================================================
