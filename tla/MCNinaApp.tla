----------------------------- MODULE MCNinaApp -----------------------------
(* An instance of NinaApp for TLC: words of ordinary bytes, of the four     *)
(* bytes of packets, of the two that the SPI core escapes, with the head of  *)
(* an answer at the first byte or the second, and with a channel that hides  *)
(* such a head; a stack of ordinary bytes with the end of a packet among     *)
(* them, and one that holds an older answer.                                 *)
EXTENDS NinaApp

MCWords == {Zeros(4), <<1, 74, 77, 125>>,
            <<124, 0, 122, 9>>, <<123, 124, 125, 122>>, <<124, 124, 125, 122>>}

OldAnswer == <<CHANNEL, 0, SOP, 1, 2, 3, EOP, 4>>
MCGarbage == {<<0, EOP, 5>> \o Zeros(Unread - 3), OldAnswer \o Zeros(Unread - Len(OldAnswer))}
=============================================================================
