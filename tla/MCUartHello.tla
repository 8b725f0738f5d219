---------------------------- MODULE MCUartHello -----------------------------
(***************************************************************************)
(* Instances of UartHello for TLC.  The words have letters of the greeting *)
(* among their bytes: "Helo" before an 8'hff inside the word, "Helo"       *)
(* before its SyncDATA, or an "H" and an "e" with no more; or they have    *)
(* none.                                                                   *)
(***************************************************************************)
EXTENDS UartHello

CONSTANTS w1, w2, w3

MCWords == {w1, w2, w3}

MCBytes(w) ==
  CASE w = w1 -> <<Other, LetterH, LetterE, LetterL, LetterO, EndByte, Other, EndByte>>
    [] w = w2 -> <<LetterL, Other, Other, LetterH, LetterE, LetterL, LetterO, EndByte>>
    [] w = w3 -> <<Other, LetterH, Other, LetterE, Other, Other, Other, EndByte>>
    [] OTHER  -> <<LetterH, Other, Other, Other, Other, Other, LetterE, Other>>

MCLike == [b \in DataByte |-> MCBytes(b[1])[b[2] + 1]]

NoLetters ==
  [b \in DataByte |-> IF b[1] # PowerUp /\ b[2] = LastPlace THEN EndByte ELSE Other]
=============================================================================
