----------------------------- MODULE MCUartCtl ------------------------------
(* An instance of UartCtlClient for TLC: three words, all bytes different, *)
(* none of them 8'hff.                                                     *)
EXTENDS UartCtlClient

AsWord(a, b, c, d) == [k \in 0 .. 3 |-> <<a, b, c, d>>[k + 1]]

MCItems   == <<AsWord(0, 1, 5, 6), AsWord(1, 2, 6, 4), AsWord(2, 3, 4, 5)>>
MCWords   == {MCItems[n] : n \in 1 .. 3}
MCPowerUp == {AsWord(0, 0, 0, 0), AsWord(7, 7, 7, 7)}
=============================================================================
