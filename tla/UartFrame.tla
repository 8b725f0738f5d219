------------------------------ MODULE UartFrame -----------------------------
(***************************************************************************)
(* What uart_tx and uart_rx of src/ip-cores/UART/Uart.v agree on: the      *)
(* parameters of a frame.  The code fixes eight data bits; the width is a  *)
(* constant here, so that small instances can be checked.                  *)
(***************************************************************************)
EXTENDS Integers

CONSTANTS
  CLKS_PER_BIT,  \* clocks for each bit on the line, 5000 by default
  LAST_BIT       \* index of the last data bit, 7 in the code

ASSUME ClocksAssumption == CLKS_PER_BIT \in Nat \ {0}
ASSUME BitsAssumption   == LAST_BIT \in Nat

Bit  == {0, 1}
Byte == [0 .. LAST_BIT -> Bit]
=============================================================================
