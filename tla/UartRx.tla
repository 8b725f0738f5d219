------------------------------- MODULE UartRx -------------------------------
(***************************************************************************)
(* The receiver uart_rx of src/ip-cores/UART/Uart.v.  One step is one      *)
(* rising edge of i_Clock: the two flip-flops that synchronise the input   *)
(* and the state machine, which reads what they held before the edge.      *)
(***************************************************************************)
EXTENDS UartFrame

VARIABLES
  r_Rx_Data_R, r_Rx_Data,
  r_SM_Main, r_Clock_Count, r_Bit_Index, r_Rx_Byte, r_Rx_DV

vars == <<r_Rx_Data_R, r_Rx_Data, r_SM_Main, r_Clock_Count, r_Bit_Index, r_Rx_Byte, r_Rx_DV>>

Init ==
  /\ r_Rx_Data_R = 1 /\ r_Rx_Data = 1
  /\ r_SM_Main = "IDLE" /\ r_Clock_Count = 0 /\ r_Bit_Index = 0
  /\ r_Rx_Byte = [b \in 0 .. LAST_BIT |-> 0] /\ r_Rx_DV = 0

Synchronise(i_Rx_Serial) ==
  /\ r_Rx_Data_R' = i_Rx_Serial
  /\ r_Rx_Data' = r_Rx_Data_R

Idle ==
  /\ r_SM_Main = "IDLE"
  /\ r_Rx_DV' = 0 /\ r_Clock_Count' = 0 /\ r_Bit_Index' = 0
  /\ r_SM_Main' = IF r_Rx_Data = 0 THEN "START" ELSE "IDLE"
  /\ UNCHANGED r_Rx_Byte

\* Mutant: the middle is a whole bit away.
MiddleAtEnd == CLKS_PER_BIT - 1

\* Half a bit after its first low sample the line must still be low.
Middle == (CLKS_PER_BIT - 1) \div 2

\* Mutant: the middle of the start bit is not looked at.
StartBitUnchecked ==
  /\ r_SM_Main = "START"
  /\ \/ /\ r_Clock_Count = Middle
        /\ r_Clock_Count' = 0 /\ r_SM_Main' = "DATA"
     \/ /\ r_Clock_Count # Middle
        /\ r_Clock_Count' = r_Clock_Count + 1 /\ UNCHANGED r_SM_Main
  /\ UNCHANGED <<r_Bit_Index, r_Rx_Byte, r_Rx_DV>>

\* A false start leaves the count for the idle state to clear.
StartBit ==
  /\ r_SM_Main = "START"
  /\ \/ /\ r_Clock_Count = Middle /\ r_Rx_Data = 0
        /\ r_Clock_Count' = 0 /\ r_SM_Main' = "DATA"
     \/ /\ r_Clock_Count = Middle /\ r_Rx_Data = 1
        /\ r_SM_Main' = "IDLE" /\ UNCHANGED r_Clock_Count
     \/ /\ r_Clock_Count # Middle
        /\ r_Clock_Count' = r_Clock_Count + 1 /\ UNCHANGED r_SM_Main
  /\ UNCHANGED <<r_Bit_Index, r_Rx_Byte, r_Rx_DV>>

\* r_Clock_Count < CLKS_PER_BIT-1 in the data and stop states.
HoldBit ==
  /\ r_SM_Main \in {"DATA", "STOP"}
  /\ r_Clock_Count < CLKS_PER_BIT - 1
  /\ r_Clock_Count' = r_Clock_Count + 1
  /\ UNCHANGED <<r_SM_Main, r_Bit_Index, r_Rx_Byte, r_Rx_DV>>

DataBit ==
  /\ r_SM_Main = "DATA"
  /\ ~(r_Clock_Count < CLKS_PER_BIT - 1)
  /\ r_Clock_Count' = 0
  /\ r_Rx_Byte' = [r_Rx_Byte EXCEPT ![r_Bit_Index] = r_Rx_Data]
  /\ \/ /\ r_Bit_Index < LAST_BIT
        /\ r_Bit_Index' = r_Bit_Index + 1 /\ UNCHANGED r_SM_Main
     \/ /\ ~(r_Bit_Index < LAST_BIT)
        /\ r_Bit_Index' = 0 /\ r_SM_Main' = "STOP"
  /\ UNCHANGED r_Rx_DV

\* Mutant: the byte is not announced.
StopBitSilent ==
  /\ r_SM_Main = "STOP"
  /\ ~(r_Clock_Count < CLKS_PER_BIT - 1)
  /\ r_Clock_Count' = 0
  /\ r_SM_Main' = "CLEANUP"
  /\ UNCHANGED <<r_Bit_Index, r_Rx_Byte, r_Rx_DV>>

\* The level of the stop bit is not looked at.
StopBit ==
  /\ r_SM_Main = "STOP"
  /\ ~(r_Clock_Count < CLKS_PER_BIT - 1)
  /\ r_Clock_Count' = 0
  /\ r_Rx_DV' = 1
  /\ r_SM_Main' = "CLEANUP"
  /\ UNCHANGED <<r_Bit_Index, r_Rx_Byte>>

Cleanup ==
  /\ r_SM_Main = "CLEANUP"
  /\ r_SM_Main' = "IDLE" /\ r_Rx_DV' = 0
  /\ UNCHANGED <<r_Clock_Count, r_Bit_Index, r_Rx_Byte>>

\* One rising edge with this input.
Clock(i_Rx_Serial) ==
  /\ Synchronise(i_Rx_Serial)
  /\ Idle \/ StartBit \/ HoldBit \/ DataBit \/ StopBit \/ Cleanup

\* The module on its own: the line does anything.
Next == \E i_Rx_Serial \in Bit : Clock(i_Rx_Serial)

Spec == Init /\ [][Next]_vars

\* Every register keeps its type, and the counters their range.
TypeOK ==
  /\ r_SM_Main \in {"IDLE", "START", "DATA", "STOP", "CLEANUP"}
  /\ r_Clock_Count \in 0 .. CLKS_PER_BIT - 1
  /\ r_Bit_Index \in 0 .. LAST_BIT
  /\ r_Rx_Data_R \in Bit /\ r_Rx_Data \in Bit
  /\ r_Rx_Byte \in Byte /\ r_Rx_DV \in Bit
=============================================================================
