----------------------------- MODULE UartRxEnd ------------------------------
(***************************************************************************)
(* A uart_rx at one end of a wire: its registers, under names that leave   *)
(* room for those of a uart_tx at the other.                               *)
(***************************************************************************)
EXTENDS UartFrame

VARIABLES
  rx_SM_Main, rx_Clock_Count, rx_Bit_Index,
  r_Rx_Data_R, r_Rx_Data, r_Rx_Byte, r_Rx_DV

rxVars == <<rx_SM_Main, rx_Clock_Count, rx_Bit_Index,
            r_Rx_Data_R, r_Rx_Data, r_Rx_Byte, r_Rx_DV>>

Rx == INSTANCE UartRx WITH
  r_SM_Main <- rx_SM_Main, r_Clock_Count <- rx_Clock_Count, r_Bit_Index <- rx_Bit_Index
=============================================================================
