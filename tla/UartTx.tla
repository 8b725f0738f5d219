------------------------------- MODULE UartTx -------------------------------
(***************************************************************************)
(* The transmitter uart_tx of src/ip-cores/UART/Uart.v.  One step is one   *)
(* rising edge of i_Clock: every register is read before any is written.   *)
(* The encodings of r_SM_Main that no state uses are never reached, so the *)
(* default branch of the case statement has no action.                     *)
(***************************************************************************)
EXTENDS UartFrame

VARIABLES
  r_SM_Main, r_Clock_Count, r_Bit_Index, r_Tx_Data,
  r_Tx_Done, r_Tx_Active, o_Tx_Serial

counters == <<r_Clock_Count, r_Bit_Index>>
status   == <<r_Tx_Done, r_Tx_Active>>
vars     == <<r_SM_Main, counters, r_Tx_Data, status, o_Tx_Serial>>

\* o_Tx_Serial is the one register without an initial value.
Init ==
  /\ r_SM_Main = "IDLE"
  /\ r_Clock_Count = 0 /\ r_Bit_Index = 0
  /\ r_Tx_Data = [b \in 0 .. LAST_BIT |-> 0]
  /\ r_Tx_Done = 0 /\ r_Tx_Active = 0
  /\ o_Tx_Serial \in Bit

\* i_Tx_DV and i_Tx_Byte are looked at in the idle state only.
Idle(i_Tx_DV, i_Tx_Byte) ==
  /\ r_SM_Main = "IDLE"
  /\ o_Tx_Serial' = 1 /\ r_Tx_Done' = 0
  /\ r_Clock_Count' = 0 /\ r_Bit_Index' = 0
  /\ \/ /\ i_Tx_DV = 1
        /\ r_Tx_Active' = 1 /\ r_Tx_Data' = i_Tx_Byte /\ r_SM_Main' = "START"
     \/ /\ i_Tx_DV = 0
        /\ UNCHANGED <<r_Tx_Active, r_Tx_Data, r_SM_Main>>

\* Mutant: the bits go out in the other order.
DrivenMsbFirst ==
  CASE r_SM_Main = "START" -> 0
    [] r_SM_Main = "DATA"  -> r_Tx_Data[LAST_BIT - r_Bit_Index]
    [] r_SM_Main = "STOP"  -> 1

\* What the states of a frame put on the line.
Driven ==
  CASE r_SM_Main = "START" -> 0
    [] r_SM_Main = "DATA"  -> r_Tx_Data[r_Bit_Index]
    [] r_SM_Main = "STOP"  -> 1

\* r_Clock_Count < CLKS_PER_BIT-1 in any of the three states of a frame.
HoldBit ==
  /\ r_SM_Main \in {"START", "DATA", "STOP"}
  /\ r_Clock_Count < CLKS_PER_BIT - 1
  /\ o_Tx_Serial' = Driven
  /\ r_Clock_Count' = r_Clock_Count + 1
  /\ UNCHANGED <<r_SM_Main, r_Bit_Index, r_Tx_Data, status>>

\* Its else branch, without what the states do differently.
BitEnds(state) ==
  /\ r_SM_Main = state
  /\ ~(r_Clock_Count < CLKS_PER_BIT - 1)
  /\ o_Tx_Serial' = Driven
  /\ r_Clock_Count' = 0
  /\ UNCHANGED r_Tx_Data

StartEnds ==
  /\ BitEnds("START")
  /\ r_SM_Main' = "DATA"
  /\ UNCHANGED <<r_Bit_Index, status>>

DataEnds ==
  /\ BitEnds("DATA")
  /\ \/ /\ r_Bit_Index < LAST_BIT
        /\ r_Bit_Index' = r_Bit_Index + 1 /\ UNCHANGED r_SM_Main
     \/ /\ ~(r_Bit_Index < LAST_BIT)
        /\ r_Bit_Index' = 0 /\ r_SM_Main' = "STOP"
  /\ UNCHANGED status

\* Mutant: the transmitter is still busy when it says that it is done.
StopEndsActive ==
  /\ BitEnds("STOP")
  /\ r_Tx_Done' = 1
  /\ r_SM_Main' = "CLEANUP"
  /\ UNCHANGED <<r_Bit_Index, r_Tx_Active>>

StopEnds ==
  /\ BitEnds("STOP")
  /\ r_Tx_Done' = 1 /\ r_Tx_Active' = 0
  /\ r_SM_Main' = "CLEANUP"
  /\ UNCHANGED r_Bit_Index

Cleanup ==
  /\ r_SM_Main = "CLEANUP"
  /\ r_Tx_Done' = 1
  /\ r_SM_Main' = "IDLE"
  /\ UNCHANGED <<counters, r_Tx_Data, r_Tx_Active, o_Tx_Serial>>

\* One rising edge with these inputs.
Clock(i_Tx_DV, i_Tx_Byte) ==
  \/ Idle(i_Tx_DV, i_Tx_Byte)
  \/ HoldBit \/ StartEnds \/ DataEnds \/ StopEnds \/ Cleanup

\* The module on its own: its inputs take any value at any edge.
Next == \E i_Tx_DV \in Bit, i_Tx_Byte \in Byte : Clock(i_Tx_DV, i_Tx_Byte)

Spec == Init /\ [][Next]_vars
-----------------------------------------------------------------------------
(***************************************************************************)
(* Properties.                                                             *)
(***************************************************************************)

\* Every register keeps its type, and the counters their range.
TypeOK ==
  /\ r_SM_Main \in {"IDLE", "START", "DATA", "STOP", "CLEANUP"}
  /\ r_Clock_Count \in 0 .. CLKS_PER_BIT - 1
  /\ r_Bit_Index \in 0 .. LAST_BIT
  /\ r_Tx_Data \in Byte
  /\ r_Tx_Done \in Bit /\ r_Tx_Active \in Bit /\ o_Tx_Serial \in Bit

\* The counters are reset and the outputs in step with the state wherever a
\* later state relies on it: the bit index outside of the data state, the
\* clock count and the line when a frame is over, the status throughout.
StateOK ==
  /\ r_SM_Main # "DATA" => r_Bit_Index = 0
  /\ r_SM_Main \in {"IDLE", "CLEANUP"} => r_Clock_Count = 0
  /\ r_Tx_Active = (IF r_SM_Main \in {"START", "DATA", "STOP"} THEN 1 ELSE 0)
  /\ r_SM_Main \in {"START", "DATA", "STOP"} => r_Tx_Done = 0
  /\ r_SM_Main = "CLEANUP" => r_Tx_Done = 1 /\ o_Tx_Serial = 1

\* Where the state machine is in the walk of SerialLine.
Position ==
  CASE r_SM_Main = "IDLE"    -> 0
    [] r_SM_Main = "START"   -> 1
    [] r_SM_Main = "DATA"    -> r_Bit_Index + 2
    [] r_SM_Main = "STOP"    -> LAST_BIT + 3
    [] r_SM_Main = "CLEANUP" -> LAST_BIT + 4

Line == INSTANCE SerialLine WITH
  line <- o_Tx_Serial, active <- r_Tx_Active, done <- r_Tx_Done,
  frame <- r_Tx_Data, tick <- r_Clock_Count, pos <- Position

\* The state machine is a transmitter of SerialLine: every frame on the line
\* is well formed and carries the byte that was there at the edge that took
\* it, however i_Tx_DV and i_Tx_Byte change meanwhile.
ImplementsLine == Line!Spec
=============================================================================
