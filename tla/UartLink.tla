------------------------------ MODULE UartLink ------------------------------
(***************************************************************************)
(* A uart_tx and a uart_rx of src/ip-cores/UART/Uart.v on the two ends of  *)
(* a wire.  Each end has its own clock; the clocks have the same nominal   *)
(* frequency and unrelated phases.                                         *)
(***************************************************************************)
EXTENDS UartRxEnd, Sequences

CONSTANTS
  Sent,   \* the bytes the client of the transmitter may offer
  Drift   \* clocks one end may be ahead of the other within a frame

ASSUME SentAssumption  == Sent \subseteq Byte
ASSUME DriftAssumption == Drift \in Nat \ {0}

VARIABLES
  r_SM_Main, r_Clock_Count, r_Bit_Index, r_Tx_Data,
  r_Tx_Done, r_Tx_Active, o_Tx_Serial,   \* transmitter
  skew,      \* edges of the transmitter's clock less those of the receiver's
  inFlight   \* history: bytes taken and not yet handed out

txVars == <<r_SM_Main, r_Clock_Count, r_Bit_Index, r_Tx_Data,
            r_Tx_Done, r_Tx_Active, o_Tx_Serial>>
vars == <<txVars, rxVars, skew, inFlight>>

Tx == INSTANCE UartTx

\* The first edge of the transmitter, which raises the line, comes before
\* the first one of the receiver.  Otherwise the low level that o_Tx_Serial
\* may power up with is a start bit to the receiver.
Init ==
  /\ Tx!Init /\ Rx!Init
  /\ o_Tx_Serial = 1
  /\ skew = 0 /\ inFlight = <<>>

\* An edge of the transmitter's clock.  The skew is counted from the edge
\* that starts a frame: the phases that come before it do not matter.
TxEdge(i_Tx_DV, i_Tx_Byte) ==
  /\ skew < Drift
  /\ Tx!Clock(i_Tx_DV, i_Tx_Byte)
  /\ skew' = IF r_SM_Main = "START" /\ o_Tx_Serial = 1 THEN 0 ELSE skew + 1
  /\ inFlight' = IF r_SM_Main = "IDLE" /\ i_Tx_DV = 1
                 THEN Append(inFlight, i_Tx_Byte) ELSE inFlight
  /\ UNCHANGED rxVars

RxEdge ==
  /\ skew > -Drift
  /\ Rx!Clock(o_Tx_Serial)
  /\ skew' = skew - 1
  /\ inFlight' = IF r_Rx_DV = 0 /\ r_Rx_DV' = 1 /\ inFlight # <<>>
                 THEN Tail(inFlight) ELSE inFlight
  /\ UNCHANGED txVars

TxNext == \E i_Tx_DV \in Bit, i_Tx_Byte \in Sent : TxEdge(i_Tx_DV, i_Tx_Byte)

Next == TxNext \/ RxEdge

\* Both clocks run for ever.
Spec == Init /\ [][Next]_vars /\ WF_vars(TxNext) /\ WF_vars(RxEdge)
-----------------------------------------------------------------------------
(***************************************************************************)
(* Properties.                                                             *)
(***************************************************************************)

\* The transmitter is one of SerialLine, under whatever the client does.
TransmitterIsLine == Tx!ImplementsLine

Channel == INSTANCE ByteChannel WITH strobe <- r_Rx_DV, out <- r_Rx_Byte

\* The two ends are a channel: no byte is lost, repeated, invented or changed
\* while their clocks stay within Drift of each other in a frame.
ImplementsChannel == Channel!Spec

\* Every byte taken is handed out.
Delivered == inFlight # <<>> ~> inFlight = <<>>
=============================================================================
