---------------------------- MODULE UartLinkProofs ---------------------------
(***************************************************************************)
(* Proofs about the transmitter, for every CLKS_PER_BIT, LAST_BIT and      *)
(* client, about a link between two clocks, and about the receiver on any  *)
(* line.                                                                   *)
(*                                                                         *)
(* Part 1: the registers of uart_tx keep their range, and its state        *)
(* machine implements SerialLine.  Part 2: the two ends implement          *)
(* ByteChannel while their clocks are Close.  Part 3: the receiver keeps   *)
(* its registers in range and samples every bit in its middle.             *)
(***************************************************************************)
EXTENDS UartLink, UartRxSamples, TLAPS

USE ClocksAssumption, BitsAssumption

TxInv == Tx!TypeOK /\ Tx!StateOK

LEMMA InitTx == Tx!Init => TxInv
BY DEF Tx!Init, TxInv, Tx!TypeOK, Tx!StateOK, Bit, Byte, Tx!Bit, Tx!Byte

LEMMA IdleTx ==
  ASSUME TxInv, NEW i_Tx_DV \in Bit, NEW i_Tx_Byte \in Byte, Tx!Idle(i_Tx_DV, i_Tx_Byte)
  PROVE  TxInv'
BY DEF TxInv, Tx!TypeOK, Tx!StateOK, Tx!Idle, Bit, Byte, Tx!Bit, Tx!Byte

\* What is driven in a frame is a bit.
LEMMA DrivenType ==
  ASSUME Tx!TypeOK, r_SM_Main \in {"START", "DATA", "STOP"}
  PROVE  Tx!Driven \in Bit
BY DEF Tx!TypeOK, Tx!Driven, Bit, Byte, Tx!Bit, Tx!Byte

LEMMA FrameTx ==
  ASSUME TxInv, Tx!HoldBit \/ Tx!StartEnds \/ Tx!DataEnds \/ Tx!StopEnds
  PROVE  TxInv'
<1>1. CASE Tx!HoldBit
  BY <1>1, DrivenType DEF TxInv, Tx!TypeOK, Tx!StateOK, Tx!HoldBit, Tx!status, Bit, Tx!Bit
<1>2. CASE Tx!StartEnds
  BY <1>2, DrivenType DEF TxInv, Tx!TypeOK, Tx!StateOK, Tx!StartEnds, Tx!BitEnds, Tx!status, Bit, Tx!Bit
<1>3. CASE Tx!DataEnds
  BY <1>3, DrivenType DEF TxInv, Tx!TypeOK, Tx!StateOK, Tx!DataEnds, Tx!BitEnds, Tx!status, Bit, Tx!Bit
<1>4. CASE Tx!StopEnds
  <2>1. Tx!Driven = 1
    BY <1>4 DEF Tx!StopEnds, Tx!BitEnds, Tx!Driven
  <2>2. QED BY <1>4, <2>1 DEF TxInv, Tx!TypeOK, Tx!StateOK, Tx!StopEnds, Tx!BitEnds, Bit
<1>5. QED BY <1>1, <1>2, <1>3, <1>4

LEMMA CleanupTx ==
  ASSUME TxInv, Tx!Cleanup
  PROVE  TxInv'
BY DEF TxInv, Tx!TypeOK, Tx!StateOK, Tx!Cleanup, Tx!counters, Bit

LEMMA ClockTx ==
  ASSUME TxInv, NEW i_Tx_DV \in Bit, NEW i_Tx_Byte \in Byte, Tx!Clock(i_Tx_DV, i_Tx_Byte)
  PROVE  TxInv'
BY IdleTx, FrameTx, CleanupTx DEF Tx!Clock

LEMMA NextTx == TxInv /\ [Tx!Next]_(Tx!vars) => TxInv'
<1>1. ASSUME TxInv, Tx!Next PROVE TxInv'
  BY <1>1, ClockTx DEF Tx!Next, Bit, Byte, Tx!Bit, Tx!Byte
<1>2. ASSUME TxInv, UNCHANGED Tx!vars PROVE TxInv'
  BY <1>2 DEF TxInv, Tx!TypeOK, Tx!StateOK, Tx!vars, Tx!counters, Tx!status
<1>3. QED BY <1>1, <1>2

THEOREM TxInvariance == Tx!Spec => []TxInv
BY InitTx, NextTx, PTL DEF Tx!Spec

\* TypeOK for every size of the transmitter: the counters never pass the
\* last clock of a bit and the last bit of a byte.
THEOREM TxTypeCorrect == Tx!Spec => []Tx!TypeOK
BY TxInvariance, PTL DEF TxInv

\* StateOK for every size: what uartCTL relies on when it looks at o_Tx_Done
\* and o_Tx_Active.
THEOREM TxStateCorrect == Tx!Spec => []Tx!StateOK
BY TxInvariance, PTL DEF TxInv
-----------------------------------------------------------------------------
(***************************************************************************)
(* Refinement: one edge of the state machine is one clock of the walk over *)
(* the symbols of SerialLine.                                              *)
(***************************************************************************)

\* Position, state by state.
LEMMA Positions ==
  /\ r_SM_Main = "IDLE"    => Tx!Position = 0
  /\ r_SM_Main = "START"   => Tx!Position = 1
  /\ r_SM_Main = "DATA"    => Tx!Position = r_Bit_Index + 2
  /\ r_SM_Main = "STOP"    => Tx!Position = LAST_BIT + 3
  /\ r_SM_Main = "CLEANUP" => Tx!Position = LAST_BIT + 4
BY DEF Tx!Position

LEMMA PositionsNext ==
  /\ r_SM_Main' = "IDLE"    => Tx!Position' = 0
  /\ r_SM_Main' = "START"   => Tx!Position' = 1
  /\ r_SM_Main' = "DATA"    => Tx!Position' = r_Bit_Index' + 2
  /\ r_SM_Main' = "STOP"    => Tx!Position' = LAST_BIT + 3
  /\ r_SM_Main' = "CLEANUP" => Tx!Position' = LAST_BIT + 4
BY DEF Tx!Position

\* What the state machine drives is the symbol of its position.
LEMMA DrivesSymbol ==
  ASSUME TxInv, r_SM_Main \in {"START", "DATA", "STOP"}
  PROVE  Tx!Driven = Tx!Line!Symbol(Tx!Position)
<1>1. CASE r_SM_Main = "START"
  BY <1>1, Positions DEF Tx!Driven, Tx!Line!Symbol
<1>2. CASE r_SM_Main = "DATA"
  <2>1. Tx!Driven = r_Tx_Data[r_Bit_Index]
    BY <1>2 DEF Tx!Driven
  <2>2. Tx!Position \in 2 .. LAST_BIT + 2 /\ Tx!Position - 2 = r_Bit_Index
    BY <1>2, Positions DEF TxInv, Tx!TypeOK
  <2>3. QED BY <2>1, <2>2 DEF Tx!Line!Symbol
<1>3. CASE r_SM_Main = "STOP"
  BY <1>3, Positions DEF Tx!Driven, Tx!Line!Symbol
<1>4. QED BY <1>1, <1>2, <1>3

LEMMA InitRefines == Tx!Init => Tx!Line!Init
BY Positions DEF Tx!Init, Tx!Line!Init, Tx!Line!Bit, Tx!Line!Byte, Bit, Byte, Tx!Bit, Tx!Byte

LEMMA IdleRefines ==
  ASSUME TxInv, NEW i_Tx_DV \in Bit, NEW i_Tx_Byte \in Byte, Tx!Idle(i_Tx_DV, i_Tx_Byte)
  PROVE  Tx!Line!Next
<1>1. o_Tx_Serial' = Tx!Line!Symbol(Tx!Position)
  BY Positions DEF Tx!Idle, Tx!Line!Symbol
<1>2. Tx!Line!Accept \/ Tx!Line!Rest
  BY Positions, PositionsNext
     DEF TxInv, Tx!StateOK, Tx!Idle, Byte, Bit, Tx!Line!Accept, Tx!Line!Rest, Tx!Line!Byte, Tx!Line!Bit
<1>3. /\ r_Tx_Active' = IF Tx!Position' \in 1 .. Tx!Line!Stop THEN 1 ELSE 0
      /\ r_Tx_Done' = IF Tx!Position = Tx!Line!Gap \/ Tx!Position' = Tx!Line!Gap THEN 1 ELSE 0
  BY Positions, PositionsNext DEF TxInv, Tx!StateOK, Tx!Idle, Tx!Line!Stop, Tx!Line!Gap
<1>4. QED BY <1>1, <1>2, <1>3 DEF Tx!Line!Next

LEMMA HoldRefines ==
  ASSUME TxInv, Tx!HoldBit
  PROVE  Tx!Line!Next
<1>1. o_Tx_Serial' = Tx!Line!Symbol(Tx!Position)
  BY DrivesSymbol DEF Tx!HoldBit
<1>2. Tx!Position \in 1 .. Tx!Line!Stop /\ Tx!Position' = Tx!Position
  BY Positions, PositionsNext DEF TxInv, Tx!TypeOK, Tx!HoldBit, Tx!Line!Stop
<1>3. Tx!Line!Hold
  BY <1>2 DEF Tx!HoldBit, Tx!Line!Hold
<1>4. r_Tx_Active' = 1 /\ r_Tx_Done' = 0
  BY DEF TxInv, Tx!StateOK, Tx!HoldBit, Tx!status
<1>5. QED BY <1>1, <1>2, <1>3, <1>4 DEF Tx!Line!Next, Tx!Line!Stop, Tx!Line!Gap

\* The three ways a symbol ends are one step of the walk.
LEMMA EndRefines ==
  ASSUME TxInv, Tx!StartEnds \/ Tx!DataEnds \/ Tx!StopEnds
  PROVE  Tx!Line!Next
<1>1. /\ r_SM_Main \in {"START", "DATA", "STOP"}
      /\ ~(r_Clock_Count < CLKS_PER_BIT - 1) /\ r_Clock_Count' = 0
      /\ o_Tx_Serial' = Tx!Driven /\ r_Tx_Data' = r_Tx_Data
  BY DEF Tx!StartEnds, Tx!DataEnds, Tx!StopEnds, Tx!BitEnds
<1>2. o_Tx_Serial' = Tx!Line!Symbol(Tx!Position)
  BY <1>1, DrivesSymbol
<1>3. Tx!Position \in 1 .. Tx!Line!Stop /\ Tx!Position' = Tx!Position + 1
  BY Positions, PositionsNext
     DEF TxInv, Tx!TypeOK, Tx!StateOK, Tx!StartEnds, Tx!DataEnds, Tx!StopEnds, Tx!BitEnds, Tx!Line!Stop
<1>4. Tx!Line!Advance
  BY <1>1, <1>3 DEF TxInv, Tx!TypeOK, Tx!Line!Advance
<1>5. r_Tx_Active' = IF r_SM_Main = "STOP" THEN 0 ELSE 1
  BY DEF TxInv, Tx!StateOK, Tx!StartEnds, Tx!DataEnds, Tx!StopEnds, Tx!BitEnds, Tx!status
<1>6. r_Tx_Done' = IF r_SM_Main = "STOP" THEN 1 ELSE 0
  BY DEF TxInv, Tx!StateOK, Tx!StartEnds, Tx!DataEnds, Tx!StopEnds, Tx!BitEnds, Tx!status
<1>7. Tx!Position = Tx!Line!Stop <=> r_SM_Main = "STOP"
  BY <1>1, Positions DEF TxInv, Tx!TypeOK, Tx!Line!Stop
<1>8. QED BY <1>2, <1>3, <1>4, <1>5, <1>6, <1>7 DEF Tx!Line!Next, Tx!Line!Stop, Tx!Line!Gap

LEMMA CleanupRefines ==
  ASSUME TxInv, Tx!Cleanup
  PROVE  Tx!Line!Next
<1>1. Tx!Position = Tx!Line!Gap /\ Tx!Position' = 0 /\ ~(Tx!Position \in 2 .. LAST_BIT + 2) /\ Tx!Position # 1
  BY Positions, PositionsNext DEF Tx!Cleanup, Tx!Line!Gap
<1>2. Tx!Line!Close
  BY <1>1 DEF Tx!Cleanup, Tx!counters, Tx!Line!Close
<1>3. r_Tx_Active' = 0 /\ r_Tx_Done' = 1
  BY DEF TxInv, Tx!StateOK, Tx!Cleanup
<1>4. o_Tx_Serial' = 1
  BY DEF TxInv, Tx!StateOK, Tx!Cleanup
<1>5. QED BY <1>1, <1>2, <1>3, <1>4 DEF Tx!Line!Next, Tx!Line!Symbol, Tx!Cleanup

LEMMA NextRefines == TxInv /\ [Tx!Next]_(Tx!vars) => [Tx!Line!Next]_(Tx!Line!vars)
<1>1. ASSUME TxInv, Tx!Next PROVE Tx!Line!Next
  <2>1. PICK i_Tx_DV \in Bit, i_Tx_Byte \in Byte : Tx!Clock(i_Tx_DV, i_Tx_Byte)
    BY <1>1 DEF Tx!Next, Bit, Byte, Tx!Bit, Tx!Byte
  <2>2. QED
    BY <1>1, <2>1, IdleRefines, HoldRefines, EndRefines, CleanupRefines DEF Tx!Clock
<1>2. ASSUME UNCHANGED Tx!vars PROVE UNCHANGED Tx!Line!vars
  BY <1>2, Positions, PositionsNext
     DEF Tx!vars, Tx!counters, Tx!status, Tx!Line!vars, Tx!Position
<1>3. QED BY <1>1, <1>2

\* ImplementsLine: for every CLKS_PER_BIT and LAST_BIT the transmitter puts
\* well formed frames on the line, each symbol for exactly CLKS_PER_BIT
\* clocks, with the byte it took, and its status follows the frame.
THEOREM TxRefines == Tx!Spec => Tx!ImplementsLine
BY TxInvariance, InitRefines, NextRefines, PTL DEF Tx!Spec, Tx!ImplementsLine, Tx!Line!Spec

LEMMA InitIsTx == Init => Tx!Init
BY DEF Init

LEMMA NextIsTx == [Next]_vars => [Tx!Next]_(Tx!vars)
<1>1. ASSUME TxNext PROVE Tx!Next
  <2>1. PICK i_Tx_DV \in Bit, i_Tx_Byte \in Sent : Tx!Clock(i_Tx_DV, i_Tx_Byte)
    BY <1>1 DEF TxNext, TxEdge
  <2>2. QED BY <2>1, SentAssumption DEF Tx!Next, Bit, Byte, Tx!Bit, Tx!Byte
<1>2. ASSUME RxEdge \/ UNCHANGED vars PROVE UNCHANGED Tx!vars
  BY <1>2 DEF RxEdge, vars, txVars, Tx!vars, Tx!counters, Tx!status
<1>3. QED BY <1>1, <1>2 DEF Next

\* The client of the link is one of those a transmitter may have, and the
\* other end does nothing to it.
THEOREM LinkTransmitter == Spec => Tx!Spec
BY InitIsTx, NextIsTx, PTL DEF Spec, Tx!Spec

\* TransmitterIsLine: whatever the clock of the receiver does, there are well
\* formed frames on the wire.
THEOREM TransmitterRefines == Spec => TransmitterIsLine
BY LinkTransmitter, TxRefines, PTL DEF TransmitterIsLine
-----------------------------------------------------------------------------
(***************************************************************************)
(* Part 2.  The receiver follows one frame at a time.  Where it is in the  *)
(* frame, where the transmitter is, and the skew between their clocks are  *)
(* tied by one equation, from the edge on which the line goes low to the   *)
(* one on which the byte is handed out.                                    *)
(***************************************************************************)

\* The ends are at most so far apart that the receiver looks at every bit
\* while it is on the line, and has handed the byte out before the next one
\* may be taken.
Close == Drift + Rx!Middle + 3 <= CLKS_PER_BIT

\* Symbol p of a frame with these data.
Symbol(data, p) ==
  IF p = 1 THEN 0 ELSE IF p \in 2 .. LAST_BIT + 2 THEN data[p - 2] ELSE 1

\* The line follows the state machine by one edge.
OnLine ==
  o_Tx_Serial = IF Tx!Position = 0 THEN 1
                ELSE IF r_Clock_Count = 0 THEN Symbol(r_Tx_Data, Tx!Position - 1)
                ELSE Symbol(r_Tx_Data, Tx!Position)

Registers ==
  /\ r_Rx_Data_R \in Bit /\ r_Rx_Data \in Bit /\ r_Rx_Byte \in Byte
  /\ rx_Bit_Index \in 0 .. LAST_BIT
  /\ skew \in -Drift .. Drift

\* The transmitter is behind the data bits of a frame, or before the next.
Between ==
  /\ o_Tx_Serial = 1
  /\ \/ Tx!Position \in {0, LAST_BIT + 3, LAST_BIT + 4} /\ inFlight = <<>>
     \/ Tx!Position = 1 /\ r_Clock_Count = 0 /\ inFlight = <<r_Tx_Data>>

Apart ==
  /\ rx_SM_Main = "IDLE" /\ r_Rx_DV = 0
  /\ r_Rx_Data_R = 1 /\ r_Rx_Data = 1
  /\ Between

\* a: edges of the receiver since the line went low.
Starting(a) ==
  /\ r_Rx_DV = 0 /\ inFlight = <<r_Tx_Data>>
  /\ \/ Tx!Position = 1 /\ r_Clock_Count > 0 /\ skew = r_Clock_Count - 1 - a
     \/ Tx!Position = 2 /\ skew = CLKS_PER_BIT + r_Clock_Count - 1 - a
  /\ IF a < 3 THEN rx_SM_Main = "IDLE"
     ELSE rx_SM_Main = "START" /\ rx_Clock_Count = a - 3 /\ rx_Bit_Index = 0
  /\ IF a = 0 THEN r_Rx_Data_R = 1 ELSE a <= Rx!Middle + 2 => r_Rx_Data_R = 0
  /\ r_Rx_Data = IF a < 2 THEN 1 ELSE 0

\* Where the receiver is after symbol n, with its own clock at c.  Its count
\* runs from the middle of the symbol.
Counting(n, c) ==
  \/ rx_SM_Main = "DATA" /\ n = rx_Bit_Index + 1 /\ rx_Clock_Count = c
  \/ rx_SM_Main = "STOP" /\ n = LAST_BIT + 2 /\ rx_Bit_Index = 0 /\ rx_Clock_Count = c

\* The transmitter is in one of the three symbols from n on, or has closed
\* the frame.
Ahead(n, c) ==
  \/ Tx!Position = n /\ skew = r_Clock_Count - c - Rx!Middle - 5
  \/ Tx!Position = n + 1 /\ skew = CLKS_PER_BIT + r_Clock_Count - c - Rx!Middle - 5
  \/ Tx!Position = n + 2 /\ skew = 2 * CLKS_PER_BIT + r_Clock_Count - c - Rx!Middle - 5
  \/ Tx!Position = 0 /\ n = LAST_BIT + 2 /\ skew >= 2 * CLKS_PER_BIT - c - Rx!Middle - 4

\* The receiver has looked at symbol n and waits for the middle of the next.
Receiving(n, c) ==
  /\ Counting(n, c) /\ Ahead(n, c)
  /\ r_Rx_DV = 0 /\ inFlight = <<r_Tx_Data>>
  /\ \A i \in 0 .. LAST_BIT : i < n - 1 => r_Rx_Byte[i] = r_Tx_Data[i]
  /\ c >= CLKS_PER_BIT - 2 => r_Rx_Data_R = Symbol(r_Tx_Data, n + 1)
  /\ c = CLKS_PER_BIT - 1 => r_Rx_Data = Symbol(r_Tx_Data, n + 1)

Finished ==
  /\ rx_SM_Main = "CLEANUP" /\ r_Rx_DV = 1
  /\ r_Rx_Data_R = 1 /\ r_Rx_Data = 1
  /\ Between
  /\ Tx!Position = LAST_BIT + 3 => skew = r_Clock_Count - Rx!Middle - 5
  /\ Tx!Position = LAST_BIT + 4 => skew = CLKS_PER_BIT - Rx!Middle - 5
  /\ Tx!Position = 0 => skew >= CLKS_PER_BIT - Rx!Middle - 4
  /\ Tx!Position = 1 => skew >= CLKS_PER_BIT - Rx!Middle - 3

Phases ==
  \/ Apart
  \/ \E a \in 0 .. Rx!Middle + 3 : Starting(a)
  \/ \E n \in 1 .. LAST_BIT + 2, c \in 0 .. CLKS_PER_BIT - 1 : Receiving(n, c)
  \/ Finished

IInv == TxInv /\ Registers /\ OnLine /\ Phases
-----------------------------------------------------------------------------
(***************************************************************************)
(* Numbers and symbols.                                                    *)
(***************************************************************************)
LEMMA MiddleRange ==
  /\ Rx!Middle \in Nat
  /\ 2 * Rx!Middle <= CLKS_PER_BIT - 1 /\ CLKS_PER_BIT - 1 <= 2 * Rx!Middle + 1
BY DEF Rx!Middle

LEMMA CloseBounds ==
  ASSUME Close
  PROVE  /\ Drift \in Nat /\ Drift > 0 /\ CLKS_PER_BIT \in Nat /\ CLKS_PER_BIT > 3
         /\ Drift + Rx!Middle + 3 <= CLKS_PER_BIT
         /\ Drift + 1 <= Rx!Middle
BY MiddleRange, DriftAssumption DEF Close

LEMMA Symbols ==
  ASSUME NEW data
  PROVE  /\ Symbol(data, 0) = 1 /\ Symbol(data, 1) = 0
         /\ Symbol(data, LAST_BIT + 3) = 1 /\ Symbol(data, LAST_BIT + 4) = 1
         /\ \A i \in 0 .. LAST_BIT : Symbol(data, i + 2) = data[i]
<1>1. ASSUME NEW i \in 0 .. LAST_BIT PROVE Symbol(data, i + 2) = data[i]
  <2>1. i + 2 \in 2 .. LAST_BIT + 2 /\ i + 2 # 1 /\ (i + 2) - 2 = i
    BY <1>1
  <2>2. QED BY <2>1 DEF Symbol
<1>2. QED BY <1>1 DEF Symbol

LEMMA SymbolBit ==
  ASSUME NEW data \in Byte, NEW p \in Int
  PROVE  Symbol(data, p) \in Bit
<1>1. CASE p \in 2 .. LAST_BIT + 2
  BY <1>1 DEF Symbol, Byte, Bit
<1>2. CASE p \notin 2 .. LAST_BIT + 2
  BY <1>2 DEF Symbol, Bit
<1>3. QED BY <1>1, <1>2

LEMMA LineSymbol ==
  ASSUME NEW p
  PROVE  Tx!Line!Symbol(p) = Symbol(r_Tx_Data, p)
BY DEF Tx!Line!Symbol, Symbol

LEMMA PositionRange ==
  ASSUME TxInv
  PROVE  /\ Tx!Position \in 0 .. LAST_BIT + 4
         /\ r_Clock_Count \in 0 .. CLKS_PER_BIT - 1
         /\ Tx!Position \in {0, LAST_BIT + 4} => r_Clock_Count = 0
         /\ r_Tx_Data \in Byte /\ o_Tx_Serial \in Bit
         /\ r_SM_Main = "IDLE" <=> Tx!Position = 0
         /\ r_SM_Main = "START" <=> Tx!Position = 1
<1>1. /\ r_SM_Main \in {"IDLE", "START", "DATA", "STOP", "CLEANUP"}
      /\ r_Bit_Index \in 0 .. LAST_BIT
      /\ r_SM_Main \in {"IDLE", "CLEANUP"} => r_Clock_Count = 0
  BY DEF TxInv, Tx!TypeOK, Tx!StateOK
<1>2. /\ r_Clock_Count \in 0 .. CLKS_PER_BIT - 1
      /\ r_Tx_Data \in Byte /\ o_Tx_Serial \in Bit
  BY DEF TxInv, Tx!TypeOK, Bit, Byte, Tx!Bit, Tx!Byte
<1>3. QED BY <1>1, <1>2, Positions
-----------------------------------------------------------------------------
(***************************************************************************)
(* The five steps of the transmitter, as the walk of SerialLine.           *)
(***************************************************************************)
Rests ==
  /\ Tx!Position = 0 /\ Tx!Position' = 0 /\ r_Clock_Count' = 0
  /\ o_Tx_Serial' = 1 /\ r_Tx_Data' = r_Tx_Data
  /\ inFlight' = inFlight /\ skew' = skew + 1

Takes(b) ==
  /\ Tx!Position = 0 /\ Tx!Position' = 1 /\ r_Clock_Count' = 0
  /\ o_Tx_Serial' = 1 /\ r_Tx_Data' = b
  /\ inFlight' = Append(inFlight, b) /\ skew' = skew + 1

Holds ==
  /\ Tx!Position \in 1 .. LAST_BIT + 3 /\ Tx!Position' = Tx!Position
  /\ r_Clock_Count < CLKS_PER_BIT - 1 /\ r_Clock_Count' = r_Clock_Count + 1
  /\ o_Tx_Serial' = Symbol(r_Tx_Data, Tx!Position) /\ r_Tx_Data' = r_Tx_Data
  /\ inFlight' = inFlight
  /\ skew' = IF Tx!Position = 1 /\ r_Clock_Count = 0 THEN 0 ELSE skew + 1

Advances ==
  /\ Tx!Position \in 1 .. LAST_BIT + 3 /\ Tx!Position' = Tx!Position + 1
  /\ r_Clock_Count = CLKS_PER_BIT - 1 /\ r_Clock_Count' = 0
  /\ o_Tx_Serial' = Symbol(r_Tx_Data, Tx!Position) /\ r_Tx_Data' = r_Tx_Data
  /\ inFlight' = inFlight /\ skew' = skew + 1

Closes ==
  /\ Tx!Position = LAST_BIT + 4 /\ Tx!Position' = 0
  /\ r_Clock_Count = 0 /\ r_Clock_Count' = 0
  /\ o_Tx_Serial' = 1 /\ r_Tx_Data' = r_Tx_Data
  /\ inFlight' = inFlight /\ skew' = skew + 1

LEMMA SkewStep ==
  ASSUME TxInv, OnLine, NEW i_Tx_DV, NEW i_Tx_Byte, TxEdge(i_Tx_DV, i_Tx_Byte)
  PROVE  skew' = IF Tx!Position = 1 /\ r_Clock_Count = 0 THEN 0 ELSE skew + 1
<1>1. skew' = IF r_SM_Main = "START" /\ o_Tx_Serial = 1 THEN 0 ELSE skew + 1
  BY DEF TxEdge
<1>2. Tx!Position = 1 => (o_Tx_Serial = 1 <=> r_Clock_Count = 0)
  BY Symbols, PositionRange DEF OnLine
<1>3. QED BY <1>1, <1>2, PositionRange

LEMMA Walk ==
  ASSUME Close, TxInv, OnLine, NEW i_Tx_DV \in Bit, NEW i_Tx_Byte \in Byte,
         TxEdge(i_Tx_DV, i_Tx_Byte)
  PROVE  Rests \/ Takes(i_Tx_Byte) \/ Holds \/ Advances \/ Closes
<1> USE PositionRange
<1>1. /\ skew' = IF Tx!Position = 1 /\ r_Clock_Count = 0 THEN 0 ELSE skew + 1
      /\ inFlight' = IF r_SM_Main = "IDLE" /\ i_Tx_DV = 1
                     THEN Append(inFlight, i_Tx_Byte) ELSE inFlight
      /\ Tx!Clock(i_Tx_DV, i_Tx_Byte)
  BY SkewStep DEF TxEdge
<1>2. CASE Tx!Idle(i_Tx_DV, i_Tx_Byte)
  <2>1. /\ Tx!Position = 0 /\ r_Clock_Count' = 0 /\ o_Tx_Serial' = 1 /\ skew' = skew + 1
    BY <1>1, <1>2, Positions DEF Tx!Idle
  <2>2. CASE i_Tx_DV = 1
    <3>1. r_SM_Main = "IDLE" /\ r_SM_Main' = "START" /\ r_Tx_Data' = i_Tx_Byte
      BY <1>2, <2>2 DEF Tx!Idle
    <3>2. QED BY <1>1, <2>1, <2>2, <3>1, PositionsNext DEF Takes
  <2>3. CASE i_Tx_DV = 0
    <3>1. r_SM_Main' = "IDLE" /\ r_Tx_Data' = r_Tx_Data
      BY <1>2, <2>3 DEF Tx!Idle
    <3>2. inFlight' = inFlight
      BY <1>1, <2>3
    <3>3. QED BY <2>1, <3>1, <3>2, PositionsNext DEF Rests
  <2>4. QED BY <2>2, <2>3 DEF Bit
<1>3. CASE Tx!HoldBit
  <2>1. /\ r_SM_Main \in {"START", "DATA", "STOP"}
        /\ r_Clock_Count < CLKS_PER_BIT - 1 /\ r_Clock_Count' = r_Clock_Count + 1
        /\ o_Tx_Serial' = Tx!Driven /\ r_Tx_Data' = r_Tx_Data
        /\ r_SM_Main' = r_SM_Main /\ r_Bit_Index' = r_Bit_Index
    BY <1>3 DEF Tx!HoldBit
  <2>2. Tx!Driven = Symbol(r_Tx_Data, Tx!Position)
    BY <2>1, DrivesSymbol, LineSymbol
  <2>3. Tx!Position' = Tx!Position /\ Tx!Position \in 1 .. LAST_BIT + 3
    BY <2>1, Positions, PositionsNext DEF TxInv, Tx!TypeOK
  <2>4. inFlight' = inFlight
    BY <1>1, <2>1
  <2>5. QED BY <1>1, <2>1, <2>2, <2>3, <2>4 DEF Holds
<1>4. CASE Tx!StartEnds \/ Tx!DataEnds \/ Tx!StopEnds
  <2>1. /\ r_SM_Main \in {"START", "DATA", "STOP"}
        /\ ~(r_Clock_Count < CLKS_PER_BIT - 1) /\ r_Clock_Count' = 0
        /\ o_Tx_Serial' = Tx!Driven /\ r_Tx_Data' = r_Tx_Data
    BY <1>4 DEF Tx!StartEnds, Tx!DataEnds, Tx!StopEnds, Tx!BitEnds
  <2>2. Tx!Driven = Symbol(r_Tx_Data, Tx!Position)
    BY <2>1, DrivesSymbol, LineSymbol
  <2>3. Tx!Position' = Tx!Position + 1 /\ Tx!Position \in 1 .. LAST_BIT + 3
    BY <1>4, Positions, PositionsNext
       DEF TxInv, Tx!TypeOK, Tx!StateOK, Tx!StartEnds, Tx!DataEnds, Tx!StopEnds, Tx!BitEnds
  <2>4. inFlight' = inFlight
    BY <1>1, <2>1
  <2>5. r_Clock_Count = CLKS_PER_BIT - 1 /\ r_Clock_Count # 0
    BY <2>1, CloseBounds
  <2>6. QED BY <1>1, <2>1, <2>2, <2>3, <2>4, <2>5 DEF Advances
<1>5. CASE Tx!Cleanup
  <2>1. /\ r_SM_Main = "CLEANUP" /\ r_SM_Main' = "IDLE"
        /\ r_Clock_Count' = r_Clock_Count /\ r_Tx_Data' = r_Tx_Data
        /\ o_Tx_Serial' = o_Tx_Serial /\ o_Tx_Serial = 1
    BY <1>5 DEF Tx!Cleanup, Tx!counters, TxInv, Tx!StateOK
  <2>2. Tx!Position = LAST_BIT + 4 /\ Tx!Position' = 0
    BY <2>1, Positions, PositionsNext
  <2>3. inFlight' = inFlight
    BY <1>1, <2>1
  <2>4. QED BY <1>1, <2>1, <2>2, <2>3 DEF Closes
<1>6. QED BY <1>1, <1>2, <1>3, <1>4, <1>5 DEF Tx!Clock

LEMMA OnLineWalks ==
  ASSUME Close, TxInv, NEW b, Rests \/ Takes(b) \/ Holds \/ Advances \/ Closes
  PROVE  OnLine'
<1>1. CASE Rests \/ Takes(b) \/ Closes
  BY <1>1, Symbols DEF Rests, Takes, Closes, OnLine
<1>2. CASE Holds
  BY <1>2, PositionRange DEF Holds, OnLine
<1>3. CASE Advances
  BY <1>3, PositionRange DEF Advances, OnLine
<1>4. QED BY <1>1, <1>2, <1>3
-----------------------------------------------------------------------------
(***************************************************************************)
(* An edge of the transmitter, phase by phase.                             *)
(***************************************************************************)
RxStill ==
  /\ rx_SM_Main' = rx_SM_Main /\ rx_Clock_Count' = rx_Clock_Count
  /\ rx_Bit_Index' = rx_Bit_Index /\ r_Rx_Byte' = r_Rx_Byte /\ r_Rx_DV' = r_Rx_DV
  /\ r_Rx_Data_R' = r_Rx_Data_R /\ r_Rx_Data' = r_Rx_Data

Walks(b) == Rests \/ Takes(b) \/ Holds \/ Advances \/ Closes

LEMMA Appended ==
  ASSUME NEW b
  PROVE  Append(<<>>, b) = <<b>>
OBVIOUS

LEMMA BetweenWalks ==
  ASSUME Close, TxInv, Between, NEW b, Walks(b),
         ~ (Tx!Position = 1 /\ r_Clock_Count = 0)
  PROVE  Between' /\ inFlight = <<>>
<1> USE PositionRange
<1>1. Tx!Position \in {0, LAST_BIT + 3, LAST_BIT + 4} /\ inFlight = <<>>
  BY DEF Between
<1>2. CASE Rests \/ Closes
  BY <1>1, <1>2 DEF Rests, Closes, Between
<1>3. CASE Takes(b)
  BY <1>1, <1>3, Appended DEF Takes, Between
<1>4. CASE Holds
  BY <1>1, <1>4, Symbols DEF Holds, Between
<1>5. CASE Advances
  BY <1>1, <1>5, Symbols DEF Advances, Between
<1>6. QED BY <1>1, <1>2, <1>3, <1>4, <1>5 DEF Walks

LEMMA ApartWalks ==
  ASSUME Close, TxInv, Apart, NEW b, Walks(b), RxStill
  PROVE  Phases'
<1>1. CASE Tx!Position = 1 /\ r_Clock_Count = 0
  <2>1. Holds
    BY <1>1, CloseBounds DEF Walks, Rests, Takes, Advances, Closes
  <2>2. Starting(0)'
    BY <1>1, <2>1, Symbols DEF Holds, Apart, Between, RxStill, Starting
  <2>3. QED BY <2>2, MiddleRange DEF Phases
<1>2. CASE ~ (Tx!Position = 1 /\ r_Clock_Count = 0)
  <2>1. Between'
    BY <1>2, BetweenWalks DEF Apart
  <2>2. QED BY <2>1 DEF Apart, RxStill, Phases
<1>3. QED BY <1>1, <1>2

LEMMA StartingWalks ==
  ASSUME Close, TxInv, skew < Drift, NEW a \in 0 .. Rx!Middle + 3, Starting(a),
         NEW b, Walks(b), RxStill
  PROVE  Starting(a)'
<1> USE PositionRange, CloseBounds, MiddleRange
<1>1. Tx!Position \in {1, 2} /\ ~ (Tx!Position = 1 /\ r_Clock_Count = 0)
  BY DEF Starting
<1>2. r_Clock_Count = CLKS_PER_BIT - 1 => Tx!Position = 1
  BY DEF Starting
<1>3. /\ r_Tx_Data' = r_Tx_Data /\ inFlight' = inFlight
      /\ \/ Tx!Position' = 1 /\ r_Clock_Count' > 0 /\ skew' = r_Clock_Count' - 1 - a
         \/ Tx!Position' = 2 /\ skew' = CLKS_PER_BIT + r_Clock_Count' - 1 - a
  <2>1. CASE Holds
    BY <1>1, <2>1 DEF Holds, Starting
  <2>2. CASE Advances
    BY <1>1, <1>2, <2>2 DEF Advances, Starting
  <2>3. QED BY <1>1, <2>1, <2>2 DEF Walks, Rests, Takes, Closes
<1>4. QED BY <1>3 DEF Starting, RxStill

LEMMA ReceivingWalks ==
  ASSUME Close, TxInv, skew \in -Drift .. Drift, skew < Drift,
         NEW n \in 1 .. LAST_BIT + 2, NEW c \in 0 .. CLKS_PER_BIT - 1, Receiving(n, c),
         NEW b, Walks(b), RxStill
  PROVE  Receiving(n, c)'
<1> USE PositionRange, CloseBounds, MiddleRange
<1>1. Tx!Position # 0 /\ ~ (Tx!Position = 1 /\ r_Clock_Count = 0)
  BY DEF Receiving, Ahead
<1>2. /\ r_Tx_Data' = r_Tx_Data /\ inFlight' = inFlight
      /\ Ahead(n, c)'
  <2>1. CASE Holds
    BY <1>1, <2>1 DEF Holds, Receiving, Ahead
  <2>2. CASE Advances
    <3>1. Tx!Position # n + 2
      BY <2>2 DEF Advances, Receiving, Ahead
    <3>2. QED BY <1>1, <2>2, <3>1 DEF Advances, Receiving, Ahead
  <2>3. CASE Closes
    BY <1>1, <2>3 DEF Closes, Receiving, Ahead
  <2>4. QED BY <1>1, <2>1, <2>2, <2>3 DEF Walks, Rests, Takes
<1>3. Counting(n, c)'
  BY DEF Receiving, Counting, RxStill
<1>4. QED BY <1>2, <1>3 DEF Receiving, RxStill

LEMMA FinishedWalks ==
  ASSUME Close, TxInv, skew \in -Drift .. Drift, skew < Drift, Finished,
         NEW b, Walks(b), RxStill
  PROVE  Finished'
<1> USE PositionRange, CloseBounds, MiddleRange
<1>1. Tx!Position # 1
  BY DEF Finished
<1>2. Between' /\ Tx!Position \in {0, LAST_BIT + 3, LAST_BIT + 4}
  BY <1>1, BetweenWalks DEF Finished, Between
<1>3. /\ Tx!Position' = LAST_BIT + 3 => skew' = r_Clock_Count' - Rx!Middle - 5
      /\ Tx!Position' = LAST_BIT + 4 => skew' = CLKS_PER_BIT - Rx!Middle - 5
      /\ Tx!Position' = 0 => skew' >= CLKS_PER_BIT - Rx!Middle - 4
      /\ Tx!Position' = 1 => skew' >= CLKS_PER_BIT - Rx!Middle - 3
  <2>1. CASE Rests \/ Closes \/ Takes(b)
    BY <1>2, <2>1 DEF Rests, Closes, Takes, Finished
  <2>2. CASE Holds
    BY <1>2, <2>2 DEF Holds, Finished
  <2>3. CASE Advances
    BY <1>2, <2>3 DEF Advances, Finished
  <2>4. QED BY <2>1, <2>2, <2>3 DEF Walks
<1>4. QED BY <1>2, <1>3 DEF Finished, RxStill
-----------------------------------------------------------------------------
(***************************************************************************)
(* An edge of the receiver, phase by phase, and what it is to the channel. *)
(***************************************************************************)
TxStill ==
  /\ Tx!Position' = Tx!Position /\ r_Clock_Count' = r_Clock_Count
  /\ r_Tx_Data' = r_Tx_Data /\ o_Tx_Serial' = o_Tx_Serial

LEMMA RxEdgeIs ==
  ASSUME RxEdge
  PROVE  /\ TxStill
         /\ skew > -Drift /\ skew' = skew - 1
         /\ r_Rx_Data_R' = o_Tx_Serial /\ r_Rx_Data' = r_Rx_Data_R
         /\ \/ Rx!Idle \/ Rx!StartBit \/ Rx!HoldBit
            \/ Rx!DataBit \/ Rx!StopBit \/ Rx!Cleanup
         /\ inFlight' = IF r_Rx_DV = 0 /\ r_Rx_DV' = 1 /\ inFlight # <<>>
                        THEN Tail(inFlight) ELSE inFlight
BY DEF RxEdge, Rx!Clock, Rx!Synchronise, txVars, TxStill, Tx!Position

LEMMA ApartLooks ==
  ASSUME Apart, RxEdge
  PROVE  /\ Apart'
         /\ UNCHANGED <<inFlight, r_Rx_DV, r_Rx_Byte>>
<1>1. Rx!Idle
  BY RxEdgeIs DEF Apart, Rx!StartBit, Rx!HoldBit, Rx!DataBit, Rx!StopBit, Rx!Cleanup
<1>2. rx_SM_Main' = "IDLE" /\ r_Rx_DV' = 0 /\ r_Rx_Byte' = r_Rx_Byte
  BY <1>1 DEF Apart, Rx!Idle
<1>3. inFlight' = inFlight /\ r_Rx_Data_R' = 1 /\ r_Rx_Data' = 1
  BY <1>2, RxEdgeIs DEF Apart, Between
<1>4. Between'
  BY <1>3, RxEdgeIs DEF Apart, Between, TxStill
<1>5. QED BY <1>2, <1>3, <1>4 DEF Apart

\* The line is low as long as the receiver needs it to find the start bit.
LEMMA StartIsLow ==
  ASSUME Close, TxInv, OnLine, skew \in -Drift .. Drift,
         NEW a \in 0 .. Rx!Middle + 1, Starting(a)
  PROVE  o_Tx_Serial = 0
<1> USE PositionRange, CloseBounds, MiddleRange
<1>1. CASE Tx!Position = 1
  BY <1>1, Symbols DEF OnLine, Starting
<1>2. CASE Tx!Position = 2
  <2>1. r_Clock_Count = 0
    BY <1>2 DEF Starting
  <2>2. QED BY <1>2, <2>1, Symbols DEF OnLine
<1>3. QED BY <1>1, <1>2 DEF Starting

LEMMA StartingLooks ==
  ASSUME Close, TxInv, Registers, OnLine,
         NEW a \in 0 .. Rx!Middle + 3, Starting(a), RxEdge
  PROVE  /\ a < Rx!Middle + 3 => Starting(a + 1)'
         /\ a = Rx!Middle + 3 => Receiving(1, 0)'
         /\ UNCHANGED <<inFlight, r_Rx_DV, r_Rx_Byte>>
<1> USE PositionRange, CloseBounds, MiddleRange
<1>1. /\ r_Rx_DV = 0 /\ inFlight = <<r_Tx_Data>>
      /\ \/ Tx!Position = 1 /\ skew = r_Clock_Count - 1 - a
         \/ Tx!Position = 2 /\ skew = CLKS_PER_BIT + r_Clock_Count - 1 - a
      /\ r_Rx_Data = IF a < 2 THEN 1 ELSE 0
      /\ skew \in -Drift .. Drift
  BY DEF Starting, Registers
<1>2. /\ TxStill /\ skew' = skew - 1
      /\ r_Rx_Data_R' = o_Tx_Serial /\ r_Rx_Data' = r_Rx_Data_R
  BY RxEdgeIs
<1>3. CASE a < 3
  <2>1. Rx!Idle
    BY <1>3, RxEdgeIs
       DEF Starting, Rx!StartBit, Rx!HoldBit, Rx!DataBit, Rx!StopBit, Rx!Cleanup
  <2>2. /\ r_Rx_DV' = 0 /\ rx_Clock_Count' = 0 /\ rx_Bit_Index' = 0 /\ r_Rx_Byte' = r_Rx_Byte
        /\ rx_SM_Main' = IF r_Rx_Data = 0 THEN "START" ELSE "IDLE"
    BY <2>1 DEF Rx!Idle
  <2>3. inFlight' = inFlight
    BY <2>2, RxEdgeIs
  <2>4. r_Rx_Data_R = IF a = 0 THEN 1 ELSE 0
    BY <1>3 DEF Starting
  <2>5. a + 1 <= Rx!Middle + 2 => o_Tx_Serial = 0
    BY <1>1, StartIsLow
  <2>6. Starting(a + 1)'
    BY <1>1, <1>2, <1>3, <2>2, <2>3, <2>4, <2>5 DEF Starting, TxStill
  <2>7. QED BY <1>1, <1>3, <2>2, <2>3, <2>6
<1>4. CASE ~ (a < 3)
  <2>1. rx_SM_Main = "START" /\ rx_Clock_Count = a - 3 /\ rx_Bit_Index = 0 /\ r_Rx_Data = 0
    BY <1>1, <1>4 DEF Starting
  <2>2. Rx!StartBit
    BY <2>1, RxEdgeIs DEF Rx!Idle, Rx!HoldBit, Rx!DataBit, Rx!StopBit, Rx!Cleanup
  <2>3. r_Rx_DV' = r_Rx_DV /\ rx_Bit_Index' = rx_Bit_Index /\ r_Rx_Byte' = r_Rx_Byte
    BY <2>2 DEF Rx!StartBit
  <2>4. inFlight' = inFlight
    BY <1>1, <2>3, RxEdgeIs
  <2>5. CASE a < Rx!Middle + 3
    <3>1. rx_SM_Main' = "START" /\ rx_Clock_Count' = a - 2
      BY <2>1, <2>2, <2>5 DEF Rx!StartBit
    <3>2. r_Rx_Data_R = 0
      BY <1>4, <2>5 DEF Starting
    <3>3. a + 1 <= Rx!Middle + 2 => o_Tx_Serial = 0
      BY <1>1, StartIsLow
    <3>4. Starting(a + 1)'
      BY <1>1, <1>2, <1>4, <2>1, <2>3, <2>4, <3>1, <3>2, <3>3 DEF Starting, TxStill
    <3>5. QED BY <2>3, <2>4, <2>5, <3>4
  <2>6. CASE a = Rx!Middle + 3
    <3>1. rx_SM_Main' = "DATA" /\ rx_Clock_Count' = 0
      BY <2>1, <2>2, <2>6 DEF Rx!StartBit
    <3>2. Counting(1, 0)'
      BY <2>1, <2>3, <3>1 DEF Counting
    <3>3. Ahead(1, 0)'
      BY <1>1, <1>2, <2>6 DEF Ahead, TxStill
    <3>4. Receiving(1, 0)'
      BY <1>1, <1>2, <2>3, <2>4, <3>2, <3>3 DEF Receiving, TxStill
    <3>5. QED BY <2>3, <2>4, <2>6, <3>4
  <2>7. QED BY <2>5, <2>6
<1>5. QED BY <1>3, <1>4

\* Two edges before the receiver samples the middle of symbol n + 1, and on
\* the next one, that symbol is on the line.
LEMMA SampledInTime ==
  ASSUME Close, TxInv, OnLine, skew \in -Drift .. Drift, skew > -Drift,
         NEW n \in 1 .. LAST_BIT + 2, NEW c \in 0 .. CLKS_PER_BIT - 1, Ahead(n, c),
         c \in {CLKS_PER_BIT - 3, CLKS_PER_BIT - 2}
  PROVE  o_Tx_Serial = Symbol(r_Tx_Data, n + 1)
<1> USE PositionRange, CloseBounds, MiddleRange
<1>1. Tx!Position # n
  BY DEF Ahead
<1>2. CASE Tx!Position = n + 1
  <2>1. r_Clock_Count # 0
    BY <1>2 DEF Ahead
  <2>2. QED BY <1>2, <2>1 DEF OnLine
<1>3. CASE Tx!Position = n + 2
  <2>1. r_Clock_Count = 0
    BY <1>3 DEF Ahead
  <2>2. Tx!Position - 1 = n + 1
    BY <1>3
  <2>3. QED BY <1>3, <2>1, <2>2 DEF OnLine
<1>4. CASE Tx!Position = 0 /\ n = LAST_BIT + 2
  BY <1>4, Symbols DEF OnLine
<1>5. QED BY <1>1, <1>2, <1>3, <1>4 DEF Ahead

LEMMA HoldLooks ==
  ASSUME Close, TxInv, Registers, OnLine, NEW n \in 1 .. LAST_BIT + 2,
         NEW c \in 0 .. CLKS_PER_BIT - 1, Receiving(n, c), RxEdge,
         c < CLKS_PER_BIT - 1
  PROVE  Receiving(n, c + 1)' /\ UNCHANGED <<inFlight, r_Rx_DV, r_Rx_Byte>>
<1> USE PositionRange, CloseBounds, MiddleRange
<1>1. rx_SM_Main \in {"DATA", "STOP"} /\ rx_Clock_Count = c
  BY DEF Receiving, Counting
<1>2. Rx!HoldBit
  BY <1>1, RxEdgeIs DEF Rx!Idle, Rx!StartBit, Rx!DataBit, Rx!StopBit, Rx!Cleanup
<1>3. /\ rx_Clock_Count' = c + 1 /\ rx_SM_Main' = rx_SM_Main /\ rx_Bit_Index' = rx_Bit_Index
      /\ r_Rx_Byte' = r_Rx_Byte /\ r_Rx_DV' = r_Rx_DV /\ r_Rx_DV = 0
  BY <1>1, <1>2 DEF Rx!HoldBit, Receiving
<1>4. inFlight' = inFlight
  BY <1>3, RxEdgeIs
<1>5. /\ TxStill /\ skew' = skew - 1 /\ skew > -Drift /\ skew \in -Drift .. Drift
      /\ r_Rx_Data_R' = o_Tx_Serial /\ r_Rx_Data' = r_Rx_Data_R
  BY RxEdgeIs DEF Registers
<1>6. Counting(n, c + 1)'
  BY <1>3 DEF Receiving, Counting
<1>7. Ahead(n, c + 1)'
  BY <1>5 DEF Receiving, Ahead, TxStill
<1>8. c + 1 >= CLKS_PER_BIT - 2 => o_Tx_Serial = Symbol(r_Tx_Data, n + 1)
  BY <1>5, SampledInTime DEF Receiving
<1>9. c + 1 = CLKS_PER_BIT - 1 => r_Rx_Data_R = Symbol(r_Tx_Data, n + 1)
  BY DEF Receiving
<1>10. QED
  BY <1>3, <1>4, <1>5, <1>6, <1>7, <1>8, <1>9 DEF Receiving, TxStill

LEMMA DataLooks ==
  ASSUME Close, TxInv, Registers, OnLine, NEW n \in 1 .. LAST_BIT + 2,
         Receiving(n, CLKS_PER_BIT - 1), RxEdge, rx_SM_Main = "DATA"
  PROVE  /\ n + 1 \in 1 .. LAST_BIT + 2 /\ Receiving(n + 1, 0)'
         /\ UNCHANGED <<inFlight, r_Rx_DV>> /\ r_Rx_Byte' \in Byte
<1> USE PositionRange, CloseBounds, MiddleRange
<1>1. /\ rx_Clock_Count = CLKS_PER_BIT - 1 /\ n = rx_Bit_Index + 1
      /\ rx_Bit_Index \in 0 .. LAST_BIT /\ r_Rx_Byte \in Byte
      /\ r_Rx_Data \in Bit /\ r_Rx_DV = 0
      /\ r_Rx_Data = Symbol(r_Tx_Data, n + 1)
  BY DEF Receiving, Counting, Registers
<1>2. Rx!DataBit
  BY <1>1, RxEdgeIs DEF Rx!Idle, Rx!StartBit, Rx!HoldBit, Rx!StopBit, Rx!Cleanup
<1>3. /\ rx_Clock_Count' = 0 /\ r_Rx_DV' = r_Rx_DV
      /\ r_Rx_Byte' = [r_Rx_Byte EXCEPT ![rx_Bit_Index] = r_Rx_Data]
      /\ \/ rx_Bit_Index < LAST_BIT /\ rx_Bit_Index' = rx_Bit_Index + 1 /\ rx_SM_Main' = "DATA"
         \/ rx_Bit_Index = LAST_BIT /\ rx_Bit_Index' = 0 /\ rx_SM_Main' = "STOP"
  BY <1>1, <1>2 DEF Rx!DataBit
<1>4. r_Rx_Byte' \in Byte
  BY <1>1, <1>3 DEF Byte
<1>5. inFlight' = inFlight
  BY <1>1, <1>3, RxEdgeIs
<1>6. /\ TxStill /\ skew' = skew - 1 /\ skew > -Drift /\ skew \in -Drift .. Drift
  BY RxEdgeIs DEF Registers
<1>7. Counting(n + 1, 0)'
  BY <1>1, <1>3 DEF Counting
<1>8. Ahead(n + 1, 0)'
  <2>1. Tx!Position # n
    BY <1>6 DEF Receiving, Ahead
  <2>2. QED BY <1>1, <1>6, <2>1 DEF Receiving, Ahead, TxStill
<1>9. ASSUME NEW i \in 0 .. LAST_BIT, i < (n + 1) - 1
      PROVE  r_Rx_Byte'[i] = r_Tx_Data[i]
  <2>1. CASE i = rx_Bit_Index
    <3>1. n + 1 = i + 2
      BY <1>1, <2>1
    <3>2. r_Rx_Data = r_Tx_Data[i]
      BY <1>1, <3>1, Symbols
    <3>3. QED BY <1>1, <1>3, <2>1, <3>2 DEF Byte
  <2>2. CASE i # rx_Bit_Index
    <3>1. r_Rx_Byte'[i] = r_Rx_Byte[i]
      BY <1>1, <1>3, <2>2 DEF Byte
    <3>2. i < n - 1
      BY <1>1, <1>9, <2>2
    <3>3. QED BY <3>1, <3>2 DEF Receiving
  <2>3. QED BY <2>1, <2>2
<1>10. inFlight = <<r_Tx_Data>>
  BY DEF Receiving
<1>11. Receiving(n + 1, 0)'
  BY <1>1, <1>3, <1>5, <1>6, <1>7, <1>8, <1>9, <1>10 DEF Receiving, TxStill
<1>12. QED BY <1>1, <1>3, <1>4, <1>5, <1>11

\* The byte is complete when the receiver announces it.
LEMMA StopLooks ==
  ASSUME Close, TxInv, Registers, OnLine, NEW n \in 1 .. LAST_BIT + 2,
         Receiving(n, CLKS_PER_BIT - 1), RxEdge, rx_SM_Main = "STOP"
  PROVE  /\ Finished' /\ Channel!HandOut
<1> USE PositionRange, CloseBounds, MiddleRange
<1>1. /\ rx_Clock_Count = CLKS_PER_BIT - 1 /\ n = LAST_BIT + 2
      /\ r_Rx_Byte \in Byte /\ r_Rx_DV = 0 /\ inFlight = <<r_Tx_Data>>
  BY DEF Receiving, Counting, Registers
<1>2. Rx!StopBit
  BY <1>1, RxEdgeIs DEF Rx!Idle, Rx!StartBit, Rx!HoldBit, Rx!DataBit, Rx!Cleanup
<1>3. r_Rx_DV' = 1 /\ rx_SM_Main' = "CLEANUP" /\ r_Rx_Byte' = r_Rx_Byte
  BY <1>2 DEF Rx!StopBit
<1>4. inFlight # <<>> /\ Head(inFlight) = r_Tx_Data /\ Tail(inFlight) = <<>>
  BY <1>1
<1>5. inFlight' = <<>>
  BY <1>1, <1>3, <1>4, RxEdgeIs
<1>6. r_Rx_Byte = r_Tx_Data
  <2>1. \A i \in 0 .. LAST_BIT : r_Rx_Byte[i] = r_Tx_Data[i]
    BY <1>1 DEF Receiving
  <2>2. QED BY <1>1, <2>1 DEF Byte
<1>7. Channel!HandOut
  BY <1>1, <1>3, <1>4, <1>5, <1>6 DEF Channel!HandOut
<1>8. /\ TxStill /\ skew' = skew - 1 /\ skew > -Drift /\ skew \in -Drift .. Drift
      /\ r_Rx_Data_R' = o_Tx_Serial /\ r_Rx_Data' = r_Rx_Data_R
  BY RxEdgeIs DEF Registers
<1>9. Ahead(LAST_BIT + 2, CLKS_PER_BIT - 1)
  BY <1>1 DEF Receiving
<1>10. r_Rx_Data_R = 1
  <2>1. r_Rx_Data_R = Symbol(r_Tx_Data, n + 1)
    BY DEF Receiving
  <2>2. n + 1 = LAST_BIT + 3
    BY <1>1
  <2>3. QED BY <2>1, <2>2, Symbols
<1>11. Tx!Position \in {0, LAST_BIT + 3, LAST_BIT + 4}
  BY <1>8, <1>9 DEF Ahead
<1>12. o_Tx_Serial = 1
  <2>1. CASE Tx!Position = LAST_BIT + 3
    <3>1. r_Clock_Count # 0
      BY <1>8, <1>9, <2>1 DEF Ahead
    <3>2. QED BY <2>1, <3>1, Symbols DEF OnLine
  <2>2. CASE Tx!Position = LAST_BIT + 4
    <3>1. r_Clock_Count = 0 /\ Tx!Position - 1 = LAST_BIT + 3
      BY <2>2
    <3>2. QED BY <2>2, <3>1, Symbols DEF OnLine
  <2>3. CASE Tx!Position = 0
    BY <2>3 DEF OnLine
  <2>4. QED BY <1>11, <2>1, <2>2, <2>3
<1>13. Between'
  BY <1>5, <1>8, <1>11, <1>12 DEF Between, TxStill
<1>14. /\ Tx!Position' = LAST_BIT + 3 => skew' = r_Clock_Count' - Rx!Middle - 5
       /\ Tx!Position' = LAST_BIT + 4 => skew' = CLKS_PER_BIT - Rx!Middle - 5
       /\ Tx!Position' = 0 => skew' >= CLKS_PER_BIT - Rx!Middle - 4
       /\ Tx!Position' # 1
  BY <1>8, <1>9 DEF Ahead, TxStill
<1>15. QED BY <1>3, <1>7, <1>8, <1>10, <1>12, <1>13, <1>14 DEF Finished

LEMMA FinishedLooks ==
  ASSUME Finished, RxEdge
  PROVE  Apart' /\ Channel!Release
<1>1. Rx!Cleanup
  BY RxEdgeIs DEF Finished, Rx!Idle, Rx!StartBit, Rx!HoldBit, Rx!DataBit, Rx!StopBit
<1>2. rx_SM_Main' = "IDLE" /\ r_Rx_DV = 1 /\ r_Rx_DV' = 0 /\ r_Rx_Byte' = r_Rx_Byte
  BY <1>1 DEF Finished, Rx!Cleanup
<1>3. inFlight' = inFlight /\ r_Rx_Data_R' = 1 /\ r_Rx_Data' = 1
  BY <1>2, RxEdgeIs DEF Finished, Between
<1>4. Between'
  BY <1>3, RxEdgeIs DEF Finished, Between, TxStill
<1>5. QED BY <1>2, <1>3, <1>4 DEF Apart, Channel!Release
-----------------------------------------------------------------------------
(***************************************************************************)
(* The invariant, and the channel.                                         *)
(***************************************************************************)
LEMMA InitIInv == Init => IInv
<1> SUFFICES ASSUME Init PROVE IInv
  OBVIOUS
<1>1. TxInv
  BY InitTx DEF Init
<1>2. Registers
  BY DriftAssumption DEF Init, Rx!Init, Rx!Bit, Registers, Bit, Byte
<1>3. Tx!Position = 0
  BY Positions DEF Init, Tx!Init
<1>4. OnLine /\ Between
  BY <1>3 DEF Init, OnLine, Between
<1>5. Apart
  BY <1>4 DEF Init, Rx!Init, Apart
<1>6. QED BY <1>1, <1>2, <1>4, <1>5 DEF IInv, Phases

LEMMA TxEdgeIInv ==
  ASSUME Close, IInv, NEW i_Tx_DV \in Bit, NEW i_Tx_Byte \in Sent,
         TxEdge(i_Tx_DV, i_Tx_Byte)
  PROVE  IInv' /\ [Channel!Next]_(Channel!vars)
<1>1. i_Tx_Byte \in Byte /\ TxInv /\ Registers /\ OnLine /\ Phases
  BY SentAssumption DEF IInv
<1>2. RxStill /\ skew < Drift /\ skew \in -Drift .. Drift
  BY DEF TxEdge, rxVars, RxStill, IInv, Registers
<1>3. Walks(i_Tx_Byte)
  BY <1>1, Walk DEF Walks
<1>4. TxInv'
  <2>1. i_Tx_DV \in Tx!Bit /\ i_Tx_Byte \in Tx!Byte
    BY <1>1 DEF Bit, Byte, Tx!Bit, Tx!Byte
  <2>2. QED BY <1>1, <2>1, ClockTx DEF TxEdge
<1>5. OnLine'
  BY <1>1, <1>3, OnLineWalks DEF Walks
<1>6. Registers'
  <2>1. skew' \in -Drift .. Drift
    BY <1>1, <1>2, SkewStep, DriftAssumption
  <2>2. QED BY <1>1, <1>2, <2>1 DEF Registers, RxStill
<1>7. Phases'
  <2>1. CASE Apart
    BY <1>1, <1>2, <1>3, <2>1, ApartWalks
  <2>2. ASSUME NEW a \in 0 .. Rx!Middle + 3, Starting(a) PROVE Phases'
    <3>1. Starting(a)'
      BY <1>1, <1>2, <1>3, <2>2, StartingWalks
    <3>2. QED BY <3>1 DEF Phases
  <2>3. ASSUME NEW n \in 1 .. LAST_BIT + 2, NEW c \in 0 .. CLKS_PER_BIT - 1, Receiving(n, c)
        PROVE  Phases'
    <3>1. Receiving(n, c)'
      BY <1>1, <1>2, <1>3, <2>3, ReceivingWalks
    <3>2. QED BY <3>1 DEF Phases
  <2>4. CASE Finished
    BY <1>1, <1>2, <1>3, <2>4, FinishedWalks DEF Phases
  <2>5. QED BY <1>1, <2>1, <2>2, <2>3, <2>4 DEF Phases
<1>8. [Channel!Next]_(Channel!vars)
  <2>1. r_Rx_DV' = r_Rx_DV /\ r_Rx_Byte' = r_Rx_Byte
    BY <1>2 DEF RxStill
  <2>2. CASE Takes(i_Tx_Byte)
    <3>1. Tx!Position = 0 /\ inFlight' = Append(inFlight, i_Tx_Byte)
      BY <2>2 DEF Takes
    <3>2. inFlight = <<>>
      <4>1. ~ \E a \in 0 .. Rx!Middle + 3 : Starting(a)
        BY <3>1 DEF Starting
      <4>2. ~ \E n \in 1 .. LAST_BIT + 2, c \in 0 .. CLKS_PER_BIT - 1 : Receiving(n, c)
        BY <1>2, <3>1, CloseBounds, MiddleRange DEF Receiving, Ahead
      <4>3. QED BY <1>1, <3>1, <4>1, <4>2 DEF Phases, Apart, Finished, Between
    <3>3. inFlight' = <<i_Tx_Byte>>
      BY <3>1, <3>2, Appended
    <3>4. QED BY <1>1, <2>1, <3>2, <3>3 DEF Channel!Take, Channel!Next
  <2>3. CASE Rests \/ Holds \/ Advances \/ Closes
    BY <2>1, <2>3 DEF Rests, Holds, Advances, Closes, Channel!vars
  <2>4. QED BY <1>3, <2>2, <2>3 DEF Walks
<1>9. QED BY <1>4, <1>5, <1>6, <1>7, <1>8 DEF IInv

LEMMA StepsOfPhases ==
  ASSUME Close, IInv, RxEdge
  PROVE  Phases' /\ [Channel!Next]_(Channel!vars) /\ r_Rx_Byte' \in Byte
<1>1. TxInv /\ Registers /\ OnLine /\ Phases /\ r_Rx_Byte \in Byte
  BY DEF IInv, Registers
<1> USE <1>1
<1>2. CASE Apart
  BY <1>2, ApartLooks DEF Phases, Channel!vars
<1>3. ASSUME NEW a \in 0 .. Rx!Middle + 3, Starting(a)
      PROVE  Phases' /\ [Channel!Next]_(Channel!vars) /\ r_Rx_Byte' \in Byte
  <2>1. UNCHANGED <<inFlight, r_Rx_DV, r_Rx_Byte>>
    BY <1>3, StartingLooks
  <2>2. Phases'
    <3>1. CASE a < Rx!Middle + 3
      <4>1. Starting(a + 1)' /\ a + 1 \in 0 .. Rx!Middle + 3
        BY <1>3, <3>1, StartingLooks, MiddleRange
      <4>2. QED BY <4>1 DEF Phases
    <3>2. CASE a = Rx!Middle + 3
      <4>1. Receiving(1, 0)' /\ 1 \in 1 .. LAST_BIT + 2 /\ 0 \in 0 .. CLKS_PER_BIT - 1
        BY <1>3, <3>2, StartingLooks
      <4>2. QED BY <4>1 DEF Phases
    <3>3. QED BY <3>1, <3>2, MiddleRange
  <2>3. QED BY <2>1, <2>2 DEF Channel!vars
<1>4. ASSUME NEW n \in 1 .. LAST_BIT + 2, NEW c \in 0 .. CLKS_PER_BIT - 1, Receiving(n, c)
      PROVE  Phases' /\ [Channel!Next]_(Channel!vars) /\ r_Rx_Byte' \in Byte
  <2>1. CASE c < CLKS_PER_BIT - 1
    <3>1. Receiving(n, c + 1)' /\ UNCHANGED <<inFlight, r_Rx_DV, r_Rx_Byte>>
      BY <1>4, <2>1, HoldLooks
    <3>2. c + 1 \in 0 .. CLKS_PER_BIT - 1
      BY <2>1
    <3>3. QED BY <3>1, <3>2 DEF Phases, Channel!vars
  <2>2. CASE c = CLKS_PER_BIT - 1
    <3>1. Receiving(n, CLKS_PER_BIT - 1)
      BY <1>4, <2>2
    <3>2. CASE rx_SM_Main = "DATA"
      <4>1. /\ n + 1 \in 1 .. LAST_BIT + 2 /\ Receiving(n + 1, 0)'
            /\ UNCHANGED <<inFlight, r_Rx_DV>> /\ r_Rx_Byte' \in Byte
        BY <3>1, <3>2, DataLooks
      <4>2. r_Rx_DV = 0 /\ 0 \in 0 .. CLKS_PER_BIT - 1
        BY <3>1 DEF Receiving
      <4>3. QED BY <4>1, <4>2 DEF Phases, Channel!Next, Channel!Assemble
    <3>3. CASE rx_SM_Main = "STOP"
      <4>1. Finished' /\ Channel!HandOut
        BY <3>1, <3>3, StopLooks
      <4>2. r_Rx_Byte' \in Byte
        <5>1. Rx!StopBit
          BY <3>1, <3>3, RxEdgeIs
             DEF Rx!Idle, Rx!StartBit, Rx!HoldBit, Rx!DataBit, Rx!Cleanup, Receiving, Counting
        <5>2. QED BY <5>1 DEF Rx!StopBit
      <4>3. QED BY <4>1, <4>2 DEF Phases, Channel!Next
    <3>4. QED BY <1>4, <3>2, <3>3 DEF Receiving, Counting
  <2>3. QED BY <2>1, <2>2
<1>5. CASE Finished
  <2>1. Apart' /\ Channel!Release
    BY <1>5, FinishedLooks
  <2>2. QED BY <2>1 DEF Phases, Channel!Next, Channel!Release
<1>6. QED BY <1>2, <1>3, <1>4, <1>5 DEF Phases

LEMMA RxEdgeIInv ==
  ASSUME Close, IInv, RxEdge
  PROVE  IInv'
<1>1. TxInv'
  <2>1. UNCHANGED txVars
    BY DEF RxEdge
  <2>2. QED BY <2>1 DEF txVars, IInv, TxInv, Tx!TypeOK, Tx!StateOK
<1>2. OnLine'
  BY RxEdgeIs DEF IInv, OnLine, TxStill
<1>3. Registers'
  <2>1. skew' \in -Drift .. Drift
    BY RxEdgeIs, DriftAssumption DEF IInv, Registers
  <2>2. r_Rx_Data_R' \in Bit /\ r_Rx_Data' \in Bit
    BY RxEdgeIs, PositionRange DEF IInv, Registers
  <2>3. rx_Bit_Index' \in 0 .. LAST_BIT
    BY RxEdgeIs
       DEF IInv, Registers, Rx!Idle, Rx!StartBit, Rx!HoldBit, Rx!DataBit, Rx!StopBit, Rx!Cleanup
  <2>4. QED BY <2>1, <2>2, <2>3, StepsOfPhases DEF Registers
<1>4. QED BY <1>1, <1>2, <1>3, StepsOfPhases DEF IInv

LEMMA NextIInv ==
  ASSUME Close
  PROVE  IInv /\ [Next]_vars => IInv' /\ [Channel!Next]_(Channel!vars)
<1>1. ASSUME IInv, TxNext PROVE IInv' /\ [Channel!Next]_(Channel!vars)
  <2>1. PICK i_Tx_DV \in Bit, i_Tx_Byte \in Sent : TxEdge(i_Tx_DV, i_Tx_Byte)
    BY <1>1 DEF TxNext
  <2>2. QED BY <1>1, <2>1, TxEdgeIInv
<1>2. ASSUME IInv, RxEdge PROVE IInv' /\ [Channel!Next]_(Channel!vars)
  BY <1>2, RxEdgeIInv, StepsOfPhases
<1>3. ASSUME IInv, UNCHANGED vars PROVE IInv' /\ [Channel!Next]_(Channel!vars)
  <2>1. UNCHANGED <<txVars, rxVars, skew, inFlight>>
    BY <1>3 DEF vars
  <2>2. TxStill /\ RxStill /\ skew' = skew /\ inFlight' = inFlight
    BY <2>1 DEF txVars, rxVars, TxStill, RxStill, Tx!Position
  <2>3. TxInv'
    BY <1>3, <2>1 DEF txVars, IInv, TxInv, Tx!TypeOK, Tx!StateOK
  <2>4. Registers' /\ OnLine'
    BY <1>3, <2>2 DEF IInv, Registers, OnLine, TxStill, RxStill
  <2>5. Phases'
    BY <1>3, <2>2
       DEF IInv, Phases, Apart, Between, Starting, Receiving, Counting, Ahead, Finished,
           TxStill, RxStill
  <2>6. QED BY <2>2, <2>3, <2>4, <2>5 DEF IInv, RxStill, Channel!vars
<1>4. QED BY <1>1, <1>2, <1>3 DEF Next

LEMMA InitChannel == Init => Channel!Init
BY DEF Init, Rx!Init, Rx!Bit, Bit, Byte, Channel!Init

\* ImplementsChannel: for every CLKS_PER_BIT, LAST_BIT and client, no byte is
\* lost, repeated, invented or changed on a link between two clocks that are
\* Close.  A clock farther off than that makes the receiver take a symbol for
\* its neighbour, or lets a byte be taken before the last one is handed out.
THEOREM LinkRefines ==
  ASSUME Close
  PROVE  Spec => ImplementsChannel
BY InitIInv, NextIInv, InitChannel, PTL DEF Spec, ImplementsChannel, Channel!Spec
-----------------------------------------------------------------------------
(***************************************************************************)
(* Part 3: the receiver on its own, on a line that does anything.  The     *)
(* counters keep their range, and it looks at the line at the instants it  *)
(* should.                                                                 *)
(***************************************************************************)
\* The middle of a bit is one of its clocks.
LEMMA MiddleType == Rx!Middle \in 0 .. CLKS_PER_BIT - 1
BY DEF Rx!Middle

LEMMA Instants ==
  /\ Instant(-1) = Rx!Middle + 2
  /\ \A k \in Int : Instant(k) \in Int /\ Instant(k + 1) = Instant(k) + CLKS_PER_BIT
<1>1. Instant(-1) = Rx!Middle + 2
  BY MiddleType DEF Instant
<1>2. ASSUME NEW k \in Int
      PROVE  Instant(k) \in Int /\ Instant(k + 1) = Instant(k) + CLKS_PER_BIT
  <2>1. (k + 1 + 1) * CLKS_PER_BIT = (k + 1) * CLKS_PER_BIT + CLKS_PER_BIT
    OBVIOUS
  <2>2. (k + 1) * CLKS_PER_BIT \in Int /\ Rx!Middle \in Int
    BY MiddleType
  <2>3. QED BY <2>1, <2>2 DEF Instant
<1>3. QED BY <1>1, <1>2
-----------------------------------------------------------------------------
(***************************************************************************)
(* The invariant: where the receiver is in a frame, told by the number of  *)
(* samples, and what it has kept of them.                                  *)
(***************************************************************************)
StartSeen == Instant(-1) \in 1 .. Age /\ 1 \in 1 .. Age /\ seen[1] = 0 /\ seen[Instant(-1)] = 0

BitsSeen(n) ==
  \A k \in 0 .. n - 1 : Instant(k) \in 1 .. Age /\ r_Rx_Byte[k] = seen[Instant(k)]

SamplePlace ==
  /\ rx_SM_Main # "DATA" => rx_Bit_Index = 0
  /\ r_Rx_DV = 1 => rx_SM_Main = "CLEANUP"
  /\ rx_SM_Main = "START" => /\ Age = rx_Clock_Count + 1 /\ rx_Clock_Count <= Rx!Middle
                             /\ 1 \in 1 .. Age /\ seen[1] = 0
  /\ rx_SM_Main = "DATA" => /\ StartSeen /\ BitsSeen(rx_Bit_Index)
                            /\ Age = Instant(rx_Bit_Index - 1) + rx_Clock_Count
  /\ rx_SM_Main = "STOP" => /\ StartSeen /\ BitsSeen(LAST_BIT + 1)
                            /\ Age = Instant(LAST_BIT) + rx_Clock_Count
  /\ rx_SM_Main = "CLEANUP" => /\ StartSeen /\ BitsSeen(LAST_BIT + 1)
                               /\ Age = Instant(LAST_BIT + 1)

SampledInv == Rx!TypeOK /\ seen \in Seq(Rx!Bit) /\ SamplePlace

LEMMA InitSampled == SampledInit => SampledInv
BY DEF SampledInit, Rx!Init, SampledInv, Rx!TypeOK, SamplePlace, Rx!Bit, Rx!Byte

\* A sample more leaves the others where they are.
LEMMA Grow ==
  ASSUME seen \in Seq(Rx!Bit), r_Rx_Data \in Rx!Bit, seen' = Append(seen, r_Rx_Data)
  PROVE  /\ seen' \in Seq(Rx!Bit) /\ Age \in Nat /\ Age' = Age + 1
         /\ seen'[Age'] = r_Rx_Data
         /\ \A k \in 1 .. Age : seen'[k] = seen[k]
BY DEF Age

LEMMA FirstSample ==
  ASSUME r_Rx_Data \in Rx!Bit, seen' = <<r_Rx_Data>>
  PROVE  seen' \in Seq(Rx!Bit) /\ Age' = 1 /\ seen'[1] = r_Rx_Data
BY DEF Age

LEMMA RxTypeNext ==
  ASSUME Rx!TypeOK, rx_SM_Main = "START" => rx_Clock_Count <= Rx!Middle, Rx!Next
  PROVE  Rx!TypeOK'
<1>1. PICK i_Rx_Serial \in Rx!Bit : Rx!Clock(i_Rx_Serial)
  BY DEF Rx!Next
<1>2. r_Rx_Data_R' \in Rx!Bit /\ r_Rx_Data' \in Rx!Bit
  BY <1>1 DEF Rx!Clock, Rx!Synchronise, Rx!TypeOK
<1>3. CASE Rx!Idle
  BY <1>2, <1>3 DEF Rx!Idle, Rx!TypeOK, Rx!Bit
<1>4. CASE Rx!StartBit
  BY <1>2, <1>4, MiddleType DEF Rx!StartBit, Rx!TypeOK
<1>5. CASE Rx!HoldBit
  BY <1>2, <1>5 DEF Rx!HoldBit, Rx!TypeOK
<1>6. CASE Rx!DataBit
  <2>1. r_Rx_Byte' \in Rx!Byte
    BY <1>6 DEF Rx!DataBit, Rx!TypeOK, Rx!Byte
  <2>2. QED BY <1>2, <1>6, <2>1 DEF Rx!DataBit, Rx!TypeOK
<1>7. CASE Rx!StopBit
  BY <1>2, <1>7 DEF Rx!StopBit, Rx!TypeOK, Rx!Bit
<1>8. CASE Rx!Cleanup
  BY <1>2, <1>8 DEF Rx!Cleanup, Rx!TypeOK, Rx!Bit
<1>9. QED BY <1>1, <1>3, <1>4, <1>5, <1>6, <1>7, <1>8 DEF Rx!Clock

LEMMA SampleIdle ==
  ASSUME SampledInv, Rx!Idle, seen' = <<r_Rx_Data>>
  PROVE  SamplePlace'
<1>1. Age' = 1 /\ seen'[1] = r_Rx_Data
  BY FirstSample DEF SampledInv, Rx!TypeOK
<1>2. rx_SM_Main' \in {"IDLE", "START"} /\ (rx_SM_Main' = "START" => r_Rx_Data = 0)
  BY DEF Rx!Idle
<1>3. QED BY <1>1, <1>2, MiddleType DEF Rx!Idle, SamplePlace

LEMMA SampleStart ==
  ASSUME SampledInv, Rx!StartBit, seen' = Append(seen, r_Rx_Data)
  PROVE  SamplePlace'
<1>1. /\ Age \in Nat /\ Age' = Age + 1 /\ seen'[Age'] = r_Rx_Data
      /\ \A k \in 1 .. Age : seen'[k] = seen[k]
  BY Grow DEF SampledInv, Rx!TypeOK
<1>2. /\ Age = rx_Clock_Count + 1 /\ rx_Clock_Count <= Rx!Middle
      /\ 1 \in 1 .. Age /\ seen[1] = 0 /\ rx_Bit_Index = 0 /\ r_Rx_DV # 1
      /\ rx_Clock_Count \in Nat /\ Rx!Middle \in Nat
  BY MiddleType DEF SampledInv, Rx!TypeOK, SamplePlace, Rx!StartBit
<1>3. 1 \in 1 .. Age' /\ seen'[1] = 0 /\ rx_Bit_Index' = 0 /\ r_Rx_DV' # 1
  BY <1>1, <1>2 DEF Rx!StartBit
<1>4. CASE rx_Clock_Count = Rx!Middle /\ r_Rx_Data = 0
  <2>1. rx_SM_Main' = "DATA" /\ rx_Clock_Count' = 0
    BY <1>2, <1>4 DEF Rx!StartBit
  <2>2. Age' = Instant(-1) /\ Instant(-1) \in Int
    BY <1>1, <1>2, <1>4, Instants
  <2>3. StartSeen'
    <3>1. Instant(-1) \in 1 .. Age' /\ seen'[Instant(-1)] = 0
      <4>1. Age' \in 1 .. Age'
        BY <1>1
      <4>2. seen'[Age'] = 0
        BY <1>1, <1>4
      <4>3. QED BY <2>2, <4>1, <4>2, Zenon
    <3>2. QED BY <1>3, <3>1 DEF StartSeen
  <2>4. BitsSeen(0)' /\ rx_Bit_Index' - 1 = -1
    BY <1>3 DEF BitsSeen
  <2>5. BitsSeen(rx_Bit_Index)' /\ Age' = Instant(rx_Bit_Index' - 1) + rx_Clock_Count'
    BY <1>3, <2>1, <2>2, <2>4
  <2>6. QED BY <1>3, <2>1, <2>3, <2>5 DEF SamplePlace
<1>5. CASE rx_Clock_Count = Rx!Middle /\ r_Rx_Data = 1
  BY <1>3, <1>5 DEF Rx!StartBit, SamplePlace
<1>6. CASE rx_Clock_Count # Rx!Middle
  BY <1>1, <1>2, <1>3, <1>6 DEF Rx!StartBit, SamplePlace
<1>7. QED BY <1>4, <1>5, <1>6 DEF SampledInv, Rx!TypeOK, Rx!Bit

\* What was seen and kept stays so.
LEMMA StartStays ==
  ASSUME Age \in Nat, Age' = Age + 1, \A k \in 1 .. Age : seen'[k] = seen[k], StartSeen
  PROVE  StartSeen'
BY DEF StartSeen

LEMMA BitsStay ==
  ASSUME Age \in Nat, Age' = Age + 1, \A k \in 1 .. Age : seen'[k] = seen[k],
         NEW n \in Nat, BitsSeen(n), \A k \in 0 .. n - 1 : r_Rx_Byte'[k] = r_Rx_Byte[k]
  PROVE  \A k \in 0 .. n - 1 : Instant(k) \in 1 .. Age' /\ r_Rx_Byte'[k] = seen'[Instant(k)]
BY DEF BitsSeen

LEMMA FrameStays ==
  ASSUME SampledInv, seen' = Append(seen, r_Rx_Data), rx_SM_Main \in {"DATA", "STOP", "CLEANUP"}
  PROVE  /\ StartSeen' /\ Age \in Nat /\ Age' = Age + 1 /\ seen'[Age'] = r_Rx_Data
         /\ \A k \in 1 .. Age : seen'[k] = seen[k]
<1>1. StartSeen
  BY DEF SampledInv, SamplePlace
<1>2. QED BY <1>1, Grow, StartStays DEF SampledInv, Rx!TypeOK

LEMMA SampleHold ==
  ASSUME SampledInv, Rx!HoldBit, seen' = Append(seen, r_Rx_Data)
  PROVE  SamplePlace'
<1>1. /\ StartSeen' /\ Age \in Nat /\ Age' = Age + 1
      /\ \A k \in 1 .. Age : seen'[k] = seen[k]
  BY FrameStays DEF Rx!HoldBit
<1>2. /\ UNCHANGED <<rx_SM_Main, rx_Bit_Index, r_Rx_Byte, r_Rx_DV>>
      /\ rx_Clock_Count' = rx_Clock_Count + 1
  BY DEF Rx!HoldBit
<1>3. rx_Clock_Count \in Nat /\ rx_Bit_Index \in Nat /\ rx_Bit_Index - 1 \in Int
      /\ LAST_BIT \in Int /\ LAST_BIT + 1 \in Nat
  BY DEF SampledInv, Rx!TypeOK
<1>4. Instant(rx_Bit_Index - 1) \in Int /\ Instant(LAST_BIT) \in Int
  BY <1>3, Instants
<1>5. CASE rx_SM_Main = "DATA"
  <2>1. BitsSeen(rx_Bit_Index) /\ Age = Instant(rx_Bit_Index - 1) + rx_Clock_Count /\ r_Rx_DV # 1
    BY <1>5 DEF SampledInv, SamplePlace
  <2>2. BitsSeen(rx_Bit_Index)'
    BY <1>1, <1>2, <1>3, <2>1, BitsStay DEF BitsSeen
  <2>3. Age' = Instant(rx_Bit_Index' - 1) + rx_Clock_Count'
    BY <1>1, <1>2, <1>3, <1>4, <2>1
  <2>4. QED BY <1>1, <1>2, <1>5, <2>1, <2>2, <2>3 DEF SamplePlace
<1>6. CASE rx_SM_Main = "STOP"
  <2>1. /\ BitsSeen(LAST_BIT + 1) /\ Age = Instant(LAST_BIT) + rx_Clock_Count
        /\ r_Rx_DV # 1 /\ rx_Bit_Index = 0
    BY <1>6 DEF SampledInv, SamplePlace
  <2>2. BitsSeen(LAST_BIT + 1)'
    BY <1>1, <1>2, <1>3, <2>1, BitsStay DEF BitsSeen
  <2>3. Age' = Instant(LAST_BIT) + rx_Clock_Count'
    BY <1>1, <1>2, <1>3, <1>4, <2>1
  <2>4. QED BY <1>1, <1>2, <1>6, <2>1, <2>2, <2>3 DEF SamplePlace
<1>7. QED BY <1>5, <1>6 DEF Rx!HoldBit

\* The sample of a data bit is the one of its instant.
LEMMA SampleData ==
  ASSUME SampledInv, Rx!DataBit, seen' = Append(seen, r_Rx_Data)
  PROVE  SamplePlace'
<1>1. /\ StartSeen' /\ Age \in Nat /\ Age' = Age + 1 /\ seen'[Age'] = r_Rx_Data
      /\ \A k \in 1 .. Age : seen'[k] = seen[k]
  BY FrameStays DEF Rx!DataBit
<1> DEFINE b == rx_Bit_Index
<1>2. /\ BitsSeen(b) /\ Age = Instant(b - 1) + rx_Clock_Count /\ r_Rx_DV # 1
      /\ b \in 0 .. LAST_BIT /\ rx_Clock_Count = CLKS_PER_BIT - 1
  BY DEF SampledInv, Rx!TypeOK, SamplePlace, Rx!DataBit
<1>3. Age' = Instant(b) /\ Instant(b) \in Int
  <2>1. b - 1 \in Int /\ b \in Int /\ b - 1 + 1 = b
    BY <1>2
  <2>2. Instant(b - 1) \in Int /\ Instant(b) \in Int /\ Instant(b) = Instant(b - 1) + CLKS_PER_BIT
    BY <2>1, Instants
  <2>3. QED BY <1>1, <1>2, <2>2
<1>4. r_Rx_Byte'[b] = r_Rx_Data /\ \A k \in 0 .. b - 1 : r_Rx_Byte'[k] = r_Rx_Byte[k]
  BY <1>2 DEF SampledInv, Rx!TypeOK, Rx!Byte, Rx!DataBit
<1>5. \A k \in 0 .. b : Instant(k) \in 1 .. Age' /\ r_Rx_Byte'[k] = seen'[Instant(k)]
  <2>1. \A k \in 0 .. b - 1 : Instant(k) \in 1 .. Age' /\ r_Rx_Byte'[k] = seen'[Instant(k)]
    <3>1. b \in Nat
      BY <1>2
    <3>2. QED BY <1>1, <1>2, <1>4, <3>1, BitsStay, Zenon
  <2>2. Age' \in 1 .. Age'
    BY <1>1
  <2>3. Instant(b) \in 1 .. Age' /\ r_Rx_Byte'[b] = seen'[Instant(b)]
    BY <1>1, <1>3, <1>4, <2>2, Zenon
  <2>4. \A k \in 0 .. b : k \in 0 .. b - 1 \/ k = b
    BY <1>2
  <2>5. QED BY <2>1, <2>3, <2>4, Zenon
<1>6. rx_Clock_Count' = 0 /\ r_Rx_DV' # 1
  BY <1>2 DEF Rx!DataBit
<1>7. CASE b < LAST_BIT
  <2>1. rx_SM_Main' = "DATA" /\ rx_Bit_Index' = b + 1
    BY <1>2, <1>7 DEF Rx!DataBit
  <2>2. \A k : k \in 0 .. rx_Bit_Index' - 1 <=> k \in 0 .. b
    BY <1>2, <2>1
  <2>3. BitsSeen(rx_Bit_Index)'
    BY <1>5, <2>2 DEF BitsSeen
  <2>4. rx_Bit_Index' - 1 = b
    BY <1>2, <2>1
  <2>5. Age' = Instant(rx_Bit_Index' - 1) + rx_Clock_Count'
    BY <1>3, <1>6, <2>4
  <2>6. QED BY <1>1, <1>6, <2>1, <2>3, <2>5 DEF SamplePlace
<1>8. CASE b = LAST_BIT
  <2>1. rx_SM_Main' = "STOP" /\ rx_Bit_Index' = 0
    BY <1>2, <1>8 DEF Rx!DataBit
  <2>2. \A k : k \in 0 .. (LAST_BIT + 1) - 1 <=> k \in 0 .. b
    BY <1>2, <1>8
  <2>3. BitsSeen(LAST_BIT + 1)'
    BY <1>5, <2>2 DEF BitsSeen
  <2>4. Age' = Instant(LAST_BIT) + rx_Clock_Count'
    BY <1>3, <1>6, <1>8
  <2>5. QED BY <1>1, <1>6, <2>1, <2>3, <2>4 DEF SamplePlace
<1>9. QED BY <1>2, <1>7, <1>8

LEMMA SampleStop ==
  ASSUME SampledInv, Rx!StopBit, seen' = Append(seen, r_Rx_Data)
  PROVE  SamplePlace'
<1>1. /\ StartSeen' /\ Age \in Nat /\ Age' = Age + 1
      /\ \A k \in 1 .. Age : seen'[k] = seen[k]
  BY FrameStays DEF Rx!StopBit
<1>2. /\ BitsSeen(LAST_BIT + 1) /\ Age = Instant(LAST_BIT) + rx_Clock_Count
      /\ rx_Clock_Count = CLKS_PER_BIT - 1 /\ rx_Bit_Index = 0
  BY DEF SampledInv, Rx!TypeOK, SamplePlace, Rx!StopBit
<1>3. rx_SM_Main' = "CLEANUP" /\ rx_Bit_Index' = 0 /\ r_Rx_Byte' = r_Rx_Byte
  BY <1>2 DEF Rx!StopBit
<1>4. BitsSeen(LAST_BIT + 1)'
  <2>1. LAST_BIT + 1 \in Nat
    OBVIOUS
  <2>2. QED BY <1>1, <1>2, <1>3, <2>1, BitsStay DEF BitsSeen
<1>5. Age' = Instant(LAST_BIT + 1)
  <2>1. Instant(LAST_BIT) \in Int /\ Instant(LAST_BIT + 1) = Instant(LAST_BIT) + CLKS_PER_BIT
    <3>1. LAST_BIT \in Int
      OBVIOUS
    <3>2. QED BY <3>1, Instants, Zenon
  <2>2. QED BY <1>1, <1>2, <2>1
<1>6. QED BY <1>1, <1>3, <1>4, <1>5 DEF SamplePlace

LEMMA SampleCleanup ==
  ASSUME SampledInv, Rx!Cleanup
  PROVE  SamplePlace'
BY DEF Rx!Cleanup, SampledInv, SamplePlace

LEMMA NextSampled == SampledInv /\ [SampledNext]_<<rxVars, seen>> => SampledInv'
<1>1. ASSUME SampledInv, SampledNext PROVE SampledInv'
  <2>1. Rx!TypeOK'
    BY <1>1, RxTypeNext DEF SampledInv, SamplePlace, SampledNext
  <2>2. PICK i_Rx_Serial \in Rx!Bit : Rx!Clock(i_Rx_Serial)
    BY <1>1 DEF SampledNext, Rx!Next
  <2>3. r_Rx_Data \in Rx!Bit
    BY <1>1 DEF SampledInv, Rx!TypeOK
  <2>4. CASE rx_SM_Main = "IDLE"
    <3>1. seen' = <<r_Rx_Data>> /\ Rx!Idle
      BY <1>1, <2>2, <2>4 DEF SampledNext, Rx!Clock, Rx!StartBit, Rx!HoldBit, Rx!DataBit, Rx!StopBit, Rx!Cleanup
    <3>2. QED BY <1>1, <2>1, <2>3, <3>1, FirstSample, SampleIdle DEF SampledInv
  <2>5. CASE rx_SM_Main # "IDLE"
    <3>1. seen' = Append(seen, r_Rx_Data) /\ ~Rx!Idle
      BY <1>1, <2>5 DEF SampledNext, Rx!Idle
    <3>2. seen' \in Seq(Rx!Bit)
      BY <1>1, <2>3, <3>1, Grow DEF SampledInv
    <3>3. SamplePlace'
      BY <1>1, <2>2, <3>1, SampleStart, SampleHold, SampleData, SampleStop, SampleCleanup DEF Rx!Clock
    <3>4. QED BY <2>1, <3>2, <3>3 DEF SampledInv
  <2>6. QED BY <2>4, <2>5
<1>2. ASSUME SampledInv, UNCHANGED <<rxVars, seen>> PROVE SampledInv'
  <2>1. Rx!TypeOK'
    BY <1>2 DEF SampledInv, Rx!TypeOK, rxVars
  <2>2. UNCHANGED <<rx_SM_Main, rx_Clock_Count, rx_Bit_Index, r_Rx_Byte, r_Rx_DV, seen, Age>>
    BY <1>2 DEF rxVars, Age
  <2>3. SamplePlace'
    BY <1>2, <2>2 DEF SampledInv, SamplePlace, StartSeen, BitsSeen
  <2>4. QED BY <1>2, <2>1, <2>2, <2>3 DEF SampledInv
<1>3. QED BY <1>1, <1>2

\* SampledInv holds at every edge, whatever is on i_Rx_Serial.
THEOREM SampledInvariance == SampledSpec => []SampledInv
BY InitSampled, NextSampled, PTL DEF SampledSpec

\* TypeOK for every bit time and width: in particular the count that a false
\* start leaves behind is a legal one.
THEOREM RxTypeCorrect == SampledSpec => []Rx!TypeOK
BY SampledInvariance, PTL DEF SampledInv

\* SamplesInMiddle, that r_Rx_DV announces only a byte whose start bit was low
\* when noticed and in its middle, for every bit time and width.
THEOREM SamplesCorrect == SampledSpec => []SamplesInMiddle
<1>1. SampledInv => SamplesInMiddle
  BY DEF SampledInv, SamplePlace, StartSeen, BitsSeen, SamplesInMiddle
<1>2. QED BY <1>1, SampledInvariance, PTL
=============================================================================
