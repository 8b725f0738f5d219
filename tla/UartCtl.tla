------------------------------- MODULE UartCtl ------------------------------
(***************************************************************************)
(* The debug interface uartCTL of src/ip-cores/UART/Uart.v with its        *)
(* transmitter, and the host program UartDebug.py that reads its frames.   *)
(* A step is one rising edge of clk, at which the registers of uartCTL and *)
(* of uart_tx all move; the host reads a byte at the edge that takes it    *)
(* into the transmitter, which is early but in the order of the line.      *)
(***************************************************************************)
EXTENDS UartFrame, Sequences

CONSTANTS
  Words,      \* what the client may have on cmd, custom_cmd and data
  PowerUp,    \* what registers without initial value may hold
  LateHost    \* whether the host may open the port after the first byte

Max  == 2^(LAST_BIT + 1) - 1
Word == [0 .. 3 -> 0 .. Max]   \* custom_cmd, cmd, data[15:8], data[7:0]

ASSUME WordsAssumption   == Words \subseteq Word /\ Words # {}
ASSUME PowerUpAssumption == PowerUp \subseteq Word /\ PowerUp # {}
ASSUME HostAssumption    == LateHost \in BOOLEAN
ASSUME SizeAssumption    == Max \in Nat /\ \A k \in 0 .. LAST_BIT : 2^k \in Nat \ {0}

InitByte == 68 % (Max + 1)   \* 8'd68

\* The initial byte is not one that the host waits for.
ASSUME InitByteAssumption == InitByte \in 0 .. Max - 1

VARIABLES
  r_SM_Main, r_Clock_Count, r_Bit_Index, r_Tx_Data,
  r_Tx_Done, r_Tx_Active, o_Tx_Serial,              \* uart_tx
  r_word,                                           \* r_custom_cmd, r_cmd, r_data
  i_Tx_DV, i_Tx_Byte, waitflag_tx, sendcounter,
  r_flag_allow_new_data, out_data, cnt_sync, flag_init_done,
  open, run, reading, frame, frames,                \* host
  missed                                            \* history: 8'hff sent before open

txVars   == <<r_SM_Main, r_Clock_Count, r_Bit_Index, r_Tx_Data,
              r_Tx_Done, r_Tx_Active, o_Tx_Serial>>
sendVars == <<sendcounter, i_Tx_Byte, r_flag_allow_new_data, out_data>>
syncVars == <<cnt_sync, flag_init_done>>
ctlVars  == <<r_word, i_Tx_DV, waitflag_tx, sendVars, syncVars>>
hostVars == <<open, run, reading, frame, frames, missed>>
vars     == <<txVars, ctlVars, hostVars>>

Tx == INSTANCE UartTx

SyncEnd  == 12   \* cnt_sync == 8'd12
SyncLen  == 12   \* the bytes of UartDebug.py's list sync
ReadSize == 4

\* The bits of i_Tx_Byte, least significant first.
Bits(byte) == [k \in 0 .. LAST_BIT |-> (byte \div 2^k) % 2]

\* i_Tx_DV starts as 1: the first edge sends the initial byte, 8'd68.
Init ==
  /\ Tx!Init
  /\ \E w \in PowerUp : r_word = [w EXCEPT ![2] = Max, ![3] = Max]
  /\ out_data \in PowerUp
  /\ i_Tx_DV = 1 /\ i_Tx_Byte = InitByte
  /\ waitflag_tx = 0 /\ sendcounter = 0 /\ r_flag_allow_new_data = 1
  /\ cnt_sync = 0 /\ flag_init_done = 0
  /\ open = ~LateHost
  /\ run = 0 /\ reading = <<>> /\ frame = <<>> /\ frames = 0 /\ missed = 0

-----------------------------------------------------------------------------
(***************************************************************************)
(* uartCTL.                                                                *)
(***************************************************************************)

\* Mutant: the strobe does not wait for the end of a byte.
WaitAnyway ==
  /\ waitflag_tx = 0
  /\ waitflag_tx' = 1
  /\ i_Tx_DV' = 0
  /\ UNCHANGED <<sendVars, syncVars>>

\* No byte is loaded at this edge.
Wait ==
  /\ waitflag_tx = 0
  /\ waitflag_tx' = IF r_Tx_Done = 1 /\ r_Tx_Active = 0 THEN 1 ELSE 0
  /\ i_Tx_DV' = 0
  /\ UNCHANGED <<sendVars, syncVars>>

\* Mutant: the bytes come from the input registers, not from a copy of them.
FrameByteLive == r_word[sendcounter]

\* out_data[31:24] .. out_data[7:0].  sendcounter never gets to the default
\* branch of the case statement.
FrameByte == out_data[sendcounter]

\* The byte of the frame is replaced by 8'hff: in the last branch once more
\* after the others, when cnt_sync has reached its end.
Syncing == flag_init_done = 0 \/ cnt_sync = SyncEnd

\* Mutant: the counter goes on at the end of a frame.
NextPlaceOn == sendcounter + 1

NextPlace == (sendcounter + 1) % ReadSize

\* Mutant: the copy is made one byte too early.
CopyingEarly == sendcounter = 2

Copying == sendcounter = 3

\* A byte is loaded; flag_frame_sent moves with r_flag_allow_new_data.  The
\* copy of the input registers for the next frame is made with the last byte
\* of this one.
Load ==
  /\ waitflag_tx = 1
  /\ waitflag_tx' = 0 /\ i_Tx_DV' = 1
  /\ i_Tx_Byte' = IF Syncing THEN Max ELSE FrameByte
  /\ sendcounter' = NextPlace
  /\ r_flag_allow_new_data' = IF Copying THEN 1 ELSE 0
  /\ out_data' = IF Copying THEN r_word ELSE out_data
  /\ cnt_sync' = IF flag_init_done = 0 THEN cnt_sync + 1 ELSE cnt_sync
  /\ flag_init_done' = IF cnt_sync = SyncEnd THEN 1 ELSE flag_init_done

-----------------------------------------------------------------------------
(***************************************************************************)
(* UartDebug.py.                                                           *)
(***************************************************************************)
Taken == r_SM_Main = "IDLE" /\ i_Tx_DV = 1

\* "Waiting for device": until the last SyncLen bytes were all 8'hff.
HostSync ==
  /\ open /\ Taken /\ run < SyncLen
  /\ run' = IF i_Tx_Byte = Max THEN run + 1 ELSE 0
  /\ UNCHANGED <<open, reading, frame, frames, missed>>

\* src.read(READ_SIZE), and the frame it returns.  frames saturates.
HostRead ==
  /\ open /\ Taken /\ run = SyncLen
  /\ \/ /\ Len(reading) < ReadSize - 1
        /\ reading' = Append(reading, i_Tx_Byte)
        /\ UNCHANGED <<frame, frames>>
     \/ /\ Len(reading) = ReadSize - 1
        /\ reading' = <<>>
        /\ frame' = Append(reading, i_Tx_Byte)
        /\ frames' = IF frames = 0 THEN 1 ELSE 2
  /\ UNCHANGED <<open, run, missed>>

\* Nothing for the host at this edge, which may be the one it opens the port.
\* missed saturates.
HostIdle ==
  /\ ~(open /\ Taken)
  /\ open' \in {open, TRUE}
  /\ missed' = IF Taken /\ i_Tx_Byte = Max /\ missed < 2 THEN missed + 1 ELSE missed
  /\ UNCHANGED <<run, reading, frame, frames>>

Host == HostSync \/ HostRead \/ HostIdle

-----------------------------------------------------------------------------
\* One rising edge with word on the inputs.
Edge(word) ==
  /\ Tx!Clock(i_Tx_DV, Bits(i_Tx_Byte))
  /\ r_word' = word
  /\ Wait \/ Load
  /\ Host

Next == \E word \in Words : Edge(word)

\* The clock does not stop.
Spec == Init /\ [][Next]_vars /\ WF_vars(Next)
-----------------------------------------------------------------------------
(***************************************************************************)
(* Properties.                                                             *)
(***************************************************************************)

\* Every register keeps its type.
TypeOK ==
  /\ Tx!TypeOK
  /\ r_word \in Word /\ out_data \in Word
  /\ i_Tx_DV \in {0, 1} /\ i_Tx_Byte \in 0 .. Max
  /\ waitflag_tx \in {0, 1} /\ sendcounter \in 0 .. 3
  /\ r_flag_allow_new_data \in {0, 1}
  /\ cnt_sync \in 0 .. SyncEnd + 1 /\ flag_init_done \in {0, 1}
  /\ open \in BOOLEAN /\ run \in 0 .. SyncLen
  /\ reading \in Seq(0 .. Max) /\ frame \in Seq(0 .. Max) /\ frames \in 0 .. 2 /\ missed \in 0 .. 2

\* uart_tx looks at its strobe in one state only, and it is in that state
\* whenever uartCTL raises it: no byte is loaded that is not sent, and none
\* is loaded over another, although o_Tx_Done lasts two clocks.
NoLoadLost == i_Tx_DV = 1 => r_SM_Main = "IDLE"

\* After it has synchronised, the host's place in its frame is the place of
\* uartCTL in its own; a byte that is loaded and not yet taken is between.  A
\* host that opened the port when one 8'hff was gone is one byte ahead for
\* ever.
HostAligned ==
  (run = SyncLen /\ missed < 2) =>
    (Len(reading) + i_Tx_DV + missed) % ReadSize = sendcounter

\* Every frame the host reads is one word, as the client had it on the
\* inputs at one edge, however they change; but the first frame has the byte
\* of the synchronisation that the host did not wait for in its first place.
\* A host that opened the port one byte late reads parts of two words.
FrameIsSnapshot ==
  /\ (frames > 0 /\ missed = 0) =>
       \E w \in Words :
         frame = [k \in 1 .. ReadSize |-> IF frames = 1 /\ k = 1 THEN Max ELSE w[k - 1]]
  /\ (frames > 0 /\ missed = 1) =>
       \E v, w \in Words : frame = <<v[1], v[2], v[3], w[0]>>

\* Frames keep coming, unless the host missed more than one 8'hff and waits
\* for twelve in a row.
FramesKeepComing ==
  <>(missed = 2) \/ ([]<>(reading = <<>>) /\ []<>(reading # <<>>))
=============================================================================
