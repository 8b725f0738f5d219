---------------------------- MODULE UartCtlProofs ---------------------------
(***************************************************************************)
(* Proofs about UartCtl for every CLKS_PER_BIT, every width of a byte and  *)
(* every set of words.                                                     *)
(***************************************************************************)
EXTENDS UartCtlClient, SequenceTheorems, TLAPS

\* How uartCTL and uart_tx move together.  The strobe, the wait flag and the
\* two clocks of o_Tx_Done follow each other, and none meets a frame.
Handshake ==
  /\ i_Tx_DV \in {0, 1} /\ waitflag_tx \in {0, 1}
  /\ i_Tx_DV = 1 => r_SM_Main = "IDLE" /\ r_Tx_Done = 0 /\ waitflag_tx = 0
  /\ waitflag_tx = 1 => r_SM_Main = "IDLE"
  /\ r_Tx_Done = 1 => \/ r_SM_Main = "CLEANUP"
                      \/ r_SM_Main = "IDLE" /\ waitflag_tx = 1
  /\ r_SM_Main = "CLEANUP" => waitflag_tx = 0
  /\ r_SM_Main \in {"IDLE", "CLEANUP"} => r_Tx_Active = 0
  /\ r_SM_Main = "CLEANUP" => r_Tx_Done = 1

LEMMA InitHandshake == Init => Handshake
BY DEF Init, Handshake, Tx!Init

LEMMA EdgeHandshake ==
  ASSUME Handshake, NEW word, Edge(word)
  PROVE  Handshake'
<1>1. CASE Wait
  BY <1>1 DEF Handshake, Edge, Wait, Tx!Clock, Tx!Idle, Tx!HoldBit, Tx!StartEnds, Tx!DataEnds,
              Tx!StopEnds, Tx!BitEnds, Tx!Cleanup, Tx!status
<1>2. CASE Load
  <2>1. r_SM_Main = "IDLE" /\ i_Tx_DV = 0
    BY <1>2 DEF Handshake, Load
  <2>2. r_SM_Main' = "IDLE" /\ r_Tx_Done' = 0 /\ r_Tx_Active' = r_Tx_Active
    BY <2>1 DEF Edge, Tx!Clock, Tx!Idle, Tx!HoldBit, Tx!StartEnds, Tx!DataEnds,
              Tx!StopEnds, Tx!BitEnds, Tx!Cleanup
  <2>3. QED BY <1>2, <2>1, <2>2 DEF Handshake, Load
<1>3. QED BY <1>1, <1>2 DEF Edge

LEMMA StutterHandshake == Handshake /\ UNCHANGED vars => Handshake'
BY DEF Handshake, vars, txVars, ctlVars, sendVars, syncVars

THEOREM HandshakeInvariant == Spec => []Handshake
<1>1. Handshake /\ [Next]_vars => Handshake'
  BY EdgeHandshake, StutterHandshake DEF Next
<1>2. QED BY InitHandshake, <1>1, PTL DEF Spec

\* NoLoadLost, whatever the bit time and the width of a byte: every byte that
\* uartCTL loads is taken by uart_tx at the next edge.
THEOREM NothingLost == Spec => []NoLoadLost
<1>1. Handshake => NoLoadLost
  BY DEF Handshake, NoLoadLost
<1>2. QED BY <1>1, HandshakeInvariant, PTL
-----------------------------------------------------------------------------
(***************************************************************************)
(* Alignment.  A host that missed less than two bytes of the               *)
(* synchronisation counts them with uartCTL: run follows cnt_sync, less    *)
(* the byte that is on its way and the one that was missed.  The host that *)
(* missed one has its twelfth when uartCTL has sent all thirteen.          *)
(***************************************************************************)
SyncTypes ==
  /\ cnt_sync \in 0 .. 13 /\ sendcounter \in 0 .. 3
  /\ flag_init_done = (IF cnt_sync = 13 THEN 1 ELSE 0)
  /\ reading \in Seq(0 .. Max) /\ Len(reading) \in 0 .. 3
  /\ i_Tx_Byte \in 0 .. Max /\ out_data \in Word /\ r_word \in Word
  /\ open \in BOOLEAN /\ run \in 0 .. 12 /\ missed \in 0 .. 2

Aligned == run = 12 /\ (Len(reading) + i_Tx_DV + missed) % 4 = sendcounter

\* The thirteenth byte is on its way to a host that missed the first.
LastSync ==
  /\ run = 11 /\ missed = 1 /\ i_Tx_DV = 1 /\ i_Tx_Byte = Max
  /\ reading = <<>> /\ frames = 0 /\ sendcounter = 1

Place == cnt_sync < 13 => sendcounter = cnt_sync % 4

Closed == ~open => run = 0 /\ reading = <<>> /\ frames = 0

Synchronising ==
  missed < 2 =>
    /\ cnt_sync < 13 => reading = <<>> /\ frames = 0
    /\ cnt_sync = 0 => run = 0 /\ missed = 0 /\ (i_Tx_DV = 1 => i_Tx_Byte # Max)
    /\ cnt_sync \in 1 .. 12 =>
         run + missed = cnt_sync - i_Tx_DV /\ (i_Tx_DV = 1 => i_Tx_Byte = Max)
    /\ cnt_sync = 13 => open /\ (Aligned \/ LastSync)

AInv == Handshake /\ SyncTypes /\ Place /\ Closed /\ Synchronising

LEMMA InitAInv == ASSUME Init PROVE AInv
<1>1. r_word \in Word /\ out_data \in Word
  <2>1. PICK w \in PowerUp : r_word = [w EXCEPT ![2] = Max, ![3] = Max]
    BY DEF Init
  <2>2. w \in Word /\ Max \in 0 .. Max
    BY PowerUpAssumption, SizeAssumption
  <2>3. QED BY <2>1, <2>2, PowerUpAssumption DEF Word, Init
<1>2. i_Tx_Byte \in 0 .. Max /\ i_Tx_Byte # Max
  BY InitByteAssumption, SizeAssumption DEF Init
<1>3. reading \in Seq(0 .. Max) /\ Len(reading) = 0
  BY DEF Init
<1>4. SyncTypes
  BY <1>1, <1>2, <1>3, HostAssumption DEF Init, SyncTypes
<1>5. Place /\ Closed /\ Synchronising
  <2>1. missed = 0
    BY DEF Init
  <2>2. cnt_sync = 0 /\ run = 0 /\ reading = <<>> /\ frames = 0 /\ sendcounter = 0
    BY DEF Init
  <2>3. QED BY <1>2, <2>1, <2>2 DEF Place, Closed, Synchronising
<1>6. QED BY <1>4, <1>5, InitHandshake DEF AInv

\* A loaded byte is taken at the next edge, so the three cases of the host
\* are told apart by the strobe.
LEMMA HostCases ==
  ASSUME AInv, Host
  PROVE  \/ i_Tx_DV = 0 /\ HostIdle /\ missed' = missed
         \/ i_Tx_DV = 1 /\ ~open /\ HostIdle
         \/ i_Tx_DV = 1 /\ open /\ run < 12 /\ HostSync
         \/ i_Tx_DV = 1 /\ open /\ run = 12 /\ HostRead
BY DEF AInv, Handshake, SyncTypes, Host, HostIdle, HostSync, HostRead, Taken, SyncLen

\* The length of what has been read, with the sequence out of sight.
LEMMA ReadingShort == ASSUME SyncTypes PROVE Len(reading) < 3 \/ Len(reading) = 3
<1> DEFINE n == Len(reading)
<1>1. n \in 0 .. 3
  BY DEF SyncTypes
<1> HIDE DEF n
<1>2. n < 3 \/ n = 3
  BY <1>1
<1>3. QED BY <1>2 DEF n

LEMMA ReadMore ==
  ASSUME SyncTypes, HostRead, Len(reading) < 3
  PROVE  /\ reading' = Append(reading, i_Tx_Byte) /\ Len(reading') = Len(reading) + 1
         /\ reading' \in Seq(0 .. Max)
         /\ UNCHANGED <<open, run, frame, frames, missed>>
<1>1. Len(reading) \in 0 .. 3
  BY DEF SyncTypes
<1>2. Len(reading) # 3
  BY <1>1
<1>3. reading' = Append(reading, i_Tx_Byte) /\ UNCHANGED <<open, run, frame, frames, missed>>
  BY <1>2 DEF HostRead, ReadSize
<1>4. QED BY <1>3 DEF SyncTypes

LEMMA ReadLast ==
  ASSUME SyncTypes, HostRead, Len(reading) = 3
  PROVE  /\ reading' = <<>> /\ Len(reading') = 0
         /\ frame' = Append(reading, i_Tx_Byte)
         /\ frames' = IF frames = 0 THEN 1 ELSE 2
         /\ UNCHANGED <<open, run, missed>>
<1>1. /\ reading' = <<>> /\ frame' = Append(reading, i_Tx_Byte)
      /\ frames' = IF frames = 0 THEN 1 ELSE 2
      /\ UNCHANGED <<open, run, missed>>
  BY DEF HostRead, ReadSize
<1>2. QED BY <1>1

\* The bytes themselves are never looked at by a type.
LEMMA EdgeSyncTypes ==
  ASSUME AInv, NEW word \in Words, Edge(word)
  PROVE  SyncTypes'
<1>1. r_word' \in Word
  BY WordsAssumption DEF Edge
<1>2. /\ cnt_sync' \in 0 .. 13 /\ sendcounter' \in 0 .. 3
      /\ flag_init_done' = (IF cnt_sync' = 13 THEN 1 ELSE 0)
      /\ out_data' \in Word
  BY DEF AInv, SyncTypes, Edge, Wait, Load, NextPlace, Copying, sendVars, syncVars, SyncEnd, ReadSize
<1>3. i_Tx_Byte' \in 0 .. Max
  <2>1. FrameByte \in 0 .. Max
    BY DEF AInv, SyncTypes, FrameByte, Word
  <2>2. QED
    BY <2>1, SizeAssumption DEF AInv, SyncTypes, Edge, Wait, Load, sendVars
<1>4. reading' \in Seq(0 .. Max) /\ Len(reading') \in 0 .. 3
  <2>1. CASE UNCHANGED reading
    BY <2>1 DEF AInv, SyncTypes
  <2>2. CASE HostRead /\ Len(reading) < 3
    <3>1. Len(reading') = Len(reading) + 1 /\ reading' \in Seq(0 .. Max)
      BY <2>2, ReadMore DEF AInv
    <3>2. QED BY <2>2, <3>1 DEF AInv, SyncTypes
  <2>3. CASE HostRead /\ Len(reading) = 3
    BY <2>3, ReadLast DEF AInv
  <2>4. QED
    BY HostCases, ReadingShort, <2>1, <2>2, <2>3 DEF AInv, Edge, HostIdle, HostSync
<1>5. open' \in BOOLEAN /\ run' \in 0 .. 12 /\ missed' \in 0 .. 2
  <2>1. open \in BOOLEAN /\ run \in 0 .. 12 /\ missed \in 0 .. 2
    BY DEF AInv, SyncTypes
  <2>2. CASE HostIdle
    <3>1. open' \in {open, TRUE} /\ run' = run
      BY <2>2 DEF HostIdle
    <3>2. missed' = missed \/ (missed < 2 /\ missed' = missed + 1)
      BY <2>2 DEF HostIdle
    <3>3. open' \in BOOLEAN
      BY <2>1, <3>1, Zenon
    <3>4. missed' \in 0 .. 2
      BY <2>1, <3>2
    <3>5. QED BY <2>1, <3>1, <3>3, <3>4
  <2>3. CASE HostSync
    BY <2>1, <2>3 DEF HostSync, SyncLen
  <2>4. CASE HostRead
    BY <2>1, <2>4 DEF HostRead
  <2>5. QED BY <2>2, <2>3, <2>4 DEF Edge, Host
<1>6. QED BY <1>1, <1>2, <1>3, <1>4, <1>5 DEF SyncTypes

\* The edges keep the place in the frame, and a closed port has given nothing.
LEMMA EdgePlace ==
  ASSUME AInv, NEW word \in Words, Edge(word)
  PROVE  Place' /\ Closed'
<1>1. Place'
  BY DEF AInv, SyncTypes, Place, Edge, Wait, Load, NextPlace, ReadSize, SyncEnd, sendVars, syncVars
<1>2. Closed'
  <2>1. CASE HostIdle
    <3>1. ~open' => ~open
      BY <2>1 DEF HostIdle
    <3>2. UNCHANGED <<run, reading, frames>>
      BY <2>1 DEF HostIdle
    <3>3. QED BY <3>1, <3>2 DEF AInv, Closed
  <2>2. CASE HostSync
    BY <2>2 DEF HostSync, Closed
  <2>3. CASE HostRead
    BY <2>3 DEF HostRead, Closed
  <2>4. QED BY <2>1, <2>2, <2>3 DEF Edge, Host
<1>3. QED BY <1>1, <1>2

\* Between loads only the host moves, and only by the byte it is given.
LEMMA WaitSynchronising ==
  ASSUME AInv, NEW word \in Words, Edge(word), Wait
  PROVE  Synchronising'
<1>1. /\ UNCHANGED <<cnt_sync, sendcounter, i_Tx_Byte>> /\ i_Tx_DV' = 0
  BY DEF Wait, sendVars, syncVars
<1>2. CASE i_Tx_DV = 0 /\ HostIdle /\ missed' = missed
  <2>1. UNCHANGED <<run, reading, frames, missed>> /\ open' \in {open, TRUE}
    BY <1>2 DEF HostIdle
  <2>2. QED BY <1>1, <1>2, <2>1 DEF AInv, SyncTypes, Synchronising, Aligned, LastSync
<1>3. CASE i_Tx_DV = 1 /\ ~open /\ HostIdle
  <2>1. /\ UNCHANGED <<run, reading, frames>>
        /\ missed' = IF i_Tx_Byte = Max /\ missed < 2 THEN missed + 1 ELSE missed
    BY <1>3 DEF HostIdle, Taken, AInv, Handshake
  <2>2. missed < 2 => cnt_sync < 13
    BY <1>3 DEF AInv, SyncTypes, Synchronising
  <2>3. missed' < 2 => missed < 2
    BY <2>1 DEF AInv, SyncTypes
  <2>4. run = 0 /\ reading = <<>> /\ frames = 0
    BY <1>3 DEF AInv, Closed
  <2>5. QED BY <1>1, <1>3, <2>1, <2>2, <2>3, <2>4 DEF AInv, SyncTypes, Synchronising
<1>4. CASE i_Tx_DV = 1 /\ open /\ run < 12 /\ HostSync
  <2>1. /\ UNCHANGED <<open, reading, frames, missed>>
        /\ run' = IF i_Tx_Byte = Max THEN run + 1 ELSE 0
    BY <1>4 DEF HostSync
  <2>2. CASE cnt_sync < 13
    BY <1>1, <1>4, <2>1, <2>2 DEF AInv, SyncTypes, Synchronising
  <2>3. CASE cnt_sync = 13 /\ missed < 2
    <3>1. LastSync
      BY <1>4, <2>3 DEF AInv, Synchronising, Aligned
    <3>2. Len(reading') = 0
      BY <2>1, <3>1 DEF LastSync
    <3>3. Aligned'
      BY <1>1, <2>1, <3>1, <3>2 DEF LastSync, Aligned
    <3>4. QED BY <1>1, <1>4, <2>1, <2>3, <3>3 DEF AInv, SyncTypes, Synchronising
  <2>4. CASE cnt_sync = 13 /\ missed = 2
    BY <1>1, <1>4, <2>1, <2>4 DEF AInv, Synchronising
  <2>5. QED BY <2>2, <2>3, <2>4 DEF AInv, SyncTypes
<1>5. CASE i_Tx_DV = 1 /\ open /\ run = 12 /\ HostRead
  <2>1. UNCHANGED <<open, run, missed>>
    BY <1>5 DEF HostRead
  <2>2. CASE missed = 2
    BY <1>1, <1>5, <2>1, <2>2 DEF AInv, Synchronising
  <2>3. CASE missed < 2
    <3>1. cnt_sync = 13 /\ Aligned
      BY <1>5, <2>3 DEF AInv, SyncTypes, Synchronising, LastSync
    <3>2. Aligned'
      <4>1. CASE Len(reading) < 3
        <5>1. Len(reading') = Len(reading) + 1
          BY <1>5, <4>1, ReadMore DEF AInv
        <5>2. QED BY <1>1, <1>5, <2>1, <3>1, <5>1 DEF AInv, SyncTypes, Aligned
      <4>2. CASE Len(reading) = 3
        <5>1. Len(reading') = 0
          BY <1>5, <4>2, ReadLast DEF AInv
        <5>2. QED BY <1>1, <1>5, <2>1, <3>1, <4>2, <5>1 DEF AInv, SyncTypes, Aligned
      <4>3. QED BY <4>1, <4>2, ReadingShort DEF AInv
    <3>3. QED BY <1>1, <1>5, <2>1, <3>1, <3>2 DEF AInv, Synchronising
  <2>4. QED BY <2>2, <2>3 DEF AInv, SyncTypes
<1>6. QED BY HostCases, <1>2, <1>3, <1>4, <1>5 DEF Edge

\* A load meets a host that has nothing to read.
LEMMA LoadHost ==
  ASSUME AInv, NEW word \in Words, Edge(word), Load
  PROVE  /\ i_Tx_DV = 0 /\ i_Tx_DV' = 1
         /\ UNCHANGED <<run, reading, frame, frames, missed>> /\ (open => open')
<1>1. i_Tx_DV = 0 /\ i_Tx_DV' = 1
  BY DEF AInv, Handshake, Load
<1>2. HostIdle /\ missed' = missed
  BY <1>1, HostCases DEF Edge
<1>3. UNCHANGED <<run, reading, frame, frames>> /\ open' \in {open, TRUE}
  BY <1>2 DEF HostIdle
<1>4. open => open'
  BY <1>3, Zenon
<1>5. QED BY <1>1, <1>2, <1>3, <1>4

LEMMA LoadSynchronising ==
  ASSUME AInv, NEW word \in Words, Edge(word), Load
  PROVE  Synchronising'
<1>1. i_Tx_DV = 0 /\ i_Tx_DV' = 1
  BY LoadHost
<1>2. UNCHANGED <<run, reading, frames, missed>> /\ (open => open')
  BY LoadHost
<1>3. cnt_sync < 13 => i_Tx_Byte' = Max /\ cnt_sync' = cnt_sync + 1
  BY DEF Load, Syncing, AInv, SyncTypes
<1>4. cnt_sync = 13 => cnt_sync' = 13
  BY DEF Load, AInv, SyncTypes
<1>5. sendcounter' = (sendcounter + 1) % 4
  BY DEF Load, NextPlace, ReadSize
<1>6. CASE cnt_sync = 13
  <2>1. missed < 2 => Aligned
    BY <1>1, <1>6 DEF AInv, Synchronising, LastSync
  <2>2. missed < 2 => Aligned'
    BY <1>1, <1>2, <1>5, <2>1 DEF AInv, SyncTypes, Aligned
  <2>3. missed < 2 => open
    BY <1>6 DEF AInv, Synchronising
  <2>4. missed' < 2 => open' /\ Aligned'
    BY <1>2, <2>2, <2>3
  <2>5. cnt_sync' = 13
    BY <1>4, <1>6
  <2>6. QED BY <2>4, <2>5 DEF Synchronising
<1>7. CASE cnt_sync = 12
  <2>1. sendcounter = 0
    BY <1>7 DEF AInv, Place
  <2>2. missed < 2 => reading = <<>> /\ frames = 0 /\ run + missed = 12
    BY <1>1, <1>7 DEF AInv, Synchronising
  <2>3. missed < 2 => open
    BY <2>2 DEF AInv, SyncTypes, Closed
  <2>4. missed = 0 => Aligned'
    <3>1. missed = 0 => Len(reading') = 0
      BY <1>2, <2>2
    <3>2. QED BY <1>1, <1>2, <1>5, <2>1, <2>2, <3>1 DEF Aligned, AInv, SyncTypes
  <2>5. missed = 1 => LastSync'
    BY <1>1, <1>2, <1>3, <1>5, <1>7, <2>1, <2>2 DEF LastSync, AInv, SyncTypes
  <2>6. missed' < 2 => open' /\ (Aligned' \/ LastSync')
    BY <1>2, <2>3, <2>4, <2>5 DEF AInv, SyncTypes
  <2>7. cnt_sync' = 13
    BY <1>3, <1>7
  <2>8. QED BY <2>6, <2>7 DEF Synchronising
<1>8. CASE cnt_sync < 12
  BY <1>1, <1>2, <1>3, <1>5, <1>8 DEF AInv, SyncTypes, Synchronising
<1>9. QED BY <1>6, <1>7, <1>8 DEF AInv, SyncTypes

LEMMA NextAInv == AInv /\ [Next]_vars => AInv'
<1>1. ASSUME AInv, NEW word \in Words, Edge(word) PROVE AInv'
  BY <1>1, EdgeHandshake, EdgeSyncTypes, EdgePlace, WaitSynchronising, LoadSynchronising DEF AInv, Edge
<1>2. ASSUME AInv, UNCHANGED vars PROVE AInv'
  BY <1>2, StutterHandshake
     DEF AInv, SyncTypes, Place, Closed, Synchronising, Aligned, LastSync, vars, ctlVars, hostVars, sendVars, syncVars
<1>3. QED BY <1>1, <1>2 DEF Next

THEOREM AInvInvariant == Spec => []AInv
BY InitAInv, NextAInv, PTL DEF Spec

\* HostAligned, whenever the host opens the port: one that missed nothing
\* keeps its place in the frames, one that missed a byte is ahead by one for
\* ever.
THEOREM AlwaysAligned == Spec => []HostAligned
<1>1. AInv => HostAligned
  <2> SUFFICES ASSUME AInv, run = 12, missed < 2
               PROVE  (Len(reading) + i_Tx_DV + missed) % 4 = sendcounter
    BY DEF HostAligned, SyncLen, ReadSize
  <2>1. CASE cnt_sync = 13
    BY <2>1 DEF AInv, Synchronising, Aligned, LastSync
  <2>2. CASE cnt_sync < 13
    <3>1. cnt_sync = 12 /\ i_Tx_DV = 0 /\ missed = 0 /\ sendcounter = 0
      BY <2>2 DEF AInv, Handshake, SyncTypes, Place, Synchronising
    <3>2. Len(reading) = 0
      BY <2>2 DEF AInv, Synchronising
    <3>3. QED BY <3>1, <3>2
  <2>3. QED BY <2>1, <2>2 DEF AInv, SyncTypes
<1>2. QED BY <1>1, AInvInvariant, PTL
-----------------------------------------------------------------------------
(***************************************************************************)
(* Snapshots.  From the end of the synchronisation on there is a word of   *)
(* the client that the host's part of a frame, the byte on its way to it   *)
(* and, within a frame, out_data all belong to.  The first frame is the    *)
(* exception, in its first byte.  For the host that missed one byte it is  *)
(* the last three bytes of a word, and then the first of another.          *)
(***************************************************************************)
Told(w, k) == IF frames = 0 /\ k = 1 THEN Max ELSE w[k - 1]

Carries(w) ==
  /\ \A k \in 1 .. Len(reading) : reading[k] = Told(w, k)
  /\ i_Tx_DV = 1 => i_Tx_Byte = Told(w, Len(reading) + 1)
  /\ sendcounter # 0 => w = out_data

Copied ==
  /\ r_word \in Words \/ (i_Tx_DV = 1 /\ cnt_sync = 0)
  /\ cnt_sync >= 4 => out_data \in Words

\* FrameIsSnapshot, for a host that missed nothing.
OnTime ==
  frames > 0 =>
    \E w \in Words :
      frame = [k \in 1 .. ReadSize |-> IF frames = 1 /\ k = 1 THEN Max ELSE w[k - 1]]

Snapshot ==
  /\ cnt_sync = 13 /\ frames = 0 /\ i_Tx_DV = 0 => Len(reading) # 0
  /\ cnt_sync = 13 => \E w \in Words : Carries(w)
  /\ OnTime

\* A host that missed one byte reads the last three bytes of a word and the
\* first of another.
Behind(v) ==
  /\ \A k \in 1 .. Len(reading) : reading[k] = v[k]
  /\ i_Tx_DV = 1 /\ Len(reading) < 3 => i_Tx_Byte = v[Len(reading) + 1]
  /\ i_Tx_DV = 1 /\ Len(reading) = 3 => \E w \in Words : i_Tx_Byte = w[0]
  /\ sendcounter \in {2, 3} => v = out_data

\* FrameIsSnapshot, for a host that missed one byte.
OneLate ==
  frames > 0 => \E v, w \in Words : frame = <<v[1], v[2], v[3], w[0]>>

Shifted ==
  /\ cnt_sync = 13 /\ run = 12 => \E v \in Words : Behind(v)
  /\ OneLate

Kept ==
  /\ frames \in 0 .. 2
  /\ missed = 0 => Snapshot
  /\ missed = 1 => Shifted

LEMMA InitKept == Init => Copied /\ Kept
BY DEF Init, Copied, Kept, Snapshot, OnTime

LEMMA EdgeCopied ==
  ASSUME AInv, Copied, NEW word \in Words, Edge(word)
  PROVE  Copied'
<1>1. r_word' \in Words
  BY DEF Edge
<1>2. CASE Wait
  BY <1>1, <1>2 DEF Copied, Wait, sendVars, syncVars
<1>3. CASE Load
  <2>1. r_word \in Words
    BY <1>3 DEF Copied, AInv, Handshake, Load
  <2>2. cnt_sync = 3 => sendcounter = 3
    BY DEF AInv, Place
  <2>3. cnt_sync' >= 4 => cnt_sync >= 4 \/ cnt_sync = 3
    BY <1>3 DEF AInv, SyncTypes, Load
  <2>4. out_data' = IF sendcounter = 3 THEN r_word ELSE out_data
    BY <1>3 DEF Load, Copying
  <2>5. cnt_sync' >= 4 => out_data' \in Words
    BY <2>1, <2>2, <2>3, <2>4 DEF Copied
  <2>6. QED BY <1>1, <2>5 DEF Copied
<1>4. QED BY <1>2, <1>3 DEF Edge

LEMMA ReadingAppended ==
  ASSUME SyncTypes
  PROVE  /\ Append(reading, i_Tx_Byte) \in Seq(0 .. Max)
         /\ Len(Append(reading, i_Tx_Byte)) = Len(reading) + 1
         /\ Append(reading, i_Tx_Byte)[Len(reading) + 1] = i_Tx_Byte
         /\ \A k \in 1 .. Len(reading) : Append(reading, i_Tx_Byte)[k] = reading[k]
BY DEF SyncTypes

\* The frame that the host completes.
LEMMA FrameComplete ==
  ASSUME NEW w \in Words, SyncTypes, Len(reading) = 3,
         \A k \in 1 .. 3 : reading[k] = Told(w, k), i_Tx_Byte = Told(w, 4)
  PROVE  Append(reading, i_Tx_Byte) = [k \in 1 .. ReadSize |-> Told(w, k)]
<1> DEFINE f == Append(reading, i_Tx_Byte)
           n == Len(reading)
<1>1. /\ f \in Seq(0 .. Max) /\ Len(f) = n + 1 /\ f[n + 1] = i_Tx_Byte
      /\ \A k \in 1 .. n : f[k] = reading[k]
  BY ReadingAppended, Zenon
<1>2. n = 3
  OBVIOUS
<1> HIDE DEF n, f
<1>3. /\ f \in Seq(0 .. Max) /\ Len(f) = 4 /\ f[4] = i_Tx_Byte
      /\ \A k \in 1 .. 3 : f[k] = reading[k]
  BY <1>1, <1>2
<1>4. ASSUME NEW k \in 1 .. 4 PROVE f[k] = Told(w, k)
  <2>1. CASE k = 4
    BY <1>3, <2>1
  <2>2. CASE k \in 1 .. 3
    BY <1>3, <2>2
  <2>3. k = 4 \/ k \in 1 .. 3
    OBVIOUS
  <2>4. QED BY <2>1, <2>2, <2>3
<1>5. f = [k \in 1 .. 4 |-> f[k]]
  BY <1>3
<1>6. f = [k \in 1 .. 4 |-> Told(w, k)]
  BY <1>4, <1>5
<1>7. QED BY <1>6 DEF ReadSize, f

LEMMA ShiftedComplete ==
  ASSUME NEW v \in Words, SyncTypes, Len(reading) = 3,
         \A k \in 1 .. 3 : reading[k] = v[k]
  PROVE  Append(reading, i_Tx_Byte) = <<v[1], v[2], v[3], i_Tx_Byte>>
<1> DEFINE f == Append(reading, i_Tx_Byte)
           n == Len(reading)
<1>1. /\ f \in Seq(0 .. Max) /\ Len(f) = n + 1 /\ f[n + 1] = i_Tx_Byte
      /\ \A k \in 1 .. n : f[k] = reading[k]
  BY ReadingAppended, Zenon
<1>2. n = 3
  OBVIOUS
<1> HIDE DEF n, f
<1>3. /\ f \in Seq(0 .. Max) /\ Len(f) = 4 /\ f[4] = i_Tx_Byte
      /\ f[1] = v[1] /\ f[2] = v[2] /\ f[3] = v[3]
  BY <1>1, <1>2
<1>4. f = <<f[1], f[2], f[3], f[4]>>
  BY <1>3
<1>5. f = <<v[1], v[2], v[3], i_Tx_Byte>>
  BY <1>3, <1>4, Zenon
<1>6. QED BY <1>5 DEF f

\* What the host of a word reads of it, a byte at a time.
LEMMA WaitCarries ==
  ASSUME AInv, missed = 0, cnt_sync = 13, frames \in 0 .. 2,
         NEW word \in Words, Edge(word), Wait, NEW w \in Words, Carries(w)
  PROVE  /\ Carries(w)' /\ missed' = 0
         /\ \/ i_Tx_DV = 0 /\ UNCHANGED <<reading, frame, frames>>
            \/ /\ i_Tx_DV = 1 /\ Len(reading) < 3 /\ Len(reading') = Len(reading) + 1
               /\ UNCHANGED <<frame, frames>>
            \/ /\ i_Tx_DV = 1 /\ Len(reading) = 3 /\ Len(reading') = 0 /\ sendcounter = 0
               /\ frame' = [k \in 1 .. ReadSize |-> Told(w, k)]
               /\ frames' = IF frames = 0 THEN 1 ELSE 2
<1>1. UNCHANGED <<cnt_sync, sendcounter, out_data, i_Tx_Byte>> /\ i_Tx_DV' = 0
  BY DEF Wait, sendVars, syncVars
<1>2. open /\ Aligned
  BY DEF AInv, Synchronising, LastSync
<1>3. CASE i_Tx_DV = 0 /\ HostIdle /\ missed' = missed
  <2>1. UNCHANGED <<reading, frame, frames>>
    BY <1>3 DEF HostIdle
  <2>2. Carries(w)'
    BY <1>1, <2>1 DEF Carries, Told
  <2>3. QED BY <1>3, <2>1, <2>2
<1>4. CASE i_Tx_DV = 1 /\ run = 12 /\ HostRead
  <2>1. missed' = missed
    BY <1>4 DEF HostRead
  <2>2. CASE Len(reading) < 3
    <3>1. /\ reading' = Append(reading, i_Tx_Byte) /\ Len(reading') = Len(reading) + 1
          /\ UNCHANGED <<frame, frames>>
      BY <1>4, <2>2, ReadMore DEF AInv
    <3>2. reading \in Seq(0 .. Max) /\ Len(reading) \in Nat
      BY DEF AInv, SyncTypes
    <3>3. ASSUME NEW k \in 1 .. Len(reading')
          PROVE  reading'[k] = Told(w, k)
      <4>1. CASE k \in 1 .. Len(reading)
        <5>1. reading'[k] = reading[k]
          BY <3>1, <3>2, <4>1
        <5>2. QED BY <4>1, <5>1 DEF Carries
      <4>2. CASE k = Len(reading) + 1
        <5>1. reading'[k] = i_Tx_Byte
          BY <3>1, <3>2, <4>2
        <5>2. QED BY <1>4, <4>2, <5>1 DEF Carries
      <4>3. QED BY <3>1, <3>2, <4>1, <4>2
    <3>4. Carries(w)'
      BY <1>1, <3>1, <3>3 DEF Carries, Told
    <3>5. QED BY <1>4, <2>1, <2>2, <3>1, <3>4
  <2>3. CASE Len(reading) = 3
    <3>1. /\ Len(reading') = 0
          /\ frame' = Append(reading, i_Tx_Byte)
          /\ frames' = IF frames = 0 THEN 1 ELSE 2
      BY <1>4, <2>3, ReadLast DEF AInv
    <3>2. sendcounter = 0
      BY <1>2, <1>4, <2>3 DEF AInv, SyncTypes, Aligned
    <3>3. Carries(w)'
      BY <1>1, <3>1, <3>2 DEF Carries
    <3>4. frame' = [k \in 1 .. ReadSize |-> Told(w, k)]
      <4>1. i_Tx_Byte = Told(w, 4)
        <5>1. i_Tx_Byte = Told(w, Len(reading) + 1)
          BY <1>4 DEF Carries
        <5>2. Len(reading) + 1 = 4
          BY <2>3
        <5>3. QED BY <5>1, <5>2, Zenon
      <4>2. \A k \in 1 .. 3 : reading[k] = Told(w, k)
        BY <2>3 DEF Carries
      <4>3. QED BY <2>3, <3>1, <4>1, <4>2, FrameComplete DEF AInv
    <3>5. QED BY <1>4, <2>1, <2>3, <3>1, <3>2, <3>3, <3>4
  <2>4. QED BY <2>2, <2>3, ReadingShort DEF AInv
<1>5. QED BY HostCases, <1>2, <1>3, <1>4 DEF Edge, Aligned

LEMMA WaitSnapshot ==
  ASSUME AInv, Snapshot, missed = 0, frames \in 0 .. 2,
         NEW word \in Words, Edge(word), Wait
  PROVE  Snapshot'
<1>1. cnt_sync' = cnt_sync /\ i_Tx_DV' = 0
  BY DEF Wait, syncVars
<1>2. CASE cnt_sync # 13
  <2>1. i_Tx_DV = 0 \/ run < 12
    BY <1>2 DEF AInv, Handshake, SyncTypes, Synchronising
  <2>2. HostIdle \/ HostSync
    BY <2>1, HostCases DEF Edge
  <2>3. UNCHANGED <<frame, frames>>
    BY <2>2 DEF HostIdle, HostSync
  <2>4. QED BY <1>1, <1>2, <2>3 DEF Snapshot, OnTime
<1>3. CASE cnt_sync = 13
  <2>1. PICK w \in Words : Carries(w)
    BY <1>3 DEF Snapshot
  <2>2. /\ Carries(w)'
        /\ \/ i_Tx_DV = 0 /\ UNCHANGED <<reading, frame, frames>>
           \/ /\ i_Tx_DV = 1 /\ Len(reading) < 3 /\ Len(reading') = Len(reading) + 1
              /\ UNCHANGED <<frame, frames>>
           \/ /\ Len(reading') = 0
              /\ frame' = [k \in 1 .. ReadSize |-> Told(w, k)]
              /\ frames' = IF frames = 0 THEN 1 ELSE 2
    BY <1>3, <2>1, WaitCarries
  <2>3. OnTime'
    <3>1. CASE UNCHANGED <<frame, frames>>
      BY <3>1 DEF Snapshot, OnTime
    <3>2. CASE /\ frame' = [k \in 1 .. ReadSize |-> Told(w, k)]
               /\ frames' = IF frames = 0 THEN 1 ELSE 2
      <4>1. \A k \in 1 .. ReadSize :
              Told(w, k) = IF frames' = 1 /\ k = 1 THEN Max ELSE w[k - 1]
        BY <3>2 DEF Told
      <4>2. frame' = [k \in 1 .. ReadSize |-> IF frames' = 1 /\ k = 1 THEN Max ELSE w[k - 1]]
        BY <3>2, <4>1
      <4>3. QED BY <4>2 DEF OnTime
    <3>3. QED BY <2>2, <3>1, <3>2
  <2>4. cnt_sync' = 13 /\ frames' = 0 /\ i_Tx_DV' = 0 => Len(reading') # 0
    <3>1. CASE i_Tx_DV = 0 /\ UNCHANGED <<reading, frame, frames>>
      BY <1>3, <3>1 DEF Snapshot
    <3>2. CASE Len(reading') = Len(reading) + 1
      <4>1. Len(reading) \in 0 .. 3
        BY DEF AInv, SyncTypes
      <4>2. QED BY <3>2, <4>1
    <3>3. CASE frames' = IF frames = 0 THEN 1 ELSE 2
      BY <3>3
    <3>4. QED BY <2>2, <3>1, <3>2, <3>3
  <2>5. QED BY <2>2, <2>3, <2>4 DEF Snapshot
<1>4. QED BY <1>2, <1>3

\* The next byte is of out_data, and so is what the host has read so far.
LEMMA LoadCarries ==
  ASSUME AInv, Snapshot, missed = 0, cnt_sync = 13, NEW word \in Words, Edge(word), Load,
         NEW v \in Words, Carries(v), NEW w \in Words, w = out_data
  PROVE  Carries(w)' /\ Len(reading) = sendcounter
<1>1. i_Tx_DV = 0 /\ i_Tx_DV' = 1 /\ UNCHANGED <<reading, frame, frames>>
  BY LoadHost
<1>2. Len(reading) = sendcounter
  <2> DEFINE n == Len(reading)
  <2>1. n \in 0 .. 3 /\ (n + 0) % 4 = sendcounter
    BY <1>1 DEF AInv, SyncTypes, Synchronising, Aligned, LastSync
  <2> HIDE DEF n
  <2>2. n = sendcounter
    BY <2>1
  <2>3. QED BY <2>2 DEF n
<1>3. ASSUME NEW k \in 1 .. Len(reading)
      PROVE  reading[k] = Told(w, k)
  <2>1. sendcounter # 0
    BY <1>2, <1>3 DEF AInv, SyncTypes
  <2>2. QED BY <1>3, <2>1 DEF Carries
<1>4. i_Tx_Byte' = w[sendcounter]
  BY DEF Load, Syncing, FrameByte, AInv, SyncTypes, SyncEnd
<1>5. sendcounter' # 0 => w = out_data'
  BY DEF Load, NextPlace, Copying, ReadSize, AInv, SyncTypes
<1>6. \A k \in 1 .. Len(reading') : reading'[k] = Told(w, k)'
  BY <1>1, <1>3 DEF Told
<1>7. i_Tx_Byte' = Told(w, Len(reading) + 1)
  <2>1. frames = 0 => Len(reading) # 0
    BY <1>1 DEF Snapshot
  <2>2. sendcounter \in 0 .. 3
    BY DEF AInv, SyncTypes
  <2>3. QED BY <1>2, <1>4, <2>1, <2>2 DEF Told
<1>8. Carries(w)'
  BY <1>1, <1>5, <1>6, <1>7 DEF Carries, Told
<1>9. QED BY <1>2, <1>8

\* The first byte of the first frame is the one that the synchronisation ends with.
LEMMA FirstCarries ==
  ASSUME AInv, missed = 0, cnt_sync = 12, NEW word \in Words, Edge(word), Load,
         NEW w \in Words, w = out_data
  PROVE  Carries(w)' /\ frames' = 0
<1>1. UNCHANGED <<reading, frame, frames>>
  BY LoadHost
<1>2. /\ Len(reading) = 0 /\ frames = 0 /\ sendcounter = 0
  BY DEF AInv, Place, Synchronising
<1>3. out_data' = out_data
  BY <1>2 DEF Load, Copying
<1>4. i_Tx_Byte' = Max
  BY DEF Load, Syncing, SyncEnd
<1>5. QED BY <1>1, <1>2, <1>3, <1>4 DEF Carries, Told

LEMMA LoadSnapshot ==
  ASSUME AInv, Copied, Snapshot, missed = 0, NEW word \in Words, Edge(word), Load
  PROVE  Snapshot'
<1>1. i_Tx_DV = 0 /\ i_Tx_DV' = 1 /\ UNCHANGED <<reading, frame, frames>>
  BY LoadHost
<1>2. OnTime'
  BY <1>1 DEF Snapshot, OnTime
<1>3. CASE cnt_sync < 12
  <2>1. cnt_sync' # 13
    BY <1>3 DEF AInv, SyncTypes, Load
  <2>2. QED BY <1>1, <1>2, <2>1 DEF Snapshot
<1>4. CASE cnt_sync \in {12, 13}
  <2>1. PICK w \in Words : w = out_data
    BY <1>4 DEF Copied
  <2>2. Carries(w)'
    <3>1. CASE cnt_sync = 12
      BY <2>1, <3>1, FirstCarries
    <3>2. CASE cnt_sync = 13
      <4>1. PICK v \in Words : Carries(v)
        BY <3>2 DEF Snapshot
      <4>2. QED BY <2>1, <3>2, <4>1, LoadCarries
    <3>3. QED BY <1>4, <3>1, <3>2
  <2>3. QED BY <1>1, <1>2, <2>2 DEF Snapshot
<1>5. QED BY <1>3, <1>4 DEF AInv, SyncTypes

\* The host that missed a byte reads the last three of a word and one more.
LEMMA WaitBehind ==
  ASSUME AInv, missed = 1, cnt_sync = 13, run = 12,
         NEW word \in Words, Edge(word), Wait, NEW v \in Words, Behind(v)
  PROVE  /\ Behind(v)' /\ missed' = 1
         /\ \/ i_Tx_DV = 0 /\ UNCHANGED <<reading, frame, frames>>
            \/ /\ i_Tx_DV = 1 /\ Len(reading) < 3 /\ Len(reading') = Len(reading) + 1
               /\ UNCHANGED <<frame, frames>>
            \/ /\ i_Tx_DV = 1 /\ Len(reading) = 3 /\ Len(reading') = 0 /\ sendcounter = 1
               /\ frame' = <<v[1], v[2], v[3], i_Tx_Byte>>
<1>1. UNCHANGED <<cnt_sync, sendcounter, out_data, i_Tx_Byte>> /\ i_Tx_DV' = 0
  BY DEF Wait, sendVars, syncVars
<1>2. open /\ Aligned
  BY DEF AInv, Synchronising, LastSync
<1>3. CASE i_Tx_DV = 0 /\ HostIdle /\ missed' = missed
  <2>1. UNCHANGED <<reading, frame, frames>>
    BY <1>3 DEF HostIdle
  <2>2. Behind(v)'
    BY <1>1, <2>1 DEF Behind
  <2>3. QED BY <1>3, <2>1, <2>2
<1>4. CASE i_Tx_DV = 1 /\ run = 12 /\ HostRead
  <2>1. missed' = missed
    BY <1>4 DEF HostRead
  <2>2. CASE Len(reading) < 3
    <3>1. /\ reading' = Append(reading, i_Tx_Byte) /\ Len(reading') = Len(reading) + 1
          /\ UNCHANGED <<frame, frames>>
      BY <1>4, <2>2, ReadMore DEF AInv
    <3>2. reading \in Seq(0 .. Max) /\ Len(reading) \in Nat
      BY DEF AInv, SyncTypes
    <3>3. ASSUME NEW k \in 1 .. Len(reading')
          PROVE  reading'[k] = v[k]
      <4>1. CASE k \in 1 .. Len(reading)
        <5>1. reading'[k] = reading[k]
          BY <3>1, <3>2, <4>1
        <5>2. QED BY <4>1, <5>1 DEF Behind
      <4>2. CASE k = Len(reading) + 1
        <5>1. reading'[k] = i_Tx_Byte
          BY <3>1, <3>2, <4>2
        <5>2. QED BY <1>4, <2>2, <4>2, <5>1 DEF Behind
      <4>3. QED BY <3>1, <3>2, <4>1, <4>2
    <3>4. Behind(v)'
      BY <1>1, <3>3 DEF Behind
    <3>5. QED BY <1>4, <2>1, <2>2, <3>1, <3>4
  <2>3. CASE Len(reading) = 3
    <3>1. /\ Len(reading') = 0
          /\ frame' = Append(reading, i_Tx_Byte)
      BY <1>4, <2>3, ReadLast DEF AInv
    <3>2. sendcounter = 1
      BY <1>2, <1>4, <2>3 DEF Aligned
    <3>3. Behind(v)'
      BY <1>1, <3>1, <3>2 DEF Behind
    <3>4. frame' = <<v[1], v[2], v[3], i_Tx_Byte>>
      <4>1. \A k \in 1 .. 3 : reading[k] = v[k]
        BY <2>3 DEF Behind
      <4>2. QED BY <2>3, <3>1, <4>1, ShiftedComplete DEF AInv
    <3>5. QED BY <1>4, <2>1, <2>3, <3>1, <3>2, <3>3, <3>4
  <2>4. QED BY <2>2, <2>3, ReadingShort DEF AInv
<1>5. QED BY HostCases, <1>2, <1>3, <1>4 DEF Edge

\* It has then read nothing of out_data, of which the first byte comes too early.
LEMMA LastSynced ==
  ASSUME AInv, missed = 1, cnt_sync = 13, run < 12, NEW word \in Words, Edge(word), Wait,
         NEW v \in Words
  PROVE  /\ Behind(v)' /\ missed' = 1
         /\ frames' = 0 /\ Len(reading') = 0 /\ i_Tx_DV' = 0 /\ sendcounter' = 1
<1>1. sendcounter' = sendcounter /\ i_Tx_DV' = 0
  BY DEF Wait, sendVars
<1>2. open /\ LastSync
  BY DEF AInv, Synchronising, Aligned
<1>3. HostSync
  BY <1>2, HostCases DEF Edge, LastSync
<1>4. reading' = <<>> /\ frames' = 0 /\ missed' = 1
  BY <1>2, <1>3 DEF LastSync, HostSync
<1>5. Len(reading') = 0
  BY <1>4
<1>6. sendcounter' = 1
  BY <1>1, <1>2 DEF LastSync
<1>7. QED BY <1>1, <1>4, <1>5, <1>6 DEF Behind

LEMMA WaitShifted ==
  ASSUME AInv, Shifted, missed = 1, NEW word \in Words, Edge(word), Wait
  PROVE  Shifted'
<1>1. cnt_sync' = cnt_sync
  BY DEF Wait, syncVars
<1>2. CASE cnt_sync # 13
  <2>1. i_Tx_DV = 0 \/ run < 12
    BY <1>2 DEF AInv, Handshake, SyncTypes, Synchronising
  <2>2. HostIdle \/ HostSync
    BY <2>1, HostCases DEF Edge
  <2>3. UNCHANGED <<frame, frames>>
    BY <2>2 DEF HostIdle, HostSync
  <2>4. QED BY <1>1, <1>2, <2>3 DEF Shifted, OneLate
<1>3. CASE cnt_sync = 13 /\ run < 12
  <2>1. PICK v \in Words : TRUE
    BY WordsAssumption
  <2>2. Behind(v)' /\ frames' = 0
    BY <1>3, LastSynced
  <2>3. QED BY <2>2 DEF Shifted, OneLate
<1>4. CASE cnt_sync = 13 /\ run = 12
  <2>1. PICK v \in Words : Behind(v)
    BY <1>4 DEF Shifted
  <2>2. /\ Behind(v)'
        /\ \/ UNCHANGED <<frame, frames>>
           \/ /\ i_Tx_DV = 1 /\ Len(reading) = 3
              /\ frame' = <<v[1], v[2], v[3], i_Tx_Byte>>
    BY <1>4, <2>1, WaitBehind
  <2>3. OneLate'
    <3>1. CASE UNCHANGED <<frame, frames>>
      BY <3>1 DEF Shifted, OneLate
    <3>2. CASE /\ i_Tx_DV = 1 /\ Len(reading) = 3
               /\ frame' = <<v[1], v[2], v[3], i_Tx_Byte>>
      <4>1. PICK w \in Words : i_Tx_Byte = w[0]
        BY <2>1, <3>2 DEF Behind
      <4>2. QED BY <3>2, <4>1 DEF OneLate
    <3>3. QED BY <2>2, <3>1, <3>2
  <2>4. QED BY <2>2, <2>3 DEF Shifted
<1>5. QED BY <1>2, <1>3, <1>4 DEF AInv, SyncTypes

\* The next byte is of out_data: the first one for the host's last place,
\* another one for the place before its own.
LEMMA LoadBehind ==
  ASSUME AInv, missed = 1, cnt_sync = 13, run = 12, NEW word \in Words, Edge(word), Load,
         NEW u \in Words, Behind(u), NEW v \in Words, v = out_data
  PROVE  \/ /\ Len(reading) = 3 /\ sendcounter = 0 /\ sendcounter' = 1
            /\ Behind(u)' /\ i_Tx_Byte' = v[0]
         \/ /\ Len(reading) < 3 /\ sendcounter = Len(reading) + 1
            /\ Behind(v)'
<1>1. i_Tx_DV = 0 /\ i_Tx_DV' = 1 /\ UNCHANGED <<run, reading, frame, frames>>
  BY LoadHost
<1>2. Aligned
  BY <1>1 DEF AInv, Synchronising, LastSync
<1>3. i_Tx_Byte' = v[sendcounter] /\ sendcounter' = (sendcounter + 1) % 4
  BY DEF Load, Syncing, FrameByte, NextPlace, ReadSize, AInv, SyncTypes, SyncEnd
<1>4. CASE Len(reading) = 3
  <2>1. sendcounter = 0
    BY <1>1, <1>2, <1>4 DEF Aligned
  <2>2. i_Tx_Byte' = v[0] /\ sendcounter' = 1
    BY <1>3, <2>1
  <2>3. Behind(u)'
    BY <1>1, <1>4, <2>2 DEF Behind
  <2>4. QED BY <1>4, <2>1, <2>2, <2>3
<1>5. CASE Len(reading) < 3
  <2>1. sendcounter = Len(reading) + 1
    <3> DEFINE n == Len(reading)
    <3>1. n \in 0 .. 3 /\ n < 3 /\ (n + 0 + 1) % 4 = sendcounter
      BY <1>1, <1>2, <1>5 DEF AInv, SyncTypes, Aligned
    <3> HIDE DEF n
    <3>2. sendcounter = n + 1
      BY <3>1
    <3>3. QED BY <3>2 DEF n
  <2>2. ASSUME NEW k \in 1 .. Len(reading)
        PROVE  reading[k] = v[k]
    <3>1. sendcounter \in {2, 3}
      BY <2>1, <2>2 DEF AInv, SyncTypes
    <3>2. QED BY <2>2, <3>1 DEF Behind
  <2>3. i_Tx_Byte' = v[Len(reading) + 1]
    BY <1>3, <2>1
  <2>4. sendcounter' \in {2, 3} => v = out_data'
    BY <1>3 DEF Load, Copying, AInv, SyncTypes
  <2>5. Behind(v)'
    BY <1>1, <1>5, <2>2, <2>3, <2>4 DEF Behind
  <2>6. QED BY <1>5, <2>1, <2>5
<1>6. QED BY <1>4, <1>5, ReadingShort DEF AInv

LEMMA LoadShifted ==
  ASSUME AInv, Copied, Shifted, missed = 1, NEW word \in Words, Edge(word), Load
  PROVE  Shifted'
<1>1. i_Tx_DV = 0 /\ UNCHANGED <<run, reading, frame, frames>>
  BY LoadHost
<1>2. OneLate'
  BY <1>1 DEF Shifted, OneLate
<1>3. ASSUME cnt_sync' = 13, run' = 12 PROVE \E v \in Words : Behind(v)'
  <2>1. cnt_sync = 13 /\ run = 12
    BY <1>1, <1>3 DEF AInv, SyncTypes, Synchronising, Load
  <2>2. PICK u \in Words : Behind(u)
    BY <2>1 DEF Shifted
  <2>3. PICK v \in Words : v = out_data
    BY <2>1 DEF Copied
  <2>4. Behind(u)' \/ Behind(v)'
    BY <2>1, <2>2, <2>3, LoadBehind
  <2>5. QED BY <2>4
<1>4. QED BY <1>2, <1>3 DEF Shifted

\* A byte is missed by a host that has read nothing.
LEMMA Missing ==
  ASSUME AInv, NEW word \in Words, Edge(word), missed' # missed
  PROVE  /\ Wait /\ missed' = missed + 1
         /\ run' = 0 /\ frames' = 0
<1>1. i_Tx_DV = 1 /\ ~open /\ HostIdle
  BY HostCases DEF Edge, HostSync, HostRead
<1>2. missed' = missed + 1 /\ run' = run /\ frames' = frames
  BY <1>1 DEF HostIdle
<1>3. run = 0 /\ frames = 0
  BY <1>1 DEF AInv, Closed
<1>4. Wait
  BY <1>1 DEF AInv, Handshake, Edge, Load
<1>5. QED BY <1>2, <1>3, <1>4

LEMMA EdgeKept ==
  ASSUME AInv, Copied, Kept, NEW word \in Words, Edge(word)
  PROVE  Kept'
<1>1. frames' \in 0 .. 2
  <2>1. CASE HostIdle \/ HostSync
    BY <2>1 DEF Kept, HostIdle, HostSync
  <2>2. CASE HostRead
    <3>1. frames' = frames \/ frames' = (IF frames = 0 THEN 1 ELSE 2)
      BY <2>2 DEF HostRead
    <3>2. QED BY <3>1 DEF Kept
  <2>3. QED BY <2>1, <2>2 DEF Edge, Host
<1>2. missed' = 0 => Snapshot'
  <2> SUFFICES ASSUME missed' = 0 PROVE Snapshot'
    OBVIOUS
  <2>1. missed = 0
    BY Missing DEF AInv, SyncTypes
  <2>2. QED BY <2>1, WaitSnapshot, LoadSnapshot DEF Edge, Kept
<1>3. missed' = 1 => Shifted'
  <2> SUFFICES ASSUME missed' = 1 PROVE Shifted'
    OBVIOUS
  <2>1. CASE missed = 1
    BY <2>1, WaitShifted, LoadShifted DEF Edge, Kept
  <2>2. CASE missed # 1
    <3>1. run' = 0 /\ frames' = 0
      BY <2>2, Missing
    <3>2. QED BY <3>1 DEF Shifted, OneLate
  <2>3. QED BY <2>1, <2>2
<1>4. QED BY <1>1, <1>2, <1>3 DEF Kept

LEMMA NextKept == AInv /\ Copied /\ Kept /\ [Next]_vars => Copied' /\ Kept'
<1>1. ASSUME AInv, Copied, Kept, NEW word \in Words, Edge(word)
      PROVE  Copied' /\ Kept'
  BY <1>1, EdgeCopied, EdgeKept
<1>2. ASSUME Copied, Kept, UNCHANGED vars PROVE Copied' /\ Kept'
  BY <1>2 DEF Copied, Kept, Snapshot, Carries, Told, OnTime, Shifted, Behind, OneLate,
              vars, ctlVars, hostVars, sendVars, syncVars
<1>3. QED BY <1>1, <1>2 DEF Next

\* FrameIsSnapshot, whenever the host opens the port: however often the
\* client changes its word while a frame is on the line, the host that missed
\* nothing never has parts of two, and the host that missed one byte always
\* has the last three of one and the first of another.
THEOREM NeverTorn == Spec => []FrameIsSnapshot
<1>1. Kept => FrameIsSnapshot
  BY DEF Kept, Snapshot, OnTime, Shifted, OneLate, FrameIsSnapshot
<1>2. QED BY <1>1, InitKept, NextKept, AInvInvariant, PTL DEF Spec
-----------------------------------------------------------------------------
(***************************************************************************)
(* The client that waits for the flag.  out_data is one of its items; the  *)
(* next one is on the inputs as soon as the rise of the flag has been      *)
(* seen, and in r_word before out_data is copied again.                    *)
(***************************************************************************)

\* The flag has risen, and the client has not seen it.
Moving == r_flag_allow_new_data = 1 /\ was_allowed = 0

Held(n) == out_data = Items[n] /\ item = IF Moving THEN n ELSE Following(n)

Offered ==
  /\ item \in DOMAIN Items /\ was_allowed \in {0, 1}
  /\ r_flag_allow_new_data = (IF sendcounter = 0 THEN 1 ELSE 0)
  /\ Moving => i_Tx_DV = 1
  /\ sendcounter # 0 \/ Moving => r_word = Items[item]
  /\ cnt_sync >= 4 => \E n \in DOMAIN Items : Held(n)

\* Between two frames of the host.
Ended == Len(reading) = 0 /\ i_Tx_DV = 0

\* The last frame was of item p when the next has not begun, and of the item
\* before it when the host reads p.
Before(p) ==
  frames > 0 =>
    IF Ended THEN Tail(frame) = Tail(Seen(p))
    ELSE \E q \in DOMAIN Items : Following(q) = p /\ Tail(frame) = Tail(Seen(q))

\* The host that missed nothing reads item p.
Reads(p) ==
  /\ Carries(Items[p]) /\ Before(p)
  /\ Held(IF sendcounter = 0 THEN Following(p) ELSE p)

\* The host that missed a byte reads item p and the first byte of the next.
ReadsLate(p) ==
  /\ Behind(Items[p]) /\ Before(p)
  /\ i_Tx_DV = 1 /\ Len(reading) = 3 => i_Tx_Byte = Items[Following(p)][0]
  /\ Held(IF sendcounter \in {0, 1} THEN Following(p) ELSE p)

Series ==
  /\ missed = 0 /\ cnt_sync = 13 => \E p \in DOMAIN Items : Reads(p)
  /\ missed = 1 /\ cnt_sync = 13 /\ run = 12 => \E p \in DOMAIN Items : ReadsLate(p)

ClientInv == AInv /\ Copied /\ Kept /\ (obedient => Offered /\ Series)

LEMMA ItemTypes ==
  /\ DOMAIN Items = 1 .. Len(Items) /\ Len(Items) \in Nat \ {0}
  /\ \A n \in DOMAIN Items : Items[n] \in Words /\ Items[n] \in Word
<1>1. Items \in Seq(Words) /\ Items # <<>>
  BY ItemsAssumption
<1>2. DOMAIN Items = 1 .. Len(Items) /\ Len(Items) \in Nat \ {0}
  BY <1>1
<1>3. \A n \in DOMAIN Items : Items[n] \in Words
  BY <1>1, <1>2
<1>4. QED BY <1>2, <1>3, WordsAssumption

\* The series goes round: an item follows every item, and every item follows one.
LEMMA FollowingItem ==
  ASSUME NEW n \in DOMAIN Items
  PROVE  /\ Following(n) \in DOMAIN Items
         /\ \E p \in DOMAIN Items : Following(p) = n
<1> DEFINE l == Len(Items)
<1>1. l \in Nat \ {0} /\ n \in 1 .. l /\ DOMAIN Items = 1 .. l
  BY ItemTypes
<1> HIDE DEF l
<1>2. n % l \in 0 .. l - 1
  BY <1>1
<1>3. (n % l) + 1 \in 1 .. l
  BY <1>1, <1>2
<1>4. \E p \in 1 .. l : (p % l) + 1 = n
  <2>1. CASE n = 1
    <3>1. l % l = 0
      BY <1>1
    <3>2. QED BY <1>1, <2>1, <3>1
  <2>2. CASE n # 1
    <3>1. n - 1 \in 1 .. l /\ n - 1 < l
      BY <1>1, <2>2
    <3>2. (n - 1) % l = n - 1
      BY <1>1, <3>1
    <3>3. ((n - 1) % l) + 1 = n
      BY <1>1, <3>2
    <3>4. QED BY <3>1, <3>3, Zenon
  <2>3. QED BY <2>1, <2>2
<1>5. \A p \in DOMAIN Items : Following(p) = (p % l) + 1
  BY Zenon DEF Following, l
<1>6. PICK p \in 1 .. l : (p % l) + 1 = n
  BY <1>4
<1>7. p \in DOMAIN Items /\ Following(p) = n
  BY <1>1, <1>5, <1>6, Zenon
<1>8. Following(n) \in DOMAIN Items
  BY <1>1, <1>3, <1>5, Zenon
<1>9. QED BY <1>7, <1>8, Zenon

\* Between loads the client sees the flag, and goes on to the item after the
\* one that is held.
LEMMA WaitHeld ==
  ASSUME Offered, ObedientEdge, Wait, NEW n \in DOMAIN Items, Held(n)
  PROVE  Held(n)'
<1>1. UNCHANGED <<out_data, r_flag_allow_new_data>>
  BY DEF Wait, sendVars
<1>2. was_allowed' = r_flag_allow_new_data
  BY DEF ObedientEdge
<1>3. ~Moving'
  BY <1>1, <1>2 DEF Moving
<1>4. item' = IF Moving THEN Following(item) ELSE item
  BY DEF ObedientEdge, Moving
<1>5. item' = Following(n)
  BY <1>4 DEF Held
<1>6. QED BY <1>1, <1>3, <1>5 DEF Held, Following

\* A load finds the client still, and raises the flag when it copies r_word.
LEMMA LoadHeld ==
  ASSUME AInv, Offered, ObedientEdge, Load
  PROVE  /\ item' = item /\ r_word' = Items[item]
         /\ sendcounter # 3 => \A n \in DOMAIN Items : Held(n) => Held(n)'
         /\ sendcounter = 3 =>
              /\ r_flag_allow_new_data = 0 /\ Held(item)'
              /\ \A n \in DOMAIN Items : Held(n) => item = Following(n)
<1>1. i_Tx_DV = 0
  BY DEF AInv, Handshake, Load
<1>2. ~Moving
  BY <1>1 DEF Offered
<1>3. item' = item /\ was_allowed' = r_flag_allow_new_data
  BY <1>2 DEF ObedientEdge, Moving
<1>4. r_word' = Items[item]
  BY DEF ObedientEdge, Edge
<1>5. /\ r_flag_allow_new_data' = (IF sendcounter = 3 THEN 1 ELSE 0)
      /\ out_data' = IF sendcounter = 3 THEN r_word ELSE out_data
  BY DEF Load, Copying
<1>6. ASSUME sendcounter # 3, NEW n \in DOMAIN Items, Held(n) PROVE Held(n)'
  <2>1. ~Moving'
    BY <1>5, <1>6 DEF Moving
  <2>2. out_data' = Items[n] /\ item' = Following(n)
    BY <1>2, <1>3, <1>5, <1>6 DEF Held
  <2>3. QED BY <2>1, <2>2 DEF Held, Following
<1>7. ASSUME sendcounter = 3 PROVE r_flag_allow_new_data = 0 /\ Held(item)'
  <2>1. r_flag_allow_new_data = 0
    BY <1>7 DEF Offered
  <2>2. Moving'
    BY <1>3, <1>5, <1>7, <2>1 DEF Moving
  <2>3. out_data' = Items[item]
    BY <1>5, <1>7 DEF Offered
  <2>4. QED BY <1>3, <2>1, <2>2, <2>3 DEF Held
<1>8. \A n \in DOMAIN Items : Held(n) => item = Following(n)
  BY <1>2 DEF Held
<1>9. QED BY <1>3, <1>4, <1>6, <1>7, <1>8

LEMMA EdgeOffered ==
  ASSUME AInv, Offered, ObedientEdge
  PROVE  Offered'
<1>1. item' \in DOMAIN Items
  BY FollowingItem DEF Offered, ObedientEdge
<1>2. was_allowed' \in {0, 1}
  BY DEF Offered, ObedientEdge
<1>3. r_word' = Items[item]
  BY DEF ObedientEdge, Edge
<1>4. CASE Wait
  <2>1. UNCHANGED <<cnt_sync, sendcounter, r_flag_allow_new_data>>
    BY <1>4 DEF Wait, sendVars, syncVars
  <2>2. ~Moving'
    BY <2>1 DEF ObedientEdge, Moving
  <2>3. sendcounter # 0 => item' = item
    BY DEF Offered, ObedientEdge
  <2>4. cnt_sync' >= 4 => \E n \in DOMAIN Items : Held(n)'
    <3> SUFFICES ASSUME cnt_sync >= 4 PROVE \E n \in DOMAIN Items : Held(n)'
      BY <2>1
    <3>1. PICK n \in DOMAIN Items : Held(n)
      BY DEF Offered
    <3>2. QED BY <1>4, <3>1, WaitHeld
  <2>5. QED BY <1>1, <1>2, <1>3, <2>1, <2>2, <2>3, <2>4 DEF Offered
<1>5. CASE Load
  <2>1. i_Tx_DV' = 1
    BY <1>5 DEF Load
  <2>2. item' = item
    BY <1>5, LoadHeld
  <2>3. r_flag_allow_new_data' = (IF sendcounter' = 0 THEN 1 ELSE 0)
    BY <1>5 DEF Load, Copying, NextPlace, ReadSize, AInv, SyncTypes
  <2>4. cnt_sync' >= 4 => \E n \in DOMAIN Items : Held(n)'
    <3> SUFFICES ASSUME cnt_sync' >= 4 PROVE \E n \in DOMAIN Items : Held(n)'
      OBVIOUS
    <3>1. CASE sendcounter = 3
      <4>1. item \in DOMAIN Items /\ Held(item)'
        BY <1>5, <3>1, LoadHeld DEF Offered
      <4>2. PICK n \in DOMAIN Items : n = item
        BY <4>1
      <4>3. Held(n)'
        BY <2>2, <4>1, <4>2 DEF Held
      <4>4. QED BY <4>3
    <3>2. CASE sendcounter # 3
      <4>1. cnt_sync >= 4
        <5>1. cnt_sync # 3
          BY <3>2 DEF AInv, Place
        <5>2. cnt_sync' = cnt_sync + 1 \/ cnt_sync' = cnt_sync
          BY <1>5 DEF Load
        <5>3. QED BY <5>1, <5>2 DEF AInv, SyncTypes
      <4>2. PICK n \in DOMAIN Items : Held(n)
        BY <4>1 DEF Offered
      <4>3. QED BY <1>5, <3>2, <4>2, LoadHeld
    <3>3. QED BY <3>1, <3>2
  <2>5. QED BY <1>1, <1>2, <1>3, <2>1, <2>2, <2>3, <2>4 DEF Offered
<1>6. QED BY <1>4, <1>5 DEF ObedientEdge, Edge

LEMMA TailOfFour == ASSUME NEW a, NEW b, NEW c, NEW d PROVE Tail(<<a, b, c, d>>) = <<b, c, d>>
OBVIOUS

\* Frames that agree from their second byte on.
LEMMA SameTail ==
  ASSUME NEW f \in [1 .. ReadSize -> 0 .. Max], NEW g \in [1 .. ReadSize -> 0 .. Max],
         \A k \in 2 .. ReadSize : f[k] = g[k]
  PROVE  Tail(f) = Tail(g)
<1> DEFINE a == <<f[1], f[2], f[3], f[4]>>
           b == <<g[1], g[2], g[3], g[4]>>
<1>1. f = a /\ g = b
  BY DEF ReadSize
<1>2. Tail(a) = <<f[2], f[3], f[4]>> /\ Tail(b) = <<g[2], g[3], g[4]>>
  BY TailOfFour
<1>3. f[2] = g[2] /\ f[3] = g[3] /\ f[4] = g[4]
  BY DEF ReadSize
<1>4. Tail(a) = Tail(b)
  BY <1>2, <1>3
<1> HIDE DEF a, b
<1>5. QED BY <1>1, <1>4

\* The first frame of a host that missed nothing is that of a later one but
\* for its first byte.
LEMMA ToldFrame ==
  ASSUME NEW w \in Word
  PROVE  /\ Tail([k \in 1 .. ReadSize |-> Told(w, k)]) = Tail(Bytes(w))
         /\ frames # 0 => [k \in 1 .. ReadSize |-> Told(w, k)] = Bytes(w)
<1> DEFINE f == [k \in 1 .. ReadSize |-> Told(w, k)]
<1>1. /\ f \in [1 .. ReadSize -> 0 .. Max] /\ Bytes(w) \in [1 .. ReadSize -> 0 .. Max]
  BY SizeAssumption DEF Told, Bytes, Word, ReadSize
<1>2. \A k \in 2 .. ReadSize : f[k] = Bytes(w)[k]
  BY DEF Told, Bytes, ReadSize
<1>3. Tail(f) = Tail(Bytes(w))
  BY <1>1, <1>2, SameTail
<1>4. frames # 0 => f = Bytes(w)
  BY DEF Told, Bytes
<1>5. QED BY <1>3, <1>4

LEMMA SeenOnTime ==
  ASSUME missed = 0, NEW n \in DOMAIN Items
  PROVE  Seen(n) = Bytes(Items[n])
BY DEF Seen

LEMMA AppendToThree ==
  ASSUME NEW S, NEW t \in Seq(S), NEW e \in S
  PROVE  Len(t) = 3 => Append(t, e) = <<t[1], t[2], t[3], e>>
<1> DEFINE f == Append(t, e)
           n == Len(t)
<1>1. /\ f \in Seq(S) /\ Len(f) = n + 1 /\ f[n + 1] = e
      /\ \A k \in 1 .. n : f[k] = t[k]
  OBVIOUS
<1> HIDE DEF f, n
<1>2. ASSUME n = 3 PROVE f = <<t[1], t[2], t[3], e>>
  <2>1. f \in Seq(S) /\ Len(f) = 4 /\ f[4] = e /\ f[1] = t[1] /\ f[2] = t[2] /\ f[3] = t[3]
    BY <1>1, <1>2
  <2>2. f = <<f[1], f[2], f[3], f[4]>>
    BY <2>1
  <2>3. QED BY <2>1, <2>2, Zenon
<1>3. QED BY <1>2 DEF f, n

LEMMA SeenLate ==
  ASSUME missed = 1, NEW n \in DOMAIN Items
  PROVE  Seen(n) = <<Items[n][1], Items[n][2], Items[n][3], Items[Following(n)][0]>>
<1> DEFINE v == Items[n]
           w == Items[Following(n)]
           b == Bytes(v)
           t == <<v[1], v[2], v[3]>>
<1>1. v \in Word /\ w \in Word
  BY ItemTypes, FollowingItem
<1>2. Seen(n) = Append(Tail(b), w[0])
  BY DEF Seen
<1> HIDE DEF v, w
<1>3. Tail(b) = t
  <2> DEFINE c == <<v[0], v[1], v[2], v[3]>>
  <2>1. b = c
    BY <1>1 DEF Bytes, Word, ReadSize
  <2>2. Tail(c) = t
    BY TailOfFour
  <2> HIDE DEF b, c, t
  <2>3. QED BY <2>1, <2>2
<1>4. t \in Seq(0 .. Max) /\ Len(t) = 3 /\ w[0] \in 0 .. Max
  BY <1>1 DEF Word
<1>5. t[1] = v[1] /\ t[2] = v[2] /\ t[3] = v[3]
  OBVIOUS
<1>6. Append(t, w[0]) = <<t[1], t[2], t[3], w[0]>>
  <2> HIDE DEF t
  <2>1. QED BY <1>4, AppendToThree
<1>7. <<t[1], t[2], t[3], w[0]>> = <<v[1], v[2], v[3], w[0]>>
  BY <1>5
<1>8. QED BY <1>2, <1>3, <1>6, <1>7 DEF v, w


\* What the host has of the series, from one frame to the next.
NextItem(n) == Tail(frame) = Tail(Seen(n)) /\ frame' = Seen(Following(n))

\* A frame ends with its own item, and the one before it ended with the item
\* before that.
LEMMA WaitReads ==
  ASSUME AInv, Offered, missed = 0, cnt_sync = 13, frames \in 0 .. 2,
         ObedientEdge, Wait, NEW p \in DOMAIN Items, Reads(p)
  PROVE  /\ Reads(p)'
         /\ FrameEnds /\ frames > 0 => \E n \in DOMAIN Items : NextItem(n)
<1>1. Items[p] \in Words /\ Items[p] \in Word /\ Items[item] \in Words
  BY ItemTypes DEF Offered
<1>2. Edge(Items[item])
  BY DEF ObedientEdge
<1>3. Carries(Items[p])
  BY DEF Reads
<1>4. /\ Carries(Items[p])' /\ missed' = 0
      /\ \/ i_Tx_DV = 0 /\ UNCHANGED <<reading, frame, frames>>
         \/ /\ i_Tx_DV = 1 /\ Len(reading) < 3 /\ Len(reading') = Len(reading) + 1
            /\ UNCHANGED <<frame, frames>>
         \/ /\ i_Tx_DV = 1 /\ Len(reading) = 3 /\ Len(reading') = 0 /\ sendcounter = 0
            /\ frame' = [k \in 1 .. ReadSize |-> Told(Items[p], k)]
            /\ frames' = IF frames = 0 THEN 1 ELSE 2
  BY <1>1, <1>2, <1>3, WaitCarries
<1>5. UNCHANGED <<sendcounter, i_Tx_Byte>> /\ i_Tx_DV' = 0
  BY DEF Wait, sendVars
<1>6. Held(IF sendcounter = 0 THEN Following(p) ELSE p)'
  <2>1. CASE sendcounter = 0
    <3>1. Following(p) \in DOMAIN Items /\ Held(Following(p))
      BY <2>1, FollowingItem DEF Reads
    <3>2. Held(Following(p))'
      BY <3>1, WaitHeld
    <3>3. QED BY <1>5, <2>1, <3>2
  <2>2. CASE sendcounter # 0
    <3>1. Held(p)
      BY <2>2 DEF Reads
    <3>2. Held(p)'
      BY <3>1, WaitHeld
    <3>3. QED BY <1>5, <2>2, <3>2
  <2>3. QED BY <2>1, <2>2
<1>7. Seen(p) = Bytes(Items[p]) /\ \A n \in DOMAIN Items : Seen(n)' = Seen(n)
  BY <1>4, SeenOnTime DEF Seen
<1>8. Before(p)
  BY DEF Reads
<1>9. CASE i_Tx_DV = 0 /\ UNCHANGED <<reading, frame, frames>>
  <2>1. Ended' <=> Ended
    BY <1>5, <1>9 DEF Ended
  <2>2. Before(p)'
    BY <1>7, <1>8, <1>9, <2>1 DEF Before, Following
  <2>3. ~FrameEnds
    BY <1>9 DEF FrameEnds, ReadSize
  <2>4. QED BY <1>4, <1>5, <1>6, <2>2, <2>3 DEF Reads
<1>10. CASE /\ i_Tx_DV = 1 /\ Len(reading) < 3 /\ Len(reading') = Len(reading) + 1
            /\ UNCHANGED <<frame, frames>>
  <2>1. ~Ended /\ ~Ended' /\ ~FrameEnds
    <3>1. Len(reading) \in 0 .. 3
      BY DEF AInv, SyncTypes
    <3>2. Len(reading') # 0
      BY <1>10, <3>1
    <3>3. Len(reading) # 3
      BY <1>10, <3>1
    <3>4. QED BY <1>10, <3>2, <3>3 DEF Ended, FrameEnds, ReadSize
  <2>2. Before(p)'
    BY <1>7, <1>8, <1>10, <2>1 DEF Before, Following
  <2>3. QED BY <1>4, <1>6, <2>1, <2>2 DEF Reads
<1>11. CASE /\ i_Tx_DV = 1 /\ Len(reading) = 3 /\ Len(reading') = 0
            /\ frame' = [k \in 1 .. ReadSize |-> Told(Items[p], k)]
            /\ frames' = IF frames = 0 THEN 1 ELSE 2
  <2>1. ~Ended /\ Ended'
    BY <1>5, <1>11 DEF Ended
  <2>2. Tail(frame') = Tail(Seen(p)) /\ (frames # 0 => frame' = Seen(p))
    BY <1>1, <1>7, <1>11, ToldFrame
  <2>3. Before(p)'
    BY <1>7, <2>1, <2>2 DEF Before
  <2>4. ASSUME frames > 0 PROVE \E n \in DOMAIN Items : NextItem(n)
    <3>1. PICK q \in DOMAIN Items : Following(q) = p /\ Tail(frame) = Tail(Seen(q))
      BY <1>8, <2>1, <2>4 DEF Before
    <3>2. frame' = Seen(Following(q))
      BY <2>2, <2>4, <3>1
    <3>3. QED BY <3>1, <3>2 DEF NextItem
  <2>5. QED BY <1>4, <1>6, <2>3, <2>4 DEF Reads
<1>12. QED BY <1>4, <1>9, <1>10, <1>11

\* The first byte of a frame is of the item that follows the one before it.
LEMMA LoadReads ==
  ASSUME AInv, Snapshot, Offered, missed = 0, cnt_sync = 13,
         ObedientEdge, Load, NEW p \in DOMAIN Items, Reads(p)
  PROVE  \E n \in DOMAIN Items : Reads(n)'
<1>1. Edge(Items[item]) /\ Items[item] \in Words
  BY ItemTypes DEF ObedientEdge, Offered
<1>2. /\ i_Tx_DV = 0 /\ i_Tx_DV' = 1
      /\ UNCHANGED <<run, reading, frame, frames, missed>>
  BY <1>1, LoadHost
<1>3. PICK n \in DOMAIN Items : n = IF sendcounter = 0 THEN Following(p) ELSE p
  BY FollowingItem
<1>4. Held(n) /\ Items[n] \in Words /\ Items[p] \in Words
  BY <1>3, ItemTypes DEF Reads
<1>5. Carries(Items[n])' /\ Len(reading) = sendcounter
  <2>1. Items[n] = out_data /\ Carries(Items[p])
    BY <1>4 DEF Held, Reads
  <2>2. QED BY <1>1, <1>4, <2>1, LoadCarries
<1>6. Held(IF sendcounter = 0 THEN Following(n) ELSE n)'
  <2>1. sendcounter' = (sendcounter + 1) % 4 /\ sendcounter \in 0 .. 3
    BY DEF Load, NextPlace, ReadSize, AInv, SyncTypes
  <2>2. CASE sendcounter = 3
    <3>1. item = Following(n) /\ Held(item)' /\ item' = item
      BY <1>4, <2>2, LoadHeld
    <3>2. Held(Following(n))'
      BY <3>1 DEF Held, Following
    <3>3. sendcounter' = 0
      BY <2>1, <2>2
    <3>4. QED BY <3>2, <3>3
  <2>3. CASE sendcounter # 3
    <3>1. Held(n)'
      BY <1>4, <2>3, LoadHeld
    <3>2. sendcounter' # 0
      BY <2>1, <2>3
    <3>3. QED BY <3>1, <3>2
  <2>4. QED BY <2>2, <2>3
<1>7. Before(n)'
  <2>1. ~Ended'
    BY <1>2 DEF Ended
  <2>2. \A q \in DOMAIN Items : Seen(q)' = Seen(q)
    BY <1>2 DEF Seen
  <2>3. Ended <=> sendcounter = 0
    BY <1>2, <1>5 DEF Ended
  <2>4. ASSUME frames > 0
        PROVE  \E q \in DOMAIN Items : Following(q) = n /\ Tail(frame) = Tail(Seen(q))
    BY <1>3, <2>3, <2>4 DEF Reads, Before
  <2>5. QED BY <1>2, <2>1, <2>2, <2>4 DEF Before, Following
<1>8. QED BY <1>5, <1>6, <1>7 DEF Reads

\* The first frame begins with the last byte of the synchronisation.
LEMMA FirstReads ==
  ASSUME AInv, Offered, missed = 0, cnt_sync = 12, ObedientEdge, Load
  PROVE  \E n \in DOMAIN Items : Reads(n)'
<1>1. Edge(Items[item]) /\ Items[item] \in Words
  BY ItemTypes DEF ObedientEdge, Offered
<1>2. PICK n \in DOMAIN Items : Held(n)
  BY DEF Offered
<1>3. Items[n] = out_data /\ Items[n] \in Words
  BY <1>2, ItemTypes DEF Held
<1>4. Carries(Items[n])' /\ frames' = 0
  BY <1>1, <1>3, FirstCarries
<1>5. sendcounter = 0 /\ sendcounter' = 1
  BY DEF AInv, Place, Load, NextPlace, ReadSize
<1>6. Held(n)'
  BY <1>2, <1>5, LoadHeld
<1>7. Held(IF sendcounter = 0 THEN Following(n) ELSE n)'
  BY <1>5, <1>6
<1>8. QED BY <1>4, <1>7 DEF Reads, Before

\* The host that missed a byte ends its frame with the first byte of the next
\* item.
LEMMA WaitReadsLate ==
  ASSUME AInv, Offered, missed = 1, cnt_sync = 13, run = 12,
         ObedientEdge, Wait, NEW p \in DOMAIN Items, ReadsLate(p)
  PROVE  /\ ReadsLate(p)'
         /\ FrameEnds /\ frames > 0 => \E n \in DOMAIN Items : NextItem(n)
<1>1. Items[p] \in Words /\ Items[item] \in Words
  BY ItemTypes DEF Offered
<1>2. Edge(Items[item])
  BY DEF ObedientEdge
<1>3. Behind(Items[p])
  BY DEF ReadsLate
<1>4. /\ Behind(Items[p])' /\ missed' = 1
      /\ \/ i_Tx_DV = 0 /\ UNCHANGED <<reading, frame, frames>>
         \/ /\ i_Tx_DV = 1 /\ Len(reading) < 3 /\ Len(reading') = Len(reading) + 1
            /\ UNCHANGED <<frame, frames>>
         \/ /\ i_Tx_DV = 1 /\ Len(reading) = 3 /\ Len(reading') = 0 /\ sendcounter = 1
            /\ frame' = <<Items[p][1], Items[p][2], Items[p][3], i_Tx_Byte>>
  BY <1>1, <1>2, <1>3, WaitBehind
<1>5. UNCHANGED <<sendcounter, i_Tx_Byte>> /\ i_Tx_DV' = 0
  BY DEF Wait, sendVars
<1>6. Held(IF sendcounter \in {0, 1} THEN Following(p) ELSE p)'
  <2>1. CASE sendcounter \in {0, 1}
    <3>1. Following(p) \in DOMAIN Items /\ Held(Following(p))
      BY <2>1, FollowingItem DEF ReadsLate
    <3>2. Held(Following(p))'
      BY <3>1, WaitHeld
    <3>3. QED BY <1>5, <2>1, <3>2
  <2>2. CASE sendcounter \notin {0, 1}
    <3>1. Held(p)
      BY <2>2 DEF ReadsLate
    <3>2. Held(p)'
      BY <3>1, WaitHeld
    <3>3. QED BY <1>5, <2>2, <3>2
  <2>3. QED BY <2>1, <2>2
<1>7. \A n \in DOMAIN Items : Seen(n)' = Seen(n)
  BY <1>4 DEF Seen
<1>8. Before(p)
  BY DEF ReadsLate
<1>9. CASE i_Tx_DV = 0 /\ UNCHANGED <<reading, frame, frames>>
  <2>1. Ended' <=> Ended
    BY <1>5, <1>9 DEF Ended
  <2>2. Before(p)'
    BY <1>7, <1>8, <1>9, <2>1 DEF Before, Following
  <2>3. ~FrameEnds
    BY <1>9 DEF FrameEnds, ReadSize
  <2>4. QED BY <1>4, <1>5, <1>6, <2>2, <2>3 DEF ReadsLate
<1>10. CASE /\ i_Tx_DV = 1 /\ Len(reading) < 3 /\ Len(reading') = Len(reading) + 1
            /\ UNCHANGED <<frame, frames>>
  <2>1. ~Ended /\ ~Ended' /\ ~FrameEnds
    <3>1. Len(reading) \in 0 .. 3
      BY DEF AInv, SyncTypes
    <3>2. Len(reading') # 0
      BY <1>10, <3>1
    <3>3. Len(reading) # 3
      BY <1>10, <3>1
    <3>4. QED BY <1>10, <3>2, <3>3 DEF Ended, FrameEnds, ReadSize
  <2>2. Before(p)'
    BY <1>7, <1>8, <1>10, <2>1 DEF Before, Following
  <2>3. QED BY <1>4, <1>5, <1>6, <2>1, <2>2 DEF ReadsLate
<1>11. CASE /\ i_Tx_DV = 1 /\ Len(reading) = 3 /\ Len(reading') = 0
            /\ frame' = <<Items[p][1], Items[p][2], Items[p][3], i_Tx_Byte>>
  <2>1. ~Ended /\ Ended'
    BY <1>5, <1>11 DEF Ended
  <2>2. i_Tx_Byte = Items[Following(p)][0]
    BY <1>11 DEF ReadsLate
  <2>3. frame' = Seen(p)
    BY <1>11, <2>2, SeenLate
  <2>4. Before(p)'
    BY <1>7, <2>1, <2>3 DEF Before
  <2>5. ASSUME frames > 0 PROVE \E n \in DOMAIN Items : NextItem(n)
    <3>1. PICK q \in DOMAIN Items : Following(q) = p /\ Tail(frame) = Tail(Seen(q))
      BY <1>8, <2>1, <2>5 DEF Before
    <3>2. frame' = Seen(Following(q))
      BY <2>3, <3>1
    <3>3. QED BY <3>1, <3>2 DEF NextItem
  <2>6. QED BY <1>4, <1>5, <1>6, <2>4, <2>5 DEF ReadsLate
<1>12. QED BY <1>4, <1>9, <1>10, <1>11

\* The host that has its twelve bytes 8'hff as the first byte of item n passes
\* begins as if it had read the item before.
LEMMA FirstReadsLate ==
  ASSUME AInv, Offered, missed = 1, cnt_sync = 13, run < 12, ObedientEdge, Wait
  PROVE  \E p \in DOMAIN Items : ReadsLate(p)'
<1>1. Edge(Items[item]) /\ Items[item] \in Words
  BY ItemTypes DEF ObedientEdge, Offered
<1>2. PICK n \in DOMAIN Items : Held(n)
  BY DEF Offered
<1>3. PICK p \in DOMAIN Items : Following(p) = n
  BY FollowingItem
<1>4. Held(Following(p))'
  <2>1. Held(n)'
    BY <1>2, WaitHeld
  <2>2. QED BY <1>3, <2>1 DEF Held, Following
<1>5. /\ Behind(Items[p])' /\ frames' = 0 /\ i_Tx_DV' = 0 /\ sendcounter' = 1
  BY <1>1, ItemTypes, LastSynced
<1>6. Held(IF sendcounter \in {0, 1} THEN Following(p) ELSE p)'
  BY <1>4, <1>5
<1>7. QED BY <1>5, <1>6 DEF ReadsLate, Before

LEMMA LoadReadsLate ==
  ASSUME AInv, Offered, missed = 1, cnt_sync = 13, run = 12,
         ObedientEdge, Load, NEW p \in DOMAIN Items, ReadsLate(p)
  PROVE  \E n \in DOMAIN Items : ReadsLate(n)'
<1>1. Edge(Items[item]) /\ Items[item] \in Words
  BY ItemTypes DEF ObedientEdge, Offered
<1>2. /\ i_Tx_DV = 0 /\ i_Tx_DV' = 1
      /\ UNCHANGED <<run, reading, frame, frames, missed>>
  BY <1>1, LoadHost
<1>3. PICK n \in DOMAIN Items : n = IF sendcounter \in {0, 1} THEN Following(p) ELSE p
  BY FollowingItem
<1>4. Held(n) /\ Items[n] \in Words /\ Items[p] \in Words
  BY <1>3, ItemTypes DEF ReadsLate
<1>5. Items[n] = out_data /\ Behind(Items[p])
  BY <1>4 DEF Held, ReadsLate
<1>6. /\ \A q \in DOMAIN Items : Seen(q)' = Seen(q)
      /\ ~Ended'
  BY <1>2 DEF Seen, Ended
<1>7. sendcounter' = (sendcounter + 1) % 4 /\ sendcounter \in 0 .. 3
  BY DEF Load, NextPlace, ReadSize, AInv, SyncTypes
<1>8. CASE /\ Len(reading) = 3 /\ sendcounter = 0 /\ sendcounter' = 1
           /\ Behind(Items[p])' /\ i_Tx_Byte' = Items[n][0]
  <2>1. n = Following(p)
    BY <1>3, <1>8
  <2>2. Held(Following(p))'
    <3>1. Held(n)'
      BY <1>4, <1>8, LoadHeld
    <3>2. QED BY <2>1, <3>1 DEF Held, Following
  <2>3. Before(p)'
    <3>1. ~Ended
      BY <1>8 DEF Ended
    <3>2. QED BY <1>2, <1>6, <3>1 DEF ReadsLate, Before, Following
  <2>4. i_Tx_Byte' = Items[Following(p)][0]
    BY <1>8, <2>1
  <2>5. Held(IF sendcounter \in {0, 1} THEN Following(p) ELSE p)'
    BY <1>8, <2>2
  <2>6. ReadsLate(p)'
    BY <1>8, <2>3, <2>4, <2>5 DEF ReadsLate, Following
  <2>7. QED BY <2>6
<1>9. CASE /\ Len(reading) < 3 /\ sendcounter = Len(reading) + 1
           /\ Behind(Items[n])'
  <2>1. Len(reading') # 3 /\ sendcounter # 0
    <3> DEFINE l == Len(reading)
    <3>1. l \in 0 .. 3 /\ l < 3 /\ sendcounter = l + 1
      BY <1>9 DEF AInv, SyncTypes
    <3>2. Len(reading') = l
      BY <1>2
    <3> HIDE DEF l
    <3>3. QED BY <3>1, <3>2
  <2>2. Held(IF sendcounter \in {0, 1} THEN Following(n) ELSE n)'
    <3>1. CASE sendcounter = 3
      <4>1. item = Following(n) /\ Held(item)' /\ item' = item
        BY <1>4, <3>1, LoadHeld
      <4>2. Held(Following(n))'
        BY <4>1 DEF Held, Following
      <4>3. sendcounter' = 0
        BY <1>7, <3>1
      <4>4. QED BY <4>2, <4>3
    <3>2. CASE sendcounter # 3
      <4>1. Held(n)'
        BY <1>4, <3>2, LoadHeld
      <4>2. sendcounter' \notin {0, 1}
        BY <1>7, <2>1, <3>2
      <4>3. QED BY <4>1, <4>2
    <3>3. QED BY <3>1, <3>2
  <2>3. Before(n)'
    <3>1. Ended <=> sendcounter = 1
      <4> DEFINE l == Len(reading)
      <4>1. l \in 0 .. 3 /\ sendcounter = l + 1
        BY <1>9 DEF AInv, SyncTypes
      <4>2. Ended <=> l = 0
        BY <1>2 DEF Ended
      <4> HIDE DEF l
      <4>3. QED BY <4>1, <4>2
    <3>2. ASSUME frames > 0
          PROVE  \E q \in DOMAIN Items : Following(q) = n /\ Tail(frame) = Tail(Seen(q))
      BY <1>3, <2>1, <3>1, <3>2 DEF ReadsLate, Before
    <3>3. QED BY <1>2, <1>6, <3>2 DEF Before, Following
  <2>4. QED BY <1>9, <2>1, <2>2, <2>3 DEF ReadsLate
<1>10. QED BY <1>1, <1>4, <1>5, <1>8, <1>9, LoadBehind

LEMMA EdgeSeries ==
  ASSUME AInv, Copied, Kept, Offered, Series, ObedientEdge
  PROVE  Series'
<1>1. Edge(Items[item]) /\ Items[item] \in Words
  BY ItemTypes DEF ObedientEdge, Offered
<1>2. ASSUME missed' = 0, cnt_sync' = 13 PROVE \E p \in DOMAIN Items : Reads(p)'
  <2>1. missed = 0
    BY <1>1, <1>2, Missing DEF AInv, SyncTypes
  <2>2. Snapshot /\ frames \in 0 .. 2
    BY <2>1 DEF Kept
  <2>3. CASE Wait
    <3>1. cnt_sync = 13
      BY <1>2, <2>3 DEF Wait, syncVars
    <3>2. PICK p \in DOMAIN Items : Reads(p)
      BY <2>1, <3>1 DEF Series
    <3>3. Reads(p)'
      BY <2>1, <2>2, <2>3, <3>1, <3>2, WaitReads
    <3>4. QED BY <3>3
  <2>4. CASE Load /\ cnt_sync = 13
    <3>1. PICK p \in DOMAIN Items : Reads(p)
      BY <2>1, <2>4 DEF Series
    <3>2. QED BY <2>1, <2>2, <2>4, <3>1, LoadReads
  <2>5. CASE Load /\ cnt_sync # 13
    <3>1. cnt_sync = 12
      BY <1>2, <2>5 DEF Load, AInv, SyncTypes
    <3>2. QED BY <2>1, <2>5, <3>1, FirstReads
  <2>6. QED BY <1>1, <2>3, <2>4, <2>5 DEF Edge
<1>3. ASSUME missed' = 1, cnt_sync' = 13, run' = 12
      PROVE  \E p \in DOMAIN Items : ReadsLate(p)'
  <2>1. missed = 1
    BY <1>1, <1>3, Missing
  <2>2. CASE Wait
    <3>1. cnt_sync = 13
      BY <1>3, <2>2 DEF Wait, syncVars
    <3>2. CASE run = 12
      <4>1. PICK p \in DOMAIN Items : ReadsLate(p)
        BY <2>1, <3>1, <3>2 DEF Series
      <4>2. ReadsLate(p)'
        BY <2>1, <2>2, <3>1, <3>2, <4>1, WaitReadsLate
      <4>3. QED BY <4>2
    <3>3. CASE run < 12
      BY <2>1, <2>2, <3>1, <3>3, FirstReadsLate
    <3>4. QED BY <3>2, <3>3 DEF AInv, SyncTypes
  <2>3. CASE Load
    <3>1. i_Tx_DV = 0 /\ run = 12
      BY <1>1, <1>3, <2>3, LoadHost
    <3>2. cnt_sync = 13
      BY <1>3, <2>1, <2>3, <3>1 DEF AInv, SyncTypes, Synchronising, Load
    <3>3. PICK p \in DOMAIN Items : ReadsLate(p)
      BY <2>1, <3>1, <3>2 DEF Series
    <3>4. QED BY <2>1, <2>3, <3>1, <3>2, <3>3, LoadReadsLate
  <2>4. QED BY <1>1, <2>2, <2>3 DEF Edge
<1>4. QED BY <1>2, <1>3 DEF Series

LEMMA InitClientInv == ClientInit => ClientInv
<1>1. ASSUME ClientInit PROVE Offered
  BY <1>1, ItemTypes DEF ClientInit, Init, Offered, Moving
<1>2. ASSUME ClientInit PROVE Series
  BY <1>2 DEF ClientInit, Init, Series
<1>3. QED BY <1>1, <1>2, InitAInv, InitKept DEF ClientInit, ClientInv

LEMMA NextClientInv == ClientInv /\ [ClientNext]_clientVars => ClientInv'
<1> SUFFICES ASSUME ClientInv, [ClientNext]_clientVars PROVE ClientInv'
  OBVIOUS
<1>1. CASE ObedientEdge
  <2>1. Offered /\ Series /\ obedient'
    BY <1>1 DEF ClientInv, ObedientEdge
  <2>2. Next
    BY <1>1, <2>1, ItemTypes DEF Next, ObedientEdge, Offered
  <2>3. AInv' /\ Copied' /\ Kept'
    BY <2>2, NextAInv, NextKept DEF ClientInv
  <2>4. Offered' /\ Series'
    BY <1>1, <2>1, EdgeOffered, EdgeSeries DEF ClientInv
  <2>5. QED BY <2>3, <2>4 DEF ClientInv
<1>2. CASE AnyEdge
  BY <1>2, NextAInv, NextKept DEF ClientInv, AnyEdge
<1>3. CASE UNCHANGED clientVars
  <2>1. UNCHANGED vars /\ UNCHANGED <<obedient, item, was_allowed>>
    BY <1>3 DEF clientVars
  <2>2. AInv' /\ Copied' /\ Kept'
    BY <2>1, NextAInv, NextKept DEF ClientInv
  <2>3. Offered => Offered'
    BY <2>1 DEF Offered, Held, Moving, Following, vars, ctlVars, sendVars, syncVars
  <2>4. Series => Series'
    <3>1. UNCHANGED <<cnt_sync, sendcounter, i_Tx_DV, i_Tx_Byte, out_data, r_flag_allow_new_data,
                      run, reading, frame, frames, missed, item, was_allowed>>
      BY <2>1 DEF vars, ctlVars, hostVars, sendVars, syncVars
    <3>2. \A n : Held(n) => Held(n)'
      BY <3>1 DEF Held, Moving, Following
    <3>3. ASSUME NEW p \in DOMAIN Items, Before(p) PROVE Before(p)'
      BY <3>1, <3>3 DEF Before, Ended, Seen, Following, Bytes
    <3>4. ASSUME NEW p \in DOMAIN Items, Reads(p) PROVE Reads(p)'
      <4>1. Carries(Items[p])'
        BY <3>1, <3>4 DEF Reads, Carries, Told
      <4>2. Held(IF sendcounter = 0 THEN Following(p) ELSE p)'
        BY <3>1, <3>4 DEF Reads, Held, Moving, Following
      <4>3. QED BY <3>3, <3>4, <4>1, <4>2 DEF Reads
    <3>5. ASSUME NEW p \in DOMAIN Items, ReadsLate(p) PROVE ReadsLate(p)'
      <4>1. Behind(Items[p])'
        BY <3>1, <3>5 DEF ReadsLate, Behind
      <4>2. Held(IF sendcounter \in {0, 1} THEN Following(p) ELSE p)'
        BY <3>1, <3>5 DEF ReadsLate, Held, Moving, Following
      <4>3. QED BY <3>1, <3>3, <3>5, <4>1, <4>2 DEF ReadsLate, Following
    <3>6. QED BY <3>1, <3>4, <3>5 DEF Series
  <2>5. QED BY <2>1, <2>2, <2>3, <2>4 DEF ClientInv
<1>4. QED BY <1>1, <1>2, <1>3 DEF ClientNext

\* EveryItemOnce, for every series of words and every bit time: a client that
\* changes its word when flag_allow_new_data rises gets each of them into one
\* frame, in order.  That holds for a host that missed a byte of the
\* synchronisation too, in the frames as it has them.
THEOREM ItemsOnce == ClientSpec => EveryItemOnce
<1> DEFINE Once == obedient /\ missed < 2 /\ FrameEnds /\ frames > 0 =>
                     \E n \in DOMAIN Items : NextItem(n)
<1>1. ClientInv /\ [ClientNext]_clientVars => Once
  <2> SUFFICES ASSUME ClientInv, [ClientNext]_clientVars,
                      obedient, missed < 2, FrameEnds, frames > 0
               PROVE  \E n \in DOMAIN Items : NextItem(n)
    OBVIOUS
  <2>1. Len(reading) = 3 /\ Len(reading') = 0
    BY DEF FrameEnds, ReadSize
  <2>2. ObedientEdge
    <3>1. reading' # reading
      BY <2>1
    <3>2. QED BY <3>1 DEF ClientNext, AnyEdge, clientVars, vars, hostVars
  <2>3. Offered /\ Series /\ AInv /\ Kept
    BY DEF ClientInv
  <2>4. cnt_sync = 13 /\ run = 12
    BY <2>3 DEF AInv, SyncTypes, Synchronising, Aligned, LastSync
  <2>5. Wait
    <3>1. Edge(Items[item]) /\ Items[item] \in Words
      BY <2>2, <2>3, ItemTypes DEF ObedientEdge, Offered
    <3>2. ASSUME Load PROVE FALSE
      <4>1. reading' = reading
        BY <2>3, <3>1, <3>2, LoadHost
      <4>2. QED BY <2>1, <4>1
    <3>3. QED BY <3>1, <3>2 DEF Edge
  <2>6. CASE missed = 0
    <3>1. frames \in 0 .. 2
      BY <2>3 DEF Kept
    <3>2. PICK p \in DOMAIN Items : Reads(p)
      BY <2>3, <2>4, <2>6 DEF Series
    <3>3. QED BY <2>2, <2>3, <2>4, <2>5, <2>6, <3>1, <3>2, WaitReads
  <2>7. CASE missed = 1
    <3>1. PICK p \in DOMAIN Items : ReadsLate(p)
      BY <2>3, <2>4, <2>7 DEF Series
    <3>2. QED BY <2>2, <2>3, <2>4, <2>5, <2>7, <3>1, WaitReadsLate
  <2>8. QED BY <2>3, <2>6, <2>7 DEF AInv, SyncTypes
<1>2. Once =>
        (obedient /\ missed < 2 /\ FrameEnds /\ frames > 0 =>
           \E n \in DOMAIN Items :
             /\ Tail(frame) = Tail(Seen(n))
             /\ frame' = Seen(Following(n)))
  BY DEF NextItem
<1>3. QED BY <1>1, <1>2, InitClientInv, NextClientInv, PTL DEF ClientSpec, EveryItemOnce
-----------------------------------------------------------------------------
(***************************************************************************)
(* Types, whenever the host opens the port.                                *)
(***************************************************************************)
TInv == TypeOK /\ Tx!StateOK /\ flag_init_done = (IF cnt_sync = SyncEnd + 1 THEN 1 ELSE 0)

LEMMA BitsType == ASSUME NEW byte \in 0 .. Max PROVE Bits(byte) \in Tx!Byte
<1>1. ASSUME NEW k \in 0 .. LAST_BIT PROVE (byte \div 2^k) % 2 \in {0, 1}
  <2> DEFINE d == 2^k
  <2>1. d \in Nat /\ d > 0
    BY SizeAssumption
  <2> HIDE DEF d
  <2>2. (byte \div d) % 2 \in {0, 1}
    BY <2>1, SizeAssumption
  <2> QED
    BY <2>2 DEF d
<1> QED
  BY <1>1 DEF Bits, Tx!Byte, Tx!Bit

LEMMA InitTInv == Init => TInv
<1>1. ASSUME Init PROVE r_word \in Word /\ out_data \in Word
  <2>1. PICK w \in PowerUp : r_word = [w EXCEPT ![2] = Max, ![3] = Max]
    BY <1>1 DEF Init
  <2>2. w \in Word /\ Max \in 0 .. Max
    BY PowerUpAssumption, SizeAssumption
  <2> QED
    BY <1>1, <2>1, <2>2, PowerUpAssumption DEF Word, Init
<1>2. ASSUME Init PROVE Tx!TypeOK /\ Tx!StateOK
  BY <1>2, ClocksAssumption, BitsAssumption
     DEF Init, Tx!Init, Tx!TypeOK, Tx!StateOK, Tx!Bit, Tx!Byte
<1>3. ASSUME Init PROVE reading \in Seq(0 .. Max) /\ frame \in Seq(0 .. Max)
  BY <1>3 DEF Init
<1>4. Init => open \in BOOLEAN
  BY HostAssumption DEF Init
<1>5. ASSUME Init
      PROVE  /\ i_Tx_DV \in {0, 1} /\ i_Tx_Byte \in 0 .. Max /\ waitflag_tx \in {0, 1}
             /\ sendcounter \in 0 .. 3 /\ r_flag_allow_new_data \in {0, 1}
             /\ cnt_sync = 0 /\ flag_init_done = 0
             /\ run = 0 /\ frames = 0 /\ missed = 0
  BY <1>5, InitByteAssumption, SizeAssumption DEF Init
<1> HIDE DEF Init
<1> QED
  BY <1>1, <1>2, <1>3, <1>4, <1>5 DEF TInv, TypeOK, SyncEnd, SyncLen

\* The transmitter, with a bit and a byte on its inputs.
LEMMA ClockTypes ==
  ASSUME Tx!TypeOK, Tx!StateOK, NEW dv \in {0, 1}, NEW byte \in Tx!Byte, Tx!Clock(dv, byte)
  PROVE  (Tx!TypeOK)' /\ (Tx!StateOK)'
<1> USE ClocksAssumption, BitsAssumption
<1> USE DEF Tx!TypeOK, Tx!StateOK, Tx!Bit
<1>1. CASE Tx!Idle(dv, byte)
  BY <1>1 DEF Tx!Idle
<1>2. ASSUME r_SM_Main \in {"START", "DATA", "STOP"} PROVE Tx!Driven \in {0, 1}
  BY <1>2 DEF Tx!Driven, Tx!Byte
<1>3. CASE Tx!HoldBit
  BY <1>2, <1>3 DEF Tx!HoldBit, Tx!status
<1>4. CASE Tx!StartEnds
  BY <1>2, <1>4 DEF Tx!StartEnds, Tx!BitEnds, Tx!status
<1>5. CASE Tx!DataEnds
  BY <1>2, <1>5 DEF Tx!DataEnds, Tx!BitEnds, Tx!status
<1>6. CASE Tx!StopEnds
  <2>1. Tx!Driven = 1
    BY <1>6 DEF Tx!StopEnds, Tx!BitEnds, Tx!Driven
  <2> QED
    BY <1>6, <2>1 DEF Tx!StopEnds, Tx!BitEnds
<1>7. CASE Tx!Cleanup
  BY <1>7 DEF Tx!Cleanup, Tx!counters
<1> QED
  BY <1>1, <1>3, <1>4, <1>5, <1>6, <1>7 DEF Tx!Clock

LEMMA HostTypes ==
  ASSUME TInv, Host
  PROVE  /\ open' \in BOOLEAN /\ run' \in 0 .. SyncLen
         /\ reading' \in Seq(0 .. Max) /\ frame' \in Seq(0 .. Max)
         /\ frames' \in 0 .. 2 /\ missed' \in 0 .. 2
<1> USE DEF TInv, TypeOK
<1>1. CASE HostSync
  BY <1>1 DEF HostSync, SyncLen
<1>2. CASE HostRead
  <2>1. Append(reading, i_Tx_Byte) \in Seq(0 .. Max) /\ <<>> \in Seq(0 .. Max)
    OBVIOUS
  <2>2. open' = open /\ run' = run /\ missed' = missed
    BY <1>2 DEF HostRead
  <2>3. \/ reading' = Append(reading, i_Tx_Byte) /\ frame' = frame /\ frames' = frames
        \/ reading' = <<>> /\ frame' = Append(reading, i_Tx_Byte) /\ frames' \in 0 .. 2
    BY <1>2 DEF HostRead
  <2> QED
    BY <2>1, <2>2, <2>3
<1>3. CASE HostIdle
  <2>1. open' \in BOOLEAN
    BY <1>3 DEF HostIdle
  <2>2. missed' \in 0 .. 2 /\ UNCHANGED <<run, reading, frame, frames>>
    BY <1>3 DEF HostIdle
  <2> QED
    BY <2>1, <2>2
<1> QED
  BY <1>1, <1>2, <1>3 DEF Host

LEMMA CtlTypes ==
  ASSUME TInv, Wait \/ Load
  PROVE  /\ i_Tx_DV' \in {0, 1} /\ i_Tx_Byte' \in 0 .. Max /\ waitflag_tx' \in {0, 1}
         /\ sendcounter' \in 0 .. 3 /\ r_flag_allow_new_data' \in {0, 1}
         /\ out_data' \in Word /\ cnt_sync' \in 0 .. SyncEnd + 1
         /\ flag_init_done' = (IF cnt_sync' = SyncEnd + 1 THEN 1 ELSE 0)
<1> USE DEF TInv, TypeOK, SyncEnd
<1>1. CASE Wait
  BY <1>1 DEF Wait, sendVars, syncVars
<1>2. CASE Load
  <2>1. FrameByte \in 0 .. Max /\ Max \in 0 .. Max
    BY SizeAssumption DEF FrameByte, Word
  <2>2. NextPlace \in 0 .. 3
    BY DEF NextPlace, ReadSize
  <2> QED
    BY <1>2, <2>1, <2>2 DEF Load
<1> QED
  BY <1>1, <1>2

LEMMA NextTInv == TInv /\ [Next]_vars => TInv'
<1>1. ASSUME TInv, NEW word \in Words, Edge(word) PROVE TInv'
  <2>1. Bits(i_Tx_Byte) \in Tx!Byte /\ i_Tx_DV \in {0, 1}
    BY <1>1, BitsType DEF TInv, TypeOK
  <2>2. (Tx!TypeOK)' /\ (Tx!StateOK)'
    BY <1>1, <2>1, ClockTypes DEF Edge, TInv, TypeOK
  <2>3. r_word' \in Word
    BY <1>1, WordsAssumption DEF Edge
  <2> QED
    BY <1>1, <2>2, <2>3, HostTypes, CtlTypes DEF Edge, TInv, TypeOK, SyncEnd
<1>2. ASSUME TInv, UNCHANGED vars PROVE TInv'
  BY <1>2 DEF TInv, TypeOK, Tx!TypeOK, Tx!StateOK, vars, txVars, ctlVars, hostVars,
              sendVars, syncVars
<1> QED
  BY <1>1, <1>2 DEF Next

\* TypeOK: in particular the counter of the synchronisation stops at thirteen,
\* and sendcounter never gets to the default branch of the case statement.
THEOREM TypeCorrect == Spec => []TypeOK
<1>1. TInv => TypeOK
  BY DEF TInv
<1> QED
  BY <1>1, InitTInv, NextTInv, PTL DEF Spec
=============================================================================
