------------------------------ MODULE UartHello -----------------------------
(***************************************************************************)
(* The UART of src/ip-cores/common/Uart.v, which sends frames of eight     *)
(* bytes, and its host UartDebug.py, which asks for a greeting and takes   *)
(* the byte after it for the first of a frame.                             *)
(*                                                                         *)
(* A step of the device is a slot: the edge at which waitflag_tx is high   *)
(* and the next byte is loaded, one in each byte time.  The two directions *)
(* of the line are sequences, as UartLink shows.  How far the host is      *)
(* behind is counted in slots.                                             *)
(***************************************************************************)
EXTENDS Integers, Sequences

CONSTANTS
  Words,     \* what r_cmd, r_custom_cmd and r_data .. r_data3 may hold
  PowerUp,   \* what out_data holds before it is written
  Hello,     \* the source of the bytes of the greeting
  Like,      \* what each byte of these words is to a host that spells "Helo"
  Backlog,   \* a byte is read before this many more slots have passed
  Lag        \* a byte of the host is received before more slots than these pass

FrameSize == 8   \* READ_SIZE of UartDebug.py
LastPlace == FrameSize - 1

ASSUME SourcesAssumption == PowerUp \notin Words /\ Hello \notin Words /\ PowerUp # Hello
ASSUME TimesAssumption   == Backlog \in Nat \ {0} /\ Lag \in Nat

VARIABLES
  flag_SYNC_CMD, CMD_Clear,
  rx_DATA,                     \* rx_DATA[i]: whether it is 8'd65, "A"
  r_word,                      \* r_cmd, r_custom_cmd, r_data, r_data2, r_data3
  sendcounter, out_data,       \* a word, and r_sync
  r_flag_allow_new_data,       \* transDone
  cnt_sync, flag_sync_started,
  to_host,                     \* bytes loaded and not read
  to_device,                   \* the slots that each "A" has been on its way
  open, testCnt,               \* the host: 5 is when it has left the loop
  reading, frame, frames,
  asked,                       \* history: "A"s written, saturating at three
  ended                        \* history: the byte that ended the search

rxVars    == <<flag_SYNC_CMD, CMD_Clear, rx_DATA>>
frameVars == <<sendcounter, out_data, r_flag_allow_new_data>>
helloVars == <<cnt_sync, flag_sync_started>>
hostVars  == <<open, testCnt, reading, frame, frames, asked, ended>>
vars      == <<rxVars, r_word, frameVars, helloVars, to_host, to_device, hostVars>>

\* A byte is known by where it comes from: a word and a place in it, or the
\* greeting.
LetterH == <<Hello, 0>>
LetterE == <<Hello, 1>>
LetterL == <<Hello, 2>>
LetterO == <<Hello, 3>>
Other   == <<Hello, 4>>            \* 8'd68, or any other value
EndByte == <<Hello, LastPlace>>    \* 8'hff

Byte     == (Words \cup {PowerUp, Hello}) \X (0 .. LastPlace)
DataByte == (Words \cup {PowerUp}) \X (0 .. LastPlace)
Values   == {LetterH, LetterE, LetterL, LetterO, EndByte, Other}

\* The last place of a word is r_sync, 8'hff; what a client writes, and what
\* the register is powered up with, may be anything.
ASSUME LikeAssumption ==
  /\ Like \in [DataByte -> Values]
  /\ \A w \in Words : Like[<<w, LastPlace>>] = EndByte

\* The host sees values only: a byte of data may look like a letter.
Seen(b)   == IF b[1] = Hello THEN b ELSE Like[b]
IsSync(b) == Seen(b) = EndByte

\* i_Tx_DV and i_Tx_Byte start as 1 and 8'd68.
Init ==
  /\ flag_SYNC_CMD = 0 /\ CMD_Clear = 0 /\ rx_DATA = [i \in 0 .. 1 |-> FALSE]
  /\ r_word \in Words
  /\ sendcounter = 0 /\ out_data = PowerUp /\ r_flag_allow_new_data = 1
  /\ cnt_sync = 0 /\ flag_sync_started = 0
  /\ open \in BOOLEAN
  /\ to_host = (IF open THEN <<Other>> ELSE <<>>) /\ to_device = <<>>
  /\ testCnt = 0 /\ reading = <<>> /\ frame = <<>> /\ frames = 0
  /\ asked = 0 /\ ended = Other

-----------------------------------------------------------------------------
(***************************************************************************)
(* Uart.v.                                                                 *)
(***************************************************************************)

\* enableTrans: the client's word is latched.
Enable(w) ==
  /\ r_word' = w
  /\ UNCHANGED <<rxVars, frameVars, helloVars, to_host, to_device, hostVars>>

\* The byte before the last one decides, read before it is shifted.
Decides == rx_DATA[1]

\* o_Rx_DV.  The command is dropped while CMD_Clear is high, unless it comes
\* at the last edge before a slot.
Receive ==
  /\ to_device # <<>>
  /\ to_device' = Tail(to_device)
  /\ rx_DATA' = [i \in 0 .. 1 |-> IF i = 0 THEN TRUE ELSE rx_DATA[0]]
  /\ \/ flag_SYNC_CMD' = IF Decides THEN 1 ELSE 0
     \/ CMD_Clear = 1 /\ flag_SYNC_CMD' = 0
  /\ UNCHANGED <<CMD_Clear, r_word, frameVars, helloVars, to_host, hostVars>>

HelloEnds == flag_sync_started = 1 /\ cnt_sync = 5

\* A command starts the greeting; one that comes within it is lost.
Greeting ==
  \/ /\ flag_sync_started = 1
     /\ cnt_sync' = IF HelloEnds THEN 0 ELSE cnt_sync + 1
     /\ flag_sync_started' = IF HelloEnds THEN 0 ELSE 1
  \/ /\ flag_sync_started = 0
     /\ cnt_sync' = IF flag_SYNC_CMD = 1 THEN 0 ELSE cnt_sync
     /\ flag_sync_started' = flag_SYNC_CMD

\* Mutant: the greeting has two "l" and no "o".
LoadedMisspelt ==
  IF flag_sync_started = 1
  THEN <<LetterH, LetterH, LetterE, LetterL, LetterL, EndByte>>[cnt_sync + 1]
  ELSE IF flag_SYNC_CMD = 1 THEN LetterH
  ELSE <<out_data, sendcounter>>

\* i_Tx_Byte
Loaded ==
  IF flag_sync_started = 1
  THEN <<LetterH, LetterH, LetterE, LetterL, LetterO, EndByte>>[cnt_sync + 1]
  ELSE IF flag_SYNC_CMD = 1 THEN LetterH
  ELSE <<out_data, sendcounter>>

\* Mutant: the counter is not reset by the greeting.
NextPlaceOn == (sendcounter + 1) % FrameSize

NextPlace ==
  IF flag_SYNC_CMD = 1 \/ flag_sync_started = 1
  THEN 0 ELSE (sendcounter + 1) % FrameSize

\* Mutant: the copy is made one byte too early.
CopyingEarly == sendcounter = LastPlace - 1

Copying == sendcounter = LastPlace

\* A byte is loaded.  CMD_Clear takes back the command at the next edge.
Slot ==
  /\ Len(to_host) < Backlog
  /\ \A n \in DOMAIN to_device : to_device[n] < Lag
  /\ to_device' = [n \in DOMAIN to_device |-> to_device[n] + 1]
  /\ to_host' = IF open THEN Append(to_host, Loaded) ELSE to_host
  /\ sendcounter' = NextPlace
  /\ out_data' = IF Copying THEN r_word ELSE out_data
  /\ r_flag_allow_new_data' = IF Copying \/ HelloEnds THEN 1 ELSE 0
  /\ Greeting
  /\ CMD_Clear' = flag_SYNC_CMD /\ flag_SYNC_CMD' = 0
  /\ UNCHANGED <<rx_DATA, r_word, hostVars>>

-----------------------------------------------------------------------------
(***************************************************************************)
(* UartDebug.py.                                                           *)
(***************************************************************************)

\* The port is opened.
Open ==
  /\ ~open /\ open' = TRUE
  /\ UNCHANGED <<rxVars, r_word, frameVars, helloVars, to_host, to_device,
                 testCnt, reading, frame, frames, asked, ended>>

\* testCnt == 0: every byte is answered, the "H" too.
Ask ==
  /\ testCnt = 0
  /\ to_device' = Append(to_device, 0)
  /\ testCnt' = IF Seen(Head(to_host)) = LetterH THEN 1 ELSE 0
  /\ asked' = IF asked < 3 THEN asked + 1 ELSE 3
  /\ UNCHANGED <<reading, frame, frames, ended>>

Expected(b) == Seen(b) = <<LetterE, LetterL, LetterO, EndByte>>[testCnt]

\* testCnt == 1 .. 4: bytes that are not the next one are passed over.
Spell ==
  /\ testCnt \in 1 .. 4
  /\ testCnt' = IF Expected(Head(to_host)) THEN testCnt + 1 ELSE testCnt
  /\ ended' = IF testCnt' = 5 THEN Head(to_host) ELSE ended
  /\ UNCHANGED <<to_device, reading, frame, frames, asked>>

\* src.read(READ_SIZE), and the frame it returns.  frames saturates.
ReadFrame ==
  /\ testCnt = 5
  /\ \/ /\ Len(reading) < FrameSize - 1
        /\ reading' = Append(reading, Head(to_host))
        /\ UNCHANGED <<frame, frames>>
     \/ /\ Len(reading) = FrameSize - 1
        /\ reading' = <<>>
        /\ frame' = Append(reading, Head(to_host))
        /\ frames' = IF frames = 0 THEN 1 ELSE 2
  /\ UNCHANGED <<testCnt, to_device, asked, ended>>

Read ==
  /\ to_host # <<>>
  /\ to_host' = Tail(to_host)
  /\ Ask \/ Spell \/ ReadFrame
  /\ UNCHANGED <<rxVars, r_word, frameVars, helloVars, open>>

-----------------------------------------------------------------------------
Next == (\E w \in Words : Enable(w)) \/ Receive \/ Slot \/ Open \/ Read

\* The clock does not stop, and the host and the line are no slower than
\* Backlog and Lag say.
Spec == Init /\ [][Next]_vars /\ WF_vars(Slot) /\ WF_vars(Read) /\ WF_vars(Receive)
-----------------------------------------------------------------------------
(***************************************************************************)
(* Properties.                                                             *)
(***************************************************************************)

\* What ended the search was the end of the greeting, or the SyncDATA of a
\* frame after which no greeting comes, since less than three "A"s were sent.
\* Any other byte of data that was taken for the 8'hff ended it out of place.
WellEnded == ended = EndByte \/ (ended[2] = LastPlace /\ asked < 3)

\* After a search that was ended well the host's place in its frame is the
\* place of the device in its own, whatever is between, and whatever letters
\* the host found in data before: no "A" that is still on its way gets another
\* greeting out of the device.
HostAligned ==
  testCnt = 5 /\ WellEnded =>
    (Len(reading) + Len(to_host)) % FrameSize = sendcounter

\* Every frame such a host reads is one word with its SyncDATA; the first one
\* may be what out_data was powered up with, if the search ends before the
\* device has sent its first eight bytes.
FrameIsSnapshot ==
  frames > 0 /\ WellEnded =>
    \E w \in Words \cup {PowerUp} :
      /\ frame = [k \in 1 .. FrameSize |-> <<w, k - 1>>]
      /\ w = PowerUp => frames = 1

\* A host that opens the port comes out of its search; but if a byte that
\* looks like "H" is among the first two it reads, it stops asking too early,
\* and may wait for ever for a letter that does not come.
FoundUnlessDeceived ==
  <>open => \/ <>(testCnt = 5)
            \/ <>[](testCnt \in 1 .. 4 /\ asked < 3)

\* After the first frame the last byte of every frame is SyncDATA.
EndsInSyncData == frames = 2 => IsSync(frame[FrameSize])
=============================================================================
