--------------------------- MODULE UartHelloProofs --------------------------
(***************************************************************************)
(* Proofs about UartHello for every set of words, whatever letters of the  *)
(* greeting are among their bytes, and every Backlog and Lag that add up   *)
(* to no more than the six slots of a greeting.                            *)
(*                                                                         *)
(* The life of a host that finds the device has four phases: Before the    *)
(* greeting, During it, Ending when the greeting is loaded but not yet     *)
(* read, and After it.  In each of them the place of every byte that is    *)
(* loaded and not read is known from how far it is from the newest.  A     *)
(* host may go from Before to After by a frame's SyncDATA, and it is Lost  *)
(* when another byte of data ends its search.                              *)
(***************************************************************************)
EXTENDS UartHello, TLAPS

\* How late a byte and an answer may be.  A byte the host reads late makes it
\* send an "A" late: the last one must reach the device while the greeting it
\* would ask for again is still being sent.
InTime == Backlog + Lag <= 6

\* The bytes of a frame, and the byte that is there before the first one.
Plain(b) == b \in DataByte \/ b = Other

\* A byte that is the j-th of a greeting, or comes before it.
GreetingAt(b, j) ==
  /\ j <= 0 => Plain(b)
  /\ j \in 1 .. 3 => b = LetterH
  /\ j = 4 => b = LetterE
  /\ j = 5 => b = LetterL
  /\ j = 6 => b = LetterO
  /\ j = 7 => b = EndByte

\* The testCnt of a host whose next byte is the j-th of a greeting: it may have
\* found letters in data, but the greeting's end it has not passed.
HostPlace(c, j) ==
  /\ j <= 7 => c \in 0 .. 4
  /\ j >= 2 => c >= 1
  /\ j >= 5 => c >= j - 3

Types ==
  /\ to_host \in Seq(Byte) /\ Len(to_host) <= Backlog
  /\ to_device \in Seq(Nat)
  /\ flag_SYNC_CMD \in {0, 1} /\ flag_sync_started \in {0, 1}
  /\ cnt_sync \in 0 .. 5 /\ sendcounter \in 0 .. LastPlace
  /\ out_data \in Words \cup {PowerUp} /\ r_word \in Words
  /\ reading \in Seq(Byte) /\ Len(reading) <= LastPlace
  /\ testCnt \in 0 .. 5 /\ frames \in 0 .. 2 /\ open \in BOOLEAN
  /\ rx_DATA \in [0 .. 1 -> BOOLEAN] /\ asked \in 0 .. 3 /\ ended \in Byte

\* Nobody asks before the port is opened.
Closed ==
  ~ open => /\ to_host = <<>> /\ to_device = <<>>
            /\ flag_SYNC_CMD = 0 /\ flag_sync_started = 0 /\ testCnt = 0

\* The "A"s that the device remembers.
Received == IF rx_DATA[1] THEN 2 ELSE IF rx_DATA[0] THEN 1 ELSE 0

\* Two "A"s get no greeting.
Asking ==
  asked < 3 => /\ flag_SYNC_CMD = 0 /\ flag_sync_started = 0
               /\ Len(to_device) + Received <= asked

\* If the k-th byte is the last of a frame, the next frame follows it.
FrameFollows(k) ==
  to_host[k][2] = LastPlace =>
    /\ sendcounter = Len(to_host) - k
    /\ \A m \in k + 1 .. Len(to_host) : to_host[m] = <<out_data, m - k - 1>>

Before ==
  /\ flag_sync_started = 0 /\ testCnt \in 0 .. 4
  /\ reading = <<>> /\ frames = 0
  /\ \A k \in 1 .. Len(to_host) : Plain(to_host[k]) /\ FrameFollows(k)

During ==
  /\ flag_sync_started = 1 /\ open /\ sendcounter = 0
  /\ reading = <<>> /\ frames = 0
  /\ \A k \in 1 .. Len(to_host) :
       GreetingAt(to_host[k], cnt_sync + 1 - (Len(to_host) - k))
  /\ HostPlace(testCnt, cnt_sync + 2 - Len(to_host))
  /\ \A a \in 1 .. Len(to_device) : cnt_sync - to_device[a] < Backlog

\* Nothing is left that could ask for a greeting.
Quiet ==
  /\ flag_sync_started = 0 /\ flag_SYNC_CMD = 0 /\ open
  /\ to_device = <<>> \/ asked < 3

\* e is where the last byte of the greeting is.
EndingAt(e) ==
  /\ Quiet /\ reading = <<>> /\ frames = 0
  /\ sendcounter = Len(to_host) - e
  /\ \A k \in 1 .. Len(to_host) :
       IF k <= e THEN GreetingAt(to_host[k], 7 - (e - k))
       ELSE to_host[k] = <<out_data, k - e - 1>>
  /\ HostPlace(testCnt, 8 - e)

Ending == \E e \in 1 .. Len(to_host) : EndingAt(e)

\* What is loaded since the last whole frame was read.
SinceFrame == Len(reading) + Len(to_host)

\* The i-th of these bytes, in a frame of w and one of v.
Item(w, v, i) == IF i <= 8 THEN <<w, i - 1>> ELSE <<v, i - 9>>

\* The host is reading a frame of the word w.
AfterWith(w) ==
  /\ Quiet /\ testCnt = 5
  /\ sendcounter = IF SinceFrame < FrameSize THEN SinceFrame ELSE SinceFrame - FrameSize
  /\ IF SinceFrame < FrameSize THEN w = out_data ELSE out_data \in Words
  /\ frames > 0 => w \in Words
  /\ \A k \in 1 .. Len(reading) : reading[k] = <<w, k - 1>>
  /\ \A k \in 1 .. Len(to_host) :
       to_host[k] = Item(w, out_data, Len(reading) + k)

After == \E w \in Words \cup {PowerUp} : AfterWith(w)

\* A byte of data was taken for the end of the greeting.
Lost == testCnt = 5 /\ ~ WellEnded

Phases == Before \/ During \/ Ending \/ After \/ Lost

IInv == Types /\ Closed /\ Asking /\ Phases /\ FrameIsSnapshot
-----------------------------------------------------------------------------
(***************************************************************************)
(* Sequences and bytes.                                                    *)
(***************************************************************************)
LEMMA Appended ==
  ASSUME NEW S, NEW s \in Seq(S), NEW b \in S
  PROVE  /\ Append(s, b) \in Seq(S) /\ Len(Append(s, b)) = Len(s) + 1
         /\ \A k \in 1 .. Len(s) : Append(s, b)[k] = s[k]
         /\ Append(s, b)[Len(s) + 1] = b
OBVIOUS

LEMMA Shortened ==
  ASSUME NEW S, NEW s \in Seq(S), s # <<>>
  PROVE  /\ Len(s) \in Nat \ {0} /\ Head(s) = s[1] /\ Head(s) \in S
         /\ Tail(s) \in Seq(S) /\ Len(Tail(s)) = Len(s) - 1
         /\ \A k \in 1 .. Len(s) - 1 : Tail(s)[k] = s[k + 1]
OBVIOUS

\* Lengths: the provers do not see that these are small numbers.
LEMMA Below ==
  ASSUME NEW n \in Nat
  PROVE  /\ \A b \in Nat : n < b /\ b <= 6 => n \in 0 .. 5
         /\ n <= 7 => n \in 0 .. 7
OBVIOUS

LEMMA Letters ==
  /\ \A b \in {LetterH, LetterE, LetterL, LetterO, EndByte} : Seen(b) = b
  /\ \A w \in Words \cup {PowerUp} : \A k \in 0 .. LastPlace :
       Plain(<<w, k>>) /\ <<w, k>> \in Byte
  /\ {LetterH, LetterE, LetterL, LetterO, EndByte, Other} \subseteq Byte
  /\ Plain(Other)
BY DEF Seen, LetterH, LetterE, LetterL, LetterO, EndByte, Other, Plain, DataByte, Byte,
   LastPlace, FrameSize

LEMMA DistinctLetters ==
  /\ LetterH \notin {LetterE, LetterL, LetterO, EndByte}
  /\ LetterE \notin {LetterL, LetterO, EndByte}
  /\ LetterL \notin {LetterO, EndByte} /\ LetterO # EndByte
BY DEF LetterH, LetterE, LetterL, LetterO, EndByte, LastPlace, FrameSize

\* What data end is not the end of the greeting.
LEMMA PlainIsNotEnd ==
  ASSUME NEW b, Plain(b)
  PROVE  b # EndByte
BY SourcesAssumption DEF Plain, DataByte, Other, EndByte, LastPlace, FrameSize

LEMMA ExpectedByte ==
  ASSUME NEW b
  PROVE  /\ testCnt = 1 => (Expected(b) <=> Seen(b) = LetterE)
         /\ testCnt = 2 => (Expected(b) <=> Seen(b) = LetterL)
         /\ testCnt = 3 => (Expected(b) <=> Seen(b) = LetterO)
         /\ testCnt = 4 => (Expected(b) <=> Seen(b) = EndByte)
BY DEF Expected

\* The host reads the j-th byte of the greeting, or one before it; only one
\* before it may end the search too early.
LEMMA Spelling ==
  ASSUME NEW j \in Int, j <= 7, GreetingAt(Head(to_host), j), HostPlace(testCnt, j),
         testCnt \in 0 .. 5, Ask \/ Spell \/ ReadFrame
  PROVE  /\ testCnt' \in 0 .. 5
         /\ reading' = reading /\ frame' = frame /\ frames' = frames
         /\ \/ to_device' = to_device /\ asked' = asked
            \/ j <= 1 /\ to_device' = Append(to_device, 0) /\ testCnt' # 5
         /\ \/ HostPlace(testCnt', j + 1)
            \/ j <= 0 /\ testCnt' = 5 /\ ended' = Head(to_host)
<1>1. testCnt \in 0 .. 4 /\ ~ ReadFrame
  BY DEF HostPlace, ReadFrame
<1>2. CASE Ask
  <2>1. j <= 1 /\ testCnt = 0
    BY <1>2 DEF HostPlace, Ask
  <2>2. testCnt' \in {0, 1} /\ (j = 1 => testCnt' = 1)
    BY <1>2, Letters DEF Ask, GreetingAt
  <2>3. HostPlace(testCnt', j + 1)
    BY <2>1, <2>2 DEF HostPlace
  <2>4. QED BY <1>2, <2>1, <2>2, <2>3 DEF Ask
<1>3. CASE Spell
  <2> DEFINE h == Head(to_host)
  <2>1. testCnt \in 1 .. 4 /\ testCnt' = IF Expected(h) THEN testCnt + 1 ELSE testCnt
    BY <1>3 DEF Spell
  <2>2. testCnt' = 5 => ended' = h
    BY <1>3 DEF Spell
  <2>3. /\ testCnt = 1 => (Expected(h) <=> Seen(h) = LetterE)
        /\ testCnt = 2 => (Expected(h) <=> Seen(h) = LetterL)
        /\ testCnt = 3 => (Expected(h) <=> Seen(h) = LetterO)
        /\ testCnt = 4 => (Expected(h) <=> Seen(h) = EndByte)
    BY ExpectedByte
  <2>4. /\ j \in 1 .. 3 => Seen(h) = LetterH
        /\ j = 4 => Seen(h) = LetterE
        /\ j = 5 => Seen(h) = LetterL
        /\ j = 6 => Seen(h) = LetterO
        /\ j = 7 => Seen(h) = EndByte
    BY Letters DEF GreetingAt
  <2> HIDE DEF h
  <2>5. \/ HostPlace(testCnt', j + 1)
        \/ j <= 0 /\ testCnt' = 5 /\ ended' = h
    <3>1. CASE j <= 0
      BY <2>1, <2>2, <3>1 DEF HostPlace
    <3>2. CASE j \in 1 .. 3
      <4>1. testCnt' = testCnt
        BY <2>1, <2>3, <2>4, <3>2, DistinctLetters
      <4>2. QED BY <2>1, <3>2, <4>1 DEF HostPlace
    <3>3. CASE j = 4
      <4>1. testCnt' = IF testCnt = 1 THEN 2 ELSE testCnt
        BY <2>1, <2>3, <2>4, <3>3, DistinctLetters
      <4>2. QED BY <2>1, <3>3, <4>1 DEF HostPlace
    <3>4. CASE j = 5
      <4>1. testCnt >= 2 /\ (testCnt' = IF testCnt = 2 THEN 3 ELSE testCnt)
        BY <2>1, <2>3, <2>4, <3>4, DistinctLetters DEF HostPlace
      <4>2. QED BY <2>1, <3>4, <4>1 DEF HostPlace
    <3>5. CASE j = 6
      <4>1. testCnt >= 3 /\ (testCnt' = IF testCnt = 3 THEN 4 ELSE testCnt)
        BY <2>1, <2>3, <2>4, <3>5, DistinctLetters DEF HostPlace
      <4>2. QED BY <2>1, <3>5, <4>1 DEF HostPlace
    <3>6. CASE j = 7
      <4>1. testCnt = 4 /\ testCnt' = 5
        BY <2>1, <2>3, <2>4, <3>6 DEF HostPlace
      <4>2. QED BY <3>6, <4>1 DEF HostPlace
    <3>7. QED BY <3>1, <3>2, <3>3, <3>4, <3>5, <3>6
  <2>6. QED BY <1>3, <2>1, <2>5 DEF Spell, h
<1>4. QED BY <1>1, <1>2, <1>3

-----------------------------------------------------------------------------
(***************************************************************************)
(* What a step does to the line, whatever the phase.                       *)
(***************************************************************************)
LEMMA LoadedLetter ==
  ASSUME Types, flag_sync_started = 1
  PROVE  GreetingAt(Loaded, cnt_sync + 2) /\ Loaded \in Byte
<1>1. Loaded = <<LetterH, LetterH, LetterE, LetterL, LetterO, EndByte>>[cnt_sync + 1]
  BY DEF Loaded
<1>2. CASE cnt_sync = 0
  BY <1>1, <1>2, Letters DEF GreetingAt
<1>3. CASE cnt_sync = 1
  BY <1>1, <1>3, Letters DEF GreetingAt
<1>4. CASE cnt_sync = 2
  BY <1>1, <1>4, Letters DEF GreetingAt
<1>5. CASE cnt_sync = 3
  BY <1>1, <1>5, Letters DEF GreetingAt
<1>6. CASE cnt_sync = 4
  BY <1>1, <1>6, Letters DEF GreetingAt
<1>7. CASE cnt_sync = 5
  BY <1>1, <1>7, Letters DEF GreetingAt
<1>8. QED BY <1>2, <1>3, <1>4, <1>5, <1>6, <1>7 DEF Types

LEMMA LoadedByte ==
  ASSUME Types
  PROVE  Loaded \in Byte
<1>1. CASE flag_sync_started = 1
  BY <1>1, LoadedLetter
<1>2. CASE flag_sync_started # 1
  <2>1. /\ out_data \in Words \cup {PowerUp} /\ sendcounter \in 0 .. LastPlace
        /\ Loaded \in {LetterH, <<out_data, sendcounter>>}
    BY <1>2 DEF Types, Loaded
  <2>2. QED BY <2>1, Letters
<1>3. QED BY <1>1, <1>2

\* The slot is in time for the oldest "A", and the byte goes to the end.
LEMMA SlotLine ==
  ASSUME Types, Slot
  PROVE  /\ Len(to_host) \in Nat /\ Len(to_host) < Backlog
         /\ to_host' \in Seq(Byte) /\ to_device' \in Seq(Nat)
         /\ open  => /\ Len(to_host') = Len(to_host) + 1
                     /\ \A k \in 1 .. Len(to_host) : to_host'[k] = to_host[k]
                     /\ to_host'[Len(to_host) + 1] = Loaded
         /\ ~ open => to_host' = to_host
         /\ Len(to_device') = Len(to_device)
         /\ \A a \in 1 .. Len(to_device) :
              to_device[a] \in Nat /\ to_device[a] < Lag /\ to_device'[a] = to_device[a] + 1
<1>1. Len(to_host) \in Nat /\ Len(to_host) < Backlog /\ to_host \in Seq(Byte)
  BY DEF Types, Slot
<1>2. open => to_host' = Append(to_host, Loaded)
  BY DEF Slot
<1>3. ~ open => to_host' = to_host
  BY DEF Slot
<1>4. to_device \in Seq(Nat) /\ DOMAIN to_device = 1 .. Len(to_device)
  BY DEF Types
<1>5. to_device' = [a \in 1 .. Len(to_device) |-> to_device[a] + 1]
  BY <1>4 DEF Slot
<1>6. to_device' \in Seq(Nat) /\ Len(to_device') = Len(to_device)
  BY <1>4, <1>5
<1>7. \A a \in 1 .. Len(to_device) :
        to_device[a] \in Nat /\ to_device[a] < Lag /\ to_device'[a] = to_device[a] + 1
  BY <1>4, <1>5 DEF Slot
<1>8. CASE open
  <2>1. Loaded \in Byte
    BY LoadedByte
  <2>2. /\ Append(to_host, Loaded) \in Seq(Byte)
        /\ Len(Append(to_host, Loaded)) = Len(to_host) + 1
        /\ \A k \in 1 .. Len(to_host) : Append(to_host, Loaded)[k] = to_host[k]
        /\ Append(to_host, Loaded)[Len(to_host) + 1] = Loaded
    BY <1>1, <2>1, Appended
  <2>3. QED BY <1>1, <1>2, <1>6, <1>7, <1>8, <2>2
<1>9. CASE ~ open
  BY <1>1, <1>3, <1>6, <1>7, <1>9
<1>10. QED BY <1>8, <1>9

LEMMA ReadLine ==
  ASSUME Types, Read
  PROVE  /\ Len(to_host) \in 1 .. Backlog /\ Head(to_host) = to_host[1]
         /\ Head(to_host) \in Byte
         /\ to_host' \in Seq(Byte) /\ Len(to_host') = Len(to_host) - 1
         /\ \A k \in 1 .. Len(to_host) - 1 : to_host'[k] = to_host[k + 1]
<1>1. to_host \in Seq(Byte) /\ to_host # <<>> /\ to_host' = Tail(to_host) /\ Len(to_host) <= Backlog
  BY DEF Types, Read
<1>2. QED BY <1>1, Shortened, TimesAssumption
-----------------------------------------------------------------------------
(***************************************************************************)
(* A slot.                                                                 *)
(***************************************************************************)
LEMMA OrdinaryPlace ==
  ASSUME sendcounter \in 0 .. 7, flag_SYNC_CMD = 0, flag_sync_started = 0
  PROVE  NextPlace = IF sendcounter = 7 THEN 0 ELSE sendcounter + 1
BY DEF NextPlace, FrameSize

LEMMA BeforeSlot ==
  ASSUME InTime, Types, Closed, Before, Slot
  PROVE  Before' \/ During'
<1>1. /\ testCnt' = testCnt /\ reading' = reading /\ frames' = frames /\ open' = open
      /\ flag_sync_started' = flag_SYNC_CMD
  BY DEF Before, Slot, Greeting, hostVars
<1>2. CASE flag_SYNC_CMD = 0
  <2>1. Plain(Loaded) /\ Loaded = <<out_data, sendcounter>>
    <3>1. out_data \in Words \cup {PowerUp} /\ sendcounter \in 0 .. LastPlace
      BY DEF Types
    <3>2. Loaded = <<out_data, sendcounter>>
      BY <1>2 DEF Before, Loaded
    <3>3. QED BY <3>1, <3>2, Letters
  <2>2. /\ sendcounter \in 0 .. 7
        /\ sendcounter' = IF sendcounter = 7 THEN 0 ELSE sendcounter + 1
        /\ out_data' = IF sendcounter = 7 THEN r_word ELSE out_data
    <3>1. sendcounter \in 0 .. 7 /\ LastPlace = 7
      BY DEF Types, LastPlace, FrameSize
    <3>2. flag_sync_started = 0
      BY DEF Before
    <3>3. QED BY <1>2, <3>1, <3>2, OrdinaryPlace DEF Slot, Copying
  <2>3. CASE ~ open
    <3>1. to_host' = <<>>
      BY <2>3, SlotLine DEF Closed
    <3>2. QED BY <1>1, <1>2, <3>1 DEF Before
  <2>4. CASE open
    <3> DEFINE n == Len(to_host)
    <3>1. /\ n \in Nat /\ n <= 5 /\ Len(to_host') = n + 1
          /\ \A k \in 1 .. n : to_host'[k] = to_host[k]
          /\ to_host'[n + 1] = <<out_data, sendcounter>>
      <4>1. n \in Nat /\ n < Backlog /\ Backlog \in Nat /\ Backlog <= 6
        BY SlotLine, TimesAssumption DEF InTime
      <4>2. n <= 5
        <5> HIDE DEF n
        <5>1. QED BY <4>1
      <4>3. QED BY <2>1, <2>4, <4>1, <4>2, SlotLine
    <3>2. \A k \in 1 .. n : Plain(to_host[k]) /\ FrameFollows(k)
      BY DEF Before
    <3> HIDE DEF n
    <3>3. ASSUME NEW k \in 1 .. n + 1
          PROVE  Plain(to_host'[k]) /\ FrameFollows(k)'
      <4>1. CASE k = n + 1
        <5>1. Plain(to_host'[k]) /\ to_host'[k][2] = sendcounter
          BY <2>1, <3>1, <4>1
        <5>2. sendcounter = 7 => sendcounter' = Len(to_host') - k
          BY <2>2, <3>1, <4>1
        <5>3. k + 1 .. Len(to_host') = {}
          BY <3>1, <4>1
        <5>4. QED BY <5>1, <5>2, <5>3 DEF FrameFollows, LastPlace, FrameSize
      <4>2. CASE k \in 1 .. n
        <5>1. Plain(to_host'[k]) /\ to_host'[k] = to_host[k]
          BY <3>1, <3>2, <4>2
        <5>2. ASSUME to_host'[k][2] = LastPlace
              PROVE  /\ sendcounter' = Len(to_host') - k
                     /\ \A m \in k + 1 .. Len(to_host') :
                          to_host'[m] = <<out_data', m - k - 1>>
          <6>1. /\ sendcounter = n - k
                /\ \A m \in k + 1 .. n : to_host[m] = <<out_data, m - k - 1>>
            BY <3>2, <4>2, <5>1, <5>2 DEF FrameFollows, n
          <6>2. sendcounter' = n + 1 - k /\ out_data' = out_data
            BY <2>2, <3>1, <4>2, <6>1
          <6>3. ASSUME NEW m \in k + 1 .. n + 1
                PROVE  to_host'[m] = <<out_data, m - k - 1>>
            <7>1. CASE m = n + 1
              <8>1. sendcounter = m - k - 1
                BY <3>1, <4>2, <6>1, <7>1
              <8>2. QED BY <3>1, <7>1, <8>1
            <7>2. CASE m \in k + 1 .. n
              <8>1. m \in 1 .. n
                BY <4>2, <7>2
              <8>2. QED BY <3>1, <6>1, <7>2, <8>1
            <7>3. QED BY <3>1, <4>2, <6>3, <7>1, <7>2
          <6>4. QED BY <3>1, <6>2, <6>3
        <5>3. QED BY <5>1, <5>2 DEF FrameFollows
      <4>3. QED BY <3>1, <4>1, <4>2
    <3>4. QED BY <1>1, <1>2, <3>1, <3>3 DEF Before
  <2>5. QED BY <2>3, <2>4
<1>3. CASE flag_SYNC_CMD = 1
  <2>1. open /\ Loaded = LetterH /\ cnt_sync' = 0 /\ sendcounter' = 0 /\ testCnt \in 0 .. 4
    BY <1>3 DEF Closed, Before, Loaded, Slot, Greeting, NextPlace
  <2>2. /\ Len(to_host) \in Nat /\ Len(to_host') = Len(to_host) + 1
        /\ \A k \in 1 .. Len(to_host) : to_host'[k] = to_host[k] /\ Plain(to_host[k])
        /\ to_host'[Len(to_host) + 1] = LetterH
    BY <2>1, SlotLine DEF Before
  <2>3. ASSUME NEW k \in 1 .. Len(to_host')
        PROVE  GreetingAt(to_host'[k], cnt_sync' + 1 - (Len(to_host') - k))
    <3>1. CASE k = Len(to_host')
      BY <2>1, <2>2, <3>1 DEF GreetingAt
    <3>2. CASE k # Len(to_host')
      BY <2>1, <2>2, <3>2 DEF GreetingAt
    <3>3. QED BY <3>1, <3>2
  <2>4. HostPlace(testCnt', cnt_sync' + 2 - Len(to_host'))
    BY <1>1, <2>1, <2>2 DEF HostPlace
  <2>5. \A a \in 1 .. Len(to_device') : cnt_sync' - to_device'[a] < Backlog
    BY <2>1, SlotLine, TimesAssumption
  <2>6. QED BY <1>1, <1>3, <2>1, <2>3, <2>4, <2>5 DEF During, Before
<1>4. QED BY <1>2, <1>3 DEF Types

LEMMA DuringSlot ==
  ASSUME InTime, Types, During, Slot
  PROVE  During' \/ Ending'
<1>1. /\ testCnt' = testCnt /\ reading' = reading /\ frames' = frames /\ open' = open
      /\ sendcounter' = 0 /\ cnt_sync \in 0 .. 5
      /\ reading = <<>> /\ frames = 0 /\ open /\ flag_SYNC_CMD' = 0
  BY DEF Types, During, Slot, NextPlace, hostVars
<1>2. /\ Len(to_host) \in Nat /\ Len(to_host) < Backlog /\ Len(to_host') = Len(to_host) + 1
      /\ \A k \in 1 .. Len(to_host) : to_host'[k] = to_host[k]
      /\ to_host'[Len(to_host) + 1] = Loaded
  BY <1>1, SlotLine
<1>3. ASSUME NEW k \in 1 .. Len(to_host')
      PROVE  GreetingAt(to_host'[k], cnt_sync + 2 - (Len(to_host') - k))
  <2>1. CASE k = Len(to_host) + 1
    <3>1. cnt_sync + 2 - (Len(to_host') - k) = cnt_sync + 2
      BY <1>1, <1>2, <2>1
    <3>2. GreetingAt(Loaded, cnt_sync + 2)
      BY LoadedLetter DEF During
    <3>3. QED BY <1>2, <2>1, <3>1, <3>2
  <2>2. CASE k \in 1 .. Len(to_host)
    <3>1. cnt_sync + 2 - (Len(to_host') - k) = cnt_sync + 1 - (Len(to_host) - k)
      BY <1>1, <1>2, <2>2
    <3>2. GreetingAt(to_host[k], cnt_sync + 1 - (Len(to_host) - k))
      BY <2>2 DEF During
    <3>3. QED BY <1>2, <2>2, <3>1, <3>2
  <2>3. QED BY <1>2, <2>1, <2>2
<1>4. HostPlace(testCnt', cnt_sync + 3 - Len(to_host'))
  <2>1. cnt_sync + 3 - Len(to_host') = cnt_sync + 2 - Len(to_host)
    BY <1>1, <1>2
  <2>2. QED BY <1>1, <2>1 DEF During
<1>5. CASE cnt_sync < 5
  <2>1. cnt_sync' = cnt_sync + 1 /\ flag_sync_started' = 1
    BY <1>1, <1>5 DEF During, Slot, Greeting, HelloEnds
  <2>2. \A a \in 1 .. Len(to_device') : cnt_sync' - to_device'[a] < Backlog
    BY <1>1, <2>1, SlotLine, TimesAssumption DEF During
  <2>3. QED BY <1>1, <1>2, <1>3, <1>4, <2>1, <2>2 DEF During
<1>6. CASE cnt_sync = 5
  <2>1. flag_sync_started' = 0
    BY <1>6 DEF During, Slot, Greeting, HelloEnds
  <2>2. Len(to_device) = 0
    <3>1. \A a \in 1 .. Len(to_device) :
            to_device[a] \in Nat /\ to_device[a] < Lag /\ 5 - to_device[a] < Backlog
      BY <1>6, SlotLine DEF During
    <3>2. 1 \notin 1 .. Len(to_device)
      BY <3>1, TimesAssumption DEF InTime
    <3>3. QED BY <3>2 DEF Types
  <2>3. to_device' = <<>>
    BY <2>2, SlotLine
  <2>4. ASSUME NEW e, e = Len(to_host') PROVE EndingAt(e)'
    <3>1. \A k \in 1 .. Len(to_host') : GreetingAt(to_host'[k], 7 - (Len(to_host') - k))
      BY <1>3, <1>6
    <3>2. HostPlace(testCnt', 8 - Len(to_host'))
      BY <1>4, <1>6
    <3>3. QED BY <1>1, <1>2, <2>1, <2>3, <2>4, <3>1, <3>2 DEF EndingAt, Quiet
  <2>5. QED BY <1>2, <2>4 DEF Ending
<1>7. QED BY <1>1, <1>5, <1>6

\* Nothing starts a greeting: the byte is the next one of the frame.
LEMMA QuietSlot ==
  ASSUME InTime, Types, Quiet, Slot
  PROVE  /\ Quiet' /\ testCnt' = testCnt /\ reading' = reading /\ frames' = frames
         /\ Len(to_host) \in 0 .. 5 /\ Len(to_host') = Len(to_host) + 1
         /\ \A k \in 1 .. Len(to_host) : to_host'[k] = to_host[k]
         /\ to_host'[Len(to_host) + 1] = <<out_data, sendcounter>>
         /\ sendcounter' = IF sendcounter = LastPlace THEN 0 ELSE sendcounter + 1
         /\ out_data' = IF sendcounter = LastPlace THEN r_word ELSE out_data
<1>1. Backlog \in Nat /\ Len(to_host) \in Nat /\ Len(to_host) < Backlog /\ Backlog <= 6
  BY SlotLine, TimesAssumption DEF InTime
<1>2. Loaded = <<out_data, sendcounter>>
  BY DEF Quiet, Loaded
<1>3. to_device' = <<>> \/ asked' < 3
  <2>1. CASE to_device = <<>>
    <3>1. Len(to_device') = 0 /\ to_device' \in Seq(Nat)
      BY <2>1, SlotLine
    <3>2. QED BY <3>1
  <2>2. CASE asked < 3
    BY <2>2 DEF Slot, hostVars
  <2>3. QED BY <2>1, <2>2 DEF Quiet
<1>4. Quiet'
  BY <1>3 DEF Quiet, Slot, Greeting, hostVars
<1>5. sendcounter' = IF sendcounter = LastPlace THEN 0 ELSE sendcounter + 1
  <2>1. sendcounter \in 0 .. 7 /\ LastPlace = 7
    BY DEF Types, LastPlace, FrameSize
  <2>2. flag_sync_started = 0 /\ flag_SYNC_CMD = 0
    BY DEF Quiet
  <2>3. QED BY <2>1, <2>2, OrdinaryPlace DEF Slot
<1>6. out_data' = IF sendcounter = LastPlace THEN r_word ELSE out_data
  BY DEF Slot, Copying
<1>7. testCnt' = testCnt /\ reading' = reading /\ frames' = frames
  BY DEF Slot, hostVars
<1>8. /\ Len(to_host') = Len(to_host) + 1
      /\ \A k \in 1 .. Len(to_host) : to_host'[k] = to_host[k]
      /\ to_host'[Len(to_host) + 1] = <<out_data, sendcounter>>
  BY <1>2, SlotLine DEF Quiet
<1>9. Len(to_host) \in 0 .. 5
  BY <1>1, Below
<1>10. QED BY <1>4, <1>5, <1>6, <1>7, <1>8, <1>9

LEMMA EndingSlot ==
  ASSUME InTime, Types, Ending, Slot
  PROVE  Ending'
<1>1. PICK e \in 1 .. Len(to_host) : EndingAt(e)
  BY DEF Ending
<1>2. Quiet /\ sendcounter = Len(to_host) - e
  BY <1>1 DEF EndingAt
<1>3. Len(to_host) \in 0 .. 5 /\ Len(to_host') = Len(to_host) + 1
  BY <1>2, QuietSlot
<1>4. sendcounter # LastPlace
  <2>1. sendcounter <= 4
    BY <1>2, <1>3
  <2>2. QED BY <2>1 DEF LastPlace, FrameSize
<1>5. out_data' = out_data /\ sendcounter' = Len(to_host') - e
  BY <1>2, <1>3, <1>4, QuietSlot
<1>6. ASSUME NEW k \in 1 .. Len(to_host')
      PROVE  IF k <= e THEN GreetingAt(to_host'[k], 7 - (e - k))
             ELSE to_host'[k] = <<out_data', k - e - 1>>
  <2>1. CASE k = Len(to_host) + 1
    <3>1. k > e /\ sendcounter = k - e - 1
      BY <1>2, <1>3, <2>1
    <3>2. QED BY <1>2, <1>5, <2>1, <3>1, QuietSlot
  <2>2. CASE k \in 1 .. Len(to_host)
    <3>1. to_host'[k] = to_host[k]
      BY <1>2, <2>2, QuietSlot
    <3>2. QED BY <1>1, <1>5, <2>2, <3>1 DEF EndingAt
  <2>3. QED BY <1>3, <2>1, <2>2
<1>7. EndingAt(e)'
  <2>1. reading = <<>> /\ frames = 0 /\ HostPlace(testCnt, 8 - e)
    BY <1>1 DEF EndingAt
  <2>2. Quiet' /\ reading' = <<>> /\ frames' = 0 /\ HostPlace(testCnt', 8 - e)
    BY <1>2, <2>1, QuietSlot
  <2>3. QED BY <1>5, <1>6, <2>2 DEF EndingAt
<1>8. e \in 1 .. Len(to_host')
  BY <1>3
<1>9. QED BY <1>7, <1>8 DEF Ending

LEMMA AfterSlot ==
  ASSUME InTime, Types, After, Slot
  PROVE  After'
<1>1. PICK w \in Words \cup {PowerUp} : AfterWith(w)
  BY DEF After
<1> DEFINE n == Len(to_host)
           r == Len(reading)
<1>2. Quiet
  BY <1>1 DEF AfterWith
<1>3. /\ n \in 0 .. 5 /\ Len(to_host') = n + 1 /\ r \in 0 .. 7 /\ r_word \in Words
      /\ reading' = reading /\ testCnt' = testCnt /\ frames' = frames /\ Quiet'
      /\ SinceFrame = r + n /\ SinceFrame' = r + n + 1
  <2>1. /\ n \in 0 .. 5 /\ Len(to_host') = n + 1
        /\ reading' = reading /\ testCnt' = testCnt /\ frames' = frames /\ Quiet'
    BY <1>2, QuietSlot
  <2>2. r \in 0 .. 7 /\ r_word \in Words
    <3>1. reading \in Seq(Byte) /\ Len(reading) <= LastPlace /\ r_word \in Words
      BY DEF Types
    <3>2. LastPlace = 7 /\ Len(reading) \in Nat
      BY <3>1 DEF LastPlace, FrameSize
    <3>3. QED BY <3>1, <3>2, Below
  <2>3. SinceFrame' = Len(reading') + Len(to_host') /\ SinceFrame = r + n
    BY DEF SinceFrame
  <2>4. SinceFrame' = r + n + 1
    BY <2>1, <2>2, <2>3
  <2>5. QED BY <2>1, <2>2, <2>3, <2>4
<1>4. /\ sendcounter = IF r + n < 8 THEN r + n ELSE r + n - 8
      /\ IF r + n < 8 THEN w = out_data ELSE out_data \in Words
      /\ testCnt = 5 /\ (frames > 0 => w \in Words)
      /\ \A k \in 1 .. r : reading[k] = <<w, k - 1>>
      /\ \A k \in 1 .. n : to_host[k] = Item(w, out_data, r + k)
  BY <1>1, <1>3 DEF AfterWith, FrameSize
<1>5. /\ sendcounter' = IF sendcounter = 7 THEN 0 ELSE sendcounter + 1
      /\ out_data' = IF sendcounter = 7 THEN r_word ELSE out_data
      /\ \A k \in 1 .. n : to_host'[k] = to_host[k]
      /\ to_host'[n + 1] = <<out_data, sendcounter>>
  BY <1>2, QuietSlot DEF LastPlace, FrameSize
<1> HIDE DEF n, r
<1>6. /\ sendcounter' = IF r + n + 1 < 8 THEN r + n + 1 ELSE r + n + 1 - 8
      /\ IF r + n + 1 < 8 THEN w = out_data' ELSE out_data' \in Words
      /\ r + n >= 8 => out_data' = out_data
  BY <1>3, <1>4, <1>5
<1>7. ASSUME NEW k \in 1 .. n + 1
      PROVE  to_host'[k] = Item(w, out_data', r + k)
  <2>1. CASE k = n + 1
    <3>1. CASE r + n < 8
      BY <1>3, <1>4, <1>5, <2>1, <3>1 DEF Item
    <3>2. CASE r + n >= 8
      BY <1>3, <1>4, <1>5, <1>6, <2>1, <3>2 DEF Item
    <3>3. QED BY <1>3, <3>1, <3>2
  <2>2. CASE k \in 1 .. n
    <3>1. r + k > 8 => r + n >= 8
      BY <1>3, <2>2
    <3>2. to_host'[k] = Item(w, out_data, r + k)
      BY <1>4, <1>5, <2>2
    <3>3. CASE r + k <= 8
      BY <3>2, <3>3 DEF Item
    <3>4. CASE ~ (r + k <= 8)
      <4>1. out_data' = out_data
        BY <1>3, <1>6, <2>2, <3>1, <3>4
      <4>2. QED BY <3>2, <3>4, <4>1
    <3>5. QED BY <3>3, <3>4
  <2>3. QED BY <1>3, <2>1, <2>2
<1>8. AfterWith(w)'
  BY <1>3, <1>4, <1>6, <1>7 DEF AfterWith, n, r, FrameSize
<1>9. QED BY <1>8 DEF After
-----------------------------------------------------------------------------
(***************************************************************************)
(* A read of the host.                                                     *)
(***************************************************************************)
ReadKeeps ==
  /\ open' = open /\ cnt_sync' = cnt_sync /\ flag_sync_started' = flag_sync_started
  /\ sendcounter' = sendcounter /\ out_data' = out_data /\ flag_SYNC_CMD' = flag_SYNC_CMD

LEMMA ReadDevice ==
  ASSUME Read
  PROVE  ReadKeeps /\ (Ask \/ Spell \/ ReadFrame)
BY DEF Read, ReadKeeps, rxVars, frameVars, helloVars

\* A host that has left its loop begins with the first byte of a frame.
LEMMA FrameBegins ==
  ASSUME NEW n \in 0 .. 6, Quiet', testCnt' = 5, reading' = <<>>, frames' = 0,
         Len(to_host') = n, sendcounter' = n, out_data' \in Words \cup {PowerUp},
         \A k \in 1 .. n : to_host'[k] = <<out_data', k - 1>>
  PROVE  After'
<1>1. Len(reading') = 0 /\ SinceFrame' = n /\ SinceFrame' < 8
  BY DEF SinceFrame
<1>2. ASSUME NEW w, w = out_data' PROVE AfterWith(w)'
  <2>1. \A k \in 1 .. n : to_host'[k] = Item(w, out_data', 0 + k)
    <3>1. TAKE k \in 1 .. n
    <3>2. to_host'[k] = <<out_data', k - 1>> /\ k <= 8 /\ 0 + k = k
      OBVIOUS
    <3>3. QED BY <1>2, <3>2 DEF Item
  <2>2. \A k \in 1 .. 0 : reading'[k] = <<w, k - 1>>
    OBVIOUS
  <2>3. QED BY <1>1, <1>2, <2>1, <2>2 DEF AfterWith, FrameSize
<1>3. QED BY <1>2 DEF After

\* A byte of data ends the search: it is the last of a frame, and no greeting
\* comes, or the host is lost.
LEMMA BeforeRead ==
  ASSUME InTime, Types, Closed, Asking, Before, Read
  PROVE  (Before' \/ After' \/ Lost') /\ frame' = frame /\ frames' = frames
<1> DEFINE n == Len(to_host)
<1>1. GreetingAt(Head(to_host), 0) /\ Plain(Head(to_host)) /\ FrameFollows(1)
  BY ReadLine DEF Before, GreetingAt
<1>2. HostPlace(testCnt, 0)
  BY DEF Before, HostPlace
<1>3. testCnt \in 0 .. 5
  BY DEF Types
<1>4. /\ HostPlace(testCnt', 1) \/ (testCnt' = 5 /\ ended' = Head(to_host))
      /\ testCnt' # 5 \/ (to_device' = to_device /\ asked' = asked)
      /\ reading' = <<>> /\ frame' = frame /\ frames' = 0 /\ frames = 0
  <2>1. ASSUME NEW j \in Int, j = 0
        PROVE  /\ HostPlace(testCnt', j + 1) \/ (testCnt' = 5 /\ ended' = Head(to_host))
               /\ testCnt' # 5 \/ (to_device' = to_device /\ asked' = asked)
               /\ reading' = reading /\ frame' = frame /\ frames' = frames
    BY <1>1, <1>2, <1>3, <2>1, ReadDevice, Spelling
  <2>2. QED BY <2>1 DEF Before
<1>5. /\ n \in 1 .. 6 /\ Len(to_host') = n - 1 /\ Head(to_host) = to_host[1]
      /\ \A k \in 1 .. n - 1 : to_host'[k] = to_host[k + 1]
  <2>1. n \in 1 .. Backlog /\ Backlog \in Nat /\ Backlog <= 6
    BY ReadLine, TimesAssumption DEF InTime
  <2>2. n \in 1 .. 6
    <3> HIDE DEF n
    <3>1. QED BY <2>1
  <2>3. QED BY <2>2, ReadLine
<1>6. ReadKeeps
  BY ReadDevice
<1>7. CASE HostPlace(testCnt', 1)
  <2>1. testCnt' \in 0 .. 4
    BY <1>7 DEF HostPlace
  <2>2. \A k \in 1 .. n : Plain(to_host[k]) /\ FrameFollows(k)
    BY DEF Before
  <2>3. ASSUME NEW k \in 1 .. n - 1
        PROVE  Plain(to_host'[k]) /\ FrameFollows(k)'
    <3> DEFINE i == k + 1
    <3>1. i \in 1 .. n /\ n - i = n - 1 - k
      BY <1>5
    <3>2. to_host'[k] = to_host[i] /\ Plain(to_host[i]) /\ FrameFollows(i)
      BY <1>5, <2>2, <3>1
    <3>3. ASSUME to_host'[k][2] = LastPlace, NEW m \in k + 1 .. n - 1
          PROVE  to_host'[m] = <<out_data', m - k - 1>>
      <4>1. m \in 1 .. n - 1 /\ m + 1 \in i + 1 .. n /\ m + 1 - i - 1 = m - k - 1
        BY <1>5
      <4>2. to_host[m + 1] = <<out_data, m + 1 - i - 1>>
        <5>1. \A l \in i + 1 .. Len(to_host) : to_host[l] = <<out_data, l - i - 1>>
          <6> HIDE DEF i
          <6>1. QED BY <3>2, <3>3 DEF FrameFollows
        <5>2. ASSUME NEW l, l = m + 1 PROVE to_host[l] = <<out_data, l - i - 1>>
          <6>1. l \in i + 1 .. Len(to_host)
            BY <4>1, <5>2
          <6> HIDE DEF i
          <6>2. QED BY <5>1, <6>1
        <5>3. QED BY <5>2
      <4>3. QED BY <1>5, <1>6, <4>1, <4>2 DEF ReadKeeps
    <3>4. to_host'[k][2] = LastPlace => sendcounter' = Len(to_host') - k
      <4> HIDE DEF i
      <4>1. to_host'[k][2] = LastPlace => sendcounter = n - i
        BY <3>2 DEF FrameFollows
      <4>2. QED BY <1>5, <1>6, <3>1, <4>1 DEF ReadKeeps
    <3>5. QED BY <1>5, <3>2, <3>3, <3>4 DEF FrameFollows
  <2>4. Before'
    BY <1>4, <1>5, <1>6, <2>1, <2>3 DEF Before, ReadKeeps
  <2>5. QED BY <1>4, <2>4
<1>8. CASE testCnt' = 5 /\ ended' = Head(to_host) /\ WellEnded'
  <2>1. ended'[2] = LastPlace /\ asked < 3
    BY <1>1, <1>4, <1>8, PlainIsNotEnd DEF WellEnded
  <2>2. /\ sendcounter = n - 1
        /\ \A m \in 2 .. n : to_host[m] = <<out_data, m - 1 - 1>>
    BY <1>1, <1>5, <1>8, <2>1 DEF FrameFollows
  <2>3. Quiet'
    <3>1. open
      BY <1>5 DEF Closed
    <3>2. QED BY <1>4, <1>6, <1>8, <2>1, <3>1 DEF Asking, Quiet, ReadKeeps
  <2>4. out_data' \in Words \cup {PowerUp} /\ sendcounter' = n - 1
    BY <1>6, <2>2 DEF Types, ReadKeeps
  <2>5. ASSUME NEW k \in 1 .. n - 1
        PROVE  to_host'[k] = <<out_data', k - 1>>
    <3>1. k + 1 \in 2 .. n /\ k + 1 - 1 - 1 = k - 1
      BY <1>5
    <3>2. to_host[k + 1] = <<out_data, k + 1 - 1 - 1>>
      BY <2>2, <3>1
    <3>3. QED BY <1>5, <1>6, <3>1, <3>2 DEF ReadKeeps
  <2>6. n - 1 \in 0 .. 6
    BY <1>5
  <2>7. After'
    <3> HIDE DEF n
    <3>1. QED BY <1>4, <1>5, <1>8, <2>3, <2>4, <2>5, <2>6, FrameBegins
  <2>8. QED BY <1>4, <2>7
<1>9. CASE testCnt' = 5 /\ ~ WellEnded'
  BY <1>4, <1>9 DEF Lost
<1>10. QED BY <1>4, <1>7, <1>8, <1>9

LEMMA DuringRead ==
  ASSUME Types, Asking, During, Read
  PROVE  (During' \/ Lost') /\ frame' = frame /\ frames' = frames
<1> DEFINE n == Len(to_host)
           j == cnt_sync + 2 - n
<1>1. /\ n \in Nat /\ n >= 1 /\ n <= Backlog /\ Backlog \in Nat
      /\ cnt_sync \in 0 .. 5 /\ testCnt \in 0 .. 5
  BY ReadLine, TimesAssumption DEF Types
<1>2. j \in Int /\ j <= 7 /\ cnt_sync + 1 - (n - 1) = j
  BY <1>1
<1>3. GreetingAt(Head(to_host), j) /\ HostPlace(testCnt, j)
  BY <1>1, <1>2, ReadLine DEF During
<1>4. /\ reading' = reading /\ frame' = frame /\ frames' = frames
      /\ \/ to_device' = to_device /\ asked' = asked
         \/ j <= 1 /\ to_device' = Append(to_device, 0) /\ testCnt' # 5
      /\ \/ HostPlace(testCnt', j + 1)
         \/ j <= 0 /\ testCnt' = 5 /\ ended' = Head(to_host)
  <2> HIDE DEF j
  <2>1. QED BY <1>1, <1>2, <1>3, ReadDevice, Spelling
<1>5. Len(to_host') = n - 1 /\ \A k \in 1 .. n - 1 : to_host'[k] = to_host[k + 1]
  BY ReadLine
<1>6. ASSUME NEW k \in 1 .. n - 1
      PROVE  GreetingAt(to_host'[k], cnt_sync + 1 - (n - 1 - k))
  <2>1. k + 1 \in 1 .. n /\ cnt_sync + 1 - (n - (k + 1)) = cnt_sync + 1 - (n - 1 - k)
    BY <1>1
  <2>2. GreetingAt(to_host[k + 1], cnt_sync + 1 - (n - (k + 1)))
    BY <2>1 DEF During
  <2>3. QED BY <1>5, <2>1, <2>2
<1>7. HostPlace(testCnt', j + 1) => HostPlace(testCnt', cnt_sync + 2 - (n - 1))
  <2>1. cnt_sync + 2 - (n - 1) = j + 1
    BY <1>1
  <2>2. QED BY <2>1
<1>8. \A a \in 1 .. Len(to_device') : cnt_sync - to_device'[a] < Backlog
  <2>1. CASE to_device' = to_device
    BY <2>1 DEF During
  <2>2. CASE j <= 1 /\ to_device' = Append(to_device, 0)
    <3>1. cnt_sync - 0 < Backlog
      BY <1>1, <2>2
    <3>2. to_device \in Seq(Nat) /\ 0 \in Nat
      BY DEF Types
    <3>3. /\ Len(to_device') = Len(to_device) + 1
          /\ \A a \in 1 .. Len(to_device) : to_device'[a] = to_device[a]
          /\ to_device'[Len(to_device) + 1] = 0
      BY <2>2, <3>2, Appended
    <3>4. ASSUME NEW a \in 1 .. Len(to_device')
          PROVE  cnt_sync - to_device'[a] < Backlog
      <4>1. CASE a = Len(to_device) + 1
        BY <3>1, <3>3, <4>1
      <4>2. CASE a \in 1 .. Len(to_device)
        BY <3>3, <4>2 DEF During
      <4>3. QED BY <3>2, <3>3, <4>1, <4>2
    <3>5. QED BY <3>4
  <2>3. QED BY <1>4, <2>1, <2>2
<1>9. /\ flag_sync_started' = 1 /\ open' /\ sendcounter' = 0 /\ cnt_sync' = cnt_sync
      /\ reading' = <<>> /\ frames' = 0
  BY <1>4, ReadDevice DEF During, ReadKeeps
<1>10. CASE HostPlace(testCnt', j + 1)
  <2> HIDE DEF n, j
  <2>1. During'
    BY <1>5, <1>6, <1>7, <1>8, <1>9, <1>10 DEF During
  <2>2. QED BY <1>4, <2>1
<1>11. CASE j <= 0 /\ testCnt' = 5 /\ ended' = Head(to_host)
  <2>1. ended' # EndByte
    BY <1>3, <1>11, PlainIsNotEnd DEF GreetingAt
  <2>2. ~ (asked' < 3)
    BY <1>4, <1>11 DEF During, Asking
  <2>3. Lost'
    BY <1>11, <2>1, <2>2 DEF Lost, WellEnded
  <2>4. QED BY <1>4, <2>3
<1>12. QED BY <1>4, <1>10, <1>11

LEMMA EndingRead ==
  ASSUME InTime, Types, Ending, Read
  PROVE  (Ending' \/ After') /\ frame' = frame /\ frames' = frames
<1>1. PICK e \in 1 .. Len(to_host) : EndingAt(e)
  BY DEF Ending
<1> DEFINE n == Len(to_host)
<1>2. n \in 1 .. 6 /\ e \in 1 .. n /\ testCnt \in 0 .. 5
  <2>1. n \in 1 .. Backlog /\ Backlog \in Nat /\ Backlog <= 6
    BY ReadLine, TimesAssumption DEF InTime
  <2>2. n \in 1 .. 6
    <3> HIDE DEF n
    <3>1. QED BY <2>1
  <2>3. QED BY <1>1, <2>2 DEF Types
<1>3. 8 - e \in Int /\ 8 - e <= 7 /\ 8 - e >= 2 /\ 7 - (e - 1) = 8 - e /\ 8 - e + 1 = 8 - (e - 1)
  <2>1. e \in 1 .. 6
    <3> HIDE DEF n
    <3>1. QED BY <1>2
  <2>2. QED BY <2>1
<1>4. GreetingAt(Head(to_host), 8 - e) /\ HostPlace(testCnt, 8 - e)
  <2>1. GreetingAt(to_host[1], 7 - (e - 1)) /\ HostPlace(testCnt, 8 - e)
    BY <1>1, <1>2 DEF EndingAt
  <2>2. QED BY <1>3, <2>1, ReadLine
<1>5. /\ HostPlace(testCnt', 8 - (e - 1)) /\ to_device' = to_device /\ asked' = asked
      /\ reading' = reading /\ frame' = frame /\ frames' = frames /\ testCnt' \in 0 .. 5
  <2>1. ASSUME NEW j, j = 8 - e
        PROVE  /\ HostPlace(testCnt', j + 1) /\ to_device' = to_device /\ asked' = asked
               /\ reading' = reading /\ frame' = frame /\ frames' = frames
               /\ testCnt' \in 0 .. 5
    <3>1. j \in Int /\ j <= 7 /\ ~ (j <= 1) /\ ~ (j <= 0)
      BY <1>3, <2>1
    <3>2. GreetingAt(Head(to_host), j) /\ HostPlace(testCnt, j)
      BY <1>4, <2>1
    <3>3. QED BY <1>2, <3>1, <3>2, ReadDevice, Spelling
  <2>2. QED BY <1>3, <2>1
<1>6. /\ Quiet' /\ sendcounter' = n - e /\ out_data' = out_data
      /\ reading' = <<>> /\ frames' = 0
  BY <1>1, <1>5, ReadDevice DEF EndingAt, Quiet, ReadKeeps
<1>7. Len(to_host') = n - 1 /\ \A k \in 1 .. n - 1 : to_host'[k] = to_host[k + 1]
  BY ReadLine
<1>8. \A k \in 1 .. n : IF k <= e THEN GreetingAt(to_host[k], 7 - (e - k))
                        ELSE to_host[k] = <<out_data, k - e - 1>>
  BY <1>1 DEF EndingAt
<1> HIDE DEF n
<1>9. CASE e > 1
  <2>1. ASSUME NEW k \in 1 .. n - 1
        PROVE  IF k <= e - 1 THEN GreetingAt(to_host'[k], 7 - (e - 1 - k))
               ELSE to_host'[k] = <<out_data', k - (e - 1) - 1>>
    <3>1. /\ k + 1 \in 1 .. n /\ (k + 1 <= e <=> k <= e - 1)
          /\ 7 - (e - (k + 1)) = 7 - (e - 1 - k) /\ k + 1 - e - 1 = k - (e - 1) - 1
      BY <1>2
    <3>2. IF k + 1 <= e THEN GreetingAt(to_host[k + 1], 7 - (e - (k + 1)))
          ELSE to_host[k + 1] = <<out_data, k + 1 - e - 1>>
      BY <1>8, <3>1
    <3>3. QED BY <1>6, <1>7, <3>1, <3>2
  <2>2. ASSUME NEW f, f = e - 1 PROVE EndingAt(f)'
    <3>1. sendcounter' = Len(to_host') - f
      BY <1>2, <1>6, <1>7, <2>2
    <3>2. QED BY <1>5, <1>6, <1>7, <2>1, <2>2, <3>1 DEF EndingAt
  <2>3. e - 1 \in 1 .. Len(to_host')
    BY <1>2, <1>7, <1>9
  <2>4. Ending'
    BY <2>2, <2>3 DEF Ending
  <2>5. QED BY <1>5, <2>4
<1>10. CASE e = 1
  <2>1. testCnt' = 5
    BY <1>5, <1>10 DEF HostPlace
  <2>2. ASSUME NEW k \in 1 .. n - 1
        PROVE  to_host'[k] = <<out_data', k - 1>> /\ k <= 8
    <3>1. k + 1 \in 1 .. n /\ ~ (k + 1 <= e) /\ k + 1 - e - 1 = k - 1
      BY <1>2, <1>10
    <3>2. to_host[k + 1] = <<out_data, k + 1 - e - 1>>
      BY <1>8, <3>1
    <3>3. QED BY <1>2, <1>6, <1>7, <3>1, <3>2
  <2>3. n - 1 \in 0 .. 6 /\ sendcounter' = n - 1
    BY <1>2, <1>6, <1>10
  <2>4. out_data' \in Words \cup {PowerUp}
    BY <1>6 DEF Types
  <2>5. After'
    BY <1>6, <1>7, <2>1, <2>2, <2>3, <2>4, FrameBegins
  <2>6. QED BY <1>5, <2>5
<1>11. QED BY <1>2, <1>9, <1>10

\* The host reads a byte of its frame: the frame it reads is the word w.
LEMMA AfterRead ==
  ASSUME InTime, Types, After, FrameIsSnapshot, Read
  PROVE  After' /\ FrameIsSnapshot'
<1>1. PICK w \in Words \cup {PowerUp} : AfterWith(w)
  BY DEF After
<1> DEFINE n == Len(to_host)
           r == Len(reading)
<1>2. /\ n \in Nat /\ n >= 1 /\ n <= 6 /\ Len(to_host') = n - 1
      /\ \A k \in 1 .. n - 1 : to_host'[k] = to_host[k + 1]
  <2>1. n \in 1 .. Backlog /\ Backlog \in Nat /\ Backlog <= 6
    BY ReadLine, TimesAssumption DEF InTime
  <2>2. n \in Nat /\ n >= 1 /\ n <= 6
    <3> HIDE DEF n
    <3>1. QED BY <2>1
  <2>3. QED BY <2>2, ReadLine
<1>3. reading \in Seq(Byte) /\ r \in Nat /\ r <= 7
  <2>1. reading \in Seq(Byte) /\ Len(reading) <= LastPlace
    BY DEF Types
  <2>2. QED BY <2>1 DEF LastPlace, FrameSize
<1>4. SinceFrame = r + n /\ SinceFrame' = Len(reading') + (n - 1)
  BY <1>2 DEF SinceFrame
<1>5. /\ sendcounter = IF r + n < 8 THEN r + n ELSE r + n - 8
      /\ IF r + n < 8 THEN w = out_data ELSE out_data \in Words
      /\ testCnt = 5 /\ (frames > 0 => w \in Words)
      /\ \A k \in 1 .. r : reading[k] = <<w, k - 1>>
      /\ \A k \in 1 .. n : to_host[k] = Item(w, out_data, r + k)
  BY <1>1, <1>4 DEF AfterWith, FrameSize
<1>6. ReadFrame
  BY <1>5, ReadDevice DEF Ask, Spell
<1>7. Quiet' /\ testCnt' = 5 /\ sendcounter' = sendcounter /\ out_data' = out_data
  BY <1>1, <1>5, <1>6, ReadDevice DEF AfterWith, Quiet, ReadFrame, ReadKeeps
<1>8. Head(to_host) \in Byte /\ Head(to_host) = <<w, r>>
  <2>1. Head(to_host) = to_host[1] /\ Head(to_host) \in Byte
    BY ReadLine
  <2> HIDE DEF n, r
  <2>2. to_host[1] = Item(w, out_data, r + 1)
    BY <1>2, <1>5
  <2>3. r + 1 <= 8 /\ r + 1 - 1 = r
    BY <1>3
  <2>4. Item(w, out_data, r + 1) = <<w, r>>
    BY <1>3, <2>3 DEF Item
  <2>5. QED BY <2>1, <2>2, <2>4
<1>9. /\ Append(reading, Head(to_host)) \in Seq(Byte)
      /\ Len(Append(reading, Head(to_host))) = r + 1
      /\ \A k \in 1 .. r + 1 : Append(reading, Head(to_host))[k] = <<w, k - 1>>
  <2>1. /\ Append(reading, Head(to_host)) \in Seq(Byte)
        /\ Len(Append(reading, Head(to_host))) = r + 1
        /\ \A k \in 1 .. r : Append(reading, Head(to_host))[k] = reading[k]
        /\ Append(reading, Head(to_host))[r + 1] = <<w, r>>
    BY <1>3, <1>8, Appended
  <2> HIDE DEF r
  <2>2. QED BY <1>3, <1>5, <2>1
<1>10. CASE r < 7
  <2>1. reading' = Append(reading, Head(to_host)) /\ frame' = frame /\ frames' = frames
    <3>1. Len(reading) # FrameSize - 1
      <4>1. FrameSize - 1 = 7
        BY DEF FrameSize
      <4>2. r # 7
        <5> HIDE DEF r
        <5>1. QED BY <1>3, <1>10
      <4>3. QED BY <4>1, <4>2
    <3>2. QED BY <1>6, <3>1 DEF ReadFrame
  <2>2. FrameIsSnapshot'
    BY <1>6, <2>1 DEF FrameIsSnapshot, WellEnded, ReadFrame
  <2>3. Len(reading') = r + 1 /\ SinceFrame' = r + n
    BY <1>2, <1>3, <1>4, <1>9, <2>1
  <2>4. ASSUME NEW k \in 1 .. n - 1
        PROVE  to_host'[k] = Item(w, out_data', r + 1 + k)
    <3>1. k + 1 \in 1 .. n /\ to_host'[k] = to_host[k + 1] /\ out_data' = out_data
      BY <1>2, <1>7
    <3>2. r + 1 + k = r + (k + 1)
      BY <1>3
    <3>3. QED BY <1>5, <3>1, <3>2
  <2>5. AfterWith(w)'
    <3>1. /\ sendcounter' = IF SinceFrame' < 8 THEN SinceFrame' ELSE SinceFrame' - 8
          /\ IF SinceFrame' < 8 THEN w = out_data' ELSE out_data' \in Words
          /\ frames' > 0 => w \in Words
      BY <1>5, <1>7, <2>1, <2>3
    <3>2. \A k \in 1 .. Len(reading') : reading'[k] = <<w, k - 1>>
      BY <1>9, <2>1, <2>3
    <3>3. \A k \in 1 .. Len(to_host') :
            to_host'[k] = Item(w, out_data', Len(reading') + k)
      BY <1>2, <2>3, <2>4
    <3>4. QED BY <1>7, <3>1, <3>2, <3>3 DEF AfterWith, FrameSize
  <2>6. QED BY <2>2, <2>5 DEF After
<1>11. CASE r = 7
  <2>1. /\ reading' = <<>> /\ frame' = Append(reading, Head(to_host))
        /\ frames' = IF frames = 0 THEN 1 ELSE 2
    BY <1>6, <1>11 DEF ReadFrame, FrameSize
  <2>2. FrameIsSnapshot'
    <3>1. frame' = [k \in 1 .. 8 |-> <<w, k - 1>>]
      <4>1. frame' \in Seq(Byte) /\ Len(frame') = 8 /\ \A k \in 1 .. 8 : frame'[k] = <<w, k - 1>>
        BY <1>9, <1>11, <2>1
      <4>2. frame' = [k \in 1 .. 8 |-> frame'[k]]
        BY <4>1
      <4>3. QED BY <4>1, <4>2
    <3>2. w = PowerUp => frames' = 1
      BY <1>5, <2>1, SourcesAssumption DEF Types
    <3>3. QED BY <3>1, <3>2 DEF FrameIsSnapshot, FrameSize
  <2>3. /\ r + n - 8 = n - 1 /\ ~ (r + n < 8) /\ Len(reading') = 0
        /\ SinceFrame' = n - 1 /\ SinceFrame' < 8
    BY <1>2, <1>4, <1>11, <2>1
  <2>4. out_data \in Words /\ sendcounter = n - 1
    BY <1>5, <2>3
  <2>5. ASSUME NEW k \in 1 .. n - 1
        PROVE  to_host'[k] = <<out_data, k - 1>> /\ k <= 8
    <3> HIDE DEF n, r
    <3>1. k + 1 \in 1 .. n /\ ~ (r + (k + 1) <= 8) /\ r + (k + 1) - 9 = k - 1 /\ k <= 8
      BY <1>2, <1>3, <1>11
    <3>2. to_host[k + 1] = Item(w, out_data, r + (k + 1))
      BY <1>5, <3>1
    <3>3. Item(w, out_data, r + (k + 1)) = <<out_data, k - 1>>
      BY <1>3, <3>1 DEF Item
    <3>4. to_host'[k] = to_host[k + 1]
      BY <1>2
    <3>5. QED BY <3>1, <3>2, <3>3, <3>4
  <2>6. ASSUME NEW v, v = out_data PROVE AfterWith(v)'
    <3>1. \A k \in 1 .. n - 1 :
            to_host'[k] = Item(v, out_data', 0 + k)
      <4>1. TAKE k \in 1 .. n - 1
      <4>2. to_host'[k] = <<out_data, k - 1>> /\ k <= 8 /\ 0 + k = k
        BY <1>2, <2>5
      <4>3. QED BY <2>6, <4>2 DEF Item
    <3>2. \A k \in 1 .. 0 : reading'[k] = <<v, k - 1>>
      OBVIOUS
    <3>3. QED BY <1>2, <1>7, <2>3, <2>4, <2>6, <3>1, <3>2 DEF AfterWith, FrameSize
  <2>7. QED BY <2>2, <2>4, <2>6 DEF After
<1> HIDE DEF r
<1>12. QED BY <1>3, <1>10, <1>11
\* A host that is lost stays lost.
LEMMA LostRead ==
  ASSUME Lost, Read
  PROVE  Lost' /\ FrameIsSnapshot'
<1>1. ReadFrame
  BY ReadDevice DEF Lost, Ask, Spell
<1>2. Lost'
  BY <1>1 DEF Lost, WellEnded, ReadFrame
<1>3. QED BY <1>2 DEF Lost, FrameIsSnapshot
-----------------------------------------------------------------------------
(***************************************************************************)
(* Types, and the phases, in every step.                                   *)
(***************************************************************************)
LEMMA SlotTypes ==
  ASSUME Types, Slot
  PROVE  Types'
<1>1. /\ flag_SYNC_CMD' = 0 /\ sendcounter' = NextPlace /\ r_word' = r_word
      /\ out_data' = IF Copying THEN r_word ELSE out_data
      /\ reading' = reading /\ testCnt' = testCnt /\ frames' = frames /\ open' = open
      /\ rx_DATA' = rx_DATA /\ asked' = asked /\ ended' = ended
  BY DEF Slot, hostVars
<1>2. NextPlace \in 0 .. LastPlace
  BY DEF Types, NextPlace, LastPlace, FrameSize
<1>3. flag_sync_started' \in {0, 1} /\ cnt_sync' \in 0 .. 5
  BY DEF Types, Slot, Greeting, HelloEnds
<1>4. to_host' \in Seq(Byte) /\ to_device' \in Seq(Nat)
  BY SlotLine
<1>5. Len(to_host') <= Backlog
  <2>1. Len(to_host) \in Nat /\ Len(to_host) < Backlog /\ Backlog \in Nat
    BY SlotLine, TimesAssumption
  <2>2. CASE open
    BY <2>1, <2>2, SlotLine
  <2>3. CASE ~ open
    BY <2>1, <2>3, SlotLine
  <2>4. QED BY <2>2, <2>3
<1>6. QED BY <1>1, <1>2, <1>3, <1>4, <1>5 DEF Types

LEMMA ReadTypes ==
  ASSUME Types, Read
  PROVE  Types'
<1>1. /\ ReadKeeps /\ r_word' = r_word /\ rx_DATA' = rx_DATA /\ (Ask \/ Spell \/ ReadFrame)
  BY ReadDevice DEF Read, rxVars
<1>2. to_host' \in Seq(Byte) /\ Len(to_host') <= Backlog
  <2>1. /\ Len(to_host) \in 1 .. Backlog /\ Backlog \in Nat
        /\ to_host' \in Seq(Byte) /\ Len(to_host') = Len(to_host) - 1
    BY ReadLine, TimesAssumption
  <2>2. QED BY <2>1
<1>3. to_device' \in Seq(Nat) /\ testCnt' \in 0 .. 5 /\ frames' \in 0 .. 2
  <2>1. to_device \in Seq(Nat) /\ testCnt \in 0 .. 5 /\ frames \in 0 .. 2
    BY DEF Types
  <2>2. CASE Ask
    BY <2>1, <2>2, Appended DEF Ask
  <2>3. CASE Spell
    BY <2>1, <2>3 DEF Spell
  <2>4. CASE ReadFrame
    BY <2>1, <2>4 DEF ReadFrame
  <2>5. QED BY <1>1, <2>2, <2>3, <2>4
<1>4. reading' \in Seq(Byte) /\ Len(reading') <= LastPlace
  <2>1. CASE reading' = reading
    BY <2>1 DEF Types
  <2>2. CASE reading' = <<>>
    BY <2>2 DEF LastPlace, FrameSize
  <2>3. CASE Len(reading) < FrameSize - 1 /\ reading' = Append(reading, Head(to_host))
    <3>1. reading \in Seq(Byte) /\ Head(to_host) \in Byte
      BY ReadLine DEF Types
    <3>2. reading' \in Seq(Byte) /\ Len(reading') = Len(reading) + 1
      BY <2>3, <3>1, Appended
    <3>3. Len(reading) \in Nat /\ Len(reading) < 7 /\ LastPlace = 7
      BY <2>3, <3>1 DEF LastPlace, FrameSize
    <3>4. QED BY <3>2, <3>3
  <2>4. QED BY <1>1, <2>1, <2>2, <2>3 DEF Ask, Spell, ReadFrame
<1>5. asked' \in 0 .. 3 /\ ended' \in Byte
  <2>1. asked' = asked \/ asked' = IF asked < 3 THEN asked + 1 ELSE 3
    BY <1>1 DEF Ask, Spell, ReadFrame
  <2>2. ended' = ended \/ ended' = Head(to_host)
    BY <1>1 DEF Ask, Spell, ReadFrame
  <2>3. QED BY <2>1, <2>2, ReadLine DEF Types
<1>6. QED BY <1>1, <1>2, <1>3, <1>4, <1>5 DEF Types, ReadKeeps

\* An "A" more is one less that is missing.
LEMMA ReadAsking ==
  ASSUME Types, Asking, Read
  PROVE  Asking'
<1>1. /\ flag_SYNC_CMD' = flag_SYNC_CMD /\ flag_sync_started' = flag_sync_started
      /\ Received' = Received /\ (Ask \/ Spell \/ ReadFrame)
  BY ReadDevice DEF Read, ReadKeeps, rxVars, Received
<1>2. Received \in 0 .. 2 /\ to_device \in Seq(Nat) /\ asked \in 0 .. 3
  BY DEF Types, Received
<1>3. CASE Ask
  <2>1. Len(to_device') = Len(to_device) + 1 /\ asked' = IF asked < 3 THEN asked + 1 ELSE 3
    BY <1>2, <1>3, Appended DEF Ask
  <2>2. QED BY <1>1, <1>2, <2>1 DEF Asking
<1>4. CASE Spell \/ ReadFrame
  <2>1. to_device' = to_device /\ asked' = asked
    BY <1>4 DEF Spell, ReadFrame
  <2>2. QED BY <1>1, <2>1 DEF Asking
<1>5. QED BY <1>1, <1>3, <1>4

LEMMA SlotIInv ==
  ASSUME InTime, IInv, Slot
  PROVE  IInv'
<1>1. Types'
  BY SlotTypes DEF IInv
<1>2. Closed'
  <2>1. ASSUME ~ open
        PROVE  to_host' = <<>> /\ to_device' = <<>> /\ flag_SYNC_CMD' = 0
               /\ flag_sync_started' = 0 /\ testCnt' = 0
    <3>1. /\ to_host = <<>> /\ to_device = <<>> /\ flag_SYNC_CMD = 0
          /\ flag_sync_started = 0 /\ testCnt = 0
      BY <2>1 DEF IInv, Closed
    <3>2. to_host' = <<>> /\ to_device' \in Seq(Nat) /\ Len(to_device') = 0
      BY <2>1, <3>1, SlotLine DEF IInv
    <3>3. QED BY <3>1, <3>2 DEF Slot, Greeting, hostVars
  <2>2. open' = open
    BY DEF Slot, hostVars
  <2>3. QED BY <2>1, <2>2 DEF Closed
<1>3. Phases'
  <2>1. Lost => Lost'
    BY DEF Lost, WellEnded, Slot, hostVars
  <2>2. QED BY <2>1, BeforeSlot, DuringSlot, EndingSlot, AfterSlot DEF IInv, Phases
<1>4. FrameIsSnapshot'
  BY DEF IInv, FrameIsSnapshot, WellEnded, Slot, hostVars
<1>5. Asking'
  <2>1. Len(to_device') = Len(to_device) /\ Received' = Received /\ asked' = asked
    BY SlotLine DEF IInv, Received, Slot, hostVars
  <2>2. flag_SYNC_CMD' = 0 /\ (asked < 3 => flag_sync_started' = 0)
    BY DEF IInv, Asking, Slot, Greeting
  <2>3. QED BY <2>1, <2>2 DEF IInv, Asking
<1>6. QED BY <1>1, <1>2, <1>3, <1>4, <1>5 DEF IInv

LEMMA ReadIInv ==
  ASSUME InTime, IInv, Read
  PROVE  IInv'
<1>1. Types'
  BY ReadTypes DEF IInv
<1>2. Closed'
  BY ReadDevice DEF IInv, Closed, Read, ReadKeeps
<1>3. Asking'
  BY ReadAsking DEF IInv
<1>4. CASE Before \/ During \/ Ending
  <2>1. Phases' /\ frame' = frame /\ frames' = frames
    BY <1>4, BeforeRead, DuringRead, EndingRead DEF IInv, Phases
  <2>2. frames' = 0
    BY <1>4, <2>1 DEF Before, During, Ending, EndingAt
  <2>3. FrameIsSnapshot'
    BY <2>2 DEF FrameIsSnapshot
  <2>4. QED BY <1>1, <1>2, <1>3, <2>1, <2>3 DEF IInv
<1>5. CASE After
  BY <1>1, <1>2, <1>3, <1>5, AfterRead DEF IInv, Phases
<1>6. CASE Lost
  BY <1>1, <1>2, <1>3, <1>6, LostRead DEF IInv, Phases
<1>7. QED BY <1>4, <1>5, <1>6 DEF IInv, Phases

\* Only During a greeting does it matter how long an "A" has been on its way;
\* after a search that no greeting ended there may be "A"s, but too few.
LEMMA ReceiveIInv ==
  ASSUME IInv, Receive
  PROVE  IInv'
<1>1. /\ to_device \in Seq(Nat) /\ to_device # <<>> /\ to_device' = Tail(to_device)
      /\ flag_SYNC_CMD' \in {0, 1}
      /\ rx_DATA' = [i \in 0 .. 1 |-> IF i = 0 THEN TRUE ELSE rx_DATA[0]]
      /\ UNCHANGED <<r_word, frameVars, helloVars, to_host, hostVars>>
  BY DEF IInv, Types, Receive
<1>2. /\ to_device' \in Seq(Nat) /\ Len(to_device') = Len(to_device) - 1
      /\ Len(to_device) \in Nat \ {0}
      /\ \A a \in 1 .. Len(to_device) - 1 : to_device'[a] = to_device[a + 1]
  BY <1>1, Shortened
<1>3. rx_DATA \in [0 .. 1 -> BOOLEAN] /\ asked \in 0 .. 3
  BY DEF IInv, Types
<1>4. Types'
  <2>1. rx_DATA' \in [0 .. 1 -> BOOLEAN]
    BY <1>1, <1>3
  <2>2. QED BY <1>1, <1>2, <2>1 DEF IInv, Types, frameVars, helloVars, hostVars
<1>5. Closed'
  BY <1>1 DEF IInv, Closed, hostVars
<1>6. FrameIsSnapshot'
  BY <1>1 DEF IInv, FrameIsSnapshot, WellEnded, hostVars
<1>7. Asking' /\ (asked < 3 => flag_SYNC_CMD' = 0)
  <2>1. asked' = asked /\ flag_sync_started' = flag_sync_started
    BY <1>1 DEF hostVars, helloVars
  <2>2. rx_DATA'[0] = TRUE /\ rx_DATA'[1] = rx_DATA[0]
    BY <1>1
  <2>3. CASE asked < 3
    <3>1. flag_sync_started = 0 /\ Len(to_device) + Received <= 2
          /\ Len(to_device) + Received <= asked
      BY <1>2, <1>3, <2>3 DEF IInv, Asking, Received
    <3>2. ~ rx_DATA[1]
      BY <1>2, <3>1 DEF Received
    <3>3. flag_SYNC_CMD' = 0
      BY <3>2 DEF Receive, Decides
    <3>4. Received' = Received + 1
      BY <2>2, <3>2 DEF Received
    <3>5. Received \in Nat
      BY DEF Received
    <3>6. Len(to_device') + Received' <= asked'
      BY <1>2, <1>3, <2>1, <3>1, <3>4, <3>5
    <3>7. QED BY <2>1, <3>1, <3>3, <3>6 DEF Asking
  <2>4. QED BY <2>1, <2>3 DEF Asking
<1>8. Quiet => Quiet'
  BY <1>1, <1>7 DEF Quiet, helloVars, hostVars
<1>9. Phases'
  <2>1. CASE Before
    <3>1. \A k \in 1 .. Len(to_host) : FrameFollows(k) => FrameFollows(k)'
      BY <1>1 DEF FrameFollows, frameVars
    <3>2. Before'
      BY <1>1, <2>1, <3>1 DEF Before, helloVars, hostVars
    <3>3. QED BY <3>2 DEF Phases
  <2>2. CASE During
    <3>1. ASSUME NEW a \in 1 .. Len(to_device')
          PROVE  cnt_sync - to_device'[a] < Backlog
      <4>1. a + 1 \in 1 .. Len(to_device) /\ to_device'[a] = to_device[a + 1]
        BY <1>2
      <4>2. QED BY <2>2, <4>1 DEF During
    <3>2. During'
      BY <1>1, <2>2, <3>1 DEF During, frameVars, helloVars, hostVars
    <3>3. QED BY <3>2 DEF Phases
  <2>3. CASE Ending
    <3>1. ASSUME NEW e, EndingAt(e) PROVE EndingAt(e)'
      BY <1>1, <1>8, <3>1 DEF EndingAt, frameVars, hostVars
    <3>2. to_host' = to_host
      BY <1>1
    <3>3. QED BY <2>3, <3>1, <3>2 DEF Ending, Phases
  <2>4. CASE After
    <3>1. ASSUME NEW w, AfterWith(w) PROVE AfterWith(w)'
      BY <1>1, <1>8, <3>1 DEF AfterWith, SinceFrame, frameVars, hostVars
    <3>2. QED BY <2>4, <3>1 DEF After, Phases
  <2>5. CASE Lost
    BY <1>1, <2>5 DEF Lost, WellEnded, Phases, hostVars
  <2>6. QED BY <2>1, <2>2, <2>3, <2>4, <2>5 DEF IInv, Phases
<1>10. QED BY <1>4, <1>5, <1>6, <1>7, <1>9 DEF IInv

\* What an action does not write, it does not disturb.
Watched == <<flag_SYNC_CMD, rx_DATA, cnt_sync, flag_sync_started, sendcounter, out_data,
             to_host, to_device, open, testCnt, reading, frame, frames, asked, ended>>

LEMMA Untouched ==
  ASSUME IInv, r_word' \in Words, UNCHANGED Watched
  PROVE  IInv'
<1>1. Types' /\ Closed' /\ Asking'
  BY DEF IInv, Types, Closed, Asking, Received, Watched
<1>2. FrameIsSnapshot'
  BY DEF IInv, FrameIsSnapshot, WellEnded, Watched
<1>3. (Before => Before') /\ (During => During')
  BY DEF Before, FrameFollows, During, Watched
<1>4. Ending => Ending'
  BY DEF Ending, EndingAt, Quiet, Watched
<1>5. After => After'
  BY DEF After, AfterWith, SinceFrame, Quiet, Watched
<1>6. Lost => Lost'
  BY DEF Lost, WellEnded, Watched
<1>7. QED BY <1>1, <1>2, <1>3, <1>4, <1>5, <1>6 DEF IInv, Phases

\* The port that is opened finds the line idle.
LEMMA OpenIInv ==
  ASSUME IInv, Open
  PROVE  IInv'
<1>1. Before
  BY DEF IInv, Closed, Phases, During, Ending, EndingAt, After, AfterWith, Lost, Quiet, Open
<1>2. Before'
  <2>1. to_host = <<>> /\ to_host' = <<>>
    BY DEF IInv, Closed, Open
  <2>2. QED BY <1>1, <2>1 DEF Before, Open, helloVars
<1>3. Types' /\ Closed' /\ Asking' /\ FrameIsSnapshot'
  BY DEF IInv, Types, Closed, Asking, Received, FrameIsSnapshot, WellEnded, Open, rxVars,
     frameVars, helloVars
<1>4. QED BY <1>2, <1>3 DEF IInv, Phases

LEMMA InitIInv == Init => IInv
<1> SUFFICES ASSUME Init PROVE IInv
  OBVIOUS
<1>1. Asking /\ FrameIsSnapshot
  BY DEF Init, Asking, Received, FrameIsSnapshot
<1>2. CASE open
  <2>1. /\ to_host = <<Other>> /\ Other \in Byte /\ Len(to_host) = 1 /\ Plain(to_host[1])
        /\ to_host[1][2] = 4
    BY <1>2, Letters DEF Init, Other
  <2>2. Types
    BY <2>1, TimesAssumption DEF Init, Types, LastPlace, FrameSize
  <2>3. Before /\ Closed
    BY <1>2, <2>1 DEF Init, Before, FrameFollows, Closed, LastPlace, FrameSize
  <2>4. QED BY <1>1, <2>2, <2>3 DEF IInv, Phases
<1>3. CASE ~ open
  <2>1. Types
    BY <1>3, TimesAssumption, Letters DEF Init, Types, LastPlace, FrameSize
  <2>2. Before /\ Closed
    BY <1>3 DEF Init, Before, Closed
  <2>3. QED BY <1>1, <2>1, <2>2 DEF IInv, Phases
<1>4. QED BY <1>2, <1>3

LEMMA NextIInv ==
  ASSUME InTime, IInv, [Next]_vars
  PROVE  IInv'
<1>1. ASSUME NEW w \in Words, Enable(w) PROVE IInv'
  BY <1>1, Untouched DEF Enable, Watched, rxVars, frameVars, helloVars, hostVars
<1>2. CASE UNCHANGED vars
  BY <1>2, Untouched DEF IInv, Types, vars, Watched, rxVars, frameVars, helloVars, hostVars
<1>3. QED BY <1>1, <1>2, ReceiveIInv, SlotIInv, OpenIInv, ReadIInv DEF Next

LEMMA Invariance ==
  ASSUME InTime
  PROVE  Spec => []IInv
<1>1. IInv /\ [Next]_vars => IInv'
  BY NextIInv
<1>2. QED BY <1>1, InitIInv, PTL DEF Spec

-----------------------------------------------------------------------------
\* A host whose search was ended by the greeting, or by SyncDATA before it had
\* asked three times, reads the device's frames in step, whatever its data
\* look like: if Backlog and Lag are within the greeting, none of the "A"s it
\* wrote gets a second greeting out of the device.
THEOREM HelloAligns ==
  ASSUME InTime
  PROVE  Spec => []HostAligned
<1>1. IInv => HostAligned
  <2> SUFFICES ASSUME IInv, testCnt = 5, WellEnded
               PROVE  (Len(reading) + Len(to_host)) % FrameSize = sendcounter
    BY DEF HostAligned
  <2> DEFINE n == Len(to_host)
             r == Len(reading)
  <2>1. n \in Nat /\ n <= 6 /\ r \in Nat /\ r <= 7 /\ cnt_sync \in 0 .. 5
    <3>1. /\ n \in Nat /\ n <= Backlog /\ Backlog \in Nat /\ Backlog <= 6
          /\ r \in Nat /\ r <= LastPlace /\ LastPlace = 7 /\ cnt_sync \in 0 .. 5
      BY TimesAssumption DEF IInv, Types, InTime, LastPlace, FrameSize
    <3> HIDE DEF n, r
    <3>2. QED BY <3>1
  <2>2. ~ Before
    BY DEF Before
  <2>3. ~ During
    <3>1. HostPlace(testCnt, cnt_sync + 2 - n) => FALSE
      <4> HIDE DEF n
      <4>1. QED BY <2>1 DEF HostPlace
    <3>2. QED BY <3>1 DEF During
  <2>4. ~ Ending
    <3>1. ASSUME NEW e \in 1 .. n, HostPlace(testCnt, 8 - e) PROVE FALSE
      <4> HIDE DEF n
      <4>1. QED BY <2>1, <3>1 DEF HostPlace
    <3>2. QED BY <3>1 DEF Ending, EndingAt
  <2>5. PICK w \in Words \cup {PowerUp} : AfterWith(w)
    BY <2>2, <2>3, <2>4 DEF IInv, Phases, After, Lost
  <2>6. sendcounter = IF r + n < 8 THEN r + n ELSE r + n - 8
    BY <2>5 DEF AfterWith, SinceFrame, FrameSize
  <2>7. (r + n) % 8 = sendcounter
    <3> HIDE DEF n, r
    <3>1. QED BY <2>1, <2>6
  <2>8. QED BY <2>7 DEF FrameSize
<1>2. QED BY <1>1, Invariance, PTL

\* Every frame such a host reads is one word of the device with its SyncDATA,
\* and only the first may be what the device was powered up with.
THEOREM HelloFramesWhole ==
  ASSUME InTime
  PROVE  Spec => []FrameIsSnapshot
<1>1. IInv => FrameIsSnapshot
  BY DEF IInv
<1>2. QED BY <1>1, Invariance, PTL
=============================================================================
