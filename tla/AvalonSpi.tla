----------------------------- MODULE AvalonSpi -----------------------------
(***************************************************************************)
(* SPIbus.cpp of the NINA module: reads and writes of the FPGA's registers *)
(* are packets (transactions over Avalon-ST), packets are bytes, and bytes *)
(* are exchanged over SPI in both directions at once.  Pure operators; a   *)
(* word is the sequence of its four bytes, lowest first, an address the    *)
(* pair of the third byte of the base and the register's number.           *)
(*                                                                         *)
(* The FPGA's end is external, known by what the library sends and takes:  *)
(* it skips bytes outside packets, and its answers name the channel before *)
(* SOP, as fpga_read expects (73-75).                                      *)
(***************************************************************************)
EXTENDS Integers, Sequences, SequencesExt

BYTESIDLECHAR == 74   \* 0x4a
BYTESESCCHAR  == 77   \* 0x4d
SOP     == 122        \* 0x7a
EOP     == 123        \* 0x7b
CHANNEL == 124        \* 0x7c
ESC     == 125        \* 0x7d

SEQUENTIAL_WRITE == 4
SEQUENTIAL_READ  == 20

Byte == 0 .. 255
xor_20(val) == IF (val \div 32) % 2 = 0 THEN val + 32 ELSE val - 32

Zeros(n) == [k \in 1 .. n |-> 0]

\* op over the bytes of s from the left; FoldLeft of SequencesExt takes
\* quadratic time in TLC.
Parse(op(_, _), start, s) ==
  LET after[k \in 0 .. Len(s)] == IF k = 0 THEN start ELSE op(after[k - 1], s[k])
  IN after[Len(s)]

-----------------------------------------------------------------------------
(* Sending. *)

\* A call of the library: size is 4.
Header(type, addr) == <<type, 0, 0, 4, 0, addr[1], 4 * addr[2], 0>>

PacketByte(b) == IF b \in {SOP, EOP, CHANNEL, ESC} THEN <<ESC, xor_20(b)>> ELSE <<b>>
CoreByte(b)   == IF b \in {BYTESIDLECHAR, BYTESESCCHAR} THEN <<BYTESESCCHAR, xor_20(b)>> ELSE <<b>>

\* Mutant: EOP after the last byte.
PacketLate(data) ==
  <<SOP, CHANNEL, 0>> \o FlattenSeq([k \in DOMAIN data |-> PacketByte(data[k])]) \o <<EOP>>

\* packet_to_byte_convert: EOP goes before the last byte.
Packet(data) ==
  <<SOP, CHANNEL, 0>>
    \o FlattenSeq([k \in DOMAIN data |->
                     IF k = Len(data) THEN <<EOP>> \o PacketByte(data[k]) ELSE PacketByte(data[k])])

\* byte_to_core_convert.
Core(packet) == FlattenSeq([k \in DOMAIN packet |-> CoreByte(packet[k])])

\* send_byte_buffer after a call: what was longer before is not cleared.
Buffered(bytes, old) == bytes \o SubSeq(old, Len(bytes) + 1, Len(old))

-----------------------------------------------------------------------------
(* Receiving. *)

\* An escape, an idle byte or a plain one.
CoreTake(st, b) ==
  IF st.esc THEN [out |-> Append(st.out, xor_20(b)), esc |-> FALSE]
  ELSE IF b = BYTESIDLECHAR THEN st
  ELSE IF b = BYTESESCCHAR THEN [st EXCEPT !.esc = TRUE]
  ELSE [st EXCEPT !.out = Append(st.out, b)]

\* The bytes of the buffer without idle bytes and escapes.
FromCore(bytes) == Parse(CoreTake, [out |-> <<>>, esc |-> FALSE], bytes).out

\* Mutant: the byte after EOP is not unescaped.
LastBytePlain(st, b) == [out |-> Append(st.out, b), mode |-> "done"]

LastByte(st, b) ==
  IF b \in {ESC, CHANNEL, SOP} THEN [st EXCEPT !.mode = "lastesc"]
  ELSE [out |-> Append(st.out, b), mode |-> "done"]

\* response_max_len of packet_to_byte_convert for a word.
MaxLen == 12

\* A channel or a start within a packet passes for an escape, and the byte
\* after it is read even if it is beyond the end.
PacketTake(p, st, k) ==
  LET b == p[k] IN
  CASE st.mode = "seek" -> IF b = SOP /\ k <= MaxLen THEN [st EXCEPT !.mode = "in"] ELSE st
    [] st.mode = "in" ->
         IF k > MaxLen THEN [st EXCEPT !.mode = "done"]
         ELSE IF b \in {ESC, CHANNEL, SOP} THEN [st EXCEPT !.mode = "esc"]
         ELSE IF b = EOP THEN [st EXCEPT !.mode = "last"]
         ELSE [st EXCEPT !.out = Append(st.out, b)]
    [] st.mode = "esc" -> [out |-> Append(st.out, xor_20(b)), mode |-> "in"]
    [] st.mode = "last" -> LastByte(st, b)
    [] st.mode = "lastesc" -> [out |-> Append(st.out, xor_20(b)), mode |-> "done"]
    [] OTHER -> st

\* The data of the first packet that starts within response_max_len.
FromPacket(p) ==
  Parse(LAMBDA st, k : PacketTake(p, st, k), [out |-> <<>>, mode |-> "seek"],
        [k \in 1 .. MaxLen + 2 |-> k]).out

\* Mutant: the answer is taken as long as it is.
ResponseAsLong(rx, old) == FromPacket(FromCore(rx \o Zeros(14)))

\* response_buffer_ after a call.  Of the 192 bytes that are looked at those
\* beyond the longest transfer are zeros.
Response(rx, old) ==
  LET data == FromPacket(FromCore(rx \o Zeros(14)))
  IN [k \in 1 .. 4 |-> IF k <= Len(data) THEN data[k] ELSE old[k]]

\* The loop of fpga_read looks through what was received for a packet once
\* more, and with it through garbage bytes that it never wrote.
SCAN == 40
Unread == SCAN + 1     \* how many of them it may touch

\* A byte is written over those that were read.
ScanPut(s, b) == [s EXCEPT !.d[s.to] = b, !.to = s.to + 1]

\* A channel, and a packet behind it.
ScanStart(s) ==
  IF s.d[s.at] # CHANNEL THEN s
  ELSE IF s.d[s.at + 2] # SOP THEN [s EXCEPT !.at = s.at + 2]
  ELSE [s EXCEPT !.at = s.at + 3, !.in = TRUE]

\* The end of the packet: its last byte.  The byte behind that is copied too.
ScanEnd(s) ==
  IF s.d[s.at] # EOP THEN s
  ELSE ScanPut([s EXCEPT !.at = s.at + 2, !.in = FALSE], s.d[s.at + 1])

\* A byte of the packet.
ScanCopy(s) == IF ~s.in THEN s ELSE LET l == ScanEnd(s) IN ScanPut(l, l.d[l.at])

\* One round of the loop.
ReparseRound(st, k) ==
  IF st.at >= SCAN THEN st
  ELSE LET c == IF st.d[st.at] = BYTESIDLECHAR THEN st ELSE ScanCopy(ScanStart(st))
       IN [c EXCEPT !.at = c.at + 1]

Reparsed(word, garbage) ==
  LET all == word \o garbage
  IN Parse(ReparseRound,
           [d |-> [k \in 0 .. Len(all) - 1 |-> all[k + 1]], at |-> 0, to |-> 0, in |-> FALSE],
           [k \in 1 .. SCAN |-> k]).d

\* Mutant: the escapes of packets are undone instead.
UnescapedPacket(d) == [k \in 1 .. 4 |-> IF d[k - 1] = ESC THEN xor_20(d[k]) ELSE d[k - 1]]

\* An escape takes a round more, that of the byte behind it.
UnescapeRound(st, k) ==
  IF st.skip THEN [st EXCEPT !.skip = FALSE]
  ELSE IF st.d[k] = BYTESESCCHAR
       THEN [d |-> [st.d EXCEPT ![k] = xor_20(st.d[k + 1]), ![k + 1] = 0], skip |-> TRUE]
  ELSE IF st.d[k] = BYTESIDLECHAR THEN [st EXCEPT !.d[k] = 0]
  ELSE st

\* Then it undoes the escapes of the bytes once more.
Unescaped(d) ==
  LET u == Parse(UnescapeRound, [d |-> d, skip |-> FALSE], <<0, 1, 2, 3>>).d
  IN [k \in 1 .. 4 |-> u[k - 1]]

\* What fpga_read returns of the word it received.
Returned(word, garbage) == Unescaped(Reparsed(word, garbage))

-----------------------------------------------------------------------------
(* The FPGA: the requests in the bytes it is sent, and the answer to one. *)

\* Bytes outside packets are skipped; EOP announces the last byte.
RequestTake(st, b) ==
  CASE st.mode = "out" -> IF b = SOP THEN [st EXCEPT !.mode = "in", !.data = <<>>] ELSE st
    [] st.mode = "in" ->
         IF b = CHANNEL THEN [st EXCEPT !.mode = "channel"]
         ELSE IF b = ESC THEN [st EXCEPT !.mode = "esc"]
         ELSE IF b = EOP THEN [st EXCEPT !.mode = "last"]
         ELSE IF b = SOP THEN [st EXCEPT !.data = <<>>]
         ELSE [st EXCEPT !.data = Append(st.data, b)]
    [] st.mode = "channel" -> [st EXCEPT !.mode = "in"]
    [] st.mode = "esc" -> [st EXCEPT !.mode = "in", !.data = Append(st.data, xor_20(b))]
    [] st.mode = "last" ->
         IF b = ESC THEN [st EXCEPT !.mode = "lastesc"]
         ELSE [got |-> Append(st.got, Append(st.data, b)), mode |-> "out", data |-> <<>>]
    [] OTHER -> [got |-> Append(st.got, Append(st.data, xor_20(b))), mode |-> "out", data |-> <<>>]

Requests(tx) ==
  Parse(RequestTake, [got |-> <<>>, mode |-> "out", data |-> <<>>], FromCore(tx)).got

Answer(data) ==
  Core(<<CHANNEL, 0, SOP>> \o SubSeq(Packet(data), 4, Len(Packet(data))))
=============================================================================
