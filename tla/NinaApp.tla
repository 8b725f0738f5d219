------------------------------ MODULE NinaApp ------------------------------
(***************************************************************************)
(* The program of the NINA module of the Vidor board: app_main waits for   *)
(* the WiFi in the constructor of WIFI, writes six registers of the FPGA   *)
(* over SPI and then reads registers for ever.  Beside it run the event    *)
(* task of the WiFi driver, which clears the flag that app_main waits for, *)
(* and the FPGA, one register of which counts by itself.                   *)
(*                                                                         *)
(* wifi_waitflag is neither atomic nor volatile: the compiler may read it  *)
(* once and, if it is set, wait for ever.  Which one it did is in hoisted. *)
(***************************************************************************)
EXTENDS AvalonSpi

CONSTANTS
  Registers,  \* how many are read of each base; 20
  Live,       \* the register of base 0 that changes by itself
  Words,      \* its values
  Garbage,    \* what the stack may hold beyond the word in fpga_read
  Lags        \* after how many bytes the FPGA answers; Silent if it does not

Silent == 99

ASSUME RegistersAssumption == Registers \in 3 .. 63 /\ Live \in 3 .. Registers - 1
ASSUME WordsAssumption     == Words \subseteq [1 .. 4 -> Byte] /\ Zeros(4) \in Words
ASSUME GarbageAssumption   == Garbage \subseteq [1 .. Unread -> Byte]
ASSUME LagsAssumption      == Lags \subseteq 0 .. 32 \cup {Silent}

VARIABLES
  pc, next,            \* app_main, and which call of it comes next
  wifi_waitflag, hoisted, link,
  send_byte_buffer, response_byte_buffer, response_buffer,
  mem, out,            \* the FPGA: its registers, and bytes it has still to send
  call, seen,          \* history: the last call, the requests the FPGA saw in it,
  value, want,         \* what it returned, what the register held, whether the
  whole, clean         \* answer was all that the transfer brought, and whether the
                       \* bytes behind the word did not mislead fpga_read

wifi  == <<wifi_waitflag, hoisted, link>>
spi   == <<send_byte_buffer, response_byte_buffer, response_buffer>>
fpga  == <<mem, out>>
last  == <<call, seen, value, want, whole, clean>>
vars  == <<pc, next, wifi, spi, fpga, last>>

Base == {0, 4}       \* 0x0 and 0x40000
Addr == Base \X (0 .. Registers - 1)
Word(n) == <<n, 0, 0, 0>>

\* The writes of app_main.
Setup == << <<<<0, 0>>, Word(16)>>, <<<<0, 1>>, Word(0)>>, <<<<0, 2>>, Word(14)>>,
            <<<<4, 0>>, Word(17)>>, <<<<4, 1>>, Word(0)>>, <<<<4, 2>>, Word(13)>> >>

\* The longest transfer of app_main: a write, of 16 bytes, and as many again.
Longest == 32

Init ==
  /\ pc = "boot" /\ next = 0
  /\ wifi_waitflag = 0 /\ hoisted \in BOOLEAN /\ link = "off"
  /\ send_byte_buffer = Zeros(Longest) /\ response_byte_buffer = Zeros(Longest)
  /\ response_buffer = Zeros(4)
  /\ mem = [a \in Addr |-> Zeros(4)] /\ out = <<>>
  /\ call = <<>> /\ seen = <<>> /\ value = Zeros(4) /\ want = Zeros(4)
  /\ whole = FALSE /\ clean = TRUE

-----------------------------------------------------------------------------
(* WIFI::wifi_init. *)

Boot ==
  /\ pc = "boot"
  /\ pc' = "start" /\ wifi_waitflag' = 1
  /\ UNCHANGED <<next, hoisted, link, spi, fpga, last>>

\* esp_wifi_start.
Start ==
  /\ pc = "start"
  /\ pc' = "wait" /\ link' = "started"
  /\ UNCHANGED <<next, wifi_waitflag, hoisted, spi, fpga, last>>

Wait ==
  /\ pc = "wait"
  /\ pc' = IF wifi_waitflag = 0 THEN "write" ELSE IF hoisted THEN "stuck" ELSE "wait"
  /\ UNCHANGED <<next, wifi, spi, fpga, last>>

(* wifi_event_handler, in the task of the driver, which goes on while        *)
(* app_main talks to the FPGA.                                               *)

StaStart ==
  /\ link = "started"
  /\ link' = "connecting"
  /\ UNCHANGED <<pc, next, wifi_waitflag, hoisted, spi, fpga, last>>

GotIp ==
  /\ link = "connecting"
  /\ link' = "up" /\ wifi_waitflag' = 0
  /\ UNCHANGED <<pc, next, hoisted, spi, fpga, last>>

\* Mutant: the handler does not connect again.
DisconnectedStays ==
  /\ link \in {"connecting", "up"}
  /\ link' = "off"
  /\ UNCHANGED <<pc, next, wifi_waitflag, hoisted, spi, fpga, last>>

\* Also what the driver reports when a connection cannot be made.
Disconnected ==
  /\ link \in {"connecting", "up"}
  /\ link' = "connecting"
  /\ UNCHANGED <<pc, next, wifi_waitflag, hoisted, spi, fpga, last>>

-----------------------------------------------------------------------------
(* do_transaction and what it calls: one transfer of twice as many bytes as  *)
(* the request has.  Failures of the driver are left out: ESP_ERROR_CHECK    *)
(* (SPIbus.cpp:569) aborts the program then.                                 *)

Request(type, addr, data) == Header(type, addr) \o data

\* What the FPGA sends in a transfer of n bytes of which the first half is
\* the request, and what is left of it for the next one.
Stream(lag, n, answer) ==
  LET answered == IF lag = Silent THEN out
                  ELSE LET pause == n \div 2 + lag - Len(out)
                       IN out \o [k \in 1 .. IF pause < 0 THEN 0 ELSE pause |-> BYTESIDLECHAR] \o answer
  IN answered \o [k \in 1 .. n |-> BYTESIDLECHAR]

Transact(type, addr, data, answer) ==
  \E lag \in Lags :
    LET bytes  == Core(Packet(Request(type, addr, data)))
        tx     == Buffered(bytes, send_byte_buffer)
        n      == 2 * Len(bytes)
        stream == Stream(lag, n, answer)
        sent   == IF lag = Silent THEN Len(out) ELSE Len(stream) - n
    IN /\ send_byte_buffer' = tx
       /\ response_byte_buffer' = Buffered(SubSeq(stream, 1, n), response_byte_buffer)
       /\ response_buffer' = Response(response_byte_buffer', response_buffer)
       /\ out' = SubSeq(stream, n + 1, sent)
       /\ whole' = (out = <<>> /\ lag # Silent /\ sent <= n)
       /\ call' = Request(type, addr, data)
       /\ seen' = Requests(SubSeq(tx, 1, n))
       /\ mem' = IF lag # Silent /\ type = SEQUENTIAL_WRITE THEN [mem EXCEPT ![addr] = data] ELSE mem

\* The result of a write is not looked at.
fpga_write ==
  /\ pc = "write"
  /\ LET w == Setup[next + 1]
     IN /\ Transact(SEQUENTIAL_WRITE, w[1], w[2], Answer(<<SEQUENTIAL_WRITE + 128, 0, 0, 4>>))
        /\ want' = <<SEQUENTIAL_WRITE + 128, 0, 0, 4>>
  /\ next' = (next + 1) % Len(Setup)
  /\ pc' = IF next' = 0 THEN "read" ELSE "write"
  /\ UNCHANGED <<wifi, value, clean>>

\* fpga_read finds the head of a packet within the word itself; a channel is
\* passed together with the two bytes behind it.
StartsIn(word) ==
  IF word[1] = CHANNEL THEN word[3] = SOP ELSE word[2] = CHANNEL /\ word[4] = SOP

\* What is behind the word misleads fpga_read: a packet begins there, or with
\* the last bytes of the word; the first byte completes an escape that begins
\* in the last one of the word; or a packet that began within the word goes on
\* with bytes that may, by chance, spell the word again.
Misled(word, garbage) ==
  LET all == word \o garbage
  IN \/ \E k \in 3 .. SCAN : all[k] = CHANNEL /\ all[k + 2] = SOP
     \/ garbage[1] = xor_20(BYTESESCCHAR)
     \/ /\ StartsIn(word)
        /\ \E k \in 1 .. Unread : garbage[k] \in {BYTESIDLECHAR, BYTESESCCHAR, SOP, CHANNEL}

fpga_read ==
  /\ pc = "read"
  /\ LET addr == <<IF next % 2 = 0 THEN 0 ELSE 4, next \div 2>>
     IN /\ Transact(SEQUENTIAL_READ, addr, <<>>, Answer(mem[addr]))
        /\ want' = mem[addr]
  /\ \E g \in Garbage : /\ value' = Returned(response_buffer', g)
                         /\ clean' = ~Misled(response_buffer', g)
  /\ next' = (next + 1) % (2 * Registers)
  /\ UNCHANGED <<pc, wifi>>

-----------------------------------------------------------------------------
(* The FPGA. *)

Count ==
  /\ \E w \in Words \ {mem[<<0, Live>>]} : mem' = [mem EXCEPT ![<<0, Live>>] = w]
  /\ UNCHANGED <<pc, next, wifi, spi, out, last>>

Next ==
  \/ Boot \/ Start \/ Wait
  \/ StaStart \/ GotIp \/ Disconnected
  \/ fpga_write \/ fpga_read
  \/ Count

\* app_main is scheduled, and so is the driver's task; an access point that
\* is tried again and again grants an address at last.
Fairness ==
  /\ WF_vars(Boot \/ Start \/ Wait)
  /\ WF_vars(StaStart)
  /\ SF_vars(GotIp)

Spec == Init /\ [][Next]_vars /\ Fairness

-----------------------------------------------------------------------------
(* Properties. *)

ByteSeq(n) == [1 .. n -> Byte]

\* Types; the buffers of the library keep their length, and no more than an
\* answer is ever left behind.
TypeOK ==
  /\ pc \in {"boot", "start", "wait", "stuck", "write", "read"}
  /\ next \in 0 .. 2 * Registers - 1
  /\ wifi_waitflag \in {0, 1} /\ hoisted \in BOOLEAN
  /\ link \in {"off", "started", "connecting", "up"}
  /\ send_byte_buffer \in ByteSeq(Longest) /\ response_byte_buffer \in ByteSeq(Longest)
  /\ response_buffer \in ByteSeq(4) /\ value \in ByteSeq(4) /\ want \in ByteSeq(4)
  /\ mem \in [Addr -> ByteSeq(4)] /\ Len(out) <= Longest
  /\ whole \in BOOLEAN /\ clean \in BOOLEAN

\* Every transfer sends as many bytes again as the request has, and those
\* are remains of older requests; still the FPGA sees this request and no other.
OneRequest == call # <<>> => seen = <<call>>

\* An answer that came whole and alone is decoded to what the FPGA sent,
\* wherever it starts, whatever it has to escape and whatever older bytes
\* follow it in the buffer.
AnswerDecoded == whole => response_buffer = want

\* fpga_read looks for a packet in what is decoded already, and undoes its
\* escapes again (71-101).  Where what is behind the word does not mislead it,
\* that leaves exactly the words alone in which neither of the two bytes occurs
\* that the SPI core escapes and no head of a packet is found; every other
\* register is misread.
Plain(word) ==
  ~StartsIn(word) /\ \A k \in 1 .. 4 : word[k] \notin {BYTESIDLECHAR, BYTESESCCHAR}

ReadExactIff ==
  (pc = "read" /\ call[1] = SEQUENTIAL_READ /\ whole /\ clean) => (value = want <=> Plain(want))

\* However often the connection fails, app_main gets to its registers, if the
\* compiler reads the flag each time.
GetsToRegisters == (pc = "boot" /\ ~hoisted) ~> (pc = "write")
=============================================================================
