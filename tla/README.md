# TLA+ models of Sausy/templates

The repository is a collection of building blocks around a triangulation
system: a Raspberry Pi that commands nodes over multicast UDP and MQTT, FPGA
cores (UART, SPI, a UART-to-SPI bridge, time stamping over ultrasound) that the
nodes are made of, and host programs that talk to them. This directory models
the parts of it in which order and timing matter, checks them with TLC on small
instances and proves the central properties with TLAPS for every value of the
constants.

## 1. Inventory

| Part (under `src/`) | State it keeps | Operations | Interacts with |
|---|---|---|---|
| `UDP_tools/pi_master`: main thread (`main.cpp`) | menu key, input stream, loop counter of `send_master_id`, MQTT flags, atomics `running`, `allow_tx`, `id_tx` | menu cases 1-7, ESC, exit sequence | transmitter through the atomics, broker through mosquitto |
| transmitter thread (`udp_data_tx.cpp`) | message being formatted, socket | `udp_init`, `loop` | main (spins on `allow_tx`), nodes by multicast |
| receiver threads (`udp_data_rx.cpp`), two of them | socket, a private copy of the data vector | `udp_init`, `loop` | nodes; main only through `running` and the join |
| MQTT callback (`main.cpp`) | `t_dat`, `tag_dat`, `count_data` | `my_message_callback` | mosquitto's thread; nodes through the broker |
| `master_gen.cpp`, `rviz_interface.cpp` | none (commented out), marker list | - | ROS |
| `ip-cores/UART/Uart.v`: `uart_tx` | state, clock and bit counters, byte, done and active flags, serial output | one clock edge | its client through `i_Tx_DV`/`o_Tx_Done`, the line |
| `uart_rx` | two synchronising flip-flops, state, counters, byte, strobe | one clock edge | the line, its client through `o_Rx_DV` |
| `uartCTL` | input registers, output register, byte counter, wait flag, synchronisation counter | one clock edge | `uart_tx`, a client through `flag_allow_new_data`, the host over the line |
| `ip-cores/UART_debug_interface/UartDebug.py` | window of the last twelve bytes, bytes of the frame being read | synchronise, read, decode and print | `uartCTL` over the line |
| `ip-cores/common/Uart.v`: `Uart`, and its `UartDebug.py` | like `uartCTL`, with an eight byte frame, the last bytes received, a command and a greeting counter; the host's place in the greeting and in a frame | load a byte, receive a byte; ask, spell, read a frame | each other over both directions of the line |
| `ip-cores/common/buffer.v`, `shiftBuffer.v`, `tri_state.v` | generated flip-flops and a shift register | shift | - |
| `ip-cores/UART/UartCtrl.v` | generated by SpinalHDL | - | - |
| `ip-cores/uart2spi/rtl` | command parser, register file, SPI configuration, shifter, UART state machines | read and write commands typed on a terminal | a terminal, an SPI device |
| `ip-cores/spiMaster`, `ip-cores/spiSlave` | edge counters, shift registers, clock domain crossings | transfer of a byte | each other's wires, their clients |
| `vidor_basic/HDL/ip/PTP/ptp_via_US.v`: `ptp_sync`, with two `PTP_ctl` | request, role, enable, reset and finished flags; per `PTP_ctl` a phase, a clock count, a pulse count and the measured time | one clock edge; a write of a register | another board by ultrasound, software by registers |
| `vidor_basic/HDL/ip/PTP/ID_Switch.v` | registers | read, write | software |
| `vidor_basic/software/vidorSAM`: `jtag.c`, and `setup()` of `vidorSAM.ino` | the copy of the TAP's state, the place of the virtual node, the last virtual instruction; words of the mailbox | scan, reload, reset, write and read words, send a command and poll | the FPGA over JTAG; whoever drives the port when it is released |
| `vidor_basic/software/nina`: `main.cpp`, `ninaWifi.cpp`, `fpga_read` and `fpga_write` of `SPIbus.cpp` | the flag that the start waits for, send and answer buffers | connect, write and read registers of the FPGA | the WiFi driver's task by the flag, the FPGA over SPI |
| `threats/*`, `UDP_tools/socket*` | sockets, threads | send and receive loops | UDP peers |
| the rest | build templates, ROS talkers, table and test bench generators, vendored and generated HDL | - | - |

What is hard in it: the threads of `pi_master` share three atomics and no
lock, and use `allow_tx` both as a request and as its acknowledgement; the
message is formatted before the request is looked at; every thread can block
for ever in a system call. The UART cores are synchronous machines that are
composed by strobes of one clock, and their two ends run on unrelated clocks.
`uartCTL` and its host agree on a byte count that neither tells the other; its
successor greets the host first, and the host's questions race the greeting.
The MQTT callback counts messages that may be lost on the way.
The JTAG library of the Vidor board never reads back what it believes of the
FPGA, and its mailbox gives up on an FPGA that may answer later. The NINA module
waits for a flag that another task clears, and looks for its answer among what
is left of older ones. `ptp_sync` gates clocks with registers of the same clock,
and takes whatever pulse it hears for the answer to its own.
What makes each part correct is stated with its module below; the lines at
which each hazard bites are in `PROJECT.json`.

## 2. Modules

| Module | Models | Role |
|---|---|---|
| `PiMaster` | `main.cpp`, `udp_data_tx.cpp`, `udp_data_rx.cpp` | four threads, one step for each access to an atomic, a socket or standard input |
| `UartFrame` | parameters of a frame | constants shared by the UART modules |
| `UartTx` | `uart_tx` | one step for each clock edge |
| `SerialLine` | what `uart_tx` promises | abstract: a walk over the symbols of a frame |
| `UartRx` | `uart_rx` | one step for each clock edge |
| `UartRxEnd` | a `uart_rx` at one end of a wire | its registers, shared by the next two |
| `UartRxSamples` | `uart_rx` on an arbitrary line | adds the history of the samples |
| `UartLink` | `uart_tx` and `uart_rx` on two clocks | composition by `INSTANCE`, with a bounded skew |
| `ByteChannel` | what the link promises | abstract: a channel of one byte |
| `UartCtl` | `uartCTL`, `uart_tx` and `UartDebug.py` | composition by `INSTANCE` of `UartTx` |
| `UartCtlClient` | a client of `uartCTL` | arbitrary or obedient to `flag_allow_new_data` |
| `UartHello` | `common/Uart.v` and its host | one step for each byte slot; both directions are sequences, as `ByteChannel` allows |
| `TimeReport` | `my_message_callback` of `main.cpp`, and the nodes | rounds, messages that are lost or overtake, the callback |
| `JtagPort` | `jtag.c` below the mailbox, the TAP | operators on one record: library and FPGA end of the port |
| `VidorMailbox` | the `mb*` functions of `jtag.c`, `setup()`, the FPGA's program | one step for each call of the library, `mbCmdSend` in several; reset, release and a foreign driver of the port |
| `AvalonSpi` | packet and byte coding of `SPIbus.cpp` | pure operators |
| `NinaApp` | `app_main`, the WiFi event handler, `fpga_read`, `fpga_write` | one step for each transfer and each event |
| `PtpCtl` | `PTP_ctl` | operators on one record, one for each branch of a clock edge |
| `PtpSync` | `ptp_sync` on two boards, the air between them | one step for each edge of the clock |
| `MC*` | - | values of the constants for TLC |
| `*Proofs` | - | theorems and their proofs |

### PiMaster

`mpc` is where the main thread is, `tpc` and `rpc` where the others are; the
names of the other variables are those of the code. Every read or write of
`running`, `allow_tx` and `id_tx` is a step, so all interleavings that
sequentially consistent atomics allow are behaviours. Formatting the datagram
is three loads in any order (`LoadField`), because C++11 does not order the
operands of `<<`. A failed `cin` (end of input, or a word where a number is
expected) sets `cin_ok` to `FALSE` for good and leaves the key unchanged. The
initial state is the one at line 312: threads started, `allow_tx` true. The
published MQTT payloads are kept as flags; the ultimate receiver of a payload is
the broker and is external, like the nodes (`Arrive`). The thread object of the
rviz interface is left out: its declaration does not compile.

History variables: `credit` (a grant since the last datagram), `rounds` (grants
in this burst, saturating at two), `inRound` (datagrams since the last grant).

### UartTx, UartRx, UartLink

Both state machines are translated branch by branch: a non-blocking assignment
is a primed variable, and everything on the right-hand side is the value before
the edge. The eight data bits are `LAST_BIT + 1` bits here. `o_Tx_Serial` has no
initial value in the code, so `UartTx!Init` leaves it open.

`UartLink` gives each end its own clock. `skew` counts how far the transmitter
is ahead of the receiver since the start of the frame; `Drift` bounds it in both
directions. The phase between the clocks at the start of a frame is arbitrary.

### UartCtl

One step is an edge of the common clock. The host reads a byte at the edge at
which `uart_tx` takes it: the link model shows that bytes arrive once, in order
and unchanged, so the host may be put there without its own receiver. `Words`
is what the client may have on `cmd`, `custom_cmd` and `data`; with `LateHost`,
as in the run, the port is opened at any time instead of before the first byte,
and the history variable `missed` says how many bytes had gone by then, up to two.
The decoding and printing of a frame are left out.

### UartHello

A step of the device is the edge at which `waitflag_tx` is high, which comes
once in each byte time; what happens at the other edges is one of the actions
`Receive` (the edge with `o_Rx_DV`) and `Enable` (the edge with `enableTrans`).
`CMD_Clear` takes back the command at every edge while it is high; a command that
comes at the last edge before a slot is still seen, which is the choice in
`Receive`. The assignments of a slot are those that win at its end: the greeting
over the command, both over the frame.

`to_host` are the bytes loaded and not yet read, `to_device` the age in slots of
every "A" on its way. `Backlog` and `Lag` bound them: they are the round trip time
in byte times, with the latency of the operating system and of a USB adapter in
it. A byte is known by the word and the place it comes from, so that a torn or a
shifted frame shows. The host knows nothing of that: it compares values, and `Like`
says for each byte of data which letter of the greeting, or 8'hff, it looks like
(`Seen`). SyncDATA always looks like 8'hff, what a client writes may look like anything.
So a search may be ended by data. `HostAligned` and `FrameIsSnapshot` claim their
alignment for a search that `ended` well (`WellEnded`): with the greeting's last byte, or
with a SyncDATA when fewer than three "A"s had been `asked`, after which no
greeting comes. Any other end is out of place. The bytes a host sees that opens the
port in the middle of a byte are left out. `asked` and `ended` are history variables.

### TimeReport

The callback stores the time of a node, the id of the round's master, and
counts. Times are known by the age of their round: a report is right when what
is subtracted is of one round, whatever the numbers are. The messages of a
node stay in order and none comes twice (QoS 0 over TCP), but any may be lost, and
those of different nodes overtake each other. `paced` rounds wait for the
messages of the round before, which half a second between two datagrams
(`main.cpp:403`) gives as a rule; other rounds may overlap, up to `Open` of them.
`missed` and `lost` are history variables. The nodes are 0, 1 and 2, because the
report looks at three entries. The nodes are not in the repository; the digits
of topic and payload are left out.

### JtagPort, VidorMailbox

The port is one record: what the library believes (`state`, `id`, `lastVir`) and
what is so (`tap`, `ir`, `vir`, `addr`, the selected scan register). Walks of the
TAP are translated step by step with the table of `jtag.c`; a shift of bits is one
step that says whether they are a known instruction, data or garbage. `error` is
what `LoadJI` or `jtagVIR` returned; a broken chain, which `LoadJI` notices, may meet
any of the `LoadJI` of a call, up to `Breaks` in one. At power-up the TAP may be in any state. `id` is 255 where the code stores -1 in an `unsigned char`, so
`jtagInit` and `resetExternalChip` compare what the code compares.

A call of the library is one step, because one thread makes them; `mbCmdSend` is
the write, the polls and the fetch. `Poll` lets the clock advance by any amount
between the read and the comparison. The FPGA's program is external: it takes word
0, leaves the answer in word 1 and then clears word 0, as `mbCmdSend` relies on.
`Blaster` is whoever else drives the pins when they are released. `known`, `broke`,
`wiped` and `own` are history.

### AvalonSpi, NinaApp

`AvalonSpi` has the two codings in both directions, with what the decoders do
on any bytes, and the second decoding in `fpga_read` over the stack behind its four
bytes (`Garbage`). `NinaApp` keeps the two byte buffers, whose older contents go out
and come in again, because a transfer clocks twice as many bytes as it writes. The
FPGA answers after `Lags` bytes, or not at all, and what does not fit into a transfer comes
in the next one. `wifi_waitflag` is a plain `bool`: `hoisted` says that the compiler
reads it once. A failure of the SPI driver is left out: `ESP_ERROR_CHECK` (`SPIbus.cpp:569`)
aborts the program then.

What `fpga_read` returns depends on the word and on the stack behind it. `Plain` is what is said of
the word alone: it holds neither 74 nor 77, and the scan finds no head of a packet in it
(`StartsIn`; a channel is passed together with the two bytes behind it, and may hide a head). `Misled`
is what is said of the stack: a packet begins there or with the last bytes of the word, its
first byte completes an escape, or the scan has found a head in the word and may copy bytes from the
stack that spell the word again. `seen`, `want`, `whole` and `clean` (not `Misled`) are history.

### PtpCtl, PtpSync

A step is an edge of the clock of both boards. `Sync` are the registers of
`ptp_sync`, in the order of the assignments; `Clocked` says whether the gated clock of a
`PTP_ctl` rises: with the clock, right after it when its enable does, or
perhaps, when one part of the enable comes as the other goes. `hps_reset` resets
both `PTP_ctl` at once. A pulse takes `dist` edges through the air; an end that
waits for it may hear it only in part (`Hearing`), `Misses` edges at most in one exchange.
Software, which is not in the repository, writes `Writes` to any board at any edge,
`MaxWrites` times. The clocks of the two boards have the same rate and phase, and the
distance does not change during an exchange. `missed`, `writes`, `asked` and
`orderly` are history; `orderly` holds from a `start_ptp` of the master while the slave
was waiting and the air was silent, until something is written.

## 3. Runs

| Run | Question | Result |
|---|---|---|
| `pi_threads` | what the grant handshake promises under every interleaving, all keys, failing sends, failing input | holds: `NoDatagramWithoutGrant`, `BurstRoundExact`, `OneDatagramPerRound`, `ExitOnlyByEscape`; and the two ways to hang, `BurstNeverEnds` and `FailedSendHangsBurst` |
| `pi_live` | does a round, does the exit come to an end | `RoundEnds` holds; `ExitTerminates`: the exit ends, always in `std::terminate` |
| `pi_request` | is every grant followed by a datagram, while the input stream is good | violated: a grant between `sendto` and `allow_tx = false` is lost, and no other key brings the datagram |
| `link_channel` | do the two ends make a channel in spite of drift | holds; the transmitter alone implements `SerialLine` |
| `rx_samples` | what does a byte depend on when the line does anything | holds: the samples in the middle of the bits |
| `ctl_frames` | are frames whole, aligned, and one for each item, whenever the host opens the port | holds as stated: whole and aligned from the start, with 8'hff in the first byte of the first frame; every frame one byte off after one missed byte; none after two |
| `hello_frames` | does the greeting find and align the host, with a round trip of six byte times and words that look like it | holds for a search that ended well: `HostAligned`, `FrameIsSnapshot`; and `FoundUnlessDeceived`: a host that takes a data byte for the H may wait for ever |
| `hello_late` | the same with seven | violated: the last "A" starts another greeting and all frames are shifted |
| `time_report` | when do the times of a report belong together | holds: `ReportExactIff`, `ExactNeedsThrees`; one lost message spoils all reports until two more are lost |
| `vidor_mailbox` | what the JTAG library may believe, and whose answer a command returns | holds: `TapAgrees`, `VirCacheTrue`, `WordsMove`, `AnswerIsOwn`, `CommandReturns`, and `NoStrayInstruction` but for a broken chain |
| `nina_app` | does a register come back as it is, does the start get there | holds: `OneRequest`, `AnswerDecoded`, `GetsToRegisters`; `ReadExactIff`: a register with one of two byte values or a head of a packet in it does not |
| `ptp_sync` | what are the measured times worth, when may `conv_finished` be believed | holds for an exchange that begins in order: `MeasuresRoundTrip`, `ExchangeEnds`; and after any start: `FinishedIsCurrent` |

Bounds and why they are enough.

* `pi_threads`: all nine keys, two ids (so that a stale or torn message is
  told apart from a right one), a counter that wraps at 4 under a bound of 6.
  The wrap, both outcomes of every system call and three full rounds are
  reached; `TypeCorrect` and the other theorems are for any counter.
* `pi_live` and `pi_request`: fewer keys, since the liveness of the burst and of
  the exit does not depend on the others.
* `link_channel`: eight clocks for each bit, three data bits, drift 2. The
  receiver looks half a bit after the edge and three clocks later than the
  transmitter moves, so what is survived in a frame is `Drift + Middle + 3 <=
  CLKS_PER_BIT` (`Close`), where `Middle` is half a bit, (CLKS_PER_BIT - 1) / 2:
  proved for every such pair. 2 is the largest drift for 8; one more fails, as it does for
  five, seven, nine and ten clocks (drifts 1, 2, 3, 4). For the code's 5000 clocks, `Close`
  allows 2498 in a frame. Frames follow one another with and without a pause.
* `rx_samples`: two data bits and four clocks for each, an arbitrary level at
  every edge; every false start and every bit pattern occurs.
* `ctl_frames`: two clocks for each bit, three bits for each byte
  (so that 8'hff is 7 and other values are left), three words that differ in
  every byte, none of them with an 8'hff.

* `hello_frames`, `hello_late`: the sum of `Backlog` and `Lag` decides, and it was
  tried for every split from 1 + 5 to 6 + 0 (all hold) and from 1 + 6 to 7 + 0
  (none does); the configurations keep 3 + 3 and 4 + 3. Two words suffice to tell a torn
  frame. In `hello_frames` the words look like the greeting in each way that matters: `w1` has all
  of it before an 8'hff within the word, `w2` before its SyncDATA, `w3` an H and an e and no
  more, and the register is powered up with an H first. Without their premise
  `HostAligned` and `FrameIsSnapshot` fail by each of the first two words. In `hello_late`
  no byte looks like a letter, so that the round trip alone is to blame.
* `time_report`: two masters, so that a wrong one is told from a right one, and
  two open rounds; rounds and losses are unbounded, because only ages and
  remainders are kept.
* `vidor_mailbox`: the two words of the mailbox and one register, a word and 0, a
  time limit of one tick (so that a command ends by its answer, by the time, and with
  both near each other), one broken `LoadJI` in a call. All states of the TAP at
  power-up and after the release.
* `nina_app`: four registers of each base, of which one changes; words with every byte
  that either coding escapes, with the head of a packet at the first byte and at the second, and with
  a channel that hides one; answers that fit, that come in the next transfer and that do not
  come; a stack of ordinary bytes with the end of a packet among them, on which the copy of `fpga_read`
  skips a byte, and one with an older answer on it. Buffers and transfers have the sizes of
  the code, but that a register number is at most 3.
* `ptp_sync`: a pulse of three edges (`delay_cnt <= INIT_WAIT_DELAY`, 1), deaf for four, `MAX_WAIT_CYCLES` 8, two pulses
  as in the code. Boards next to each other, where the answer comes while the end is still deaf, and
  two edges apart, where it does not. Three writes: two starts and one that
  meddles, a restart of either board, or a meddling before. The order of the constants is
  that of the code (5000, 7000, 50000000); the theorems are for all values in that order.

`CHECK_DEADLOCK FALSE` is said in `pi_threads` and `pi_live` only: the process ends after
its exit sequence, and after a failed send it may do nothing but repeat a wait.

Fairness. `PiMaster!Fairness` keeps every thread running that can run, and
nothing else: the operator need not type while the input stream is good, but a stream that has
failed returns at once and makes nobody wait (`main.cpp:318`). `recvfrom` blocks
until a datagram is there: it may fail (`RecvFails`), but nothing makes it, and no
datagram need arrive. `TrafficSpec`, used for the exit, adds that datagrams arrive: under
`FairSpec` alone `ExitTerminates` is violated, by a main that waits in its join for a
receiver that hears nothing. A busy loop that reads an unchanged atomic is a stuttering
step. The UART modules assume that their clocks do not stop. `UartHello` adds that the host
reads and the line delivers, which is what `Backlog` and `Lag` say with a bound;
the client need not enable anything, and nobody need open the port.
`TimeReport` has no liveness property and assumes no fairness. `VidorMailbox` assumes
that the processor goes on polling (weak fairness of `Poll` and `Fetch`, written out with their
guards), and nothing of the FPGA or the port. `NinaApp` assumes that `app_main` and the driver's
task are scheduled, and, strongly, that an access point that is tried again and again
grants an address at last. `PtpSync` assumes that the clock does not stop; software
need not write anything.

Type invariants of `UartLink` and `UartHello` are not stated, since their other
properties look at every variable; that of `PtpSync` is proved and not checked again.

Every property of a passing run has a mutant (`PROJECT.json`): an operator next
to the one it replaces, with a plausible mistake in it, that makes the run fail.

## 4. Proofs

| Theorem | Statement | Argument |
|---|---|---|
| `PiMasterProofs!TypeCorrect` | `TypeOK` | inductive as it stands, one case for each action |
| `GrantSafety` | `NoDatagramWithoutGrant` | `GrantInv`: an `allow_tx` that the transmitter has not acted on stands for a grant since its last datagram |
| `RoundsAreExact`, `RoundsSendOnce` | `BurstRoundExact`, `OneDatagramPerRound` | `BurstInv`: between two rounds nothing is granted, and from the second round on what the transmitter has loaded since its last clear is the entered id |
| `ExitIsEscape` | `ExitOnlyByEscape` | `EscapeInv`: a key that is ESC was read from a good stream and is acted on at once |
| `NeverEnds` | `BurstNeverEnds` | the counter stays below `CounterMod`, hence below the bound |
| `FailureHangs` | `FailedSendHangsBurst` | a transmitter that is done while the program runs has left `allow_tx` set, which only it resets |
| `UartHelloProofs!HelloAligns` | `HostAligned` of `UartHello`, for any `Backlog` and `Lag` with a sum of at most six | for any words and any `Like`, and a search that ended well. Five phases: `Before`, `During` and `Ending` a greeting, `After` it, and `Lost` for a search that data ended out of place. In each, where the host is in the bytes on their way, and which "A" can still arrive; the sum is tight (`hello_late`) |
| `HelloFramesWhole` | `FrameIsSnapshot` of `UartHello`, under the same bound | for the same searches, from the same invariant: one word of the client carries the host's part of a frame, the bytes on their way and the device's rest |
| `UartLinkProofs!TxTypeCorrect`, `TxStateCorrect` | `TypeOK`, `StateOK` of `UartTx` | `TxInv`: state, counters and flags of the transmitter go together |
| `TxRefines` | `ImplementsLine` | every step of `uart_tx` maps to one step of `SerialLine` under `Position` |
| `TransmitterRefines` | `TransmitterIsLine` | a step of the link is one of `uart_tx` or leaves it alone (`LinkTransmitter`), so `TxRefines` carries over |
| `LinkRefines` | `ImplementsChannel`, for every drift and bit time that are `Close` | one equation ties the receiver's count, the transmitter's position and the skew from the start bit on; `Close` keeps each sample in its bit |
| `RxTypeCorrect`, `SamplesCorrect` | `TypeOK` of `UartRx` and `SamplesInMiddle` of `UartRxSamples`, on any line | `SamplePlace`: state and counters give the age of the frame, and the bits read so far are the samples at their instants |
| `UartCtlProofs!NothingLost` | `NoLoadLost` | `Handshake`: strobe, wait flag and done follow each other and never meet a frame |
| `UartCtlProofs!TypeCorrect` | `TypeOK`, whenever the host opens the port | `TInv`: adds that `flag_init_done` says where `cnt_sync` has stopped, and the invariant of `uart_tx` |
| `AlwaysAligned` | `HostAligned`, whenever the host opens the port | `AInv`: the host's count of 8'hff is `cnt_sync`, less the byte on its way and the one it missed |
| `NeverTorn` | `FrameIsSnapshot`, whenever the host opens the port | `Kept`: nothing missed, `Snapshot`: one word of the client carries the host's part of a frame, the byte on its way and, within a frame, `out_data`; one byte missed, `Shifted`: the same of a frame that is one byte behind |
| `ItemsOnce` | `EveryItemOnce`, for every series of words | `ClientInv`: `AInv` and `Kept`, and with an obedient client `Offered`: `out_data` is an item, and the one after it is on the inputs once the rise of the flag has been seen, and in `r_word` before the next copy; `Series`: the host reads the item that follows the one of its last frame |
| `TimeReportProofs!TypeCorrect` | `TypeOK` | inductive; a set of ages has an oldest |
| `CounterCountsMessages` | `CountFollowsLosses` | `Balance`: counted, lost and waiting messages are a multiple of three |
| `ReportsAreExactIff` | `ReportExactIff` | `Paced`: a node's message of the round is waiting, lost, or what the table holds; with `Balance` a third message leaves none waiting exactly if the losses are a multiple of three |
| `ExactReportsNeedThrees` | `ExactNeedsThrees`, for any number of open rounds | `InOrder`: what is on its way is newer than what is stored; `BalanceUpTo(a)`: the balance of the messages of rounds up to an age, without which a report that is right says nothing of what is still waiting |
| `VidorMailboxProofs!TypeCorrect`, `TapStateAgrees`, `VirCacheIsTrue` | `TypeOK`, `TapAgrees`, `VirCacheTrue` | `PortRests`: between calls both ends of the port are at rest in the same state, and a virtual instruction that is remembered is there; the first part of the module has a lemma for each call |
| `WordsArrive`, `NothingStray` | `WordsMove`, `NoStrayInstruction` | from the same invariant and the lemmas on what a call does with and without a broken chain |
| `AnswersAreOwn` | `AnswerIsOwn` | `OwnAnswer`: while nothing has come between, the FPGA is on its way from the command to its result |
| `PtpSyncProofs!TypeCorrect` | `TypeOK` of `PtpSync` | inductive; no count passes its limit, since an end that has counted its pulses counts no more |
| `FinishedCurrent` | `FinishedIsCurrent` | `StartedInv`: since the last `start_ptp` the request is there, or both ends were reset and the one that was not asked for has stood still |
| `RoundTripMeasured` | `MeasuresRoundTrip`, for all distances `InReach` | `ExchangeInv`: an exchange that began in order is starting, flying, lost or over. Flying, one end has sent the last pulse `a` edges ago and the other the one before `z` edges ago: the registers of both `PTP_ctl`, the counts of pulses and whatever is in the air are functions of the two ages, and what is not heard is what makes them grow. An end that counts a pulse takes its `z`, which is then the way there and back |
| `NinaAppProofs!TypeCorrect` | `TypeOK` of `NinaApp` | `IInv`: `out` is at most 32 bytes, because an answer is at most 12 bytes long and a request at least as many (`AnswerLen`, `LeftBehind`); whatever was received, a decoded word has four bytes (`ResponseType`) |
| `RequestsCorrect` | `OneRequest` | `Quiet`, in `IInv`: from its second byte on, the send buffer holds no byte that begins a packet or an escape of the SPI core. All requests are of bytes that the core sends as they are (`ReadRequest`, `WriteRequest`), so what is sent keeps `Quiet` (`SentOne`), and the FPGA makes one request of a packet and nothing of what follows (`OneRequestSeen`) |
| `AnswersCorrect` | `AnswerDecoded` | `ResponseDecoded`: idle bytes, the answer and anything behind it are decoded to the word of the answer, because the two codings undo each other byte by byte (`CoreRoundTrip`, `DecodePiece`, `Decoded`) |
| `ReadsCorrect` | `ReadExactIff` | `ReturnedIs`: the scan of `fpga_read` leaves its memory as it is while no packet begins in it (`ReparsedIs`), and the first byte of the word that is 74 or 77 is changed, or the one behind it is, and stays so (`RoundsSpecial`). If a head is found in the word (`HeadFound`), the copy from the stack overwrites a byte of the word that the coding made special with an ordinary one, and no later round undoes it (`HeadOverwritten`, `HeadedMisread`) |

The decoders of `AvalonSpi` are folds over bytes. The provers have no induction over
data, so `NinaAppProofs` tells a fold as a relation, `Leads(g, st, s, tt)`: the steps
of `g` over `s` lead from `st` to `tt`. It composes over concatenation
(`LeadsConcat`, `LeadsFlatten`) and has one end (`LeadsUnique`), and each decoder is
shown to end where its steps lead. What is said of every byte of a sequence is proved by the least
position at which it fails (`Minimum`, from the well-foundedness of the naturals).
The lemmas are stated for sequences of any length: `CoreRoundTrip` and
`RequestWhole`, for instance, for packets of any data.

Assumptions: those on the constants, each named where the constant is declared.
In `PiMaster` the bound of the burst is at least the number of values of its
counter (1000 and 256 in the code). In `UartCtl` the first byte, 8'd68, is not
8'hff.

In `NinaApp` the words of the FPGA have four bytes and the stack behind a
word as many as the loop of `fpga_read` may look at (`WordsAssumption`,
`GarbageAssumption`); a base has at least the three registers that are written and at
most 63, 20 in the code, so that the number of one stays within a byte of the address
(`RegistersAssumption`); lags are at most the longest transfer, or `Silent`
(`LagsAssumption`).

In `PtpSync` the pulse is shorter than the deaf time, which is shorter than
`MAX_WAIT_CYCLES`, and at least two pulses are exchanged.

Three theorems have a hypothesis on the constants of their own, each as weak as it can be:
`Close` (`LinkRefines`: the two clocks differ by less than half a bit in a frame, which
UARTs are built for), `InTime` (`HelloAligns`, `HelloFramesWhole`: six byte times of round trip, which
nothing in the code ensures and `hello_late` shows to be needed) and `InReach`
(`RoundTripMeasured`: the longest way there and back, or `WAIT_DELAY` + 1, and what is not heard of a pulse stay
within `MAX_WAIT_CYCLES`: one second of sound, against ways of some metres). With
`MAX_WAIT_CYCLES` one below `InReach`, 6 for a distance of 2 and one miss, `delay_cnt` starts over
and TLC finds a wrong time.

Only model-checked: what needs fairness (`RoundEnds`, `ExitTerminates`, `Delivered`,
`FramesKeepComing`, `FoundUnlessDeceived`, `CommandReturns`, `GetsToRegisters`,
`ExchangeEnds`), because liveness and `ENABLED` are beyond the prover. Every invariant and
every action property of the passing runs is proved. `CountFollowsLosses`
is proved and not checked in a run.

## 5. What was found

* A request by key 6 can be lost (`pi_request`).
* Key 7 never comes back to the menu (`BurstNeverEnds`), and hangs in its wait
  after a failed send (`FailedSendHangsBurst`).
* Leaving by ESC needs one more datagram and ends in `std::terminate`
  (`ExitTerminates`).
* After end of input the last key is repeated for ever (`ExitOnlyByEscape`
  says that no exit comes of it).
* `o_Tx_Done` lasts two clocks and not one (`SerialLine`), which `uartCTL` copes
  with (`NoLoadLost`).
* The first frame has 8'hff in its first byte, because the controller
  sends thirteen synchronisation bytes and the host waits for twelve
  (`FrameIsSnapshot`); for the same reason a host that misses exactly one of
  them is a byte off for good, and one that misses more never synchronises
  (`FrameIsSnapshot`, `FramesKeepComing`), or synchronises anywhere in a frame
  when the words themselves bring twelve 8'hff in a row: no word of the instance
  has one, and `EveryItemOnce` leaves such a host out.
* The greeting of `common/Uart.v` aligns only a host whose round trip is at most
  six byte times, 520 us at 115200 baud (`hello_late`).
* The host takes letters of the greeting from wherever they come: words that hold H, e, l, o and
  8'hff in this order, the last in another place than SyncDATA, make it read all frames shifted (the premise
  `WellEnded` of `HostAligned` and `FrameIsSnapshot`), and one that holds an H may
  keep it waiting for ever (`FoundUnlessDeceived`).
* The frame after the greeting is as old as the last one before it; if the host
  was there from the start, it is what `out_data` was powered up with
  (`FrameIsSnapshot`).
* The MQTT callback never recovers from one lost message (`ReportExactIff`).
* `jtagWriteBuffer` and `jtagReadBuffer` do not look at what their second `LoadJI` returns:
  with a broken chain, address and data go into the instruction register
  (`NoStrayInstruction`).
* An answer of the FPGA that comes after `MB_TIMEOUT` is taken for that of the next command
  (the premise of `AnswerIsOwn`).
* `fpga_read` decodes twice: a register with a byte 74 or 77, or a head of a packet (7c ?? 7a) in it
  is misread (`ReadExactIff`; 7c 00 7a 09 over zeros comes back as 09 00 00 00), and any may be if
  the stack behind the word looks like a packet. An answer later
  than its transfer is taken for that of the next request.
* The PTP boards measure the way there and back only from `WAIT_DELAY` + 1 clocks on, 140 us;
  below, both measure the delay (`MeasuresRoundTrip`). A pulse that is lost is never
  sent again, and both ends wait for ever; the counter that `MAX_WAIT_CYCLES` resets
  is all that a timeout does. Without `orderly` nothing holds of the times: in exploration
  (distance 4, four writes) a master that was started again heard the pulse of the exchange before
  and measured less than the way.
* `conv_finished` is that of the exchange before for two clocks after `start_ptp`
  (the premise of `FinishedIsCurrent`), and the time that of the exchange before until
  `start_ptp` is taken, one clock later (the premise of `MeasuresRoundTrip`).
* Seen on the way, by reading: `jtag.id` is an `unsigned char` and never equals -1, so
  `resetExternalChip` always reloads the FPGA (`jtag.c:745`); `wifi_waitflag` is a plain
  `bool`, which a compiler may read once before the loop (`ninaWifi.cpp:104`); option 1 publishes two characters of the number
  whatever its length (`main.cpp:419`), and `UartDebug.py:69` lets an index
  through that is one too large.

## 6. Plan

Order of the next steps, most important first:

1. `UartToSpi`: the command parser and SPI controller of `uart2spi` against an
   abstract register map, should the project come to use that core.

### Not modelled

* `vidorSAM/app.h`: 31,929 lines of numbers, the bitstream of the FPGA.
* `spiMaster`, `spiSlave`: cores that no design here instantiates. `spiSlave.v` does not
  compile: the `if` of line 156 lacks its `begin`, and line 138 uses a clock that is not declared.
  By reading, its shift register also takes MOSI at the edge at which the master changes it
  in modes 2 and 3, although its header offers all four.
* `uart2spi`: a third-party core (opencores) that only its own test bench instantiates.
* Generated HDL (`UartCtrl.v`, `fpga_icestorm2/top.v`), vendored HDL (Arduino and Altera cores).
* A failure of the NINA module's SPI driver, on which `ESP_ERROR_CHECK` aborts the program.
* The byte and bit helpers of `SPIbus.cpp`, which nothing calls, and the MQTT client of the
  NINA module, whose start is commented out.
* `threats`: a sender and a receiver thread, two endless loops on two sockets, which share no
  variable that either writes.
* `master_gen.cpp`, which is commented out; `rviz_interface.cpp`, whose thread does not compile.
* `ID_Switch.v`, `common/buffer.v`, `shiftBuffer.v`, `tri_state.v`: registers without a protocol.
* Build templates, ROS talkers, table and test bench generators: straight-line code.
