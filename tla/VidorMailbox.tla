---------------------------- MODULE VidorMailbox ----------------------------
(***************************************************************************)
(* The mailbox between the SAM processor of the Vidor board and its FPGA,  *)
(* over JTAG: the mb* functions of jtag.c and their client, setup() of     *)
(* vidorSAM.ino, which may go on to use the rest of the library.           *)
(*                                                                         *)
(* The processor has one thread; a call of the library is a step, but for  *)
(* mbCmdSend, which polls.  Beside it run the FPGA, which is external: it  *)
(* takes word 0 when the pin is pulsed, puts its result in word 1 and then *)
(* clears word 0, as mbCmdSend expects; and, when the pins are released,   *)
(* whoever else drives the port ("usefull for USB BLASTER connection").    *)
(* A message is one word.                                                  *)
(***************************************************************************)
EXTENDS JtagPort, FiniteSets

CONSTANTS
  Address,     \* 0 and 1 are the mailbox
  Word,        \* what may be sent; with 0
  Result,      \* what the FPGA answers to a word
  MB_TIMEOUT,  \* in ticks of millis()
  Breaks       \* at most so many LoadJI of a call meet a broken chain

MB_BASE == 0
Nowhere == -1
Garbage == -2  \* bits of the instruction register, read as a word

ASSUME AddressAssumption == Address \subseteq Nat /\ {MB_BASE, MB_BASE + 1} \subseteq Address
ASSUME WordAssumption    == Word \subseteq Int /\ 0 \in Word /\ Result \in [Word -> Int]
ASSUME TimeoutAssumption == MB_TIMEOUT \in Nat

VARIABLES
  jtag,            \* the port: the library's struct and the FPGA's end
  pc,              \* "boot", "pins", "idle", "poll", "fetch", "off"
  cmd, ret,        \* of mbCmdSend; ret is also what the last call returned
  elapsed,         \* millis() - start
  at, data,        \* the word last sent or received, and its address
  mem,             \* the words behind the node
  int, fpga, job,  \* the latched pulse, the FPGA's program and its word
  own              \* history: nothing has come between cmd and its answer

command == <<cmd, elapsed, own>>
client == <<pc, ret, command>>
moved  == <<at, data>>
device == <<mem, int, fpga, job>>
vars   == <<jtag, client, moved, device>>

Register == Address \ {MB_BASE, MB_BASE + 1}
Blank == [a \in Address |-> 0]

Init ==
  /\ jtag \in PowerUp
  /\ pc = "boot" /\ cmd = 0 /\ ret = 0 /\ elapsed = 0 /\ own = FALSE
  /\ at = Nowhere /\ data = 0
  /\ mem = Blank /\ int = FALSE /\ fpga = "idle" /\ job = 0

Sound == jtag.known /\ ~jtag.broke

-----------------------------------------------------------------------------
(* What a call does to the FPGA: m are the words behind the node after it. *)

\* Which LoadJI of a call find the chain whole.
Chain(n) == {whole \in [1 .. n -> BOOLEAN] : Cardinality({i \in 1 .. n : ~whole[i]}) <= Breaks}

Transfer(p, m, pulse) ==
  /\ jtag' = p
  /\ mem'  = IF p.wiped THEN Blank ELSE m
  /\ int'  = (~p.wiped /\ (int \/ pulse))
  /\ fpga' = IF p.wiped THEN "idle" ELSE fpga
  /\ job'  = IF p.wiped THEN 0 ELSE job

\* The words behind the node after a write of w to a.
Stored(p, w) == IF Landed(p) THEN [mem EXCEPT ![p.addr] = w] ELSE mem

\* What a read leaves in the caller's variable.
Received(p, old) ==
  IF p.error < 0 THEN old ELSE IF Fetched(p) THEN mem[p.addr] ELSE Garbage

Write(a, w, pulse) ==
  \E whole \in Chain(2) :
    \E p \in {jtagWriteBuffer(jtag, a, whole)} :
      /\ Transfer(p, Stored(p, w), pulse /\ p.error = 0)
      /\ at' = a /\ data' = w

\* old is what the caller's variable holds before.
Read(a, old) ==
  \E whole \in Chain(4) :
    \E p \in {jtagReadBuffer(jtag, a, whole)} :
      /\ Transfer(p, mem, FALSE)
      /\ at' = a /\ data' = Received(p, old)

\* mbCmdSend returns.
Return(r) == pc' = "idle" /\ ret' = r /\ cmd' = 0 /\ elapsed' = 0 /\ own' = FALSE

\* A call that moves no word.
Control(p) == Transfer(p, mem, FALSE) /\ at' = Nowhere /\ data' = 0

-----------------------------------------------------------------------------
(* The client. *)

\* setup() ignores what jtagInit returns.  Who scans again without releasing
\* the pins does what one does who releases them and finds them undisturbed.
Scan ==
  /\ pc \in {"boot", "off"}
  /\ \E configured, found \in BOOLEAN, whole \in Chain(2) :
       Control(jtagInit(jtag, configured, found, whole))
  /\ pc' = IF pc = "boot" THEN "pins" ELSE "idle"
  /\ ret' = 0
  /\ UNCHANGED command

mbPinSet ==
  /\ pc = "pins"
  /\ Write(MB_BASE, 0, FALSE)
  /\ pc' = "idle"
  /\ UNCHANGED <<ret, command>>

mbEveSend(w) ==
  /\ pc = "idle"
  /\ Write(MB_BASE, w, TRUE)
  /\ ret' = IF jtag'.error < 0 THEN -10 ELSE 0
  /\ UNCHANGED <<pc, command>>

\* After the write ret is len, 1, and it is the variable that is polled.
mbCmdSend(w) ==
  /\ pc = "idle"
  /\ Write(MB_BASE, w, TRUE)
  /\ IF jtag'.error < 0
     THEN Return(-10)
     ELSE /\ pc' = "poll" /\ ret' = 1 /\ cmd' = w /\ elapsed' = 0
          /\ own' = (Sound' /\ w # 0 /\ fpga = "idle" /\ ~int)

\* Mutant: an answer is fetched when the time is over.
PollFetchesLate ==
  /\ pc = "poll"
  /\ Read(MB_BASE, ret)
  /\ \E t \in elapsed + 1 .. MB_TIMEOUT + 1 :
       /\ pc' = IF data' = 0 \/ t > MB_TIMEOUT THEN "fetch" ELSE "poll"
       /\ ret' = data' /\ elapsed' = t
  /\ own' = (own /\ Sound')
  /\ UNCHANGED cmd

\* Mutant: start is taken anew in the loop.
PollNoTimeout ==
  /\ pc = "poll"
  /\ Read(MB_BASE, ret)
  /\ pc' = IF data' = 0 THEN "fetch" ELSE "poll"
  /\ ret' = data' /\ elapsed' = 1 - elapsed
  /\ own' = (own /\ Sound')
  /\ UNCHANGED cmd

\* The clock is looked at after the read and before what was read.
Poll ==
  /\ pc = "poll"
  /\ Read(MB_BASE, ret)
  /\ \E t \in elapsed + 1 .. MB_TIMEOUT + 1 :
       IF t > MB_TIMEOUT
       THEN Return(-1)
       ELSE /\ pc' = IF data' = 0 THEN "fetch" ELSE "poll"
            /\ ret' = data' /\ elapsed' = t
            /\ own' = (own /\ Sound')
            /\ UNCHANGED cmd

Fetch ==
  /\ pc = "fetch"
  /\ Read(MB_BASE + 1, ret)
  /\ Return(data')

\* Both return 0 whatever came of it.
mbWrite(a, w) ==
  /\ pc = "idle"
  /\ Write(a, w, FALSE)
  /\ ret' = 0
  /\ UNCHANGED <<pc, command>>

mbRead(a) ==
  /\ pc = "idle"
  /\ Read(a, 0)
  /\ ret' = 0
  /\ UNCHANGED <<pc, command>>

Reset ==
  /\ pc = "idle"
  /\ \E whole \in Chain(1) : Control(resetExternalChip(jtag, whole))
  /\ ret' = 0
  /\ UNCHANGED <<pc, command>>

\* The end of setup(), and jtagDeinit.
Release ==
  /\ pc = "idle"
  /\ jtag' = jtag \/ jtag' = [jtag EXCEPT !.id = NoId, !.known = FALSE]
  /\ pc' = "off" /\ ret' = 0 /\ at' = Nowhere /\ data' = 0
  /\ UNCHANGED <<command, device>>

Blaster ==
  /\ pc = "off"
  /\ \E t \in TapState : jtag' = Foreign(jtag, t)
  /\ mem' = Blank /\ int' = FALSE /\ fpga' = "idle" /\ job' = 0
  /\ UNCHANGED <<client, moved>>

-----------------------------------------------------------------------------
(* The FPGA. *)

FpgaTake ==
  /\ fpga = "idle" /\ int
  /\ fpga' = "run" /\ job' = mem[MB_BASE] /\ int' = FALSE
  /\ UNCHANGED <<jtag, client, moved, mem>>

FpgaAnswer ==
  /\ fpga = "run"
  /\ fpga' = "done" /\ job' = job
  /\ mem' = [mem EXCEPT ![MB_BASE + 1] = Result[job]]
  /\ UNCHANGED <<jtag, client, moved, int>>

FpgaDone ==
  /\ fpga = "done"
  /\ fpga' = "idle" /\ job' = 0
  /\ mem' = [mem EXCEPT ![MB_BASE] = 0]
  /\ UNCHANGED <<jtag, client, moved, int>>

Next ==
  \/ Scan
  \/ mbPinSet
  \/ \E w \in Word : mbEveSend(w) \/ mbCmdSend(w)
  \/ Poll
  \/ Fetch
  \/ \E a \in Register, w \in Word : mbWrite(a, w)
  \/ \E a \in Register : mbRead(a)
  \/ Reset
  \/ Release
  \/ Blaster
  \/ FpgaTake
  \/ FpgaAnswer
  \/ FpgaDone

\* The processor goes on with a command it has begun: weak fairness of Poll
\* and Fetch, with their guards in place of ENABLED.  The FPGA and the port
\* promise nothing.
Commanding == pc \in {"poll", "fetch"}
Fairness == []<>(~Commanding) \/ []<><<Commanding>>_<<pc, elapsed>>

Spec == Init /\ [][Next]_vars /\ Fairness

-----------------------------------------------------------------------------
(* Properties. *)

\* Types; in particular words travel in SHIFT_DR or not at all.
TypeOK ==
  /\ jtag \in Port
  /\ pc \in {"boot", "pins", "idle", "poll", "fetch", "off"}
  /\ cmd \in Word /\ ret \in Int /\ own \in BOOLEAN
  /\ at \in Address \cup {Nowhere} /\ data \in Int
  /\ elapsed \in 0 .. MB_TIMEOUT + 1
  /\ mem \in [Address -> Int] /\ mem[MB_BASE] \in Word /\ job \in Word
  /\ int \in BOOLEAN /\ fpga \in {"idle", "run", "done"}

\* The library never reads the state of the TAP, but its copy is right as
\* long as it drives the pins, whatever the chain returned, and it is right
\* again after a scan whatever the TAP went through in between.
TapAgrees == pc \notin {"boot", "off"} => jtag.state = jtag.tap

\* jtagVIR skips the virtual instruction it believes loaded.  On the FPGA
\* that the last scan found it is loaded: no error path leaves one in lastVir
\* that did not arrive.
VirCacheTrue ==
  (pc \notin {"boot", "off"} /\ jtag.known) =>
    /\ jtag.id = Node
    /\ jtag.lastVir \in VirCode => jtag.vir = jtag.lastVir

\* In a call that meets no broken chain the word goes to the address it is
\* for, or comes from it, whatever calls came before.
WordsMove ==
  [][(Sound' /\ at' \in Address /\ fpga' = fpga) => mem'[at'] = data']_vars

\* The FPGA never executes an instruction that is not the library's, unless
\* a call met a broken chain, or the one before left the TAP in SHIFT_IR.
NoStrayInstruction ==
  [][(at' \in Address /\ jtag.known /\ ~jtag'.known) =>
       jtag'.wiped \/ jtag'.broke \/ jtag.tap = "SHIFT_IR"]_vars

\* What mbCmdSend returns is the answer to its own word, if the FPGA had
\* nothing to do when it was sent and no read of it met a broken chain.
AnswerIsOwn == [][(pc = "fetch" /\ pc' = "idle" /\ own /\ Sound') => ret' = Result[cmd]]_vars

\* mbCmdSend returns, even if the FPGA never answers and the chain is broken.
CommandReturns == (pc = "poll") ~> (pc = "idle")
=============================================================================
