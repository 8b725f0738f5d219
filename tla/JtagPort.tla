------------------------------ MODULE JtagPort ------------------------------
(***************************************************************************)
(* jtag.c of the Vidor board: the SAM processor drives the JTAG port of    *)
(* the FPGA.  The library keeps a copy of the state of the FPGA's TAP and  *)
(* remembers the last virtual instruction it loaded; neither is ever read  *)
(* back.                                                                   *)
(*                                                                         *)
(* The port is one record.  Fields of the library (struct states):         *)
(*   state, id, lastVir                                                    *)
(*   error    what the last LoadJI or jtagVIR returned                     *)
(* Fields of the FPGA, external, known by how the library uses it:         *)
(*   tap      the state its TAP is really in                               *)
(*   sr, over the selected scan register: what was shifted in, and how     *)
(*            many bits more than its length (-1: one is missing)          *)
(*   ir, vir  the instruction register and the virtual one of the node     *)
(*   addr     the address its bridge to the mailbox has latched            *)
(* History: broke, whether a LoadJI of the present call met a broken       *)
(* chain; wiped, whether the FPGA was reconfigured in it; known, whether   *)
(* the FPGA still is what the last scan found.                             *)
(*                                                                         *)
(* TMS is low whenever ReadTDO clocks bits: each call of it follows an     *)
(* AdvanceJSM(0), or a Js_Shiftdr that gave up in SHIFT_IR.                *)
(***************************************************************************)
EXTENDS Integers

\* JSM[s][mode + 1] is the state after s.
JSM == [
  RESET      |-> <<"RUNIDLE",    "RESET">>,
  RUNIDLE    |-> <<"RUNIDLE",    "SELECT_DR">>,
  SELECT_IR  |-> <<"CAPTURE_IR", "RESET">>,
  CAPTURE_IR |-> <<"SHIFT_IR",   "EXIT1_IR">>,
  SHIFT_IR   |-> <<"SHIFT_IR",   "EXIT1_IR">>,
  EXIT1_IR   |-> <<"PAUSE_IR",   "UPDATE_IR">>,
  PAUSE_IR   |-> <<"PAUSE_IR",   "EXIT2_IR">>,
  EXIT2_IR   |-> <<"SHIFT_IR",   "UPDATE_IR">>,
  UPDATE_IR  |-> <<"RUNIDLE",    "SELECT_DR">>,
  SELECT_DR  |-> <<"CAPTURE_DR", "SELECT_IR">>,
  CAPTURE_DR |-> <<"SHIFT_DR",   "EXIT1_DR">>,
  SHIFT_DR   |-> <<"SHIFT_DR",   "EXIT1_DR">>,
  EXIT1_DR   |-> <<"PAUSE_DR",   "UPDATE_DR">>,
  PAUSE_DR   |-> <<"PAUSE_DR",   "EXIT2_DR">>,
  EXIT2_DR   |-> <<"SHIFT_DR",   "UPDATE_DR">>,
  UPDATE_DR  |-> <<"RUNIDLE",    "SELECT_DR">>]

TapState == DOMAIN JSM
ShiftState == {"SHIFT_IR", "SHIFT_DR"}

JBC_WRITE == "write"                \* 0
JBC_READ  == "read"                 \* 1
Unset     == "unset"                \* -1 in an unsigned char: 255
VirCode   == {JBC_WRITE, JBC_READ}

NoId == 255                         \* -1 in an unsigned char
Node == 0                           \* where a scan finds the vJTAG node

\* The instructions the library loads, and the one that a reset selects.
Instruction == {"CHECK_STATUS", "USER0_VDR", "USER1_VIR", "PULSE_NCONFIG", "IDCODE"}

\* What a scan register may hold: also what it captured, zeros, words of
\* data, and bits that are none of these.
ScanValue == Instruction \cup VirCode \cup {"captured", "zero", "word", "junk"}

Port == [state : TapState, id : {Node, NoId}, lastVir : VirCode \cup {Unset},
         error : {0, -1}, tap : TapState, sr : ScanValue, over : -1 .. 1,
         ir : ScanValue, vir : ScanValue, addr : Nat, broke : BOOLEAN, wiped : BOOLEAN,
         known : BOOLEAN]

\* Power-up: the struct is zero but for id, so that lastVir is JBC_WRITE.
PowerUp ==
  [state : {"RESET"}, id : {NoId}, lastVir : {JBC_WRITE}, error : {0}, tap : TapState,
   sr : {"junk"}, over : {0}, ir : {"IDCODE"}, vir : {"junk"}, addr : {0},
   broke : {FALSE}, wiped : {FALSE}, known : {FALSE}]

-----------------------------------------------------------------------------
(* One clock of TCK with TMS at mode. *)

\* The register after the clocks: zeros stay zeros when one more is shifted in.
Settled(sr, over) == IF over = 0 \/ sr = "zero" THEN sr ELSE "junk"

\* On the clock that leaves the shift state one more bit is shifted.
Shifted(p) == IF p.tap \in ShiftState /\ p.over < 1 THEN p.over + 1 ELSE p.over

\* An instruction that is not one of the library's, and a reconfiguration,
\* leave an FPGA that no scan has seen.
Disturbs(ir) == ir \notin Instruction \/ ir = "PULSE_NCONFIG"

\* to is the state that the clock leads to, loaded what an update would load.
Clocked(p, mode, to, loaded) ==
  [p EXCEPT
     !.state = JSM[p.state][mode + 1],
     !.tap   = to,
     !.over  = IF to \in {"CAPTURE_IR", "CAPTURE_DR"} THEN 0 ELSE Shifted(p),
     !.sr    = IF to \in {"CAPTURE_IR", "CAPTURE_DR"} THEN "captured" ELSE p.sr,
     !.ir    = IF to = "RESET" THEN "IDCODE"
               ELSE IF to = "UPDATE_IR" THEN loaded ELSE p.ir,
     !.vir   = IF to = "UPDATE_DR" /\ p.ir = "USER1_VIR" THEN loaded
               ELSE IF to = "UPDATE_IR" /\ loaded = "PULSE_NCONFIG" THEN "junk" ELSE p.vir,
     !.wiped = p.wiped \/ (to = "UPDATE_IR" /\ loaded = "PULSE_NCONFIG"),
     !.known = p.known /\ ~(to = "UPDATE_IR" /\ Disturbs(loaded))]

AdvanceJSM(p, mode) == Clocked(p, mode, JSM[p.tap][mode + 1], Settled(p.sr, p.over))

Walk2(p, a, b)          == AdvanceJSM(AdvanceJSM(p, a), b)
Walk3(p, a, b, c)       == AdvanceJSM(Walk2(p, a, b), c)
Walk5(p, a, b, c, d, e) == Walk2(Walk3(p, a, b, c), d, e)

\* The clocks of ReadTDO, with TMS low: three are enough to come to rest.
Idled(s) == JSM[JSM[JSM[s][1]][1]][1]

\* ReadTDO and ReadTDOBuf: value goes into the register; with inst the last
\* bit is left for the clock that leaves the shift state.
ReadTDO(p, value, inst) ==
  [p EXCEPT !.tap  = Idled(p.tap),
            !.sr   = IF p.tap \in ShiftState THEN value ELSE p.sr,
            !.over = IF p.tap \notin ShiftState THEN p.over
                     ELSE IF inst = 1 THEN -1 ELSE 0]

-----------------------------------------------------------------------------
(* The walks of the library.  They give up in silence in a wrong state. *)

Js_Updatedr(p) == IF p.state # "SHIFT_DR" THEN p ELSE Walk2(p, 1, 1)

Js_Shiftdr(p) ==
  IF p.state \in {"UPDATE_DR", "UPDATE_IR"} THEN Walk3(p, 1, 0, 0)
  ELSE IF p.state \in {"RESET", "RUNIDLE"} THEN Walk5(p, 0, 0, 1, 0, 0)
  ELSE p

\* Mutant: one clock too few to get to RESET from anywhere.
Js_RunidleShort(p) ==
  AdvanceJSM(IF p.state \in {"UPDATE_IR", "UPDATE_DR"} THEN p ELSE Walk2(Walk2(p, 1, 1), 1, 1), 0)

Js_Runidle(p) ==
  AdvanceJSM(IF p.state \in {"UPDATE_IR", "UPDATE_DR"} THEN p ELSE Walk5(p, 1, 1, 1, 1, 1), 0)

ToShiftIR(p) ==
  Walk5(IF p.state \notin {"RUNIDLE", "RESET"} THEN Js_Runidle(p) ELSE p, 0, 1, 1, 0, 0)

SetupChain(p, action) == Walk2(ReadTDO(ToShiftIR(p), action, 1), 1, 1)

\* The second half of LoadJI.  whole: what comes out of TDO arrives.  Only
\* then the record is 0x155.
Shift(s, action, whole) ==
  LET r    == ReadTDO(s, action, 1)
      good == whole /\ s.tap = "SHIFT_IR" /\ s.sr = "captured"
  IN IF good THEN [Walk2(r, 1, 1) EXCEPT !.error = 0]
             ELSE [r EXCEPT !.error = -1, !.broke = TRUE]

LoadJI(p, action, whole) == Shift(ToShiftIR(p), action, whole)

CheckStatus(p) ==
  Js_Runidle(Js_Updatedr(ReadTDO(Js_Shiftdr(SetupChain(p, "CHECK_STATUS")), "zero", 0)))

-----------------------------------------------------------------------------
(* The calls.  whole[i] is for the i-th LoadJI of a call. *)

Call(p) == [p EXCEPT !.broke = FALSE, !.wiped = FALSE, !.error = 0]

\* The code has the id above the instruction; without a node it is of some
\* other length.
Code(p, instruction) == IF p.id = Node THEN instruction ELSE "junk"

\* What follows LoadJI in jtagVIR.
SendCode(l, instruction) ==
  IF l.error < 0 THEN l
  ELSE [Js_Updatedr(ReadTDO(Js_Shiftdr(l), Code(l, instruction), 1))
          EXCEPT !.lastVir = instruction]

\* Mutant: lastVir is set before it is known that LoadJI succeeded.
jtagVIREarly(p, instruction, whole) ==
  IF p.lastVir = instruction THEN [p EXCEPT !.error = 0]
  ELSE SendCode(LoadJI([p EXCEPT !.lastVir = instruction], "USER1_VIR", whole), instruction)

\* The virtual instruction is loaded if it is not the one loaded last.
jtagVIR(p, instruction, whole) ==
  IF p.lastVir = instruction THEN [p EXCEPT !.error = 0]
  ELSE SendCode(LoadJI(p, "USER1_VIR", whole), instruction)

\* Mutant: all bits are shifted before the clock that leaves SHIFT_IR.
ToDataOver(p, whole) ==
  LET s == ToShiftIR(p)
  IN IF whole THEN Js_Shiftdr(Walk2(ReadTDO(s, "USER0_VDR", 0), 1, 1))
              ELSE [ReadTDO(s, "USER0_VDR", 0) EXCEPT !.error = -1, !.broke = TRUE]

\* USER0_VDR, whatever LoadJI returns, and the way to SHIFT_DR.
ToData(p, whole) == Js_Shiftdr(LoadJI(p, "USER0_VDR", whole))

\* The node takes words from the data register as they are shifted.
Reaches(p, instruction) == p.tap = "SHIFT_DR" /\ p.ir = "USER0_VDR" /\ p.vir = instruction

SendAddress(p, a) ==
  [ReadTDO(p, "word", 0) EXCEPT !.addr = IF Reaches(p, JBC_WRITE) THEN a ELSE p.addr]

\* What follows the first jtagVIR of a call.
WriteWord(v, a, whole) ==
  IF v.error < 0 THEN v
  ELSE [SendAddress(ToData(v, whole[2]), a) EXCEPT !.error = 0]

jtagWriteBuffer(p, a, whole) == WriteWord(jtagVIR(Call(p), JBC_WRITE, whole[1]), a, whole)

\* Mutant: the data register is not selected again after JBC_READ.
FetchWordOnce(r, whole) ==
  IF r.error < 0 THEN r ELSE [ReadTDO(Js_Shiftdr(r), "word", 0) EXCEPT !.error = 0]

\* What follows the second one.
FetchWord(r, whole) ==
  IF r.error < 0 THEN r ELSE [ReadTDO(ToData(r, whole[4]), "word", 0) EXCEPT !.error = 0]

ReadWord(v, a, whole) ==
  IF v.error < 0 THEN v
  ELSE FetchWord(jtagVIR(SendAddress(ToData(v, whole[2]), a), JBC_READ, whole[3]), whole)

jtagReadBuffer(p, a, whole) == ReadWord(jtagVIR(Call(p), JBC_WRITE, whole[1]), a, whole)

\* A nibble of the hub's description.  Every round of the loops of the scan
\* ends in RUNIDLE and leaves the registers as the first one did.
ScanNibble(p) == Js_Runidle(Js_Updatedr(ReadTDO(Js_Shiftdr(p), "zero", 0)))

\* The hub answers if it was addressed.
HubAnswers(p) == Reaches(Js_Shiftdr(p), "zero")

\* Mutant: the id is a signed char.
jtagInitSigned(p, configured, found, whole) ==
  LET b   == CheckStatus(Js_Runidle(Call(p)))
      c   == Js_Updatedr(ReadTDO(Js_Shiftdr(LoadJI(b, "USER1_VIR", whole[1])), "zero", 0))
      d   == LoadJI(c, "USER0_VDR", whole[2])
      hit == found /\ HubAnswers(d)
  IN IF ~configured THEN [b EXCEPT !.error = -1]
     ELSE [ScanNibble(d) EXCEPT !.id = IF hit THEN Node ELSE -1, !.lastVir = Unset,
                                !.error = IF hit THEN 0 ELSE -1, !.known = hit]

\* configured: CONF_DONE as it is read; found: the hub has the node.
jtagInit(p, configured, found, whole) ==
  LET b   == CheckStatus(Js_Runidle(Call(p)))
      c   == Js_Updatedr(ReadTDO(Js_Shiftdr(LoadJI(b, "USER1_VIR", whole[1])), "zero", 0))
      d   == LoadJI(c, "USER0_VDR", whole[2])
      hit == found /\ HubAnswers(d)
  IN IF ~configured THEN [b EXCEPT !.error = -1]
     ELSE [ScanNibble(d) EXCEPT !.id = IF hit THEN Node ELSE NoId, !.lastVir = Unset,
                                !.error = IF hit THEN 0 ELSE -1, !.known = hit]

jtagReload(p, whole) == Js_Shiftdr(LoadJI(Call(p), "PULSE_NCONFIG", whole[1]))

\* The guard compares an unsigned char with -1.
resetExternalChip(p, whole) == IF p.id # -1 THEN jtagReload(p, whole) ELSE p

\* What became of the words of a call: they met the node, or they were bits
\* of the instruction register, or the call gave up before.
Landed(p)  == p.error = 0 /\ Reaches(p, JBC_WRITE)
Fetched(p) == p.error = 0 /\ Reaches(p, JBC_READ)

\* What the pins do while the library does not drive them.
Foreign(p, t) ==
  [p EXCEPT !.tap = t, !.sr = "junk", !.over = 0, !.ir = "IDCODE", !.vir = "junk",
            !.known = FALSE]
=============================================================================
