------------------------- MODULE VidorMailboxProofs -------------------------
(***************************************************************************)
(* Proofs about VidorMailbox, for all addresses, words, time limits and    *)
(* any number of broken chains.  IInv adds to the types that the port is   *)
(* at rest between calls, and that while own holds the FPGA is on its way  *)
(* from cmd to Result[cmd].  Part 1 is about the port alone.               *)
(***************************************************************************)
EXTENDS VidorMailbox, TLAPS

-----------------------------------------------------------------------------
(***************************************************************************)
(* Part 1.  What the walks and calls of jtag.c do to the port, whatever    *)
(* the chain answers: one lemma per function, from one clock of TCK        *)
(* upwards.  Between calls the TAP is where the library believes it, in    *)
(* one of three states, and never in SHIFT_DR with USER1_VIR loaded, so    *)
(* that the next reset walk does not load a virtual instruction by         *)
(* accident.                                                               *)
(***************************************************************************)

\* The states, and that the table leads from state to state.
LEMMA Table ==
  /\ TapState = {"RESET", "RUNIDLE", "SELECT_IR", "CAPTURE_IR", "SHIFT_IR", "EXIT1_IR",
                 "PAUSE_IR", "EXIT2_IR", "UPDATE_IR", "SELECT_DR", "CAPTURE_DR", "SHIFT_DR",
                 "EXIT1_DR", "PAUSE_DR", "EXIT2_DR", "UPDATE_DR"}
  /\ \A s \in TapState, mode \in {0, 1} : JSM[s][mode + 1] \in TapState
  BY DEF TapState, JSM

\* The rows of the table that the walks take.
LEMMA Rows ==
  /\ JSM["RESET"][0 + 1] = "RUNIDLE" /\ JSM["RESET"][1 + 1] = "RESET"
  /\ JSM["RUNIDLE"][0 + 1] = "RUNIDLE" /\ JSM["RUNIDLE"][1 + 1] = "SELECT_DR"
  /\ JSM["SELECT_IR"][0 + 1] = "CAPTURE_IR" /\ JSM["SELECT_IR"][1 + 1] = "RESET"
  /\ JSM["CAPTURE_IR"][0 + 1] = "SHIFT_IR" /\ JSM["CAPTURE_IR"][1 + 1] = "EXIT1_IR"
  /\ JSM["SHIFT_IR"][0 + 1] = "SHIFT_IR" /\ JSM["SHIFT_IR"][1 + 1] = "EXIT1_IR"
  /\ JSM["EXIT1_IR"][1 + 1] = "UPDATE_IR" /\ JSM["EXIT2_IR"][1 + 1] = "UPDATE_IR"
  /\ JSM["PAUSE_IR"][1 + 1] = "EXIT2_IR" /\ JSM["PAUSE_DR"][1 + 1] = "EXIT2_DR"
  /\ JSM["UPDATE_IR"][0 + 1] = "RUNIDLE" /\ JSM["UPDATE_IR"][1 + 1] = "SELECT_DR"
  /\ JSM["SELECT_DR"][0 + 1] = "CAPTURE_DR" /\ JSM["SELECT_DR"][1 + 1] = "SELECT_IR"
  /\ JSM["CAPTURE_DR"][0 + 1] = "SHIFT_DR" /\ JSM["CAPTURE_DR"][1 + 1] = "EXIT1_DR"
  /\ JSM["SHIFT_DR"][0 + 1] = "SHIFT_DR" /\ JSM["SHIFT_DR"][1 + 1] = "EXIT1_DR"
  /\ JSM["EXIT1_DR"][1 + 1] = "UPDATE_DR" /\ JSM["EXIT2_DR"][1 + 1] = "UPDATE_DR"
  /\ JSM["UPDATE_DR"][0 + 1] = "RUNIDLE" /\ JSM["UPDATE_DR"][1 + 1] = "SELECT_DR"
  BY DEF JSM

\* q is p after one clock with TMS at mode, field by field.
Advanced(p, mode, q) ==
  /\ q \in Port
  /\ q.id = p.id /\ q.lastVir = p.lastVir /\ q.error = p.error
  /\ q.broke = p.broke /\ q.addr = p.addr
  /\ q.state = JSM[p.state][mode + 1]
  /\ q.tap = JSM[p.tap][mode + 1]
  /\ q.over = IF q.tap \in {"CAPTURE_IR", "CAPTURE_DR"} THEN 0 ELSE Shifted(p)
  /\ q.sr = IF q.tap \in {"CAPTURE_IR", "CAPTURE_DR"} THEN "captured" ELSE p.sr
  /\ q.ir = IF q.tap = "RESET" THEN "IDCODE"
            ELSE IF q.tap = "UPDATE_IR" THEN Settled(p.sr, p.over) ELSE p.ir
  /\ q.vir = IF q.tap = "UPDATE_DR" /\ p.ir = "USER1_VIR" THEN Settled(p.sr, p.over)
             ELSE IF q.tap = "UPDATE_IR" /\ Settled(p.sr, p.over) = "PULSE_NCONFIG" THEN "junk"
             ELSE p.vir
  /\ q.wiped = (p.wiped \/ (q.tap = "UPDATE_IR" /\ Settled(p.sr, p.over) = "PULSE_NCONFIG"))
  /\ q.known = (p.known /\ ~(q.tap = "UPDATE_IR" /\ Disturbs(Settled(p.sr, p.over))))

\* AdvanceJSM does what Advanced says, and keeps the port a port.
LEMMA Advance ==
  ASSUME NEW p \in Port, NEW mode \in {0, 1}
  PROVE  Advanced(p, mode, AdvanceJSM(p, mode))
<1> DEFINE to == JSM[p.tap][mode + 1]
           loaded == Settled(p.sr, p.over)
           q == AdvanceJSM(p, mode)
<1>1. to \in TapState /\ JSM[p.state][mode + 1] \in TapState
  BY Table DEF Port
<1>2. loaded \in ScanValue /\ Shifted(p) \in -1 .. 1
  BY DEF Settled, Shifted, ScanValue, Port
<1>3. "IDCODE" \in ScanValue /\ "captured" \in ScanValue /\ "junk" \in ScanValue
  BY DEF ScanValue, Instruction
<1> HIDE DEF to, loaded, q
<1>4. q = [p EXCEPT
       !.state = JSM[p.state][mode + 1],
       !.tap   = to,
       !.over  = IF to \in {"CAPTURE_IR", "CAPTURE_DR"} THEN 0 ELSE Shifted(p),
       !.sr    = IF to \in {"CAPTURE_IR", "CAPTURE_DR"} THEN "captured" ELSE p.sr,
       !.ir    = IF to = "RESET" THEN "IDCODE"
                 ELSE IF to = "UPDATE_IR" THEN loaded ELSE p.ir,
       !.vir   = IF to = "UPDATE_DR" /\ p.ir = "USER1_VIR" THEN loaded
                 ELSE IF to = "UPDATE_IR" /\ loaded = "PULSE_NCONFIG" THEN "junk" ELSE p.vir,
       !.wiped = p.wiped \/ (to = "UPDATE_IR" /\ loaded = "PULSE_NCONFIG"),
       !.known = p.known /\ ~(to = "UPDATE_IR" /\ Disturbs(loaded))]
  BY DEF AdvanceJSM, Clocked, to, loaded, q
<1>5. q.tap = to /\ q.state = JSM[p.state][mode + 1]
  BY <1>4 DEF Port
<1>6. q.over = IF to \in {"CAPTURE_IR", "CAPTURE_DR"} THEN 0 ELSE Shifted(p)
  BY <1>4 DEF Port
<1>7. q.sr = IF to \in {"CAPTURE_IR", "CAPTURE_DR"} THEN "captured" ELSE p.sr
  BY <1>4 DEF Port
<1>8. q.ir = IF to = "RESET" THEN "IDCODE" ELSE IF to = "UPDATE_IR" THEN loaded ELSE p.ir
  BY <1>4 DEF Port
<1>9. q.vir = IF to = "UPDATE_DR" /\ p.ir = "USER1_VIR" THEN loaded
              ELSE IF to = "UPDATE_IR" /\ loaded = "PULSE_NCONFIG" THEN "junk" ELSE p.vir
  BY <1>4 DEF Port
<1>10. q.wiped = (p.wiped \/ (to = "UPDATE_IR" /\ loaded = "PULSE_NCONFIG"))
  BY <1>4, Zenon DEF Port
<1>11. q.known = (p.known /\ ~(to = "UPDATE_IR" /\ Disturbs(loaded)))
  BY <1>4, SMT DEF Port
<1>12. /\ q.id = p.id /\ q.lastVir = p.lastVir /\ q.error = p.error
       /\ q.broke = p.broke /\ q.addr = p.addr
  BY <1>4 DEF Port
<1>13. q \in Port
  <2>1. /\ q.state \in TapState /\ q.tap \in TapState /\ q.over \in -1 .. 1
        /\ q.sr \in ScanValue /\ q.ir \in ScanValue /\ q.vir \in ScanValue
        /\ q.wiped \in BOOLEAN /\ q.known \in BOOLEAN
    BY <1>1, <1>2, <1>3, <1>5, <1>6, <1>7, <1>8, <1>9, <1>10, <1>11 DEF Port
  <2>2. q = [p EXCEPT !.state = q.state, !.tap = q.tap, !.over = q.over, !.sr = q.sr,
                      !.ir = q.ir, !.vir = q.vir, !.wiped = q.wiped, !.known = q.known]
    BY <1>4 DEF Port
  <2> QED
    BY <2>1, <2>2 DEF Port
<1> QED
  BY <1>5, <1>6, <1>7, <1>8, <1>9, <1>10, <1>11, <1>12, <1>13 DEF to, loaded, q, Advanced

\* The library's copy of the TAP state is right.
Agree(p) == p \in Port /\ p.state = p.tap

\* From p to q nothing that the library remembers has become wrong: if the FPGA
\* is still the one that was scanned, its virtual instruction was not touched.
Safe(p, q) ==
  /\ q.id = p.id /\ q.lastVir = p.lastVir /\ q.addr = p.addr
  /\ q.known => p.known /\ q.vir = p.vir /\ q.wiped = p.wiped

\* No error was met on the way.
Flags(p, q) == q.error = p.error /\ q.broke = p.broke

\* Neither instruction register was touched.
Same(p, q) ==
  Safe(p, q) /\ Flags(p, q) /\ q.ir = p.ir /\ q.vir = p.vir /\ q.known = p.known

\* Safe steps add up.
LEMMA SafeTransitive ==
  ASSUME NEW p, NEW q, NEW r, Safe(p, q), Safe(q, r)
  PROVE  Safe(p, r)
  BY DEF Safe

\* So do steps that touch no instruction.
LEMMA SameTransitive ==
  ASSUME NEW p, NEW q, NEW r, Same(p, q), Same(q, r)
  PROVE  Same(p, r)
  BY DEF Same, Safe, Flags

\* One clock keeps the copy right, and touches no instruction except on the way
\* through RESET, UPDATE_IR and UPDATE_DR.
LEMMA Step ==
  ASSUME NEW p, Agree(p), NEW mode \in {0, 1}, NEW to, to = JSM[p.tap][mode + 1]
  PROVE  LET q == AdvanceJSM(p, mode)
         IN /\ Agree(q) /\ q.tap = to
            /\ to \notin {"UPDATE_IR", "UPDATE_DR", "RESET"} => Same(p, q)
            /\ to = "RESET" => Safe(p, q) /\ Flags(p, q) /\ q.known = p.known
            /\ to \in {"CAPTURE_IR", "CAPTURE_DR"} => q.sr = "captured" /\ q.over = 0
            /\ (to \notin {"CAPTURE_IR", "CAPTURE_DR"} /\ p.tap \notin ShiftState) =>
                  q.sr = p.sr /\ q.over = p.over
<1>1. Advanced(p, mode, AdvanceJSM(p, mode))
  BY Advance DEF Agree
<1> QED
  BY <1>1 DEF Advanced, Agree, Same, Safe, Flags, Shifted, Port

\* From RUNIDLE to SHIFT_IR.
LEMMA WalkToIR ==
  ASSUME NEW p, Agree(p), p.tap \in {"RUNIDLE", "RESET"}
  PROVE  LET q == Walk5(p, 0, 1, 1, 0, 0)
         IN Agree(q) /\ q.tap = "SHIFT_IR" /\ Same(p, q) /\ q.sr = "captured" /\ q.over = 0
<1> DEFINE a == AdvanceJSM(p, 0)
           b == AdvanceJSM(a, 1)
           c == AdvanceJSM(b, 1)
           d == AdvanceJSM(c, 0)
           q == AdvanceJSM(d, 0)
<1>0. Walk5(p, 0, 1, 1, 0, 0) = q
  BY DEF Walk2, Walk3, Walk5
<1>1. Agree(a) /\ a.tap = "RUNIDLE" /\ Same(p, a)
  BY Step, Rows
<1>2. Agree(b) /\ b.tap = "SELECT_DR" /\ Same(a, b)
  BY Step, Rows, <1>1
<1>3. Agree(c) /\ c.tap = "SELECT_IR" /\ Same(b, c)
  BY Step, Rows, <1>2
<1>4. Agree(d) /\ d.tap = "CAPTURE_IR" /\ Same(c, d) /\ d.sr = "captured" /\ d.over = 0
  BY Step, Rows, <1>3
<1>5. Agree(q) /\ q.tap = "SHIFT_IR" /\ Same(d, q) /\ q.sr = "captured" /\ q.over = 0
  BY Step, Rows, <1>4 DEF ShiftState
<1> HIDE DEF a, b, c, d, q
<1>6. Same(p, q)
  BY <1>1, <1>2, <1>3, <1>4, <1>5, SameTransitive
<1> QED
  BY <1>0, <1>5, <1>6

\* From SHIFT_IR to UPDATE_IR: with one bit missing the instruction that was
\* shifted in is loaded, and only PULSE_NCONFIG takes the FPGA away.
LEMMA WalkLeaveIR ==
  ASSUME NEW p, Agree(p), p.tap = "SHIFT_IR"
  PROVE  LET q == Walk2(p, 1, 1)
         IN /\ Agree(q) /\ q.tap = "UPDATE_IR" /\ Safe(p, q) /\ Flags(p, q)
            /\ (p.over = -1 /\ p.sr \in Instruction) => q.ir = p.sr
            /\ (p.over = -1 /\ p.sr \in Instruction \ {"PULSE_NCONFIG"}) => q.known = p.known
<1> DEFINE a == AdvanceJSM(p, 1)
           q == AdvanceJSM(a, 1)
<1>1. Advanced(p, 1, a) /\ Agree(a) /\ a.tap = "EXIT1_IR" /\ Same(p, a)
  BY Advance, Step, Rows DEF Agree
<1>2. Advanced(a, 1, q) /\ Agree(q) /\ q.tap = "UPDATE_IR"
  BY <1>1, Advance, Step, Rows DEF Agree
<1> HIDE DEF a, q
<1>3. a.over = Shifted(p) /\ a.sr = p.sr
  BY <1>1 DEF Advanced
<1>4. p.over = -1 => Settled(a.sr, a.over) = p.sr
  BY <1>3 DEF Settled, Shifted, ShiftState
<1>5. /\ q.ir = Settled(a.sr, a.over)
      /\ q.known = (a.known /\ ~Disturbs(Settled(a.sr, a.over)))
      /\ q.vir = IF Settled(a.sr, a.over) = "PULSE_NCONFIG" THEN "junk" ELSE a.vir
      /\ q.wiped = (a.wiped \/ Settled(a.sr, a.over) = "PULSE_NCONFIG")
  BY <1>2 DEF Advanced
<1>6. Safe(a, q) /\ Flags(a, q)
  BY <1>1, <1>2, <1>5 DEF Advanced, Safe, Flags, Disturbs, Agree, Port
<1>7. Safe(p, q) /\ Flags(p, q)
  BY <1>1, <1>6, SafeTransitive DEF Same, Flags
<1> QED
  BY <1>1, <1>2, <1>4, <1>5, <1>7 DEF Walk2, a, q, Disturbs, Same, Agree, Port

\* From SHIFT_DR to UPDATE_DR: the virtual instruction changes only if
\* USER1_VIR is loaded, and then to what was shifted in.
LEMMA WalkLeaveDR ==
  ASSUME NEW p, Agree(p), p.tap = "SHIFT_DR"
  PROVE  LET q == Walk2(p, 1, 1)
         IN /\ Agree(q) /\ q.tap = "UPDATE_DR" /\ Flags(p, q) /\ q.ir = p.ir
            /\ q.known = p.known /\ q.wiped = p.wiped
            /\ q.id = p.id /\ q.lastVir = p.lastVir /\ q.addr = p.addr
            /\ p.ir # "USER1_VIR" => Same(p, q)
            /\ (p.ir = "USER1_VIR" /\ p.over = -1) => q.vir = p.sr
<1> DEFINE a == AdvanceJSM(p, 1)
           q == AdvanceJSM(a, 1)
<1>1. Advanced(p, 1, a) /\ Agree(a) /\ a.tap = "EXIT1_DR" /\ Same(p, a)
  BY Advance, Step, Rows DEF Agree
<1>2. Advanced(a, 1, q) /\ Agree(q) /\ q.tap = "UPDATE_DR"
  BY <1>1, Advance, Step, Rows DEF Agree
<1> HIDE DEF a, q
<1>3. a.over = Shifted(p) /\ a.sr = p.sr /\ a.wiped = p.wiped
  BY <1>1 DEF Advanced, Agree, Port
<1>4. p.over = -1 => Settled(a.sr, a.over) = p.sr
  BY <1>3 DEF Settled, Shifted, ShiftState
<1>5. /\ q.ir = a.ir /\ q.known = a.known /\ q.wiped = a.wiped
      /\ q.vir = IF a.ir = "USER1_VIR" THEN Settled(a.sr, a.over) ELSE a.vir
  BY <1>1, <1>2 DEF Advanced, Agree, Port
<1>6. /\ Flags(p, q) /\ q.id = p.id /\ q.lastVir = p.lastVir /\ q.addr = p.addr
  BY <1>1, <1>2 DEF Advanced, Flags
<1> QED
  BY <1>1, <1>2, <1>3, <1>4, <1>5, <1>6 DEF Walk2, a, q, Same, Safe, Flags

\* From an update state to SHIFT_DR.
LEMMA WalkUpdatedToDR ==
  ASSUME NEW p, Agree(p), p.tap \in {"UPDATE_IR", "UPDATE_DR"}
  PROVE  LET q == Walk3(p, 1, 0, 0)
         IN Agree(q) /\ q.tap = "SHIFT_DR" /\ Same(p, q)
<1> DEFINE a == AdvanceJSM(p, 1)
           b == AdvanceJSM(a, 0)
           q == AdvanceJSM(b, 0)
<1>1. Agree(a) /\ a.tap = "SELECT_DR" /\ Same(p, a)
  BY Step, Rows
<1>2. Agree(b) /\ b.tap = "CAPTURE_DR" /\ Same(a, b)
  BY <1>1, Step, Rows
<1>3. Agree(q) /\ q.tap = "SHIFT_DR" /\ Same(b, q)
  BY <1>2, Step, Rows
<1>4. Walk3(p, 1, 0, 0) = q
  BY DEF Walk2, Walk3
<1> HIDE DEF a, b, q
<1> QED
  BY <1>1, <1>2, <1>3, <1>4, SameTransitive

\* From RUNIDLE to SHIFT_DR.
LEMMA WalkIdleToDR ==
  ASSUME NEW p, Agree(p), p.tap \in {"RUNIDLE", "RESET"}
  PROVE  LET q == Walk5(p, 0, 0, 1, 0, 0)
         IN Agree(q) /\ q.tap = "SHIFT_DR" /\ Same(p, q)
<1> DEFINE a == AdvanceJSM(p, 0)
           b == AdvanceJSM(a, 0)
           c == AdvanceJSM(b, 1)
           d == AdvanceJSM(c, 0)
           q == AdvanceJSM(d, 0)
<1>1. Agree(a) /\ a.tap = "RUNIDLE" /\ Same(p, a)
  BY Step, Rows
<1>2. Agree(b) /\ b.tap = "RUNIDLE" /\ Same(a, b)
  BY <1>1, Step, Rows
<1>3. Agree(c) /\ c.tap = "SELECT_DR" /\ Same(b, c)
  BY <1>2, Step, Rows
<1>4. Agree(d) /\ d.tap = "CAPTURE_DR" /\ Same(c, d)
  BY <1>3, Step, Rows
<1>5. Agree(q) /\ q.tap = "SHIFT_DR" /\ Same(d, q)
  BY <1>4, Step, Rows
<1>6. Walk5(p, 0, 0, 1, 0, 0) = q
  BY DEF Walk2, Walk3, Walk5
<1> HIDE DEF a, b, c, d, q
<1> QED
  BY <1>1, <1>2, <1>3, <1>4, <1>5, <1>6, SameTransitive

\* The states in which the library calls its walks.
Settling == {"UPDATE_IR", "UPDATE_DR", "RUNIDLE", "SHIFT_DR", "SHIFT_IR"}

\* Js_Shiftdr gets to SHIFT_DR, but for SHIFT_IR, where it gives up.
LEMMA Shiftdr ==
  ASSUME NEW p, Agree(p), p.tap \in Settling
  PROVE  LET q == Js_Shiftdr(p)
         IN /\ Agree(q) /\ Same(p, q)
            /\ q.tap = IF p.tap = "SHIFT_IR" THEN "SHIFT_IR" ELSE "SHIFT_DR"
<1>1. CASE p.tap \in {"UPDATE_IR", "UPDATE_DR"}
  BY <1>1, WalkUpdatedToDR DEF Js_Shiftdr, Agree
<1>2. CASE p.tap = "RUNIDLE"
  BY <1>2, WalkIdleToDR DEF Js_Shiftdr, Agree
<1>3. CASE p.tap \in {"SHIFT_DR", "SHIFT_IR"}
  BY <1>3 DEF Js_Shiftdr, Agree, Same, Safe, Flags
<1> QED
  BY <1>1, <1>2, <1>3 DEF Settling

\* Js_Updatedr gets from SHIFT_DR to UPDATE_DR and elsewhere does nothing.
LEMMA Updatedr ==
  ASSUME NEW p, Agree(p)
  PROVE  LET q == Js_Updatedr(p)
         IN /\ Agree(q) /\ Flags(p, q) /\ q.ir = p.ir
            /\ q.known = p.known /\ q.wiped = p.wiped
            /\ q.id = p.id /\ q.lastVir = p.lastVir /\ q.addr = p.addr
            /\ q.tap = IF p.tap = "SHIFT_DR" THEN "UPDATE_DR" ELSE p.tap
            /\ p.ir # "USER1_VIR" => Same(p, q)
            /\ (p.tap = "SHIFT_DR" /\ p.ir = "USER1_VIR" /\ p.over = -1) => q.vir = p.sr
<1>1. CASE p.tap = "SHIFT_DR"
  BY <1>1, WalkLeaveDR DEF Js_Updatedr, Agree
<1>2. CASE p.tap # "SHIFT_DR"
  BY <1>2 DEF Js_Updatedr, Agree, Same, Safe, Flags
<1> QED
  BY <1>1, <1>2

\* ReadTDO stays in the state it is called in and changes the scan register only.
LEMMA Reading ==
  ASSUME NEW p, Agree(p), p.tap \in Settling \ {"UPDATE_IR", "UPDATE_DR"},
         NEW value \in ScanValue, NEW inst \in {0, 1}
  PROVE  LET q == ReadTDO(p, value, inst)
         IN /\ Agree(q) /\ Same(p, q) /\ q.tap = p.tap
            /\ p.tap \in ShiftState => q.sr = value /\ q.over = IF inst = 1 THEN -1 ELSE 0
<1>1. Idled(p.tap) = p.tap
  BY Rows DEF Idled, Settling
<1> DEFINE q == ReadTDO(p, value, inst)
<1>2. /\ q.tap = p.tap
      /\ q.sr = IF p.tap \in ShiftState THEN value ELSE p.sr
      /\ q.over = IF p.tap \notin ShiftState THEN p.over ELSE IF inst = 1 THEN -1 ELSE 0
      /\ q.state = p.state /\ Same(p, q)
  BY <1>1 DEF ReadTDO, Agree, Same, Safe, Flags, Port
<1>3. q \in Port
  <2>1. q.tap \in TapState /\ q.sr \in ScanValue /\ q.over \in -1 .. 1
    BY <1>2 DEF Agree, Port
  <2>2. q = [p EXCEPT !.tap = q.tap, !.sr = q.sr, !.over = q.over]
    BY <1>1 DEF ReadTDO, Agree, Port
  <2> QED
    BY <2>1, <2>2 DEF Agree, Port
<1> QED
  BY <1>2, <1>3 DEF Agree

\* Js_Runidle gets to RUNIDLE and, unless it starts in SHIFT_DR under USER1_VIR,
\* loads no virtual instruction.
LEMMA Runidle ==
  ASSUME NEW p, Agree(p), p.tap \in Settling,
         p.tap = "SHIFT_DR" => p.ir # "USER1_VIR"
  PROVE  LET q == Js_Runidle(p)
         IN /\ Agree(q) /\ q.tap = "RUNIDLE" /\ Safe(p, q) /\ Flags(p, q)
            /\ p.tap # "SHIFT_IR" => q.known = p.known
<1>1. CASE p.tap \in {"UPDATE_IR", "UPDATE_DR"}
  BY <1>1, Step, Rows DEF Js_Runidle, Agree, Same
<1>2. CASE p.tap \in {"RUNIDLE", "SHIFT_DR", "SHIFT_IR"}
  <2> DEFINE a == AdvanceJSM(p, 1)
             b == AdvanceJSM(a, 1)
             c == AdvanceJSM(b, 1)
             d == AdvanceJSM(c, 1)
             e == AdvanceJSM(d, 1)
             q == AdvanceJSM(e, 0)
  <2>0. Js_Runidle(p) = q
    BY <1>2 DEF Js_Runidle, Agree, Walk2, Walk3, Walk5
  <2> HIDE DEF a, b, c, d, e, q
  <2>1. /\ Agree(b) /\ b.tap \in {"UPDATE_DR", "UPDATE_IR", "SELECT_IR"}
        /\ Safe(p, b) /\ Flags(p, b)
        /\ p.tap # "SHIFT_IR" => b.known = p.known
    <3>1. CASE p.tap = "SHIFT_DR"
      BY <3>1, WalkLeaveDR DEF a, b, Walk2, Same
    <3>2. CASE p.tap = "SHIFT_IR"
      BY <3>2, WalkLeaveIR DEF a, b, Walk2
    <3>3. CASE p.tap = "RUNIDLE"
      <4>1. Agree(a) /\ a.tap = "SELECT_DR" /\ Same(p, a)
        BY <3>3, Step, Rows DEF a
      <4>2. Agree(b) /\ b.tap = "SELECT_IR" /\ Same(a, b)
        BY <4>1, Step, Rows DEF b
      <4> QED
        BY <4>1, <4>2, SameTransitive DEF Same
    <3> QED
      BY <1>2, <3>1, <3>2, <3>3
  <2>2. /\ Agree(c) /\ c.tap \in {"SELECT_DR", "RESET"}
        /\ Safe(b, c) /\ Flags(b, c) /\ c.known = b.known
    <3>1. CASE b.tap \in {"UPDATE_DR", "UPDATE_IR"}
      BY <2>1, <3>1, Step, Rows DEF c, Same
    <3>2. CASE b.tap = "SELECT_IR"
      BY <2>1, <3>2, Step, Rows DEF c
    <3> QED
      BY <2>1, <3>1, <3>2
  <2>3. /\ Agree(d) /\ d.tap \in {"SELECT_IR", "RESET"}
        /\ Safe(c, d) /\ Flags(c, d) /\ d.known = c.known
    <3>1. CASE c.tap = "SELECT_DR"
      BY <2>2, <3>1, Step, Rows DEF d, Same
    <3>2. CASE c.tap = "RESET"
      BY <2>2, <3>2, Step, Rows DEF d
    <3> QED
      BY <2>2, <3>1, <3>2
  <2>4. Agree(e) /\ e.tap = "RESET" /\ Safe(d, e) /\ Flags(d, e) /\ e.known = d.known
    BY <2>3, Step, Rows DEF e
  <2>5. Agree(q) /\ q.tap = "RUNIDLE" /\ Same(e, q)
    BY <2>4, Step, Rows DEF q
  <2>6. Safe(p, q) /\ Flags(p, q) /\ (p.tap # "SHIFT_IR" => q.known = p.known)
    BY <2>1, <2>2, <2>3, <2>4, <2>5, SafeTransitive DEF Same, Flags
  <2> QED
    BY <2>0, <2>5, <2>6
<1> QED
  BY <1>1, <1>2 DEF Settling

\* What RunidleAny needs of the table: five ones reset any state.
LEMMA FiveOnes ==
  \A s \in TapState : JSM[JSM[JSM[JSM[JSM[s][1 + 1]][1 + 1]][1 + 1]][1 + 1]][1 + 1] = "RESET"
<1> DEFINE Next1(s) == JSM[s][1 + 1]
<1>1. ASSUME NEW s \in {"RESET", "RUNIDLE", "SELECT_IR", "SELECT_DR"}
      PROVE  Next1(Next1(Next1(s))) \in {"RESET", "SELECT_IR"}
  BY Rows
<1>2. ASSUME NEW s \in {"CAPTURE_IR", "SHIFT_IR", "EXIT1_IR", "PAUSE_IR", "EXIT2_IR", "UPDATE_IR"}
      PROVE  Next1(Next1(Next1(s))) \in {"RESET", "SELECT_DR", "SELECT_IR"}
  BY Rows
<1>a. ASSUME NEW s \in {"CAPTURE_DR", "SHIFT_DR", "EXIT1_DR", "PAUSE_DR", "EXIT2_DR", "UPDATE_DR"}
      PROVE  Next1(Next1(Next1(s))) \in {"RESET", "SELECT_DR", "SELECT_IR"}
  BY Rows
<1>3. Next1(Next1("SELECT_DR")) = "RESET" /\ Next1(Next1("SELECT_IR")) = "RESET"
      /\ Next1(Next1("RESET")) = "RESET"
  BY Rows
<1> HIDE DEF Next1
<1>4. ASSUME NEW s \in TapState PROVE Next1(Next1(Next1(Next1(Next1(s))))) = "RESET"
  <2>1. Next1(Next1(Next1(s))) \in {"RESET", "SELECT_DR", "SELECT_IR"}
    BY <1>1, <1>2, <1>a, Table
  <2> QED
    BY <1>3, <2>1
<1> QED
  BY <1>4 DEF Next1

\* After a foreign driver Js_Runidle makes the copy right again.
LEMMA RunidleAny ==
  ASSUME NEW p \in Port, p.state \notin {"UPDATE_IR", "UPDATE_DR"}, ~p.known
  PROVE  LET q == Js_Runidle(p)
         IN Agree(q) /\ q.tap = "RUNIDLE" /\ Safe(p, q) /\ Flags(p, q)
<1> DEFINE a == AdvanceJSM(p, 1)
           b == AdvanceJSM(a, 1)
           c == AdvanceJSM(b, 1)
           d == AdvanceJSM(c, 1)
           e == AdvanceJSM(d, 1)
           q == AdvanceJSM(e, 0)
<1>0. Js_Runidle(p) = q
  BY DEF Js_Runidle, Walk2, Walk3, Walk5
<1>1. Advanced(p, 1, a)
  BY Advance
<1> HIDE DEF a
<1>2. Advanced(a, 1, b)
  BY <1>1, Advance DEF Advanced
<1> HIDE DEF b
<1>3. Advanced(b, 1, c)
  BY <1>2, Advance DEF Advanced
<1> HIDE DEF c
<1>4. Advanced(c, 1, d)
  BY <1>3, Advance DEF Advanced
<1> HIDE DEF d
<1>5. Advanced(d, 1, e)
  BY <1>4, Advance DEF Advanced
<1> HIDE DEF e
<1>6. Advanced(e, 0, q)
  BY <1>5, Advance DEF Advanced
<1> HIDE DEF q
<1>7. e.tap = "RESET" /\ e.state = "RESET"
  <2>1. /\ a.tap = JSM[p.tap][1 + 1] /\ c.tap = JSM[b.tap][1 + 1]
        /\ b.tap = JSM[a.tap][1 + 1] /\ d.tap = JSM[c.tap][1 + 1] /\ e.tap = JSM[d.tap][1 + 1]
        /\ p.tap \in TapState
    BY <1>1, <1>2, <1>3, <1>4, <1>5 DEF Advanced, Port
  <2>2. /\ a.state = JSM[p.state][1 + 1] /\ c.state = JSM[b.state][1 + 1]
        /\ b.state = JSM[a.state][1 + 1] /\ d.state = JSM[c.state][1 + 1]
        /\ e.state = JSM[d.state][1 + 1] /\ p.state \in TapState
    BY <1>1, <1>2, <1>3, <1>4, <1>5 DEF Advanced, Port
  <2> QED
    <3>1. e.tap = "RESET"
      BY <2>1, FiveOnes
    <3>2. e.state = "RESET"
      BY <2>2, FiveOnes
    <3> QED
      BY <3>1, <3>2
<1>8. q \in Port /\ q.tap = "RUNIDLE" /\ q.state = "RUNIDLE"
  BY <1>6, <1>7, Rows DEF Advanced
<1>9. ~q.known /\ Flags(p, q) /\ q.id = p.id /\ q.lastVir = p.lastVir /\ q.addr = p.addr
  <2>1. ASSUME NEW x, NEW y, NEW m \in {0, 1}, Advanced(x, m, y)
        PROVE  /\ Flags(x, y) /\ y.id = x.id /\ y.lastVir = x.lastVir /\ y.addr = x.addr
               /\ ~x.known => ~y.known
    BY <2>1 DEF Advanced, Flags
  <2> QED
    BY <1>1, <1>2, <1>3, <1>4, <1>5, <1>6, <2>1 DEF Flags
<1> QED
  BY <1>0, <1>8, <1>9 DEF Agree, Safe

\* The port in one of the states between calls, and after Js_Updatedr.
Steady(p) ==
  /\ Agree(p) /\ p.tap \in Settling \ {"UPDATE_IR"}
  /\ p.tap = "SHIFT_DR" => p.ir # "USER1_VIR"

Cached(p) ==
  p.known => p.id = Node /\ (p.lastVir \in VirCode => p.vir = p.lastVir)

\* Setting the flags of a call changes nothing else.
LEMMA FlagError ==
  ASSUME NEW p, Agree(p), NEW e \in {0, -1}
  PROVE  LET q == [p EXCEPT !.error = e]
         IN /\ Agree(q) /\ Safe(p, q) /\ q.error = e /\ q.broke = p.broke
            /\ q.tap = p.tap /\ q.ir = p.ir /\ q.vir = p.vir /\ q.known = p.known
            /\ q.sr = p.sr /\ q.over = p.over
<1>1. [p EXCEPT !.error = e] \in Port
  BY DEF Agree, Port
<1> QED
  BY <1>1 DEF Agree, Port, Safe

LEMMA FlagBroken ==
  ASSUME NEW p, Agree(p), NEW e \in {0, -1}, NEW b \in BOOLEAN
  PROVE  LET q == [p EXCEPT !.error = e, !.broke = b]
         IN /\ Agree(q) /\ Safe(p, q) /\ q.error = e /\ q.broke = b
            /\ q.tap = p.tap /\ q.ir = p.ir /\ q.vir = p.vir /\ q.known = p.known
            /\ q.sr = p.sr /\ q.over = p.over
<1>1. [p EXCEPT !.error = e, !.broke = b] \in Port
  BY DEF Agree, Port
<1> QED
  BY <1>1 DEF Agree, Port, Safe

\* The first half of LoadJI gets to SHIFT_IR.
LEMMA ToIR ==
  ASSUME NEW p, Agree(p), p.tap \in Settling, p.tap = "SHIFT_DR" => p.ir # "USER1_VIR"
  PROVE  LET q == ToShiftIR(p)
         IN /\ Agree(q) /\ q.tap = "SHIFT_IR" /\ q.sr = "captured" /\ q.over = 0
            /\ Safe(p, q) /\ Flags(p, q)
            /\ p.tap # "SHIFT_IR" => q.known = p.known
<1>1. CASE p.tap = "RUNIDLE"
  BY <1>1, WalkToIR DEF ToShiftIR, Agree, Same
<1>2. CASE p.tap # "RUNIDLE"
  <2> DEFINE r == Js_Runidle(p)
             q == Walk5(r, 0, 1, 1, 0, 0)
  <2>1. ToShiftIR(p) = q
    BY <1>2 DEF ToShiftIR, Agree, Settling
  <2>2. /\ Agree(r) /\ r.tap = "RUNIDLE" /\ Safe(p, r) /\ Flags(p, r)
        /\ p.tap # "SHIFT_IR" => r.known = p.known
    BY Runidle
  <2> HIDE DEF r
  <2>3. Agree(q) /\ q.tap = "SHIFT_IR" /\ Same(r, q) /\ q.sr = "captured" /\ q.over = 0
    BY <2>2, WalkToIR
  <2> HIDE DEF q
  <2> QED
    BY <2>1, <2>2, <2>3, SafeTransitive DEF Same, Flags
<1> QED
  BY <1>1, <1>2

\* LoadJI loads its instruction, or reports the broken chain and stays in SHIFT_IR.
LEMMA Loads ==
  ASSUME NEW p, Agree(p), p.tap \in Settling, p.tap = "SHIFT_DR" => p.ir # "USER1_VIR",
         NEW action \in Instruction, NEW whole \in BOOLEAN
  PROVE  LET q == LoadJI(p, action, whole)
         IN /\ Agree(q) /\ Safe(p, q)
            /\ whole => /\ q.tap = "UPDATE_IR" /\ q.ir = action
                        /\ q.error = 0 /\ q.broke = p.broke
            /\ ~whole => q.tap = "SHIFT_IR" /\ q.error = -1 /\ q.broke
            /\ (p.tap # "SHIFT_IR" /\ action # "PULSE_NCONFIG") => q.known = p.known
<1> DEFINE s == ToShiftIR(p)
           r == ReadTDO(s, action, 1)
           u == Walk2(r, 1, 1)
<1>1. /\ Agree(s) /\ s.tap = "SHIFT_IR" /\ s.sr = "captured" /\ Safe(p, s) /\ Flags(p, s)
      /\ p.tap # "SHIFT_IR" => s.known = p.known
  BY ToIR
<1> HIDE DEF s
<1>2. /\ Agree(r) /\ Same(s, r) /\ r.tap = "SHIFT_IR" /\ r.sr = action /\ r.over = -1
  BY <1>1, Reading DEF Settling, ShiftState, ScanValue
<1> HIDE DEF r
<1>3. /\ Agree(u) /\ u.tap = "UPDATE_IR" /\ u.ir = action /\ Safe(r, u) /\ Flags(r, u)
      /\ action # "PULSE_NCONFIG" => u.known = r.known
  BY <1>2, WalkLeaveIR
<1> HIDE DEF u
<1>4. LoadJI(p, action, whole) = IF whole THEN [u EXCEPT !.error = 0]
                                 ELSE [r EXCEPT !.error = -1, !.broke = TRUE]
  BY <1>1 DEF LoadJI, Shift, s, r, u
<1>5. Safe(p, r) /\ Safe(p, u)
  BY <1>1, <1>2, <1>3, SafeTransitive DEF Same
<1>6. CASE whole
  <2> DEFINE q == [u EXCEPT !.error = 0]
  <2>1. /\ Agree(q) /\ Safe(u, q) /\ q.error = 0 /\ q.broke = u.broke
        /\ q.tap = u.tap /\ q.ir = u.ir /\ q.known = u.known
    BY <1>3, FlagError
  <2> HIDE DEF q
  <2>2. Safe(p, q)
    BY <1>5, <2>1, SafeTransitive
  <2>3. LoadJI(p, action, whole) = q
    BY <1>4, <1>6 DEF q
  <2> QED
    BY <1>1, <1>2, <1>3, <1>6, <2>1, <2>2, <2>3 DEF Same, Flags
<1>7. CASE ~whole
  <2> DEFINE q == [r EXCEPT !.error = -1, !.broke = TRUE]
  <2>1. /\ Agree(q) /\ Safe(r, q) /\ q.error = -1 /\ q.broke = TRUE
        /\ q.tap = r.tap /\ q.ir = r.ir /\ q.known = r.known
    BY <1>2, FlagBroken
  <2> HIDE DEF q
  <2>2. Safe(p, q)
    BY <1>5, <2>1, SafeTransitive
  <2>3. LoadJI(p, action, whole) = q
    BY <1>4, <1>7 DEF q
  <2> QED
    BY <1>1, <1>2, <1>7, <2>1, <2>2, <2>3 DEF Same
<1> QED
  BY <1>6, <1>7

\* What jtagVIR makes of the port.
Selected(p, q, i) ==
  /\ Steady(q) /\ Cached(q)
  /\ q.id = p.id /\ q.addr = p.addr
  /\ q.known => p.known /\ q.wiped = p.wiped
  /\ q.error = 0 => q.lastVir = i /\ q.broke = p.broke
  /\ q.error < 0 => q.broke /\ q.tap = "SHIFT_IR"
  /\ q.error \in {0, -1}
  /\ (p.tap # "SHIFT_IR" /\ ~q.broke) => q.known = p.known /\ q.tap # "SHIFT_IR"

\* jtagVIR keeps lastVir true, whether it succeeds, fails or has nothing to do.
LEMMA Virtual ==
  ASSUME NEW p, Steady(p), Cached(p), NEW i \in VirCode, NEW whole \in BOOLEAN
  PROVE  Selected(p, jtagVIR(p, i, whole), i)
<1> DEFINE l == LoadJI(p, "USER1_VIR", whole)
           d == Js_Shiftdr(l)
           r == ReadTDO(d, Code(p, i), 1)
           u == Js_Updatedr(r)
           q == [u EXCEPT !.lastVir = i]
<1>1. CASE p.lastVir = i
  <2> DEFINE k == [p EXCEPT !.error = 0]
  <2>1. jtagVIR(p, i, whole) = k
    BY <1>1 DEF jtagVIR
  <2>2. /\ Agree(k) /\ Safe(p, k) /\ k.error = 0 /\ k.broke = p.broke
        /\ k.tap = p.tap /\ k.ir = p.ir /\ k.vir = p.vir /\ k.known = p.known
    BY FlagError DEF Steady, Agree, Port
  <2> HIDE DEF k
  <2>3. Steady(k) /\ Cached(k)
    BY <2>2 DEF Steady, Cached, Safe
  <2> QED
    BY <1>1, <2>1, <2>2, <2>3 DEF Safe, Selected
<1>2. CASE p.lastVir # i
  <2>1. /\ Agree(l) /\ Safe(p, l)
        /\ whole => l.tap = "UPDATE_IR" /\ l.ir = "USER1_VIR" /\ l.error = 0 /\ l.broke = p.broke
        /\ ~whole => l.tap = "SHIFT_IR" /\ l.error = -1 /\ l.broke
        /\ p.tap # "SHIFT_IR" => l.known = p.known
    BY Loads DEF Steady, Instruction, Settling
  <2> HIDE DEF l
  <2>2. jtagVIR(p, i, whole) = IF l.error < 0 THEN l ELSE q
    <3>1. Code(l, i) = Code(p, i)
      BY <2>1 DEF Code, Safe
    <3>2. jtagVIR(p, i, whole) = SendCode(l, i)
      BY <1>2 DEF jtagVIR, l
    <3> QED
      BY <3>1, <3>2 DEF SendCode
  <2>3. CASE ~whole
    <3>1. jtagVIR(p, i, whole) = l
      BY <2>1, <2>2, <2>3
    <3>2. Steady(l) /\ Cached(l)
      BY <2>1, <2>3 DEF Steady, Cached, Safe, Settling
    <3> QED
      BY <2>1, <2>3, <3>1, <3>2 DEF Safe, Selected
  <2>4. CASE whole
    <3>1. Agree(d) /\ Same(l, d) /\ d.tap = "SHIFT_DR"
      BY <2>1, <2>4, Shiftdr DEF Settling
    <3> HIDE DEF d
    <3>2. Code(p, i) \in ScanValue
      BY DEF Code, ScanValue
    <3>3. Agree(r) /\ Same(d, r) /\ r.tap = "SHIFT_DR" /\ r.sr = Code(p, i) /\ r.over = -1
      BY <3>1, <3>2, Reading DEF Settling, ShiftState
    <3> HIDE DEF r
    <3>4. r.ir = "USER1_VIR"
      BY <2>1, <2>4, <3>1, <3>3 DEF Same
    <3>5. /\ Agree(u) /\ Flags(r, u) /\ u.ir = r.ir /\ u.known = r.known /\ u.wiped = r.wiped
          /\ u.id = r.id /\ u.lastVir = r.lastVir /\ u.addr = r.addr
          /\ u.tap = "UPDATE_DR" /\ u.vir = Code(p, i)
      BY <3>3, <3>4, Updatedr
    <3> HIDE DEF u
    <3>6. /\ Agree(q) /\ q.lastVir = i /\ q.tap = "UPDATE_DR" /\ q.vir = Code(p, i)
          /\ q.error = u.error /\ q.broke = u.broke /\ q.known = u.known /\ q.wiped = u.wiped
          /\ q.id = u.id /\ q.addr = u.addr
      BY <3>5 DEF Agree, Port
    <3> HIDE DEF q
    <3>7. /\ q.error = 0 /\ q.broke = p.broke /\ q.id = p.id /\ q.addr = p.addr
          /\ q.known = l.known /\ (q.known => p.known /\ q.wiped = p.wiped)
      BY <2>1, <2>4, <3>1, <3>3, <3>5, <3>6 DEF Same, Safe, Flags
    <3>8. Steady(q) /\ Cached(q)
      BY <3>6, <3>7 DEF Steady, Cached, Settling, Code
    <3>9. jtagVIR(p, i, whole) = q
      BY <2>1, <2>2, <2>4
    <3> QED
      BY <2>1, <3>6, <3>7, <3>8, <3>9 DEF Selected
  <2> QED
    BY <2>3, <2>4
<1> QED
  BY <1>1, <1>2

\* After ToData the data register is selected, or the chain was broken.
LEMMA Selects ==
  ASSUME NEW p, Steady(p), Cached(p), NEW whole \in BOOLEAN
  PROVE  LET q == ToData(p, whole)
         IN /\ Steady(q) /\ Cached(q) /\ Safe(p, q)
            /\ q.tap \in ShiftState
            /\ whole => q.tap = "SHIFT_DR" /\ q.ir = "USER0_VDR" /\ q.broke = p.broke
            /\ ~whole => q.broke
            /\ p.tap # "SHIFT_IR" => q.known = p.known
<1> DEFINE l == LoadJI(p, "USER0_VDR", whole)
           q == Js_Shiftdr(l)
<1>1. /\ Agree(l) /\ Safe(p, l)
      /\ whole => l.tap = "UPDATE_IR" /\ l.ir = "USER0_VDR" /\ l.broke = p.broke
      /\ ~whole => l.tap = "SHIFT_IR" /\ l.broke
      /\ p.tap # "SHIFT_IR" => l.known = p.known
  BY Loads DEF Steady, Instruction, Settling
<1> HIDE DEF l
<1>2. Agree(q) /\ Same(l, q) /\ q.tap = IF l.tap = "SHIFT_IR" THEN "SHIFT_IR" ELSE "SHIFT_DR"
  BY <1>1, Shiftdr DEF Settling
<1>3. ToData(p, whole) = q
  BY DEF ToData, l
<1> HIDE DEF q
<1>4. Safe(p, q) /\ (p.tap # "SHIFT_IR" => q.known = p.known)
  BY <1>1, <1>2, SafeTransitive DEF Same
<1>5. /\ whole => q.tap = "SHIFT_DR" /\ q.ir = "USER0_VDR" /\ q.broke = p.broke
      /\ ~whole => q.tap = "SHIFT_IR" /\ q.broke
  BY <1>1, <1>2 DEF Same, Flags
<1>6. Steady(q) /\ Cached(q)
  BY <1>2, <1>4, <1>5 DEF Steady, Cached, Safe, Settling
<1> QED
  BY <1>3, <1>4, <1>5, <1>6 DEF ShiftState

\* The address goes to the bridge if the node listens for one.
LEMMA Addresses ==
  ASSUME NEW p, Steady(p), Cached(p), p.tap \in ShiftState, NEW a \in Nat
  PROVE  LET q == SendAddress(p, a)
         IN /\ Steady(q) /\ Cached(q) /\ q.tap = p.tap /\ q.ir = p.ir /\ q.vir = p.vir
            /\ q.known = p.known /\ q.broke = p.broke /\ q.error = p.error
            /\ q.id = p.id /\ q.lastVir = p.lastVir
            /\ q.known => q.wiped = p.wiped
            /\ q.addr = IF Reaches(p, JBC_WRITE) THEN a ELSE p.addr
<1> DEFINE r == ReadTDO(p, "word", 0)
           n == IF Reaches(p, JBC_WRITE) THEN a ELSE p.addr
           q == [r EXCEPT !.addr = n]
<1>1. Agree(r) /\ Same(p, r) /\ r.tap = p.tap
  BY Reading DEF Steady, Settling, ShiftState, ScanValue
<1>2. n \in Nat
  BY DEF Steady, Agree, Port
<1>3. SendAddress(p, a) = q
  BY DEF SendAddress
<1> HIDE DEF r, n
<1>4. /\ Agree(q) /\ q.tap = r.tap /\ q.ir = r.ir /\ q.vir = r.vir /\ q.known = r.known
      /\ q.broke = r.broke /\ q.error = r.error /\ q.id = r.id /\ q.lastVir = r.lastVir
      /\ q.wiped = r.wiped /\ q.addr = n
  BY <1>1, <1>2 DEF Agree, Port
<1> HIDE DEF q
<1>5. Steady(q) /\ Cached(q)
  BY <1>1, <1>4 DEF Steady, Cached, Same, Safe
<1> QED
  BY <1>1, <1>3, <1>4, <1>5 DEF n, Same, Safe, Flags

\* A call starts with its flags down.
LEMMA Calls ==
  ASSUME NEW p, Steady(p), Cached(p)
  PROVE  LET q == Call(p)
         IN /\ Steady(q) /\ Cached(q) /\ ~q.broke /\ ~q.wiped /\ q.error = 0
            /\ q.tap = p.tap /\ q.ir = p.ir /\ q.vir = p.vir /\ q.known = p.known
            /\ q.id = p.id /\ q.lastVir = p.lastVir /\ q.addr = p.addr
<1> DEFINE q == Call(p)
<1>1. /\ Agree(q) /\ ~q.broke /\ ~q.wiped /\ q.error = 0
      /\ q.tap = p.tap /\ q.ir = p.ir /\ q.vir = p.vir /\ q.known = p.known
      /\ q.id = p.id /\ q.lastVir = p.lastVir /\ q.addr = p.addr
  BY DEF Call, Steady, Agree, Port
<1> QED
  BY <1>1 DEF Steady, Cached

\* What a call that moves a word makes of the port.
Moves(p, q, a, i) ==
  /\ Steady(q) /\ Cached(q) /\ q.tap # "UPDATE_DR"
  /\ q.known => p.known /\ ~q.wiped
  /\ q.error \in {0, -1} /\ (q.error = -1 => q.broke)
  /\ q.addr \in {p.addr, a}
  /\ (q.known /\ ~q.broke) => q.error = 0 /\ Reaches(q, i) /\ q.addr = a
  /\ (p.tap # "SHIFT_IR" /\ ~q.broke) => q.known = p.known

\* A write that met no broken chain had its address and word taken by the node.
LEMMA Writes ==
  ASSUME NEW p, Steady(p), Cached(p), NEW a \in Nat, NEW whole \in [1 .. 2 -> BOOLEAN]
  PROVE  Moves(p, jtagWriteBuffer(p, a, whole), a, JBC_WRITE)
<1> DEFINE c == Call(p)
           v == jtagVIR(c, JBC_WRITE, whole[1])
           d == ToData(v, whole[2])
           s == SendAddress(d, a)
           q == [s EXCEPT !.error = 0]
<1>0. whole[1] \in BOOLEAN /\ whole[2] \in BOOLEAN
  OBVIOUS
<1>1. /\ Steady(c) /\ Cached(c) /\ ~c.broke /\ ~c.wiped /\ c.tap = p.tap /\ c.known = p.known
      /\ c.addr = p.addr
  BY Calls
<1> HIDE DEF c
<1>2. /\ Steady(v) /\ Cached(v)
      /\ v.known => c.known /\ v.wiped = c.wiped
      /\ v.error = 0 => v.lastVir = JBC_WRITE /\ v.broke = c.broke
      /\ v.error < 0 => v.broke /\ v.tap = "SHIFT_IR"
      /\ v.error \in {0, -1} /\ v.addr = c.addr
      /\ (c.tap # "SHIFT_IR" /\ ~v.broke) => v.known = c.known /\ v.tap # "SHIFT_IR"
  <2>1. Selected(c, v, JBC_WRITE)
    BY <1>0, <1>1, Virtual DEF VirCode
  <2> HIDE DEF v
  <2> QED
    BY <2>1 DEF Selected
<1> HIDE DEF v
<1>3. jtagWriteBuffer(p, a, whole) = IF v.error < 0 THEN v ELSE q
  BY DEF jtagWriteBuffer, WriteWord, v, c
<1>4. CASE v.error = -1
  <2>1. jtagWriteBuffer(p, a, whole) = v
    BY <1>3, <1>4
  <2> QED
    BY <1>1, <1>2, <1>4, <2>1 DEF Moves
<1>5. CASE v.error = 0
  <2>1. /\ Steady(d) /\ Cached(d) /\ Safe(v, d) /\ d.tap \in ShiftState
        /\ whole[2] => d.tap = "SHIFT_DR" /\ d.ir = "USER0_VDR" /\ d.broke = v.broke
        /\ ~whole[2] => d.broke
        /\ v.tap # "SHIFT_IR" => d.known = v.known
    BY <1>0, <1>2, Selects
  <2> HIDE DEF d
  <2>2. /\ Steady(s) /\ Cached(s) /\ s.tap = d.tap /\ s.ir = d.ir /\ s.vir = d.vir
        /\ s.known = d.known /\ s.broke = d.broke /\ s.error = d.error
        /\ s.known => s.wiped = d.wiped
        /\ s.addr = IF Reaches(d, JBC_WRITE) THEN a ELSE d.addr
    BY <2>1, Addresses
  <2> HIDE DEF s
  <2>a. s.addr \in {p.addr, a}
    BY <1>1, <1>2, <2>1, <2>2 DEF Safe
  <2>3. /\ Agree(q) /\ Safe(s, q) /\ q.error = 0 /\ q.broke = s.broke
        /\ q.tap = s.tap /\ q.ir = s.ir /\ q.vir = s.vir /\ q.known = s.known
    BY <2>2, FlagError DEF Steady
  <2> HIDE DEF q
  <2>4. Steady(q) /\ Cached(q)
    BY <2>2, <2>3 DEF Steady, Cached, Safe
  <2>5. q.known => p.known /\ ~q.wiped
    BY <1>1, <1>2, <2>1, <2>2, <2>3 DEF Safe
  <2>6. (q.known /\ ~q.broke) => Reaches(q, JBC_WRITE) /\ q.addr = a
    <3> SUFFICES ASSUME q.known, ~q.broke PROVE Reaches(q, JBC_WRITE) /\ q.addr = a
      OBVIOUS
    <3>1. d.tap = "SHIFT_DR" /\ d.ir = "USER0_VDR" /\ d.known
      BY <1>0, <2>1, <2>2, <2>3
    <3>2. v.known /\ v.vir = JBC_WRITE /\ d.vir = v.vir
      BY <1>2, <1>5, <2>1, <3>1 DEF Safe, Cached, VirCode
    <3>3. Reaches(d, JBC_WRITE)
      BY <3>1, <3>2 DEF Reaches
    <3> QED
      BY <2>2, <2>3, <3>3 DEF Reaches, Safe
  <2>7. (p.tap # "SHIFT_IR" /\ ~q.broke) => q.known = p.known
    BY <1>0, <1>1, <1>2, <1>5, <2>1, <2>2, <2>3
  <2>8. jtagWriteBuffer(p, a, whole) = q
    BY <1>3, <1>5
  <2> QED
    BY <2>a, <2>1, <2>2, <2>3, <2>4, <2>5, <2>6, <2>7, <2>8 DEF Moves, ShiftState, Safe
<1> QED
  BY <1>2, <1>4, <1>5

\* A read that met no broken chain was of the address it was for.
LEMMA Reads ==
  ASSUME NEW p, Steady(p), Cached(p), NEW a \in Nat, NEW whole \in [1 .. 4 -> BOOLEAN]
  PROVE  Moves(p, jtagReadBuffer(p, a, whole), a, JBC_READ)
<1> DEFINE c == Call(p)
           v == jtagVIR(c, JBC_WRITE, whole[1])
           d == ToData(v, whole[2])
           s == SendAddress(d, a)
           r == jtagVIR(s, JBC_READ, whole[3])
           e == ToData(r, whole[4])
           t == ReadTDO(e, "word", 0)
           q == [t EXCEPT !.error = 0]
<1>0. \A n \in 1 .. 4 : whole[n] \in BOOLEAN
  OBVIOUS
<1>1. /\ Steady(c) /\ Cached(c) /\ ~c.broke /\ ~c.wiped /\ c.tap = p.tap /\ c.known = p.known
      /\ c.addr = p.addr
  BY Calls
<1> HIDE DEF c
<1>2. /\ Steady(v) /\ Cached(v)
      /\ v.known => c.known /\ v.wiped = c.wiped
      /\ v.error = 0 => v.lastVir = JBC_WRITE /\ v.broke = c.broke
      /\ v.error < 0 => v.broke /\ v.tap = "SHIFT_IR"
      /\ v.error \in {0, -1} /\ v.addr = c.addr
      /\ (c.tap # "SHIFT_IR" /\ ~v.broke) => v.known = c.known /\ v.tap # "SHIFT_IR"
  <2>1. Selected(c, v, JBC_WRITE)
    BY <1>0, <1>1, Virtual DEF VirCode
  <2> HIDE DEF v
  <2> QED
    BY <2>1 DEF Selected
<1> HIDE DEF v
<1>3. jtagReadBuffer(p, a, whole) = IF v.error < 0 THEN v ELSE IF r.error < 0 THEN r ELSE q
  BY DEF jtagReadBuffer, ReadWord, FetchWord, v, c
<1>4. CASE v.error = -1
  <2>1. jtagReadBuffer(p, a, whole) = v
    BY <1>3, <1>4
  <2> QED
    BY <1>1, <1>2, <1>4, <2>1 DEF Moves
<1>5. CASE v.error = 0
  <2>1. /\ Steady(d) /\ Cached(d) /\ Safe(v, d) /\ d.tap \in ShiftState
        /\ whole[2] => d.tap = "SHIFT_DR" /\ d.ir = "USER0_VDR" /\ d.broke = v.broke
        /\ ~whole[2] => d.broke
        /\ v.tap # "SHIFT_IR" => d.known = v.known
    BY <1>0, <1>2, Selects
  <2> HIDE DEF d
  <2>2. /\ Steady(s) /\ Cached(s) /\ s.tap = d.tap /\ s.ir = d.ir /\ s.vir = d.vir
        /\ s.known = d.known /\ s.broke = d.broke /\ s.error = d.error
        /\ s.known => s.wiped = d.wiped
        /\ s.addr = IF Reaches(d, JBC_WRITE) THEN a ELSE d.addr
    BY <2>1, Addresses
  <2> HIDE DEF s
  <2>3. /\ Steady(r) /\ Cached(r) /\ r.addr = s.addr
        /\ r.known => s.known /\ r.wiped = s.wiped
        /\ r.error = 0 => r.lastVir = JBC_READ /\ r.broke = s.broke
        /\ r.error < 0 => r.broke /\ r.tap = "SHIFT_IR"
        /\ r.error \in {0, -1}
        /\ (s.tap # "SHIFT_IR" /\ ~r.broke) => r.known = s.known /\ r.tap # "SHIFT_IR"
    <3>1. Selected(s, r, JBC_READ)
      BY <1>0, <2>2, Virtual DEF VirCode
    <3> HIDE DEF r
    <3> QED
      BY <3>1 DEF Selected
  <2> HIDE DEF r
  <2>a. r.addr \in {p.addr, a}
    BY <1>1, <1>2, <2>1, <2>2, <2>3 DEF Safe
  <2>4. r.known => p.known /\ ~r.wiped
    BY <1>1, <1>2, <2>1, <2>2, <2>3 DEF Safe
  <2>5. ~r.broke => (p.tap # "SHIFT_IR" => r.known = p.known) \/ r.error < 0
    BY <1>0, <1>1, <1>2, <1>5, <2>1, <2>2, <2>3
  <2>6. CASE r.error = -1
    <3>1. jtagReadBuffer(p, a, whole) = r
      BY <1>3, <1>5, <2>6
    <3> QED
      BY <2>a, <2>3, <2>4, <2>6, <3>1 DEF Moves
  <2>7. CASE r.error = 0
    <3>1. /\ Steady(e) /\ Cached(e) /\ Safe(r, e) /\ e.tap \in ShiftState
          /\ whole[4] => e.tap = "SHIFT_DR" /\ e.ir = "USER0_VDR" /\ e.broke = r.broke
          /\ ~whole[4] => e.broke
          /\ r.tap # "SHIFT_IR" => e.known = r.known
      BY <1>0, <2>3, Selects
    <3> HIDE DEF e
    <3>2. Agree(t) /\ Same(e, t) /\ t.tap = e.tap
      BY <3>1, Reading DEF Steady, Settling, ShiftState, ScanValue
    <3> HIDE DEF t
    <3>3. /\ Agree(q) /\ Safe(t, q) /\ q.error = 0 /\ q.broke = t.broke
          /\ q.tap = t.tap /\ q.ir = t.ir /\ q.vir = t.vir /\ q.known = t.known
      BY <3>2, FlagError
    <3> HIDE DEF q
    <3>4. Steady(q) /\ Cached(q)
      BY <3>1, <3>2, <3>3 DEF Steady, Cached, Same, Safe
    <3>5. q.known => p.known /\ ~q.wiped
      BY <2>4, <3>1, <3>2, <3>3 DEF Same, Safe
    <3>6. (q.known /\ ~q.broke) => Reaches(q, JBC_READ) /\ q.addr = a
      <4> SUFFICES ASSUME q.known, ~q.broke PROVE Reaches(q, JBC_READ) /\ q.addr = a
        OBVIOUS
      <4>1. e.tap = "SHIFT_DR" /\ e.ir = "USER0_VDR" /\ e.known /\ ~r.broke
        BY <1>0, <3>1, <3>2, <3>3 DEF Same, Flags
      <4>2. r.known /\ r.vir = JBC_READ /\ e.vir = r.vir
        BY <2>3, <2>7, <3>1, <4>1 DEF Safe, Cached, VirCode
      <4>3. Reaches(q, JBC_READ)
        BY <3>2, <3>3, <4>1, <4>2 DEF Reaches, Same
      <4>4. whole[2] /\ s.known
        BY <1>0, <2>1, <2>2, <2>3, <2>7, <4>1, <4>2
      <4>5. v.known /\ v.vir = JBC_WRITE /\ d.vir = v.vir
        BY <1>2, <1>5, <2>1, <2>2, <4>4 DEF Safe, Cached, VirCode
      <4>6. Reaches(d, JBC_WRITE)
        BY <2>1, <4>4, <4>5 DEF Reaches
      <4> QED
        BY <2>2, <2>3, <3>1, <3>2, <3>3, <4>3, <4>6 DEF Same, Safe
    <3>7. (p.tap # "SHIFT_IR" /\ ~q.broke) => q.known = p.known
      <4> SUFFICES ASSUME p.tap # "SHIFT_IR", ~q.broke PROVE q.known = p.known
        OBVIOUS
      <4>1. ~r.broke /\ q.known = e.known
        BY <1>0, <3>1, <3>2, <3>3 DEF Same, Flags
      <4>2. r.tap # "SHIFT_IR"
        BY <1>0, <1>1, <1>2, <1>5, <2>1, <2>2, <2>3, <2>7, <4>1
      <4> QED
        BY <2>5, <2>7, <3>1, <4>1, <4>2
    <3>8. jtagReadBuffer(p, a, whole) = q
      BY <1>3, <1>5, <2>7
    <3> QED
      BY <2>a, <3>1, <3>2, <3>3, <3>4, <3>5, <3>6, <3>7, <3>8 DEF Moves, ShiftState, Safe, Same
  <2> QED
    BY <2>3, <2>6, <2>7
<1> QED
  BY <1>2, <1>4, <1>5

\* The port between two calls.
Rests(p) == Steady(p) /\ p.tap # "UPDATE_DR" /\ Cached(p)

\* CheckStatus ends where it began.
LEMMA Checks ==
  ASSUME NEW p, Agree(p), p.tap = "RUNIDLE"
  PROVE  LET q == CheckStatus(p)
         IN Agree(q) /\ q.tap = "RUNIDLE" /\ Safe(p, q)
<1> DEFINE s == ToShiftIR(p)
           r == ReadTDO(s, "CHECK_STATUS", 1)
           c == Walk2(r, 1, 1)
           d == Js_Shiftdr(c)
           e == ReadTDO(d, "zero", 0)
           u == Js_Updatedr(e)
           q == Js_Runidle(u)
<1>1. Agree(s) /\ s.tap = "SHIFT_IR" /\ Safe(p, s)
  BY ToIR DEF Settling
<1> HIDE DEF s
<1>2. Agree(r) /\ Same(s, r) /\ r.tap = "SHIFT_IR" /\ r.sr = "CHECK_STATUS" /\ r.over = -1
  BY <1>1, Reading DEF Settling, ShiftState, ScanValue, Instruction
<1> HIDE DEF r
<1>3. Agree(c) /\ c.tap = "UPDATE_IR" /\ Safe(r, c) /\ c.ir = "CHECK_STATUS"
  BY <1>2, WalkLeaveIR DEF Instruction
<1> HIDE DEF c
<1>4. Agree(d) /\ Same(c, d) /\ d.tap = "SHIFT_DR"
  BY <1>3, Shiftdr DEF Settling
<1> HIDE DEF d
<1>5. Agree(e) /\ Same(d, e) /\ e.tap = "SHIFT_DR"
  BY <1>4, Reading DEF Settling, ScanValue
<1> HIDE DEF e
<1>6. Agree(u) /\ Same(e, u) /\ u.tap = "UPDATE_DR"
  BY <1>3, <1>4, <1>5, Updatedr DEF Same
<1> HIDE DEF u
<1>7. Agree(q) /\ q.tap = "RUNIDLE" /\ Safe(u, q)
  BY <1>6, Runidle DEF Settling
<1>8. CheckStatus(p) = q
  BY DEF CheckStatus, SetupChain, s, r, c, d, e, u
<1> HIDE DEF q
<1>9. Safe(p, c) /\ Safe(c, u)
  BY <1>1, <1>2, <1>3, <1>4, <1>5, <1>6, SafeTransitive DEF Same
<1> QED
  BY <1>7, <1>8, <1>9, SafeTransitive

\* A scan leaves the port at rest, whatever state its TAP was in.
LEMMA Scans ==
  ASSUME NEW p \in Port, p.state \notin {"UPDATE_IR", "UPDATE_DR"}, p.known => Rests(p),
         NEW configured \in BOOLEAN, NEW found \in BOOLEAN, NEW whole \in [1 .. 2 -> BOOLEAN]
  PROVE  LET q == jtagInit(p, configured, found, whole) IN Rests(q) /\ q.addr = p.addr
<1> DEFINE f == Call(p)
           g == Js_Runidle(f)
           b == CheckStatus(g)
           l == LoadJI(b, "USER1_VIR", whole[1])
           m == Js_Shiftdr(l)
           n == ReadTDO(m, "zero", 0)
           c == Js_Updatedr(n)
           d == LoadJI(c, "USER0_VDR", whole[2])
           hit == found /\ HubAnswers(d)
           u == Js_Shiftdr(d)
           v == ReadTDO(u, "zero", 0)
           w == Js_Updatedr(v)
           x == Js_Runidle(w)
           y == [b EXCEPT !.error = -1]
           z == [x EXCEPT !.id = IF hit THEN Node ELSE NoId, !.lastVir = Unset,
                          !.error = IF hit THEN 0 ELSE -1, !.known = hit]
<1>0. whole[1] \in BOOLEAN /\ whole[2] \in BOOLEAN /\ hit \in BOOLEAN
  BY DEF HubAnswers, Reaches
<1>1. /\ f \in Port /\ f.state = p.state /\ f.tap = p.tap /\ f.known = p.known /\ f.ir = p.ir
      /\ f.addr = p.addr /\ f.id = p.id /\ f.lastVir = p.lastVir /\ f.vir = p.vir
  BY DEF Call, Port
<1> HIDE DEF f
<1>2. Agree(g) /\ g.tap = "RUNIDLE" /\ Safe(f, g)
  <2>1. CASE p.known
    BY <1>1, <2>1, Runidle DEF Rests, Steady, Agree
  <2>2. CASE ~p.known
    BY <1>1, <2>2, RunidleAny
  <2> QED
    BY <2>1, <2>2
<1> HIDE DEF g
<1>3. Agree(b) /\ b.tap = "RUNIDLE" /\ Safe(g, b)
  BY <1>2, Checks
<1> HIDE DEF b
<1>4. Safe(f, b)
  BY <1>2, <1>3, SafeTransitive
<1>5. jtagInit(p, configured, found, whole) = IF ~configured THEN y ELSE z
  BY DEF jtagInit, ScanNibble, f, g, b
<1>6. CASE ~configured
  <2>1. Agree(y) /\ Safe(b, y) /\ y.tap = "RUNIDLE" /\ y.vir = b.vir /\ y.known = b.known
    <3>1. -1 \in {0, -1}
      OBVIOUS
    <3> QED
      BY <1>3, <3>1, FlagError DEF Agree, Port
  <2>2. Cached(y)
    BY <1>1, <1>4, <2>1 DEF Rests, Cached, Safe
  <2> QED
    BY <1>1, <1>4, <1>5, <1>6, <2>1, <2>2 DEF Rests, Steady, Settling, Safe
<1>7. CASE configured
  <2>1. Agree(l) /\ l.addr = b.addr /\ l.tap \in {"UPDATE_IR", "SHIFT_IR"}
    BY <1>0, <1>3, Loads DEF Instruction, Settling, Safe
  <2> HIDE DEF l
  <2>2. Agree(m) /\ m.addr = l.addr /\ m.tap \in {"SHIFT_DR", "SHIFT_IR"}
    BY <2>1, Shiftdr DEF Settling, Same, Safe
  <2> HIDE DEF m
  <2>3. Agree(n) /\ n.addr = m.addr /\ n.tap \in {"SHIFT_DR", "SHIFT_IR"}
    BY <2>2, Reading DEF Settling, ScanValue, Same, Safe
  <2> HIDE DEF n
  <2>4. Agree(c) /\ c.addr = n.addr /\ c.tap \in {"UPDATE_DR", "SHIFT_IR"}
    BY <2>3, Updatedr
  <2> HIDE DEF c
  <2>5. Agree(d) /\ d.addr = c.addr /\ d.tap \in {"UPDATE_IR", "SHIFT_IR"}
    BY <1>0, <2>4, Loads DEF Instruction, Settling, Safe
  <2> HIDE DEF d, hit
  <2>6. Agree(u) /\ u.addr = d.addr /\ u.tap \in {"SHIFT_DR", "SHIFT_IR"}
    BY <2>5, Shiftdr DEF Settling, Same, Safe
  <2> HIDE DEF u
  <2>7. Agree(v) /\ v.addr = u.addr /\ v.tap \in {"SHIFT_DR", "SHIFT_IR"}
    BY <2>6, Reading DEF Settling, ScanValue, Same, Safe
  <2> HIDE DEF v
  <2>8. Agree(w) /\ w.addr = v.addr /\ w.tap \in {"UPDATE_DR", "SHIFT_IR"}
    BY <2>7, Updatedr
  <2> HIDE DEF w
  <2>9. Agree(x) /\ x.addr = w.addr /\ x.tap = "RUNIDLE"
    BY <2>8, Runidle DEF Settling, Safe
  <2> HIDE DEF x
  <2>10. /\ z.state = x.state /\ z.tap = x.tap /\ z.lastVir = Unset /\ z.known = hit
         /\ z.addr = x.addr
         /\ z.id = IF hit THEN Node ELSE NoId
    BY <2>9 DEF Agree, Port
  <2>11. z \in Port
    <3>1. (IF hit THEN Node ELSE NoId) \in {Node, NoId} /\ (IF hit THEN 0 ELSE -1) \in {0, -1}
      OBVIOUS
    <3> QED
      BY <1>0, <2>9, <3>1 DEF Agree, Port
  <2>12. Agree(z) /\ Cached(z)
    BY <2>9, <2>10, <2>11 DEF Agree, Cached, VirCode, JBC_WRITE, JBC_READ, Unset
  <2> HIDE DEF z
  <2> QED
    BY <1>1, <1>4, <1>5, <1>7, <2>1, <2>2, <2>3, <2>4, <2>5, <2>6, <2>7, <2>8, <2>9, <2>10, <2>12
       DEF Rests, Steady, Settling, Safe
<1> QED
  BY <1>6, <1>7

\* resetExternalChip leaves the port at rest.
LEMMA Resets ==
  ASSUME NEW p, Rests(p), NEW whole \in [1 .. 1 -> BOOLEAN]
  PROVE  LET q == resetExternalChip(p, whole) IN Rests(q) /\ q.addr = p.addr
<1> DEFINE c == Call(p)
           l == LoadJI(c, "PULSE_NCONFIG", whole[1])
           q == Js_Shiftdr(l)
<1>1. Steady(c) /\ Cached(c) /\ c.addr = p.addr
  BY Calls DEF Rests
<1> HIDE DEF c
<1>2. /\ Agree(l) /\ Safe(c, l)
      /\ \/ l.tap = "UPDATE_IR" /\ l.ir = "PULSE_NCONFIG"
         \/ l.tap = "SHIFT_IR"
  <2>1. whole[1] \in BOOLEAN /\ "PULSE_NCONFIG" \in Instruction
    BY DEF Instruction
  <2> QED
    BY <1>1, <2>1, Loads DEF Steady
<1> HIDE DEF l
<1>3. Agree(q) /\ Same(l, q) /\ q.tap = IF l.tap = "SHIFT_IR" THEN "SHIFT_IR" ELSE "SHIFT_DR"
  BY <1>2, Shiftdr DEF Settling
<1> HIDE DEF q
<1>4. Safe(c, q)
  BY <1>2, <1>3, SafeTransitive DEF Same
<1>5. Rests(q)
  BY <1>1, <1>2, <1>3, <1>4 DEF Rests, Steady, Cached, Safe, Same, Settling
<1>6. p.id # -1
  BY DEF Rests, Steady, Agree, Port, Node, NoId
<1> QED
  BY <1>1, <1>4, <1>5, <1>6 DEF resetExternalChip, jtagReload, q, l, c, Safe

-----------------------------------------------------------------------------
(***************************************************************************)
(* Part 2.  The mailbox: the invariant, and what each action does to it.   *)
(***************************************************************************)

\* The types of what is behind the node.
Device(m, i, f, j) ==
  /\ m \in [Address -> Int] /\ m[MB_BASE] \in Word /\ j \in Word
  /\ i \in BOOLEAN /\ f \in {"idle", "run", "done"}

\* The port between calls; when the pins are released, only if the FPGA is known.
PortRests ==
  /\ jtag.addr \in Address /\ jtag.state \notin {"UPDATE_IR", "UPDATE_DR"}
  /\ (pc \notin {"boot", "off"} \/ jtag.known) => Rests(jtag)
  /\ pc = "off" => at = Nowhere

\* The FPGA has the word c, or will take it.
Answering(c) ==
  \/ fpga = "idle" /\ int /\ mem[MB_BASE] = c
  \/ fpga = "run" /\ ~int /\ mem[MB_BASE] = c /\ job = c
  \/ fpga = "done" /\ ~int /\ mem[MB_BASE] = c /\ mem[MB_BASE + 1] = Result[c]

\* The FPGA has left the answer to c.
Answered(c) ==
  fpga = "idle" /\ ~int /\ mem[MB_BASE] = 0 /\ mem[MB_BASE + 1] = Result[c]

\* While nothing has come between, the command is being answered, and word 1 is
\* read only when it has been.
OwnAnswer ==
  own => /\ pc \in {"poll", "fetch"} /\ jtag.known /\ cmd # 0
         /\ Answering(cmd) \/ Answered(cmd)
         /\ pc = "fetch" => Answered(cmd)

\* The inductive invariant.
IInv == TypeOK /\ PortRests /\ OwnAnswer

\* The types, with those of the device apart.
LEMMA TypeParts ==
  TypeOK <=> /\ jtag \in Port /\ Device(mem, int, fpga, job)
             /\ pc \in {"boot", "pins", "idle", "poll", "fetch", "off"}
             /\ cmd \in Word /\ ret \in Int /\ own \in BOOLEAN
             /\ at \in Address \cup {Nowhere} /\ data \in Int
             /\ elapsed \in 0 .. MB_TIMEOUT + 1
  BY DEF TypeOK, Device

\* A reconfigured FPGA.
LEMMA Blanks == Device(Blank, FALSE, "idle", 0)
  BY AddressAssumption, WordAssumption DEF Device, Blank

\* What rests has a right copy of the TAP state.
LEMMA RestingState ==
  ASSUME NEW p, Rests(p)
  PROVE  p \in Port /\ p.state = p.tap /\ p.state \notin {"UPDATE_IR", "UPDATE_DR"}
  BY DEF Rests, Steady, Agree, Settling

\* A call leaves the device well-typed and, unless the FPGA is reconfigured, as m says.
LEMMA Transfers ==
  ASSUME NEW p \in Port, NEW m, NEW pulse \in BOOLEAN, Device(m, int, fpga, job), Transfer(p, m, pulse)
  PROVE  /\ jtag' = p /\ Device(mem', int', fpga', job')
         /\ ~p.wiped => mem' = m /\ int' = (int \/ pulse) /\ fpga' = fpga /\ job' = job
<1>1. CASE p.wiped
  BY <1>1, Blanks DEF Transfer, Device
<1>2. CASE ~p.wiped
  BY <1>2 DEF Transfer, Device
<1> QED
  BY <1>1, <1>2

\* The FPGA is lost only by a reconfiguration, a broken chain or a walk out of SHIFT_IR.
Stray == (jtag.known /\ ~jtag'.known) => jtag'.wiped \/ jtag'.broke \/ jtag.tap = "SHIFT_IR"

\* What a call that moves a word for address a makes of the state.
Moved(a) ==
  /\ jtag' \in Port /\ Rests(jtag') /\ jtag'.addr \in Address /\ jtag'.error \in {0, -1}
  /\ jtag'.known => jtag.known
  /\ Device(mem', int', fpga', job')
  /\ at' = a /\ data' \in Int
  /\ Stray

\* A write that met no broken chain stored its word, and pulsed the pin if it was to.
LEMMA WriteMoves ==
  ASSUME Device(mem, int, fpga, job), Rests(jtag), jtag.addr \in Address,
         NEW a \in Address, NEW w \in Word, NEW pulse \in BOOLEAN, Write(a, w, pulse)
  PROVE  /\ Moved(a)
         /\ Sound' => /\ mem' = [mem EXCEPT ![a] = w] /\ int' = (int \/ pulse)
                      /\ fpga' = fpga /\ job' = job
                      /\ data' = w /\ jtag'.error = 0
<1>0. a \in Nat
  BY AddressAssumption
<1>1. PICK whole \in Chain(2) :
        /\ Transfer(jtagWriteBuffer(jtag, a, whole), Stored(jtagWriteBuffer(jtag, a, whole), w),
                    pulse /\ jtagWriteBuffer(jtag, a, whole).error = 0)
        /\ at' = a /\ data' = w
  BY DEF Write
<1> DEFINE p == jtagWriteBuffer(jtag, a, whole)
           hit == pulse /\ p.error = 0
<1>2. Transfer(p, Stored(p, w), hit) /\ at' = a /\ data' = w
  BY <1>1
<1>3. Moves(jtag, p, a, JBC_WRITE)
  BY <1>0, Writes DEF Chain, Rests
<1> HIDE DEF p
<1>4. p \in Port /\ Rests(p) /\ p.addr \in Address /\ p.error \in {0, -1}
  BY <1>3 DEF Moves, Rests, Steady, Agree
<1>5. Device(Stored(p, w), int, fpga, job)
  BY <1>4, WordAssumption DEF Device, Stored
<1>6. hit \in BOOLEAN
  OBVIOUS
<1> HIDE DEF hit
<1>7. /\ jtag' = p /\ Device(mem', int', fpga', job')
      /\ ~p.wiped => mem' = Stored(p, w) /\ int' = (int \/ hit) /\ fpga' = fpga /\ job' = job
  BY <1>2, <1>4, <1>5, <1>6, Transfers
<1>8. data' \in Int
  BY <1>2, WordAssumption
<1>9. Stray
  BY <1>3, <1>4, <1>7 DEF Stray, Moves, Port
<1>10. ASSUME Sound'
       PROVE  /\ mem' = [mem EXCEPT ![a] = w] /\ int' = (int \/ pulse)
              /\ fpga' = fpga /\ job' = job
              /\ data' = w /\ jtag'.error = 0
  <2>1. p.known /\ ~p.broke
    BY <1>7, <1>10 DEF Sound
  <2>2. p.error = 0 /\ Reaches(p, JBC_WRITE) /\ p.addr = a /\ ~p.wiped
    BY <1>3, <2>1 DEF Moves
  <2>3. Stored(p, w) = [mem EXCEPT ![a] = w] /\ hit = pulse
    BY <2>2 DEF Stored, Landed, hit
  <2> QED
    BY <1>2, <1>7, <2>2, <2>3
<1> QED
  BY <1>2, <1>3, <1>4, <1>7, <1>8, <1>9, <1>10 DEF Moved, Moves

\* A read that met no broken chain returned the word and changed nothing.
LEMMA ReadMoves ==
  ASSUME Device(mem, int, fpga, job), Rests(jtag), jtag.addr \in Address,
         NEW a \in Address, NEW old \in Int, Read(a, old)
  PROVE  /\ Moved(a)
         /\ Sound' => /\ mem' = mem /\ int' = int /\ fpga' = fpga /\ job' = job
                      /\ data' = mem[a] /\ jtag'.error = 0
<1>0. a \in Nat
  BY AddressAssumption
<1>1. PICK whole \in Chain(4) :
        /\ Transfer(jtagReadBuffer(jtag, a, whole), mem, FALSE)
        /\ at' = a /\ data' = Received(jtagReadBuffer(jtag, a, whole), old)
  BY DEF Read
<1> DEFINE p == jtagReadBuffer(jtag, a, whole)
<1>2. Transfer(p, mem, FALSE) /\ at' = a /\ data' = Received(p, old)
  BY <1>1
<1>3. Moves(jtag, p, a, JBC_READ)
  BY <1>0, Reads DEF Chain, Rests
<1> HIDE DEF p
<1>4. p \in Port /\ Rests(p) /\ p.addr \in Address /\ p.error \in {0, -1}
  BY <1>3 DEF Moves, Rests, Steady, Agree
<1>5. /\ jtag' = p /\ Device(mem', int', fpga', job')
      /\ ~p.wiped => mem' = mem /\ int' = int /\ fpga' = fpga /\ job' = job
  <2>1. /\ jtag' = p /\ Device(mem', int', fpga', job')
        /\ ~p.wiped => mem' = mem /\ int' = (int \/ FALSE) /\ fpga' = fpga /\ job' = job
    BY <1>2, <1>4, Transfers
  <2> QED
    BY <2>1 DEF Device
<1>6. data' \in Int
  BY <1>2, <1>4 DEF Received, Device, Garbage
<1>7. Stray
  BY <1>3, <1>4, <1>5 DEF Stray, Moves, Port
<1>8. ASSUME Sound'
      PROVE  /\ mem' = mem /\ int' = int /\ fpga' = fpga /\ job' = job
             /\ data' = mem[a] /\ jtag'.error = 0
  <2>1. p.known /\ ~p.broke
    BY <1>5, <1>8 DEF Sound
  <2>2. p.error = 0 /\ Reaches(p, JBC_READ) /\ p.addr = a /\ ~p.wiped
    BY <1>3, <2>1 DEF Moves
  <2> QED
    BY <1>2, <1>5, <2>2 DEF Received, Fetched
<1> QED
  BY <1>2, <1>3, <1>4, <1>5, <1>6, <1>7, <1>8 DEF Moved, Moves

\* A call that moves no word.
LEMMA ControlMoves ==
  ASSUME Device(mem, int, fpga, job), NEW p, Rests(p), Control(p)
  PROVE  /\ jtag' = p /\ Device(mem', int', fpga', job')
         /\ at' \in Address \cup {Nowhere} /\ data' \in Int
<1>1. p \in Port /\ FALSE \in BOOLEAN
  BY RestingState
<1>2. Transfer(p, mem, FALSE) /\ at' = Nowhere /\ data' = 0
  BY DEF Control
<1>3. jtag' = p /\ Device(mem', int', fpga', job')
  BY <1>1, <1>2, Transfers
<1> QED
  BY <1>2, <1>3

\* Power-up.
LEMMA InitInv == Init => IInv
<1> SUFFICES ASSUME Init PROVE IInv
  OBVIOUS
<1>1. jtag \in Port /\ ~jtag.known /\ jtag.addr = 0 /\ jtag.state = "RESET"
  <2>1. {"RESET"} \subseteq TapState /\ {NoId} \subseteq {Node, NoId} /\ {0} \subseteq {0, -1}
        /\ {JBC_WRITE} \subseteq VirCode \cup {Unset} /\ {"junk"} \subseteq ScanValue
        /\ {"IDCODE"} \subseteq ScanValue /\ {0} \subseteq -1 .. 1 /\ {0} \subseteq Nat
    BY Table DEF VirCode, ScanValue, Instruction
  <2>2. PowerUp \subseteq Port
    BY <2>1 DEF PowerUp, Port
  <2> QED
    BY <2>2 DEF Init, PowerUp
<1>2. Device(mem, int, fpga, job)
  BY Blanks DEF Init
<1>3. TypeOK
  <2>1. 0 \in 0 .. MB_TIMEOUT + 1
    BY TimeoutAssumption
  <2> QED
    BY <1>1, <1>2, <2>1, TypeParts, WordAssumption DEF Init
<1>4. PortRests /\ OwnAnswer
  BY <1>1, AddressAssumption DEF Init, PortRests, OwnAnswer, MB_BASE
<1> QED
  BY <1>3, <1>4 DEF IInv

\* What the action properties ask of a step.
WordStep == (Sound' /\ at' \in Address /\ fpga' = fpga) => mem'[at'] = data'

StrayStep ==
  (at' \in Address /\ jtag.known /\ ~jtag'.known) =>
    jtag'.wiped \/ jtag'.broke \/ jtag.tap = "SHIFT_IR"

OwnStep == (pc = "fetch" /\ pc' = "idle" /\ own /\ Sound') => ret' = Result[cmd]

\* A step that keeps the invariant and has all three.
Good == IInv' /\ WordStep /\ StrayStep /\ OwnStep

\* Steps that move no word.
LEMMA NoWord ==
  ASSUME at' = Nowhere
  PROVE  WordStep /\ StrayStep
  BY AddressAssumption DEF WordStep, StrayStep, Nowhere

\* A scan by setup().
LEMMA Scanning ==
  ASSUME IInv, Scan
  PROVE  Good
<1>1. PICK configured \in BOOLEAN, found \in BOOLEAN, whole \in Chain(2) :
        Control(jtagInit(jtag, configured, found, whole))
  BY DEF Scan
<1> DEFINE p == jtagInit(jtag, configured, found, whole)
<1>2. Rests(p) /\ p.addr = jtag.addr
  BY Scans DEF IInv, TypeOK, PortRests, Chain
<1> HIDE DEF p
<1>3. Control(p)
  BY <1>1 DEF p
<1>4. /\ jtag' = p /\ Device(mem', int', fpga', job')
      /\ at' \in Address \cup {Nowhere} /\ data' \in Int
  BY <1>2, <1>3, ControlMoves, TypeParts DEF IInv
<1>5. pc' \in {"pins", "idle"} /\ ret' = 0 /\ UNCHANGED <<cmd, elapsed, own>>
  BY DEF Scan, command
<1>6. ~own
  BY DEF Scan, IInv, OwnAnswer
<1>7. jtag' \in Port /\ PortRests'
  BY <1>2, <1>4, <1>5, RestingState DEF IInv, PortRests
<1>8. TypeOK'
  BY <1>4, <1>5, <1>7, TypeParts DEF IInv, TypeOK, Device
<1>9. OwnAnswer'
  BY <1>5, <1>6 DEF OwnAnswer
<1>10. at' = Nowhere /\ OwnStep
  BY <1>3 DEF Control, Scan, OwnStep
<1> QED
  BY <1>7, <1>8, <1>9, <1>10, NoWord DEF IInv, Good

\* A call of the library from the client that moves a word.
LEMMA MovedInv ==
  ASSUME IInv, NEW a \in Address, Moved(a), pc' \in {"idle", "poll", "fetch"}, cmd' \in Word, ret' \in Int,
         own' \in BOOLEAN, elapsed' \in 0 .. MB_TIMEOUT + 1, OwnAnswer'
  PROVE  IInv'
<1>1. jtag' \in Port /\ PortRests'
  BY RestingState DEF Moved, PortRests
<1>2. TypeOK'
  BY <1>1 DEF Moved, TypeOK, Device
<1> QED
  BY <1>1, <1>2 DEF IInv

\* What the properties ask of a call that moved a word.
LEMMA MovedSteps ==
  ASSUME NEW a \in Address, Moved(a), Sound' => mem'[a] = data'
  PROVE  WordStep /\ StrayStep
  BY DEF Moved, WordStep, StrayStep, Stray

\* mbPinSet.
LEMMA Pins ==
  ASSUME IInv, mbPinSet
  PROVE  Good
<1>1. /\ Device(mem, int, fpga, job) /\ Rests(jtag) /\ jtag.addr \in Address
      /\ MB_BASE \in Address /\ 0 \in Word /\ FALSE \in BOOLEAN
  BY TypeParts, AddressAssumption, WordAssumption DEF IInv, PortRests, mbPinSet
<1>2. Write(MB_BASE, 0, FALSE)
  BY DEF mbPinSet
<1>3. Moved(MB_BASE) /\ (Sound' => mem' = [mem EXCEPT ![MB_BASE] = 0] /\ data' = 0)
  BY <1>1, <1>2, WriteMoves
<1>4. pc' = "idle" /\ pc # "fetch" /\ UNCHANGED <<ret, cmd, elapsed, own>> /\ ~own
  BY DEF mbPinSet, command, IInv, OwnAnswer
<1>5. IInv'
  BY <1>1, <1>3, <1>4, MovedInv DEF OwnAnswer, IInv, TypeOK
<1>6. Sound' => mem'[MB_BASE] = data'
  BY <1>1, <1>3 DEF Device
<1> QED
  BY <1>1, <1>3, <1>4, <1>5, <1>6, MovedSteps DEF Good, OwnStep

\* mbEveSend.
LEMMA Events ==
  ASSUME IInv, NEW w \in Word, mbEveSend(w)
  PROVE  Good
<1>1. /\ Device(mem, int, fpga, job) /\ Rests(jtag) /\ jtag.addr \in Address
      /\ MB_BASE \in Address /\ TRUE \in BOOLEAN
  BY TypeParts, AddressAssumption DEF IInv, PortRests, mbEveSend
<1>2. Write(MB_BASE, w, TRUE)
  BY DEF mbEveSend
<1>3. Moved(MB_BASE) /\ (Sound' => mem' = [mem EXCEPT ![MB_BASE] = w] /\ data' = w)
  BY <1>1, <1>2, WriteMoves
<1>4. /\ pc' = "idle" /\ pc # "fetch" /\ UNCHANGED <<cmd, elapsed, own>> /\ ~own
      /\ ret' \in Int
  BY DEF mbEveSend, command, IInv, OwnAnswer
<1>5. IInv'
  BY <1>1, <1>3, <1>4, MovedInv DEF OwnAnswer, IInv, TypeOK
<1>6. Sound' => mem'[MB_BASE] = data'
  BY <1>1, <1>3 DEF Device
<1> QED
  BY <1>1, <1>3, <1>4, <1>5, <1>6, MovedSteps DEF Good, OwnStep

\* mbCmdSend up to its loop: the FPGA was idle, so what it takes next is this word.
LEMMA Commands ==
  ASSUME IInv, NEW w \in Word, mbCmdSend(w)
  PROVE  Good
<1>1. /\ Device(mem, int, fpga, job) /\ Rests(jtag) /\ jtag.addr \in Address
      /\ MB_BASE \in Address /\ TRUE \in BOOLEAN
  BY TypeParts, AddressAssumption DEF IInv, PortRests, mbCmdSend
<1>2. Write(MB_BASE, w, TRUE)
  BY DEF mbCmdSend
<1>3. /\ Moved(MB_BASE)
      /\ Sound' => /\ mem' = [mem EXCEPT ![MB_BASE] = w] /\ data' = w /\ int' = (int \/ TRUE)
                   /\ fpga' = fpga /\ jtag'.error = 0
  BY <1>1, <1>2, WriteMoves
<1>4. Sound' => mem'[MB_BASE] = w /\ int' /\ fpga' = fpga
  BY <1>1, <1>3 DEF Device
<1>5. 0 \in 0 .. MB_TIMEOUT + 1 /\ 0 \in Word
  BY TimeoutAssumption, WordAssumption
<1>6. ASSUME jtag'.error < 0
      PROVE  IInv'
  <2>1. /\ pc' = "idle" /\ ret' = -10 /\ cmd' = 0 /\ elapsed' = 0 /\ own' = FALSE
    BY <1>6 DEF mbCmdSend, Return
  <2>2. ret' \in Int /\ OwnAnswer'
    BY <2>1 DEF OwnAnswer
  <2> QED
    BY <1>1, <1>3, <1>5, <2>1, <2>2, MovedInv
<1>7. ASSUME ~(jtag'.error < 0)
      PROVE  IInv'
  <2>1. /\ pc' = "poll" /\ ret' = 1 /\ cmd' = w /\ elapsed' = 0
        /\ own' = (Sound' /\ w # 0 /\ fpga = "idle" /\ ~int)
    BY <1>7 DEF mbCmdSend
  <2>2. own' \in BOOLEAN /\ ret' \in Int
    BY <2>1
  <2>3. OwnAnswer'
    <3> SUFFICES ASSUME own' PROVE jtag'.known /\ cmd' # 0 /\ Answering(cmd)'
      BY <2>1 DEF OwnAnswer
    <3> QED
      BY <1>4, <2>1 DEF Answering, Sound
  <2> QED
    BY <1>1, <1>3, <1>5, <2>1, <2>2, <2>3, MovedInv
<1>8. IInv'
  BY <1>6, <1>7
<1> QED
  BY <1>1, <1>3, <1>4, <1>8, MovedSteps DEF Good, OwnStep, mbCmdSend

\* A round of the loop: word 0 is clear only when word 1 has the answer.
LEMMA Polling ==
  ASSUME IInv, Poll
  PROVE  Good
<1>1. /\ Device(mem, int, fpga, job) /\ Rests(jtag) /\ jtag.addr \in Address
      /\ MB_BASE \in Address /\ ret \in Int
  BY TypeParts, AddressAssumption DEF IInv, PortRests, Poll
<1>2. Read(MB_BASE, ret)
  BY DEF Poll
<1>3. /\ Moved(MB_BASE)
      /\ Sound' => /\ mem' = mem /\ int' = int /\ fpga' = fpga /\ job' = job
                   /\ data' = mem[MB_BASE] /\ jtag'.error = 0
  BY <1>1, <1>2, ReadMoves
<1>4. PICK t \in elapsed + 1 .. MB_TIMEOUT + 1 :
        IF t > MB_TIMEOUT
        THEN Return(-1)
        ELSE /\ pc' = IF data' = 0 THEN "fetch" ELSE "poll"
             /\ ret' = data' /\ elapsed' = t
             /\ own' = (own /\ Sound')
             /\ UNCHANGED cmd
  BY DEF Poll
<1>5. /\ 0 \in 0 .. MB_TIMEOUT + 1 /\ 0 \in Word /\ elapsed \in 0 .. MB_TIMEOUT + 1
      /\ cmd \in Word /\ data' \in Int /\ own \in BOOLEAN /\ -1 \in Int
  BY <1>3, TimeoutAssumption, WordAssumption, TypeParts DEF IInv, Moved
<1>6. t \in 0 .. MB_TIMEOUT + 1
  BY <1>5, TimeoutAssumption
<1>7. ASSUME t > MB_TIMEOUT
      PROVE  IInv'
  <2>1. /\ pc' = "idle" /\ ret' = -1 /\ cmd' = 0 /\ elapsed' = 0 /\ own' = FALSE
    BY <1>4, <1>7 DEF Return
  <2>2. ret' \in Int /\ OwnAnswer'
    BY <2>1 DEF OwnAnswer
  <2> QED
    BY <1>1, <1>3, <1>5, <2>1, <2>2, MovedInv
<1>8. ASSUME ~(t > MB_TIMEOUT)
      PROVE  IInv'
  <2>1. /\ pc' = (IF data' = 0 THEN "fetch" ELSE "poll") /\ ret' = data' /\ elapsed' = t
        /\ own' = (own /\ Sound') /\ cmd' = cmd
    BY <1>4, <1>8
  <2>2. own' \in BOOLEAN /\ pc' \in {"poll", "fetch"}
    BY <2>1
  <2>3. OwnAnswer'
    <3> SUFFICES ASSUME own' PROVE OwnAnswer'
      BY DEF OwnAnswer
    <3>1. own /\ Sound'
      BY <2>1
    <3>2. cmd # 0 /\ (Answering(cmd) \/ Answered(cmd)) /\ jtag'.known
      BY <3>1 DEF IInv, OwnAnswer, Sound
    <3>3. (Answering(cmd) <=> Answering(cmd)') /\ (Answered(cmd) <=> Answered(cmd)')
      BY <1>3, <2>1, <3>1 DEF Answering, Answered
    <3>4. pc' = "fetch" => Answered(cmd)
      BY <1>3, <2>1, <3>1, <3>2 DEF Answering
    <3> QED
      BY <2>1, <2>2, <3>2, <3>3, <3>4 DEF OwnAnswer
  <2> QED
    BY <1>1, <1>3, <1>5, <1>6, <2>1, <2>2, <2>3, MovedInv
<1>9. IInv'
  BY <1>7, <1>8
<1>10. Sound' => mem'[MB_BASE] = data'
  BY <1>3
<1> QED
  BY <1>1, <1>3, <1>9, <1>10, MovedSteps DEF Good, OwnStep, Poll

\* The read of the answer.
LEMMA Fetching ==
  ASSUME IInv, Fetch
  PROVE  Good
<1>1. /\ Device(mem, int, fpga, job) /\ Rests(jtag) /\ jtag.addr \in Address
      /\ MB_BASE + 1 \in Address /\ ret \in Int
  BY TypeParts, AddressAssumption DEF IInv, PortRests, Fetch
<1>2. Read(MB_BASE + 1, ret)
  BY DEF Fetch
<1>3. /\ Moved(MB_BASE + 1)
      /\ Sound' => mem' = mem /\ data' = mem[MB_BASE + 1]
  BY <1>1, <1>2, ReadMoves
<1>4. /\ pc' = "idle" /\ ret' = data' /\ cmd' = 0 /\ elapsed' = 0 /\ own' = FALSE
  BY DEF Fetch, Return
<1>5. /\ 0 \in 0 .. MB_TIMEOUT + 1 /\ 0 \in Word /\ data' \in Int /\ OwnAnswer'
  BY <1>3, <1>4, TimeoutAssumption, WordAssumption DEF Moved, OwnAnswer
<1>6. IInv'
  BY <1>1, <1>3, <1>4, <1>5, MovedInv
<1>7. OwnStep
  BY <1>3, <1>4 DEF OwnStep, IInv, OwnAnswer, Answered
<1> QED
  BY <1>1, <1>3, <1>6, <1>7, MovedSteps DEF Good

\* mbWrite.
LEMMA WritingRegister ==
  ASSUME IInv, NEW a \in Register, NEW w \in Word, mbWrite(a, w)
  PROVE  Good
<1>1. /\ Device(mem, int, fpga, job) /\ Rests(jtag) /\ jtag.addr \in Address
      /\ a \in Address /\ FALSE \in BOOLEAN
  BY TypeParts DEF IInv, PortRests, mbWrite, Register
<1>2. Write(a, w, FALSE)
  BY DEF mbWrite
<1>3. Moved(a) /\ (Sound' => mem' = [mem EXCEPT ![a] = w] /\ data' = w)
  BY <1>1, <1>2, WriteMoves
<1>4. /\ pc' = "idle" /\ pc # "fetch" /\ ret' = 0 /\ UNCHANGED <<cmd, elapsed, own>> /\ ~own
  BY DEF mbWrite, command, IInv, OwnAnswer
<1>5. IInv'
  BY <1>1, <1>3, <1>4, MovedInv DEF OwnAnswer, IInv, TypeOK
<1>6. Sound' => mem'[a] = data'
  BY <1>1, <1>3 DEF Device
<1> QED
  BY <1>1, <1>3, <1>4, <1>5, <1>6, MovedSteps DEF Good, OwnStep

\* mbRead.
LEMMA ReadingRegister ==
  ASSUME IInv, NEW a \in Register, mbRead(a)
  PROVE  Good
<1>1. /\ Device(mem, int, fpga, job) /\ Rests(jtag) /\ jtag.addr \in Address
      /\ a \in Address /\ 0 \in Int
  BY TypeParts DEF IInv, PortRests, mbRead, Register
<1>2. Read(a, 0)
  BY DEF mbRead
<1>3. Moved(a) /\ (Sound' => mem' = mem /\ data' = mem[a])
  BY <1>1, <1>2, ReadMoves
<1>4. /\ pc' = "idle" /\ pc # "fetch" /\ ret' = 0 /\ UNCHANGED <<cmd, elapsed, own>> /\ ~own
  BY DEF mbRead, command, IInv, OwnAnswer
<1>5. IInv'
  BY <1>1, <1>3, <1>4, MovedInv DEF OwnAnswer, IInv, TypeOK
<1> QED
  BY <1>1, <1>3, <1>4, <1>5, MovedSteps DEF Good, OwnStep

\* resetExternalChip, of the library.
LEMMA Resetting ==
  ASSUME IInv, Reset
  PROVE  Good
<1>1. PICK whole \in Chain(1) : Control(resetExternalChip(jtag, whole))
  BY DEF Reset
<1> DEFINE p == resetExternalChip(jtag, whole)
<1>2. Rests(p) /\ p.addr = jtag.addr
  BY Resets DEF IInv, PortRests, Reset, Chain
<1> HIDE DEF p
<1>3. Control(p)
  BY <1>1 DEF p
<1>4. /\ jtag' = p /\ Device(mem', int', fpga', job')
      /\ at' \in Address \cup {Nowhere} /\ data' \in Int
  BY <1>2, <1>3, ControlMoves, TypeParts DEF IInv
<1>5. pc' = "idle" /\ ret' = 0 /\ UNCHANGED <<cmd, elapsed, own>> /\ ~own
  BY DEF Reset, command, IInv, OwnAnswer
<1>6. jtag' \in Port /\ PortRests'
  BY <1>2, <1>4, <1>5, RestingState DEF IInv, PortRests
<1>7. TypeOK'
  BY <1>4, <1>5, <1>6, TypeParts DEF IInv, TypeOK, Device
<1>8. OwnAnswer' /\ at' = Nowhere /\ OwnStep
  BY <1>3, <1>5 DEF OwnAnswer, Control, OwnStep, Reset
<1> QED
  BY <1>6, <1>7, <1>8, NoWord DEF IInv, Good

\* The pins are released.
LEMMA Releasing ==
  ASSUME IInv, Release
  PROVE  Good
<1>1. /\ jtag \in Port /\ Rests(jtag) /\ jtag.addr \in Address
      /\ jtag.state \notin {"UPDATE_IR", "UPDATE_DR"}
  BY DEF IInv, TypeOK, PortRests, Release
<1>2. /\ jtag' \in Port /\ jtag'.addr = jtag.addr /\ jtag'.state = jtag.state
      /\ jtag' = jtag \/ ~jtag'.known
  <2> DEFINE q == [jtag EXCEPT !.id = NoId, !.known = FALSE]
  <2>1. q \in Port /\ q.addr = jtag.addr /\ q.state = jtag.state /\ ~q.known
    BY <1>1 DEF Port
  <2> QED
    BY <1>1, <2>1 DEF Release
<1>3. pc' = "off" /\ ret' = 0 /\ at' = Nowhere /\ data' = 0 /\ UNCHANGED <<command, device>>
  BY DEF Release
<1>4. ~own
  BY DEF Release, IInv, OwnAnswer
<1>5. PortRests'
  BY <1>1, <1>2, <1>3 DEF PortRests
<1>6. TypeOK'
  BY <1>2, <1>3 DEF IInv, TypeOK, command, device
<1>7. OwnAnswer' /\ OwnStep
  BY <1>3, <1>4 DEF OwnAnswer, OwnStep, command
<1> QED
  BY <1>3, <1>5, <1>6, <1>7, NoWord DEF IInv, Good

\* Another driver of the port.
LEMMA Blasting ==
  ASSUME IInv, Blaster
  PROVE  Good
<1>1. PICK t \in TapState : jtag' = Foreign(jtag, t)
  BY DEF Blaster
<1>2. jtag \in Port /\ {"IDCODE", "junk"} \subseteq ScanValue /\ 0 \in -1 .. 1
  BY DEF IInv, TypeOK, ScanValue, Instruction
<1>3. /\ jtag' \in Port /\ jtag'.addr = jtag.addr /\ jtag'.state = jtag.state /\ ~jtag'.known
  BY <1>1, <1>2 DEF Foreign, Port
<1>4. /\ pc = "off" /\ UNCHANGED <<client, moved>>
      /\ Device(mem', int', fpga', job')
  BY Blanks DEF Blaster
<1>5. ~own /\ ~own' /\ UNCHANGED <<pc, ret, cmd, elapsed, own, at, data>>
  BY <1>4 DEF IInv, OwnAnswer, client, command, moved
<1>6. PortRests'
  BY <1>3, <1>4, <1>5 DEF IInv, PortRests
<1>7. TypeOK'
  BY <1>3, <1>4, <1>5 DEF IInv, TypeOK, Device
<1>8. OwnAnswer' /\ OwnStep
  BY <1>5 DEF OwnAnswer, OwnStep
<1>9. at' = Nowhere
  BY <1>4, <1>5 DEF IInv, PortRests
<1> QED
  BY <1>6, <1>7, <1>8, <1>9, NoWord DEF IInv, Good

\* What a step of the FPGA must keep.
LEMMA FpgaSteps ==
  ASSUME IInv, UNCHANGED <<jtag, client, moved>>, Device(mem', int', fpga', job'),
         fpga' # fpga,
         own => /\ Answering(cmd)' \/ Answered(cmd)'
                /\ pc = "fetch" => Answered(cmd)'
  PROVE  Good
<1>1. UNCHANGED <<jtag, pc, ret, cmd, elapsed, own, at, data>>
  BY DEF client, command, moved
<1>2. TypeOK' /\ PortRests'
  BY <1>1 DEF IInv, TypeOK, PortRests, Device
<1>3. OwnAnswer'
  BY <1>1 DEF IInv, OwnAnswer
<1>4. WordStep /\ StrayStep /\ OwnStep
  BY <1>1 DEF WordStep, StrayStep, OwnStep
<1> QED
  BY <1>2, <1>3, <1>4 DEF IInv, Good

\* The FPGA takes the word.
LEMMA Taking ==
  ASSUME IInv, FpgaTake
  PROVE  Good
<1>1. UNCHANGED <<jtag, client, moved>> /\ Device(mem', int', fpga', job') /\ fpga' # fpga
  BY DEF FpgaTake, IInv, TypeOK, Device
<1>2. own => Answering(cmd)' /\ pc # "fetch"
  BY DEF FpgaTake, IInv, OwnAnswer, Answering, Answered, client, command
<1> QED
  BY <1>1, <1>2, FpgaSteps

\* It writes its answer.
LEMMA Finishing ==
  ASSUME IInv, FpgaAnswer
  PROVE  Good
<1>1. UNCHANGED <<jtag, client, moved>> /\ Device(mem', int', fpga', job') /\ fpga' # fpga
  BY AddressAssumption, WordAssumption DEF FpgaAnswer, IInv, TypeOK, Device, MB_BASE
<1>2. own => Answering(cmd)' /\ pc # "fetch"
  BY AddressAssumption DEF FpgaAnswer, IInv, TypeOK, OwnAnswer, Answering, Answered, client, command,
       MB_BASE
<1> QED
  BY <1>1, <1>2, FpgaSteps

\* It clears word 0.
LEMMA Clearing ==
  ASSUME IInv, FpgaDone
  PROVE  Good
<1>1. UNCHANGED <<jtag, client, moved>> /\ Device(mem', int', fpga', job') /\ fpga' # fpga
  BY AddressAssumption, WordAssumption DEF FpgaDone, IInv, TypeOK, Device, MB_BASE
<1>2. own => Answered(cmd)'
  BY AddressAssumption DEF FpgaDone, IInv, TypeOK, OwnAnswer, Answering, Answered, client, command,
       MB_BASE
<1> QED
  BY <1>1, <1>2, FpgaSteps

\* Every step is good.
LEMMA NextGood == IInv /\ Next => Good
  BY Scanning, Pins, Events, Commands, Polling, Fetching, WritingRegister, ReadingRegister,
     Resetting, Releasing, Blasting, Taking, Finishing, Clearing DEF Next

\* The invariant is inductive.
LEMMA StepInv == IInv /\ [Next]_vars => IInv'
<1> SUFFICES ASSUME IInv, [Next]_vars PROVE IInv'
  OBVIOUS
<1>1. CASE Next
  BY <1>1, NextGood DEF Good
<1>2. CASE UNCHANGED vars
  BY <1>2 DEF IInv, TypeOK, PortRests, OwnAnswer, Answering, Answered, vars, client, command,
     moved, device
<1> QED
  BY <1>1, <1>2

\* The inductive invariant holds.
THEOREM Invariance == Spec => []IInv
  BY InitInv, StepInv, PTL DEF Spec

\* Types, for every set of addresses and words.
THEOREM TypeCorrect == Spec => []TypeOK
<1>1. IInv => TypeOK
  BY DEF IInv
<1> QED
  BY <1>1, Invariance, PTL

\* The library's copy of the TAP state is right whenever it drives the pins.
THEOREM TapStateAgrees == Spec => []TapAgrees
<1>1. IInv => TapAgrees
  BY RestingState DEF IInv, PortRests, TapAgrees
<1> QED
  BY <1>1, Invariance, PTL

\* The virtual instruction that jtagVIR believes loaded is loaded.
THEOREM VirCacheIsTrue == Spec => []VirCacheTrue
<1>1. IInv => VirCacheTrue
  BY DEF IInv, PortRests, VirCacheTrue, Rests, Cached
<1> QED
  BY <1>1, Invariance, PTL

\* A word meets its address in every call that meets no broken chain.
THEOREM WordsArrive == Spec => WordsMove
<1>1. IInv /\ [Next]_vars => [(Sound' /\ at' \in Address /\ fpga' = fpga) => mem'[at'] = data']_vars
  BY NextGood DEF Good, WordStep
<1> QED
  BY <1>1, Invariance, PTL DEF Spec, WordsMove

\* No instruction but the library's is executed, unless a chain was broken.
THEOREM NothingStray == Spec => NoStrayInstruction
<1>1. IInv /\ [Next]_vars => [(at' \in Address /\ jtag.known /\ ~jtag'.known) =>
                                jtag'.wiped \/ jtag'.broke \/ jtag.tap = "SHIFT_IR"]_vars
  BY NextGood DEF Good, StrayStep
<1> QED
  BY <1>1, Invariance, PTL DEF Spec, NoStrayInstruction

\* mbCmdSend returns the answer to its own word.
THEOREM AnswersAreOwn == Spec => AnswerIsOwn
<1>1. IInv /\ [Next]_vars =>
        [(pc = "fetch" /\ pc' = "idle" /\ own /\ Sound') => ret' = Result[cmd]]_vars
  BY NextGood DEF Good, OwnStep
<1> QED
  BY <1>1, Invariance, PTL DEF Spec, AnswerIsOwn
=============================================================================
