----------------------------- MODULE SerialLine -----------------------------
(***************************************************************************)
(* What uart_tx promises to the other end of the wire, as the comment      *)
(* above it tells it: a start bit, the data bits, least significant first, *)
(* and a stop bit, each for CLKS_PER_BIT clocks, the line high otherwise.  *)
(* A frame is one walk over its symbols, with no state machine:            *)
(*                                                                         *)
(*   pos   0     1      2 .. LAST_BIT + 2   LAST_BIT + 3   LAST_BIT + 4    *)
(*         idle  start  data bits           stop           one clock more  *)
(***************************************************************************)
EXTENDS Integers

CONSTANTS CLKS_PER_BIT, LAST_BIT

VARIABLES
  line,          \* level on the wire
  active, done,  \* status of the transmitter
  frame,         \* the byte of this walk
  pos, tick      \* symbol, and the clocks it has been held

vars == <<line, active, done, frame, pos, tick>>

Bit  == {0, 1}
Byte == [0 .. LAST_BIT -> Bit]

Stop == LAST_BIT + 3
Gap  == LAST_BIT + 4

Symbol(p) ==
  IF p = 1 THEN 0 ELSE IF p \in 2 .. LAST_BIT + 2 THEN frame[p - 2] ELSE 1

Accept  == pos = 0 /\ frame' \in Byte /\ pos' = 1 /\ tick' = 0
Rest    == pos = 0 /\ UNCHANGED <<frame, pos, tick>>
Hold    == pos \in 1 .. Stop /\ tick < CLKS_PER_BIT - 1 /\ tick' = tick + 1
           /\ UNCHANGED <<frame, pos>>
Advance == pos \in 1 .. Stop /\ tick = CLKS_PER_BIT - 1 /\ tick' = 0
           /\ pos' = pos + 1 /\ UNCHANGED frame
Close   == pos = Gap /\ pos' = 0 /\ UNCHANGED <<frame, tick>>

Init ==
  /\ line \in Bit /\ frame \in Byte
  /\ active = 0 /\ done = 0 /\ pos = 0 /\ tick = 0

\* The status is active exactly while a symbol is on its way, and done on
\* the two clocks after the last one.
Next ==
  /\ line' = Symbol(pos)
  /\ Accept \/ Rest \/ Hold \/ Advance \/ Close
  /\ active' = IF pos' \in 1 .. Stop THEN 1 ELSE 0
  /\ done' = IF pos = Gap \/ pos' = Gap THEN 1 ELSE 0

Spec == Init /\ [][Next]_vars
=============================================================================
