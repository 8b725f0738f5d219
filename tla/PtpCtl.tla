------------------------------- MODULE PtpCtl -------------------------------
(***************************************************************************)
(* PTP_ctl of ptp_via_US.v: one end of an exchange of ultrasound pulses.   *)
(* It sends a pulse, is deaf for a while, waits for the pulse of the other *)
(* end and measures how long that took; after CONV_CYCLES pulses it has    *)
(* finished.  The master sends first; the slave starts by waiting.         *)
(*                                                                         *)
(* Its registers are a record.  is_master is FLAG_is_master of the code,   *)
(* which is set while the end waits for a pulse, whatever its role.        *)
(***************************************************************************)
EXTENDS Integers

CONSTANTS
  INIT_WAIT_DELAY,   \* how long the pulse is
  WAIT_DELAY,        \* how long the end is deaf after it began its pulse
  MAX_WAIT_CYCLES,   \* where delay_cnt starts over
  CONV_CYCLES

ASSUME DelayAssumption ==
  /\ INIT_WAIT_DELAY \in Nat /\ WAIT_DELAY \in Nat /\ MAX_WAIT_CYCLES \in Nat
  /\ INIT_WAIT_DELAY < WAIT_DELAY /\ WAIT_DELAY < MAX_WAIT_CYCLES

ASSUME CyclesAssumption == CONV_CYCLES \in Nat /\ CONV_CYCLES >= 2

Ctl == [is_master : BOOLEAN, first_impuls : BOOLEAN, delay_cnt : 0 .. MAX_WAIT_CYCLES,
        conv_cnt : 0 .. CONV_CYCLES, travel_time_cnt : 0 .. MAX_WAIT_CYCLES,
        conv_finished : BOOLEAN, output : BOOLEAN]

\* The reset.  mode_select is low in the master, which has its own pulse
\* counted in advance.
CtlReset(mode_select) ==
  [is_master |-> mode_select, first_impuls |-> FALSE, delay_cnt |-> 0,
   conv_cnt |-> IF mode_select THEN 0 ELSE 1, travel_time_cnt |-> 1,
   conv_finished |-> FALSE, output |-> FALSE]

\* delay_cnt at the next edge if nothing else sets it.
Count(c) == IF c.delay_cnt = MAX_WAIT_CYCLES THEN 0 ELSE c.delay_cnt + 1

\* Mutant: the count does not start over with the pulse.
SendCountsOn(c) ==
  [c EXCEPT !.first_impuls = TRUE,
            !.delay_cnt    = Count(c),
            !.output       = c.delay_cnt <= INIT_WAIT_DELAY,
            !.is_master    = c.delay_cnt >= WAIT_DELAY]

\* Sending, and deaf after it.  The count starts at the first edge of the pulse.
Send(c) ==
  [c EXCEPT !.first_impuls = TRUE,
            !.delay_cnt    = IF c.first_impuls THEN Count(c) ELSE 0,
            !.output       = c.delay_cnt <= INIT_WAIT_DELAY,
            !.is_master    = c.delay_cnt >= WAIT_DELAY]

\* A pulse is heard.  The first one that a slave hears is not measured.
Hear(c) ==
  [c EXCEPT !.conv_cnt        = c.conv_cnt + 1,
            !.is_master       = FALSE,
            !.travel_time_cnt = IF c.first_impuls THEN c.delay_cnt ELSE c.travel_time_cnt,
            !.delay_cnt       = 0,
            !.first_impuls    = FALSE,
            !.output          = FALSE]

Silence(c) == [c EXCEPT !.delay_cnt = Count(c), !.output = FALSE]

\* The last pulse was heard and answered: what is measured stays.
Finish(c, input) ==
  [c EXCEPT !.conv_finished = TRUE,
            !.delay_cnt     = IF input THEN 0 ELSE Count(c),
            !.first_impuls  = c.first_impuls /\ ~input,
            !.output        = FALSE]

\* One edge of its clock with input on input_interface.
Tick(c, input) ==
  CASE ~c.is_master                              -> Send(c)
    [] c.is_master /\ c.conv_cnt >= CONV_CYCLES  -> Finish(c, input)
    [] c.is_master /\ c.conv_cnt < CONV_CYCLES   -> IF input THEN Hear(c) ELSE Silence(c)
=============================================================================
