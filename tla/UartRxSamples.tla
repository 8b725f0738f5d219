---------------------------- MODULE UartRxSamples ---------------------------
(***************************************************************************)
(* UartRx on a line that does anything, with the samples it has taken      *)
(* since it noticed a low one.  The counters of the receiver are relative; *)
(* the samples give the instants it looks at an absolute place.            *)
(***************************************************************************)
EXTENDS UartRxEnd, Sequences

VARIABLE seen   \* history: r_Rx_Data at every edge since the last idle one

SampledInit == Rx!Init /\ seen = <<>>

SampledNext ==
  /\ Rx!Next
  /\ seen' = IF rx_SM_Main = "IDLE" THEN <<r_Rx_Data>> ELSE Append(seen, r_Rx_Data)

SampledSpec == SampledInit /\ [][SampledNext]_<<rxVars, seen>>
-----------------------------------------------------------------------------
Age == Len(seen)

\* The edge that looks at bit k: k = -1 is the start bit, LAST_BIT + 1 the
\* stop bit.
Instant(k) == Rx!Middle + 2 + (k + 1) * CLKS_PER_BIT

\* Whatever the line does, a byte is announced only for a start bit that was
\* low when noticed and in its middle, exactly one frame after that, and its
\* bits are the samples a whole number of bits after that middle.
SamplesInMiddle ==
  r_Rx_DV = 1 =>
    /\ Age = Instant(LAST_BIT + 1)
    /\ seen[1] = 0 /\ seen[Instant(-1)] = 0
    /\ \A k \in 0 .. LAST_BIT : r_Rx_Byte[k] = seen[Instant(k)]
=============================================================================
