----------------------------- MODULE ByteChannel ----------------------------
(***************************************************************************)
(* What a transmitter and a receiver promise together: a byte that was     *)
(* taken is handed out once, unchanged and before the next one is taken.   *)
(***************************************************************************)
EXTENDS Sequences, Integers

CONSTANT Byte

VARIABLES
  inFlight,  \* the bytes taken and not yet handed out
  strobe,    \* 1 on the clock that hands one out
  out        \* the byte handed out; of no meaning without the strobe

vars == <<inFlight, strobe, out>>

Init == inFlight = <<>> /\ strobe = 0 /\ out \in Byte

Take ==
  /\ inFlight = <<>>
  /\ \E b \in Byte : inFlight' = <<b>>
  /\ UNCHANGED <<strobe, out>>

HandOut ==
  /\ inFlight # <<>> /\ strobe = 0
  /\ strobe' = 1 /\ out' = Head(inFlight)
  /\ inFlight' = Tail(inFlight)

Release ==
  /\ strobe = 1 /\ strobe' = 0
  /\ UNCHANGED <<inFlight, out>>

\* The receiver assembles the next byte in place.
Assemble ==
  /\ strobe = 0 /\ out' \in Byte
  /\ UNCHANGED <<inFlight, strobe>>

Next == Take \/ HandOut \/ Release \/ Assemble

Spec == Init /\ [][Next]_vars
=============================================================================
