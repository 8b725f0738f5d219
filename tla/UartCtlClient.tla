--------------------------- MODULE UartCtlClient ----------------------------
(***************************************************************************)
(* UartCtl with a client that either changes its words at any edge, or has *)
(* a series of them to report and goes on to the next one when             *)
(* flag_allow_new_data rises.                                              *)
(***************************************************************************)
EXTENDS UartCtl

CONSTANT Items   \* the words of the series, which starts over at its end

ASSUME ItemsAssumption == Items \in Seq(Words) /\ Items # <<>>

VARIABLES
  obedient,    \* whether the client waits for the flag
  item,        \* the word an obedient client has on the inputs
  was_allowed  \* flag_allow_new_data at the client's previous edge

clientVars == <<vars, obedient, item, was_allowed>>

Following(n) == (n % Len(Items)) + 1

ClientInit == Init /\ obedient \in BOOLEAN /\ item = 1 /\ was_allowed = 1

\* The word stays until the flag rises.
ObedientEdge ==
  /\ obedient
  /\ Edge(Items[item])
  /\ was_allowed' = r_flag_allow_new_data
  /\ item' = IF r_flag_allow_new_data = 1 /\ was_allowed = 0 THEN Following(item) ELSE item
  /\ UNCHANGED obedient

\* The inputs change at any edge.
AnyEdge == ~obedient /\ Next /\ UNCHANGED <<obedient, item, was_allowed>>

ClientNext == ObedientEdge \/ AnyEdge

ClientSpec == ClientInit /\ [][ClientNext]_clientVars /\ WF_clientVars(ClientNext)
-----------------------------------------------------------------------------
FrameEnds == Len(reading) = ReadSize - 1 /\ reading' = <<>>

Bytes(word) == [k \in 1 .. ReadSize |-> word[k - 1]]

\* The n-th item as the host has it that missed no 8'hff, or one.
Seen(n) ==
  IF missed = 0 THEN Bytes(Items[n])
  ELSE Append(Tail(Bytes(Items[n])), Items[Following(n)][0])

\* One word for each rise of the flag: every frame carries the word that
\* follows the one of the frame before it, with none skipped and none twice.
\* Of the first frame that is true but for its first byte.  A host that missed
\* more than one 8'hff is not meant: it takes twelve bytes 8'hff of the words
\* for a synchronisation, wherever in a frame they end.
EveryItemOnce ==
  [][obedient /\ missed < 2 /\ FrameEnds /\ frames > 0 =>
       \E n \in DOMAIN Items :
         /\ Tail(frame) = Tail(Seen(n))
         /\ frame' = Seen(Following(n))]_clientVars
=============================================================================
