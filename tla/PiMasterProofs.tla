--------------------------- MODULE PiMasterProofs ---------------------------
(***************************************************************************)
(* Theorems about PiMaster for every set of ids and every loop bound that  *)
(* the eight bit counter cannot reach, with their proofs.                  *)
(***************************************************************************)
EXTENDS PiMaster, SequenceTheorems, TLAPS

USE DEF AllKeys, Receivers, Threads, Topics, InBurst, InExit, Ended, Fields, HistoryCap

-----------------------------------------------------------------------------
\* What the proofs below share: an allow_tx that the transmitter has not yet
\* acted on stands for a grant since the last datagram, and between its test
\* and its clear nobody else resets it.
GrantInv ==
  /\ tpc \in {"send", "clear"} => allow_tx
  /\ allow_tx /\ tpc # "clear" => credit \/ tpc = "done"
  /\ running /\ tpc = "done" => allow_tx

\* running is cleared only after the menu has been left.
RunInv ==
  mpc \in {"menu", "switch", "burstGrant", "stop", "clear"} \cup InBurst => running

Fresh == \A j \in loaded : msg[j] = id_input + j

\* The rounds of send_master_id.  Between two rounds nothing is granted and
\* whatever the transmitter has loaded since its last clear is the new id.
BurstInv ==
  /\ mpc \notin InBurst => rounds = 0
  /\ mpc \in {"sleep", "spin"} => rounds > 0
  /\ rounds = 0 => inRound = <<>>
  /\ tpc \in {"test", "send", "clear"} => loaded = Fields
  /\ rounds > 0 \/ mpc = "grant" => id_tx = id_input
  /\ rounds > 0 /\ (rounds = 2 \/ ~allow_tx) /\ tpc \in {"format", "test", "send", "clear"}
       => Fresh
  /\ rounds > 0 /\ mpc # "spin" => ~allow_tx
  /\ Len(inRound) <= 1
  /\ rounds > 0 /\ allow_tx /\ tpc # "clear" => inRound = <<>>
  /\ rounds = 2 /\ mpc = "spin" /\ (~allow_tx \/ tpc = "clear") => inRound = <<Triple(id_input)>>
  /\ rounds = 2 /\ mpc = "sleep" => inRound = <<Triple(id_input)>>
-----------------------------------------------------------------------------
\* The eight bit counter stays below its modulus.
LEMMA WrapRange == ASSUME NEW n \in Nat PROVE Wrap(n) \in 0 .. CounterMod - 1
  BY CounterAssumption DEF Wrap

LEMMA TwoCharactersType ==
  ASSUME NEW a \in Seq(0 .. 9) \ {<<>>} PROVE TwoCharacters(a) \in Seq(0 .. 9)
<1> DEFINE n == IF Len(a) < 2 THEN 1 ELSE 2
<1>1. a \in Seq(0 .. 9) /\ Len(a) \in Nat \ {0}
  BY EmptySeq
<1>2. 1 \in 1 .. Len(a) + 1 /\ n \in 1 - 1 .. Len(a)
  BY <1>1
<1>3. SubSeq(a, 1, n) \in Seq(0 .. 9)
  BY <1>1, <1>2, SubSeqProperties
<1>4. QED BY <1>3 DEF TwoCharacters

-----------------------------------------------------------------------------
(***************************************************************************)
(* What each thread leaves alone.                                          *)
(***************************************************************************)
LEMMA MainFrame == ASSUME Operator \/ Main PROVE UNCHANGED <<txVars, rxVars>>
<1> USE DEF threads, menuVars
<1>1. ASSUME Operator PROVE UNCHANGED <<txVars, rxVars>>
  BY <1>1 DEF Operator, ReadKey, SetBurstCycles, EnterBurst
<1>2. ASSUME Main PROVE UNCHANGED <<txVars, rxVars>>
  BY <1>2 DEF Main, PublishFlag, OtherKey, BurstId, BurstGrant, SetId, Grant,
     SpinExit, NextRound, StopMosquitto, ClearRunning, JoinReceiver,
     JoinTransmitter, Return
<1>3. QED BY <1>1, <1>2

LEMMA MainHistory ==
  ASSUME Operator \/ Main PROVE BurstGrant \/ Grant \/ UNCHANGED histVars
BY DEF Operator, ReadKey, SetBurstCycles, EnterBurst, Main, PublishFlag, OtherKey,
   BurstId, SetId, SpinExit, NextRound, StopMosquitto, ClearRunning,
   JoinReceiver, JoinTransmitter, Return

LEMMA TransmitterFrame ==
  ASSUME Transmitter PROVE UNCHANGED <<running, id_tx, mainVars, rxVars, rounds>>
BY DEF Transmitter, TxLoopTest, LoadField, TestAllow, SendTo, SendFails,
   ClearAllow, atomics, histVars

LEMMA ReceiverFrame ==
  ASSUME NEW r \in Receivers, Receiver(r) \/ Arrive(r)
  PROVE  UNCHANGED <<atomics, mainVars, txVars, histVars>>
BY DEF Receiver, Receives, RxLoopTest, RecvFrom, RecvFails, Arrive, atomics

-----------------------------------------------------------------------------
(***************************************************************************)
(* Types.                                                                  *)
(***************************************************************************)
LEMMA MainTypes ==
  ASSUME TypeOK, Operator \/ Main
  PROVE  MainOK' /\ PublishedOK' /\ running' \in BOOLEAN /\ allow_tx' \in BOOLEAN /\ id_tx' \in Int
<1> USE DEF TypeOK, MainOK, atomics, menuVars, burstVars, exitVars
<1>1. PublishedOK'
  <2> USE DEF PublishedOK, pubVars
  <2>1. CASE SetBurstCycles
    <3>1. \A a \in Amounts : TwoCharacters(a) \in Seq(0 .. 9)
      BY AmountsAssumption, TwoCharactersType
    <3>2. <<0>> \in Seq(0 .. 9) /\ <<2, 0>> \in Seq(0 .. 9)
      OBVIOUS
    <3>3. QED BY <2>1, <3>1, <3>2 DEF SetBurstCycles
  <2>2. CASE PublishFlag
    BY <2>2 DEF PublishFlag, Publish
  <2>3. CASE UNCHANGED pubVars
    BY <2>3
  <2>4. QED
    BY <2>1, <2>2, <2>3 DEF Operator, ReadKey, EnterBurst, Main, OtherKey,
       BurstId, BurstGrant, SetId, Grant, SpinExit, NextRound, StopMosquitto,
       ClearRunning, JoinReceiver, JoinTransmitter, Return
<1>2. CASE Operator
  <2>1. CASE ReadKey
    BY <1>1, <2>1, KeysAssumption DEF ReadKey
  <2>2. CASE SetBurstCycles
    BY <1>1, <2>2 DEF SetBurstCycles
  <2>3. CASE EnterBurst
    <3>1. id_input' \in Int
      <4>1. id_input' \in Ids \/ id_input' = 0
        BY <2>3, Zenon DEF EnterBurst
      <4>2. CASE id_input' \in Ids
        BY <4>2, IdsAssumption, Zenon
      <4>3. CASE id_input' = 0
        BY <4>3
      <4>4. QED BY <4>1, <4>2, <4>3, Zenon
    <3>2. i' \in 0 .. CounterMod - 1
      BY <2>3, CounterAssumption DEF EnterBurst
    <3>3. cin_ok' \in BOOLEAN
      BY <2>3 DEF EnterBurst
    <3>4. QED BY <1>1, <2>3, <3>1, <3>2, <3>3 DEF EnterBurst
  <2>4. QED BY <1>2, <2>1, <2>2, <2>3 DEF Operator
<1>3. CASE PublishFlag \/ OtherKey \/ BurstId \/ BurstGrant
  <2>1. CASE PublishFlag
    BY <1>1, <2>1 DEF PublishFlag
  <2>2. CASE OtherKey
    BY <1>1, <2>2 DEF OtherKey, LoopTest
  <2>3. CASE BurstId
    BY <1>1, <2>3 DEF BurstId
  <2>4. CASE BurstGrant
    BY <1>1, <2>4 DEF BurstGrant
  <2>5. QED BY <1>3, <2>1, <2>2, <2>3, <2>4
<1>4. CASE SetId \/ Grant \/ SpinExit
  BY <1>1, <1>4 DEF SetId, Grant, SpinExit
<1>5. CASE NextRound
  <2>1. i' \in 0 .. CounterMod - 1
    BY <1>5, WrapRange, CounterAssumption DEF NextRound
  <2>2. QED BY <1>1, <1>5, <2>1 DEF NextRound
<1>6. CASE StopMosquitto \/ ClearRunning \/ JoinReceiver \/ JoinTransmitter \/ Return
  <2>1. CASE StopMosquitto
    BY <1>1, <2>1 DEF StopMosquitto
  <2>2. CASE ClearRunning
    BY <1>1, <2>2 DEF ClearRunning
  <2>3. CASE JoinReceiver
    BY <1>1, <2>3 DEF JoinReceiver
  <2>4. CASE JoinTransmitter
    BY <1>1, <2>4 DEF JoinTransmitter
  <2>5. CASE Return
    BY <1>1, <2>5 DEF Return
  <2>6. QED BY <1>6, <2>1, <2>2, <2>3, <2>4, <2>5
<1>7. QED BY <1>2, <1>3, <1>4, <1>5, <1>6 DEF Main

LEMMA Untouched == MainOK /\ PublishedOK /\ UNCHANGED mainVars => MainOK' /\ PublishedOK'
<1> SUFFICES ASSUME MainOK, PublishedOK, UNCHANGED mainVars PROVE MainOK' /\ PublishedOK'
  OBVIOUS
<1>1. MainOK'
  BY DEF MainOK, mainVars, menuVars, burstVars, exitVars
<1>2. PublishedOK'
  BY DEF PublishedOK, mainVars, menuVars, pubVars
<1>3. QED BY <1>1, <1>2

LEMMA TransmitterTypes ==
  ASSUME TypeOK, Transmitter
  PROVE  TransmitterOK' /\ allow_tx' \in BOOLEAN /\ HistoryOK'
<1> USE DEF TypeOK, TransmitterOK, HistoryOK, atomics, histVars
<1>1. CASE TxLoopTest
  BY <1>1 DEF TxLoopTest, Triple
<1>2. ASSUME NEW j \in Fields, LoadField(j)
      PROVE  TransmitterOK' /\ allow_tx' \in BOOLEAN /\ HistoryOK'
  BY <1>2 DEF LoadField
<1>3. CASE TestAllow \/ SendFails \/ ClearAllow
  BY <1>3 DEF TestAllow, SendFails, ClearAllow
<1>4. CASE SendTo
  <2>1. Append(inRound, msg) \in Seq([Fields -> Int])
    OBVIOUS
  <2>2. inRound' \in Seq([Fields -> Int])
    BY <1>4, <2>1, Zenon DEF SendTo
  <2>3. QED BY <1>4, <2>2 DEF SendTo
<1>5. QED BY <1>1, <1>2, <1>3, <1>4 DEF Transmitter

\* Every variable keeps its type, for all ids, amounts and loop bounds.
THEOREM TypeCorrect == Spec => []TypeOK
<1>1. Init => TypeOK
  <2> SUFFICES ASSUME Init PROVE TypeOK
    OBVIOUS
  <2>1. MainOK
    <3>1. /\ input_key \in AllKeys /\ cin_ok \in BOOLEAN
          /\ mpc = LoopTest(input_key) /\ id_input = 0 /\ i = 0
          /\ mqtt = TRUE /\ joined = {}
      BY KeysAssumption DEF Init
    <3>2. QED BY <3>1, CounterAssumption DEF MainOK, LoopTest
  <2>2. PublishedOK
    <3>1. t_continiouse = FALSE /\ flags = {} /\ burst_cycles = <<5, 0>>
      BY DEF Init
    <3>2. <<5, 0>> \in Seq(0 .. 9)
      OBVIOUS
    <3>3. QED BY <3>1, <3>2 DEF PublishedOK
  <2>3. TransmitterOK
    BY DEF Init, TransmitterOK, Triple
  <2>4. ReceiversOK
    BY DEF Init, ReceiversOK
  <2>5. HistoryOK
    BY DEF Init, HistoryOK
  <2>6. QED BY <2>1, <2>2, <2>3, <2>4, <2>5 DEF Init, TypeOK
<1>2. TypeOK /\ [Next]_vars => TypeOK'
  <2> SUFFICES ASSUME TypeOK, [Next]_vars PROVE TypeOK'
    OBVIOUS
  <2>1. CASE Operator \/ Main
    <3>1. TransmitterOK' /\ ReceiversOK'
      BY <2>1, MainFrame DEF TypeOK, TransmitterOK, ReceiversOK, txVars, rxVars
    <3>2. HistoryOK'
      <4> USE DEF TypeOK, HistoryOK
      <4>1. CASE BurstGrant
        BY <4>1 DEF BurstGrant
      <4>2. CASE Grant
        BY <4>2 DEF Grant
      <4>3. CASE UNCHANGED histVars
        BY <4>3 DEF histVars
      <4>4. QED BY <2>1, <4>1, <4>2, <4>3, MainHistory
    <3>3. QED BY <2>1, <3>1, <3>2, MainTypes DEF TypeOK
  <2>2. CASE Transmitter
    <3>1. UNCHANGED mainVars /\ UNCHANGED rxVars
      BY <2>2, TransmitterFrame
    <3>2. MainOK' /\ PublishedOK'
      BY <3>1, Untouched DEF TypeOK
    <3>3. ReceiversOK'
      BY <3>1 DEF TypeOK, ReceiversOK, rxVars
    <3>4. QED BY <2>2, <3>2, <3>3, TransmitterFrame, TransmitterTypes DEF TypeOK
  <2>3. ASSUME NEW r \in Receivers, Receiver(r) \/ Arrive(r) PROVE TypeOK'
    <3>1. ReceiversOK'
      BY <2>3 DEF Receiver, Receives, RxLoopTest, RecvFrom, RecvFails, Arrive, TypeOK, ReceiversOK
    <3>2. MainOK' /\ PublishedOK'
      BY <2>3, ReceiverFrame, Untouched DEF TypeOK
    <3>3. TransmitterOK' /\ HistoryOK'
      BY <2>3, ReceiverFrame DEF TypeOK, TransmitterOK, HistoryOK, txVars, histVars
    <3>4. QED BY <2>3, <3>1, <3>2, <3>3, ReceiverFrame DEF TypeOK, atomics
  <2>4. CASE UNCHANGED vars
    <3>1. MainOK' /\ PublishedOK' /\ TransmitterOK'
      BY <2>4 DEF vars, TypeOK, MainOK, PublishedOK, TransmitterOK, mainVars, menuVars,
         burstVars, pubVars, exitVars, txVars
    <3>2. QED BY <2>4, <3>1 DEF vars, TypeOK, ReceiversOK, HistoryOK, atomics, rxVars, histVars
  <2>5. QED BY <2>1, <2>2, <2>3, <2>4 DEF Next
<1>3. QED BY <1>1, <1>2, PTL DEF Spec

-----------------------------------------------------------------------------
(***************************************************************************)
(* Grants.                                                                 *)
(***************************************************************************)
\* What main may do to the atomics and to the history of grants.
LEMMA MainAtomics ==
  ASSUME Operator \/ Main
  PROVE  \/ UNCHANGED <<running, allow_tx, credit>>
         \/ UNCHANGED running /\ allow_tx' = TRUE /\ credit' = TRUE
         \/ mpc = "clear" /\ running' = FALSE /\ UNCHANGED <<allow_tx, credit>>
<1> USE DEF atomics, histVars
<1>1. CASE Operator
  BY <1>1 DEF Operator, ReadKey, SetBurstCycles, EnterBurst
<1>2. CASE Main
  BY <1>2 DEF Main, PublishFlag, OtherKey, BurstId, BurstGrant, SetId, Grant,
     SpinExit, NextRound, StopMosquitto, ClearRunning, JoinReceiver,
     JoinTransmitter, Return
<1>3. QED BY <1>1, <1>2

LEMMA GrantInvariant == Spec => []GrantInv
<1>1. Init => GrantInv
  BY DEF Init, GrantInv
<1>2. TypeOK /\ GrantInv /\ [Next]_vars => GrantInv'
  <2> SUFFICES ASSUME TypeOK, GrantInv, [Next]_vars PROVE GrantInv'
    OBVIOUS
  <2> USE DEF GrantInv
  <2>1. CASE Operator \/ Main
    <3>1. UNCHANGED tpc
      BY <2>1, MainFrame DEF txVars
    <3>2. CASE UNCHANGED <<running, allow_tx, credit>>
      BY <3>1, <3>2
    <3>3. CASE UNCHANGED running /\ allow_tx' = TRUE /\ credit' = TRUE
      BY <3>1, <3>3, Zenon
    <3>4. CASE mpc = "clear" /\ running' = FALSE /\ UNCHANGED <<allow_tx, credit>>
      BY <3>1, <3>4, Zenon
    <3>5. QED BY <2>1, <3>2, <3>3, <3>4, MainAtomics
  <2>2. CASE Transmitter
    <3> USE DEF atomics, histVars
    <3>1. CASE TxLoopTest
      BY <3>1 DEF TxLoopTest
    <3>2. ASSUME NEW j \in Fields, LoadField(j) PROVE GrantInv'
      BY <3>2 DEF LoadField
    <3>3. CASE TestAllow
      BY <3>3 DEF TestAllow
    <3>4. CASE SendTo
      BY <3>4 DEF SendTo
    <3>5. CASE SendFails
      BY <3>5 DEF SendFails
    <3>6. CASE ClearAllow
      BY <3>6 DEF ClearAllow
    <3>7. QED BY <2>2, <3>1, <3>2, <3>3, <3>4, <3>5, <3>6 DEF Transmitter
  <2>3. ASSUME NEW r \in Receivers, Receiver(r) \/ Arrive(r) PROVE GrantInv'
    BY <2>3, ReceiverFrame DEF atomics, txVars, histVars
  <2>4. CASE UNCHANGED vars
    BY <2>4 DEF vars, atomics, txVars, histVars
  <2>5. QED BY <2>1, <2>2, <2>3, <2>4 DEF Next
<1>3. QED BY <1>1, <1>2, TypeCorrect, PTL DEF Spec

\* The transmitter sends only when it has been granted since its previous
\* datagram, whatever main and the operator do in between.
THEOREM GrantSafety == Spec => []NoDatagramWithoutGrant
<1>1. GrantInv => NoDatagramWithoutGrant
  BY DEF GrantInv, NoDatagramWithoutGrant
<1>2. QED BY <1>1, GrantInvariant, PTL

-----------------------------------------------------------------------------
LEMMA RunInvariant == Spec => []RunInv
<1>1. Init => RunInv
  BY DEF Init, RunInv
<1>2. TypeOK /\ RunInv /\ [Next]_vars => RunInv'
  <2> SUFFICES ASSUME TypeOK, RunInv, [Next]_vars PROVE RunInv'
    OBVIOUS
  <2> USE DEF RunInv
  <2>1. CASE Operator
    BY <2>1 DEF Operator, ReadKey, SetBurstCycles, EnterBurst, atomics
  <2>2. CASE Main
    BY <2>2 DEF Main, PublishFlag, OtherKey, BurstId, BurstGrant, SetId, Grant,
       SpinExit, NextRound, StopMosquitto, ClearRunning, JoinReceiver,
       JoinTransmitter, Return, LoopTest, atomics
  <2>3. CASE Transmitter
    BY <2>3, TransmitterFrame DEF mainVars, menuVars
  <2>4. ASSUME NEW r \in Receivers, Receiver(r) \/ Arrive(r) PROVE RunInv'
    BY <2>4, ReceiverFrame DEF mainVars, menuVars, atomics
  <2>5. CASE UNCHANGED vars
    BY <2>5 DEF vars, mainVars, menuVars, atomics
  <2>6. QED BY <2>1, <2>2, <2>3, <2>4, <2>5 DEF Next
<1>3. QED BY <1>1, <1>2, TypeCorrect, PTL DEF Spec

\* After a failed sendto the wait of send_master_id is never left again.
THEOREM FailureHangs == Spec => FailedSendHangsBurst
<1>1. GrantInv /\ RunInv /\ [Next]_vars
        => [mpc = "spin" /\ tpc = "done" => mpc' = "spin"]_vars
  <2> SUFFICES ASSUME GrantInv, RunInv, Next, mpc = "spin", tpc = "done"
               PROVE  mpc' = "spin"
    OBVIOUS
  <2>1. allow_tx
    BY DEF GrantInv, RunInv
  <2>2. CASE Operator
    BY <2>2 DEF Operator, ReadKey, SetBurstCycles, EnterBurst
  <2>3. CASE Main
    BY <2>1, <2>3 DEF Main, PublishFlag, OtherKey, BurstId, BurstGrant, SetId,
       Grant, SpinExit, NextRound, StopMosquitto, ClearRunning, JoinReceiver,
       JoinTransmitter, Return
  <2>4. CASE Transmitter
    BY <2>4, TransmitterFrame DEF mainVars, menuVars
  <2>5. ASSUME NEW r \in Receivers, Receiver(r) \/ Arrive(r) PROVE mpc' = "spin"
    BY <2>5, ReceiverFrame DEF mainVars, menuVars
  <2>6. QED BY <2>2, <2>3, <2>4, <2>5 DEF Next
<1>2. QED BY <1>1, GrantInvariant, RunInvariant, PTL DEF Spec, FailedSendHangsBurst

\* send_master_id never returns: its counter wraps before it reaches the
\* bound, for every bound of at least CounterMod.
THEOREM NeverEnds == Spec => BurstNeverEnds
<1>1. TypeOK /\ [Next]_vars => [(mpc \in InBurst) => (mpc' \in InBurst)]_vars
  <2> SUFFICES ASSUME TypeOK, Next, mpc \in InBurst PROVE mpc' \in InBurst
    OBVIOUS
  <2>1. CASE Operator
    BY <2>1 DEF Operator, ReadKey, SetBurstCycles, EnterBurst
  <2>2. CASE NextRound
    <3>1. i \in Nat
      BY CounterAssumption DEF TypeOK, MainOK
    <3>2. i' \in 0 .. CounterMod - 1
      BY <2>2, <3>1, WrapRange DEF NextRound
    <3>3. i' < BurstCycles
      BY <3>2, CounterAssumption
    <3>4. QED BY <2>2, <3>3 DEF NextRound
  <2>3. CASE Main /\ ~NextRound
    BY <2>3 DEF Main, PublishFlag, OtherKey, BurstId, BurstGrant, SetId, Grant,
       SpinExit, StopMosquitto, ClearRunning, JoinReceiver, JoinTransmitter, Return
  <2>4. CASE Transmitter
    BY <2>4, TransmitterFrame DEF mainVars, menuVars
  <2>5. ASSUME NEW r \in Receivers, Receiver(r) \/ Arrive(r) PROVE mpc' \in InBurst
    BY <2>5, ReceiverFrame DEF mainVars, menuVars
  <2>6. QED BY <2>1, <2>2, <2>3, <2>4, <2>5 DEF Next
<1>2. QED BY <1>1, TypeCorrect, PTL DEF Spec, BurstNeverEnds

-----------------------------------------------------------------------------
(***************************************************************************)
(* The exit.                                                               *)
(***************************************************************************)

\* A key that is ESC was read from a good stream and is acted on at once: main
\* is on its way out with it and reads no other.
EscapeInv ==
  /\ input_key = "ESC" => cin_ok /\ mpc \in {"switch"} \cup InExit \cup Ended
  /\ mpc \in InExit \cup Ended => input_key = "ESC"

LEMMA EscapeMain == ASSUME EscapeInv, Operator \/ Main PROVE EscapeInv'
<1> USE DEF EscapeInv, InExit, Ended
<1>1. CASE Operator
  BY <1>1 DEF Operator, ReadKey, SetBurstCycles, EnterBurst
<1>2. CASE PublishFlag \/ OtherKey \/ BurstId \/ BurstGrant
  BY <1>2 DEF PublishFlag, OtherKey, BurstId, BurstGrant, LoopTest, menuVars
<1>3. CASE SetId \/ Grant \/ SpinExit \/ NextRound
  BY <1>3 DEF SetId, Grant, SpinExit, NextRound, menuVars
<1>4. CASE StopMosquitto \/ ClearRunning \/ JoinReceiver \/ JoinTransmitter \/ Return
  BY <1>4 DEF StopMosquitto, ClearRunning, JoinReceiver, JoinTransmitter, Return, menuVars
<1>5. QED BY <1>1, <1>2, <1>3, <1>4 DEF Main

\* No exit comes of a failed input stream, whatever key is repeated then.
THEOREM ExitIsEscape == Spec => []ExitOnlyByEscape
<1>1. Init => EscapeInv
  BY DEF Init, EscapeInv, LoopTest, InExit, Ended
<1>2. EscapeInv /\ [Next]_vars => EscapeInv'
  <2> SUFFICES ASSUME EscapeInv, [Next]_vars PROVE EscapeInv'
    OBVIOUS
  <2>1. CASE Operator \/ Main
    BY <2>1, EscapeMain
  <2>2. CASE Transmitter
    BY <2>2, TransmitterFrame DEF EscapeInv, mainVars, menuVars
  <2>3. ASSUME NEW r \in Receivers, Receiver(r) \/ Arrive(r) PROVE EscapeInv'
    BY <2>3, ReceiverFrame DEF EscapeInv, mainVars, menuVars
  <2>4. CASE UNCHANGED vars
    BY <2>4 DEF EscapeInv, vars, mainVars, menuVars
  <2>5. QED BY <2>1, <2>2, <2>3, <2>4 DEF Next
<1>3. EscapeInv => ExitOnlyByEscape
  BY DEF EscapeInv, ExitOnlyByEscape
<1>4. QED BY <1>1, <1>2, <1>3, PTL DEF Spec

-----------------------------------------------------------------------------
(***************************************************************************)
(* The rounds of send_master_id.                                           *)
(***************************************************************************)
LEMMA BurstOperator == ASSUME TypeOK, BurstInv, Operator PROVE BurstInv'
<1> USE DEF BurstInv, Fresh, atomics, txVars, threads, histVars
<1>1. CASE ReadKey \/ SetBurstCycles
  BY <1>1 DEF ReadKey, SetBurstCycles, burstVars
<1>2. CASE EnterBurst
  BY <1>2 DEF EnterBurst
<1>3. QED BY <1>1, <1>2 DEF Operator

LEMMA BurstMain == ASSUME TypeOK, GrantInv, BurstInv, Main PROVE BurstInv'
<1> USE DEF BurstInv, Fresh, atomics, menuVars, burstVars, txVars, threads, histVars
<1>1. CASE PublishFlag \/ OtherKey \/ BurstId \/ BurstGrant
  <2>1. rounds = 0
    BY <1>1 DEF PublishFlag, OtherKey, BurstId, BurstGrant
  <2>2. UNCHANGED <<rounds, inRound, tpc, loaded>>
    BY <1>1 DEF PublishFlag, OtherKey, BurstId, BurstGrant
  <2>3. mpc' \notin InBurst
    BY <1>1 DEF PublishFlag, OtherKey, BurstId, BurstGrant, LoopTest
  <2>4. QED BY <2>1, <2>2, <2>3
<1>2. CASE SetId
  BY <1>2 DEF SetId
<1>3. CASE Grant
  BY <1>3 DEF Grant, GrantInv, TypeOK, HistoryOK
<1>4. CASE SpinExit
  BY <1>4 DEF SpinExit
<1>5. CASE NextRound
  <2>1. i \in Nat
    BY CounterAssumption DEF TypeOK, MainOK
  <2>2. i' < BurstCycles
    BY <1>5, <2>1, WrapRange, CounterAssumption DEF NextRound
  <2>3. QED BY <1>5, <2>2 DEF NextRound
<1>6. CASE StopMosquitto \/ ClearRunning \/ JoinReceiver \/ JoinTransmitter \/ Return
  BY <1>6 DEF StopMosquitto, ClearRunning, JoinReceiver, JoinTransmitter, Return
<1>7. QED BY <1>1, <1>2, <1>3, <1>4, <1>5, <1>6 DEF Main

LEMMA BurstTransmitter == ASSUME TypeOK, GrantInv, BurstInv, Transmitter PROVE BurstInv'
<1> USE DEF BurstInv, Fresh, atomics, mainVars, menuVars, burstVars, histVars
<1>1. CASE TxLoopTest
  BY <1>1 DEF TxLoopTest
<1>2. ASSUME NEW j \in Fields, LoadField(j) PROVE BurstInv'
  BY <1>2 DEF LoadField, TypeOK, TransmitterOK
<1>3. CASE TestAllow
  BY <1>3 DEF TestAllow
<1>4. CASE SendTo
  <2>1. tpc = "send" /\ allow_tx /\ loaded = Fields
    BY <1>4 DEF SendTo, GrantInv
  <2>2. CASE rounds = 0
    BY <1>4, <2>1, <2>2 DEF SendTo
  <2>3. CASE rounds > 0
    <3>1. inRound = <<>> /\ inRound' = <<msg>>
      BY <1>4, <2>1, <2>3 DEF SendTo
    <3>2. ASSUME rounds = 2 PROVE msg = Triple(id_input)
      BY <2>1, <2>3, <3>2 DEF Triple, TypeOK, TransmitterOK
    <3>3. QED BY <1>4, <2>1, <2>3, <3>1, <3>2 DEF SendTo
  <2>4. QED BY <2>2, <2>3 DEF TypeOK, HistoryOK
<1>5. CASE SendFails
  BY <1>5 DEF SendFails
<1>6. CASE ClearAllow
  BY <1>6 DEF ClearAllow
<1>7. QED BY <1>1, <1>2, <1>3, <1>4, <1>5, <1>6 DEF Transmitter

LEMMA BurstInvariant == Spec => []BurstInv
<1>1. Init => BurstInv
  BY DEF Init, BurstInv, LoopTest, Fresh
<1>2. TypeOK /\ GrantInv /\ BurstInv /\ [Next]_vars => BurstInv'
  <2> SUFFICES ASSUME TypeOK, GrantInv, BurstInv, [Next]_vars PROVE BurstInv'
    OBVIOUS
  <2>1. ASSUME NEW r \in Receivers, Receiver(r) \/ Arrive(r) PROVE BurstInv'
    BY <2>1, ReceiverFrame
    DEF BurstInv, Fresh, atomics, mainVars, menuVars, burstVars, txVars, histVars
  <2>2. CASE UNCHANGED vars
    BY <2>2 DEF BurstInv, Fresh, vars, atomics, mainVars, menuVars, burstVars, txVars, histVars
  <2>3. QED BY <2>1, <2>2, BurstOperator, BurstMain, BurstTransmitter DEF Next
<1>3. QED BY <1>1, <1>2, TypeCorrect, GrantInvariant, PTL DEF Spec

\* From the second round on, the wait of send_master_id ends after exactly
\* one datagram, and that datagram carries the entered id in all its fields.
THEOREM RoundsAreExact == Spec => []BurstRoundExact
<1>1. BurstInv => BurstRoundExact
  BY DEF BurstInv, BurstRoundExact
<1>2. QED BY <1>1, BurstInvariant, PTL

\* No round sends twice, the first one included.
THEOREM RoundsSendOnce == Spec => []OneDatagramPerRound
<1>1. BurstInv => OneDatagramPerRound
  BY DEF BurstInv, OneDatagramPerRound
<1>2. QED BY <1>1, BurstInvariant, PTL
=============================================================================
