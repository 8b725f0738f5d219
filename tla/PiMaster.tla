------------------------------ MODULE PiMaster ------------------------------
(***************************************************************************)
(* The triangulation master, src/UDP_tools/pi_master.                      *)
(*                                                                         *)
(* Four threads share three atomics.  The main thread runs the keyboard    *)
(* menu and grants transmissions (allow_tx); the transmitter thread sends  *)
(* one multicast datagram per grant it notices; two receiver threads block *)
(* in recvfrom.  Each access to an atomic, to standard input and to a      *)
(* socket is a step of its own, so every interleaving of the threads is a  *)
(* behaviour.                                                              *)
(***************************************************************************)
EXTENDS Integers, Sequences, FiniteSets

CONSTANTS
  Keys,         \* the keys the operator may press
  Ids,          \* the ids the operator may enter for option 7
  Amounts,      \* the amounts for option 1, as sequences of digits
  CounterMod,   \* number of values of the loop counter, 256 for uint8_t
  BurstCycles,  \* bound of the loop in send_master_id, 1000
  MaySendFail   \* whether sendto may return an error

AllKeys == {"ESC", "1", "2", "3", "4", "5", "6", "7", "other"}

ASSUME KeysAssumption    == Keys \subseteq AllKeys
ASSUME IdsAssumption     == Ids \subseteq Int
ASSUME AmountsAssumption == Amounts \subseteq Seq(0 .. 9) \ {<<>>}
ASSUME CounterAssumption == /\ CounterMod \in Nat \ {0}
                            /\ BurstCycles \in Nat
                            /\ BurstCycles >= CounterMod
ASSUME FailAssumption    == MaySendFail \in BOOLEAN

VARIABLES
  running, allow_tx, id_tx,             \* the atomics
  mpc, input_key, cin_ok, id_input, i,  \* main and send_master_id
  t_continiouse, flags, burst_cycles,   \* last payloads handed to mosquitto
  mqtt,
  joined,                               \* threads main has joined
  tpc, msg, loaded,                     \* transmitter
  rpc, sock,                            \* receivers and their sockets
  credit, rounds, inRound               \* history

atomics   == <<running, allow_tx, id_tx>>
burstVars == <<id_input, i>>
pubVars   == <<t_continiouse, flags, burst_cycles>>
exitVars  == <<mqtt, joined>>
menuVars  == <<input_key, cin_ok, burstVars, pubVars, exitVars>>
mainVars  == <<mpc, menuVars>>
txVars    == <<tpc, msg, loaded>>
rxVars    == <<rpc, sock>>
histVars  == <<credit, rounds, inRound>>
threads   == <<txVars, rxVars>>
vars      == <<atomics, mainVars, txVars, rxVars, histVars>>

HistoryCap == 2   \* how many datagrams of a round the history remembers
Receivers == {"rx1", "rx2"}
Threads   == Receivers \cup {"tx"}
Fields    == 0 .. 2

\* A datagram is "id/id+1/id+2"; field j of it was formatted from one load.
Triple(id) == [j \in Fields |-> id + j]

Topics  == {"start_burst", "start_ptp_sync", "start_continiouse"}
InBurst == {"setId", "grant", "spin", "sleep"}
InExit  == {"stop", "clear", "join1", "join2", "return"}
Ended   == {"returned", "terminated"}

\* What is left in a two character payload of a number's digits.
TwoCharacters(digits) == SubSeq(digits, 1, IF Len(digits) < 2 THEN 1 ELSE 2)

\* Mutant: the loop counter is wide enough for its bound.
WrapNever(n) == n

\* What n is in the uint8_t loop counter.
Wrap(n) == n % CounterMod

LoopTest(key) == IF key = "ESC" THEN "stop" ELSE "menu"

Init ==
  /\ running = TRUE /\ allow_tx = TRUE /\ id_tx = 0
  /\ \/ input_key \in Keys /\ cin_ok = TRUE
     \/ input_key = "other" /\ cin_ok = FALSE
  /\ mpc = LoopTest(input_key)
  /\ id_input = 0 /\ i = 0
  /\ t_continiouse = FALSE
  /\ flags = {} /\ burst_cycles = <<5, 0>>
  /\ mqtt = TRUE
  /\ joined = {}
  /\ tpc = "top" /\ msg = Triple(0) /\ loaded = {}
  /\ rpc = [r \in Receivers |-> "top"]
  /\ sock = [r \in Receivers |-> 0]
  /\ credit = TRUE /\ rounds = 0 /\ inRound = <<>>

-----------------------------------------------------------------------------
(***************************************************************************)
(* Main thread: the menu.                                                  *)
(***************************************************************************)

\* Mutant: end of input is taken for ESC.
ReadKeyEndsAtEof ==
  /\ mpc = "menu"
  /\ \/ cin_ok /\ input_key' \in Keys /\ UNCHANGED cin_ok
     \/ cin_ok' = FALSE /\ input_key' = "ESC"
  /\ mpc' = "switch"
  /\ UNCHANGED <<atomics, burstVars, pubVars, exitVars, threads, histVars>>

\* cin >> input_key.  Once the stream has failed (end of input, or a word
\* where a number was expected) extraction leaves the key as it was.
ReadKey ==
  /\ mpc = "menu"
  /\ \/ cin_ok /\ input_key' \in Keys /\ UNCHANGED cin_ok
     \/ cin_ok' = FALSE /\ UNCHANGED input_key
  /\ mpc' = "switch"
  /\ UNCHANGED <<atomics, burstVars, pubVars, exitVars, threads, histVars>>

\* Case '1', set_burst_cycles: the payload is cut to two characters.  A word
\* where the number was expected stores 0; at the end of input, and once the
\* stream has failed, the amount stays 20.
SetBurstCycles ==
  /\ mpc = "switch" /\ input_key = "1"
  /\ \/ /\ cin_ok /\ UNCHANGED cin_ok
        /\ \E a \in Amounts : burst_cycles' = TwoCharacters(a)
     \/ /\ cin_ok /\ cin_ok' = FALSE
        /\ burst_cycles' = <<0>>
     \/ /\ cin_ok' = FALSE
        /\ burst_cycles' = <<2, 0>>
  /\ mpc' = "menu"
  /\ UNCHANGED <<atomics, input_key, burstVars, t_continiouse, flags, exitVars, threads, histVars>>

Publish(topic, value) ==
  flags' = IF value THEN flags \cup {topic} ELSE flags \ {topic}

\* Cases '2' and '3' publish a constant, case '4' the toggled flag; case '5'
\* publishes on /time/set_zero the "0" that is its payload from the start.
PublishFlag ==
  /\ mpc = "switch"
  /\ \/ /\ input_key = "2" /\ Publish("start_burst", TRUE)
        /\ UNCHANGED t_continiouse
     \/ /\ input_key = "3" /\ Publish("start_ptp_sync", TRUE)
        /\ UNCHANGED t_continiouse
     \/ /\ input_key = "4" /\ t_continiouse' = ~t_continiouse
        /\ Publish("start_continiouse", t_continiouse')
     \/ input_key = "5" /\ UNCHANGED <<flags, t_continiouse>>
  /\ mpc' = "menu"
  /\ UNCHANGED <<atomics, input_key, cin_ok, burst_cycles, burstVars, exitVars, threads, histVars>>

\* The default case, which is also the one ESC takes before the loop test.
OtherKey ==
  /\ mpc = "switch" /\ input_key \in {"ESC", "other"}
  /\ mpc' = LoopTest(input_key)
  /\ UNCHANGED <<atomics, menuVars, threads, histVars>>

\* Case '6': id_tx = 0; allow_tx = true;
BurstId ==
  /\ mpc = "switch" /\ input_key = "6"
  /\ id_tx' = 0
  /\ mpc' = "burstGrant"
  /\ UNCHANGED <<running, allow_tx, menuVars, threads, histVars>>

BurstGrant ==
  /\ mpc = "burstGrant"
  /\ allow_tx' = TRUE
  /\ credit' = TRUE
  /\ mpc' = "menu"
  /\ UNCHANGED <<running, id_tx, menuVars, threads, rounds, inRound>>

-----------------------------------------------------------------------------
(***************************************************************************)
(* Main thread: option 7, send_master_id.                                  *)
(***************************************************************************)
EnterBurst ==
  /\ mpc = "switch" /\ input_key = "7"
  /\ \/ cin_ok /\ id_input' \in Ids /\ UNCHANGED cin_ok
     \/ cin_ok' = FALSE /\ id_input' = 0
  /\ i' = 0
  /\ mpc' = "setId"
  /\ UNCHANGED <<atomics, input_key, pubVars, exitVars, threads, histVars>>

SetId ==
  /\ mpc = "setId"
  /\ id_tx' = id_input
  /\ mpc' = "grant"
  /\ UNCHANGED <<running, allow_tx, menuVars, threads, histVars>>

\* rounds counts the grants of this loop and saturates at two.
Grant ==
  /\ mpc = "grant"
  /\ allow_tx' = TRUE
  /\ credit' = TRUE
  /\ rounds' = IF rounds = 0 THEN 1 ELSE 2
  /\ inRound' = <<>>
  /\ mpc' = "spin"
  /\ UNCHANGED <<running, id_tx, menuVars, threads>>

\* Mutant: send_master_id does not wait.
SpinExitEarly ==
  /\ mpc = "spin"
  /\ mpc' = "sleep"
  /\ UNCHANGED <<atomics, menuVars, threads, histVars>>

\* while(allow_tx); with an iteration that reads TRUE a stuttering step.
SpinExit ==
  /\ mpc = "spin"
  /\ ~allow_tx
  /\ mpc' = "sleep"
  /\ UNCHANGED <<atomics, menuVars, threads, histVars>>

\* usleep, then the increment of the uint8_t counter and the loop test.
NextRound ==
  /\ mpc = "sleep"
  /\ i' = Wrap(i + 1)
  /\ mpc' = IF i' < BurstCycles THEN "setId" ELSE "menu"
  /\ UNCHANGED <<atomics, input_key, cin_ok, id_input, pubVars, exitVars, threads, histVars>>

-----------------------------------------------------------------------------
(***************************************************************************)
(* Main thread: the exit sequence.                                         *)
(***************************************************************************)
StopMosquitto ==
  /\ mpc = "stop"
  /\ mqtt' = FALSE
  /\ mpc' = "clear"
  /\ UNCHANGED <<atomics, input_key, cin_ok, burstVars, pubVars, joined, threads, histVars>>

\* Mutant: running keeps its value.
ClearRunningForgotten ==
  /\ mpc = "clear"
  /\ mpc' = "join1"
  /\ UNCHANGED <<atomics, menuVars, threads, histVars>>

ClearRunning ==
  /\ mpc = "clear"
  /\ running' = FALSE
  /\ mpc' = "join1"
  /\ UNCHANGED <<allow_tx, id_tx, menuVars, threads, histVars>>

\* update_thread.join(), then update_thread2.join()
JoinReceiver ==
  /\ mpc = "join1" /\ rpc["rx1"] = "done"
  /\ joined' = joined \cup {"rx1"}
  /\ mpc' = "join2"
  /\ UNCHANGED <<atomics, input_key, cin_ok, burstVars, pubVars, mqtt, threads, histVars>>

JoinTransmitter ==
  /\ mpc = "join2" /\ tpc = "done"
  /\ joined' = joined \cup {"tx"}
  /\ mpc' = "return"
  /\ UNCHANGED <<atomics, input_key, cin_ok, burstVars, pubVars, mqtt, threads, histVars>>

\* Leaving main destroys the thread objects: one that is still joinable
\* calls std::terminate.
Return ==
  /\ mpc = "return"
  /\ mpc' = IF joined = Threads THEN "returned" ELSE "terminated"
  /\ UNCHANGED <<atomics, menuVars, threads, histVars>>

\* The steps that read standard input: they wait for the operator, but return
\* at once when the stream has failed.
Operator == ReadKey \/ SetBurstCycles \/ EnterBurst

Main ==
  \/ PublishFlag \/ OtherKey \/ BurstId \/ BurstGrant
  \/ SetId \/ Grant \/ SpinExit \/ NextRound
  \/ StopMosquitto \/ ClearRunning \/ JoinReceiver \/ JoinTransmitter \/ Return

-----------------------------------------------------------------------------
(***************************************************************************)
(* Transmitter thread, udp_conv_tx::loop.                                  *)
(***************************************************************************)
alive == mpc \notin Ended

TxLoopTest ==
  /\ tpc = "top"
  /\ tpc' = IF running THEN "format" ELSE "done"
  /\ loaded' = {} /\ msg' = Triple(0)
  /\ UNCHANGED <<atomics, mainVars, rxVars, histVars>>

\* The message is formatted from three loads of id_tx, one for each field,
\* before allow_tx is looked at; C++11 leaves their order open.
LoadField(j) ==
  /\ tpc = "format" /\ j \notin loaded
  /\ msg' = [msg EXCEPT ![j] = id_tx + j]
  /\ loaded' = loaded \cup {j}
  /\ tpc' = IF loaded' = Fields THEN "test" ELSE "format"
  /\ UNCHANGED <<atomics, mainVars, rxVars, histVars>>

\* Mutant: the message is sent without a look at allow_tx.
TestAllowSkipped ==
  /\ tpc = "test"
  /\ tpc' = "send"
  /\ UNCHANGED <<atomics, msg, loaded, mainVars, rxVars, histVars>>

TestAllow ==
  /\ tpc = "test"
  /\ tpc' = IF allow_tx THEN "send" ELSE "top"
  /\ UNCHANGED <<atomics, msg, loaded, mainVars, rxVars, histVars>>

SendTo ==
  /\ tpc = "send"
  /\ credit' = FALSE
  /\ inRound' = IF rounds > 0 /\ Len(inRound) < HistoryCap
                THEN Append(inRound, msg) ELSE inRound
  /\ tpc' = "clear"
  /\ UNCHANGED <<atomics, msg, loaded, mainVars, rxVars, rounds>>

\* Mutant: the thread gives the grant back before it returns.
SendFailsReleased ==
  /\ MaySendFail
  /\ tpc = "send"
  /\ allow_tx' = FALSE
  /\ tpc' = "done"
  /\ UNCHANGED <<running, id_tx, msg, loaded, mainVars, rxVars, histVars>>

\* On an error the thread returns, with allow_tx left as it is.
SendFails ==
  /\ MaySendFail
  /\ tpc = "send"
  /\ tpc' = "done"
  /\ UNCHANGED <<atomics, msg, loaded, mainVars, rxVars, histVars>>

\* Mutant: the grant is not taken back after the datagram.
ClearAllowForgotten ==
  /\ tpc = "clear"
  /\ tpc' = "top"
  /\ UNCHANGED <<atomics, msg, loaded, mainVars, rxVars, histVars>>

ClearAllow ==
  /\ tpc = "clear"
  /\ allow_tx' = FALSE
  /\ tpc' = "top"
  /\ UNCHANGED <<running, id_tx, msg, loaded, mainVars, rxVars, histVars>>

Transmitter ==
  /\ alive
  /\ \/ TxLoopTest \/ TestAllow \/ SendTo \/ SendFails \/ ClearAllow
     \/ \E j \in Fields : LoadField(j)

-----------------------------------------------------------------------------
(***************************************************************************)
(* Receiver threads, udp_conv_rx::loop.                                    *)
(***************************************************************************)
RxLoopTest(r) ==
  /\ rpc[r] = "top"
  /\ rpc' = [rpc EXCEPT ![r] = IF running THEN "recv" ELSE "done"]
  /\ UNCHANGED <<atomics, mainVars, txVars, sock, histVars>>

RecvFrom(r) ==
  /\ rpc[r] = "recv" /\ sock[r] > 0
  /\ sock' = [sock EXCEPT ![r] = @ - 1]
  /\ rpc' = [rpc EXCEPT ![r] = "top"]
  /\ UNCHANGED <<atomics, mainVars, txVars, histVars>>

\* recvfrom may return an error; the thread then returns.
RecvFails(r) ==
  /\ rpc[r] = "recv"
  /\ rpc' = [rpc EXCEPT ![r] = "done"]
  /\ UNCHANGED <<atomics, mainVars, txVars, sock, histVars>>

\* What the thread does by itself, and with an error of recvfrom.
Receives(r) == alive /\ (RxLoopTest(r) \/ RecvFrom(r))
Receiver(r) == Receives(r) \/ (alive /\ RecvFails(r))

\* A node sends to the receiver's port.  One queued datagram is enough: a
\* second one only repeats what the first did.
Arrive(r) ==
  /\ alive /\ sock[r] = 0
  /\ sock' = [sock EXCEPT ![r] = 1]
  /\ UNCHANGED <<atomics, mainVars, txVars, rpc, histVars>>

-----------------------------------------------------------------------------
Next ==
  \/ Operator
  \/ Main
  \/ Transmitter
  \/ \E r \in Receivers : Receiver(r) \/ Arrive(r)

Spec == Init /\ [][Next]_vars

\* The scheduler keeps every thread running.  The operator need not type, but
\* a stream that has failed keeps nobody waiting.  recvfrom need not fail, and
\* without a datagram it blocks; no datagram need arrive.
Fairness ==
  /\ WF_vars(Main)
  /\ WF_vars(~cin_ok /\ Operator)
  /\ WF_vars(Transmitter)
  /\ \A r \in Receivers : WF_vars(Receives(r))

FairSpec == Spec /\ Fairness
TrafficSpec == FairSpec /\ \A r \in Receivers : WF_vars(Arrive(r))
-----------------------------------------------------------------------------
(***************************************************************************)
(* Properties.                                                             *)
(***************************************************************************)
MainOK ==
  /\ mpc \in {"menu", "switch", "burstGrant"} \cup InBurst \cup InExit \cup Ended
  /\ input_key \in AllKeys /\ cin_ok \in BOOLEAN
  /\ id_input \in Int /\ i \in 0 .. CounterMod - 1
  /\ mqtt \in BOOLEAN
  /\ joined \subseteq Threads

PublishedOK ==
  /\ t_continiouse \in BOOLEAN
  /\ flags \subseteq Topics
  /\ burst_cycles \in Seq(0 .. 9)

TransmitterOK ==
  /\ tpc \in {"top", "format", "test", "send", "clear", "done"}
  /\ msg \in [Fields -> Int] /\ loaded \subseteq Fields

ReceiversOK ==
  /\ rpc \in [Receivers -> {"top", "recv", "done"}]
  /\ sock \in [Receivers -> 0 .. 1]

HistoryOK ==
  /\ credit \in BOOLEAN /\ rounds \in 0 .. 2
  /\ inRound \in Seq([Fields -> Int])

\* Every variable keeps its type.
TypeOK ==
  /\ running \in BOOLEAN /\ allow_tx \in BOOLEAN /\ id_tx \in Int
  /\ MainOK /\ PublishedOK /\ TransmitterOK /\ ReceiversOK /\ HistoryOK

\* The transmitter never sends twice for one grant: whenever it has decided
\* to send, main (or the initial value of allow_tx) has granted since the
\* previous datagram.
NoDatagramWithoutGrant == tpc = "send" => credit

\* From the second round of send_master_id on, the wait for allow_tx is an
\* exact handshake: when it ends, one datagram has gone out since the grant
\* and all three of its fields come from the entered id.  In the first round
\* a message formatted before the id was stored, or torn by the store, or
\* sent before the grant can take its place.
BurstRoundExact ==
  mpc = "sleep" /\ rounds = 2 => inRound = <<Triple(id_input)>>

\* No round of send_master_id, the first one included, sends twice.
OneDatagramPerRound == Len(inRound) <= 1

\* Main leaves the menu only for an ESC it really read: after the input
\* stream has failed no key gets through and the last one is repeated.
ExitOnlyByEscape ==
  mpc \in InExit \cup Ended => cin_ok /\ input_key = "ESC"

\* The eight bit counter of send_master_id never reaches its bound, so the
\* menu, and with it the exit, is never seen again.
BurstNeverEnds == [][(mpc \in InBurst) => (mpc' \in InBurst)]_vars

\* A failed sendto ends the transmitter with allow_tx set, and main then
\* never gets out of its wait.
FailedSendHangsBurst == [][mpc = "spin" /\ tpc = "done" => mpc' = "spin"]_vars

\* Every grant is taken while the transmitter lives.
GrantIsTaken == allow_tx ~> (~allow_tx \/ tpc = "done")

\* Every round of send_master_id gets past its wait while the transmitter
\* lives.
RoundEnds == mpc = "grant" ~> (mpc = "sleep" \/ tpc = "done")

\* The exit sequence ends as long as datagrams keep arriving; without them
\* the first receiver stays in recvfrom and main in its join.  It never ends
\* well: the second receiver was not joined.
ExitTerminates == mpc = "stop" ~> mpc = "terminated"

\* The menu's line "6: burst from ID0": every grant is followed by a
\* datagram, at least while the input stream is good.
EveryGrantIsSent == credit ~> (~credit \/ ~cin_ok)
=============================================================================
