----------------------------- MODULE TimeReport -----------------------------
(***************************************************************************)
(* The message callback of pi_master (my_message_callback in main.cpp)     *)
(* and the nodes whose times it puts together.  In each round every node   *)
(* publishes the time it measured and the id of the round's master; the    *)
(* callback counts messages and, with the third, prints the differences    *)
(* between the times of the nodes and the time of their master.            *)
(*                                                                         *)
(* Times are known by the round they were measured in, and rounds by their *)
(* age: 0 is the current one.  The topic is subscribed with QoS 0: a       *)
(* message may be lost, but not come twice, and those of one node come in  *)
(* order.                                                                  *)
(***************************************************************************)
EXTENDS Integers, FiniteSetsExt

CONSTANTS
  Masters,   \* the nodes that may be the master of a round
  Open       \* how many rounds may have messages on their way

Node == 0 .. 2   \* the callback reports on three

ASSUME MastersAssumption == Masters \subseteq Node /\ Masters # {}
ASSUME OpenAssumption    == Open \in Nat \ {0}

Recent == 0 .. Open - 1
Old    == Open   \* the age of what is older, and of what was never written

VARIABLES
  t_dat,      \* t_dat[i]: the age of the round of the time stored for node i
  tag_dat,
  count_data,
  masters,    \* the masters of the recent rounds
  sent,       \* sent[i]: the ages of the messages of node i on their way
  paced,      \* whether a round waits for the messages of the one before
  missed,     \* the nodes whose message of the current round was lost
  lost        \* lost[a]: how many messages of the rounds up to the one of age
              \*   a were lost, modulo 3

vars == <<t_dat, tag_dat, count_data, masters, sent, paced, missed, lost>>

\* Before the first round all messages of the current round are missed.
Init ==
  /\ t_dat = [i \in Node |-> Old] /\ tag_dat = [i \in Node |-> 0] /\ count_data = 0
  /\ masters \in [Recent -> Masters]
  /\ sent = [i \in Node |-> {}]
  /\ paced \in BOOLEAN
  /\ missed = Node /\ lost = [a \in Recent |-> 0]

-----------------------------------------------------------------------------
Older(a) == IF a = Old THEN Old ELSE a + 1

\* A node with id m is made master and every node measures a time.  The
\* operator's rounds are half a second apart, which paces them as a rule.
StartRound(m) ==
  /\ \A i \in Node : IF paced THEN sent[i] = {} ELSE Open - 1 \notin sent[i]
  /\ masters' = [a \in Recent |-> IF a = 0 THEN m ELSE masters[a - 1]]
  /\ sent' = [i \in Node |-> {a + 1 : a \in sent[i]} \cup {0}]
  /\ t_dat' = [i \in Node |-> Older(t_dat[i])]
  /\ missed' = {}
  /\ lost' = [a \in Recent |-> IF a = 0 THEN lost[0] ELSE lost[a - 1]]
  /\ UNCHANGED <<tag_dat, count_data, paced>>

\* Mutant: the report waits for a fourth message.
CountedLate == (count_data + 1) % 4

\* The counter after a message: more than two make a report and start over.
Counted == IF count_data + 1 > 2 THEN 0 ELSE count_data + 1

\* Mutant: the time is stored for the master.
StoreForMaster(i, a) ==
  /\ t_dat' = [t_dat EXCEPT ![masters[a]] = a]
  /\ tag_dat' = [tag_dat EXCEPT ![i] = masters[a]]

\* Time and master of the message of node i of the round of age a.
Store(i, a) ==
  /\ t_dat' = [t_dat EXCEPT ![i] = a]
  /\ tag_dat' = [tag_dat EXCEPT ![i] = masters[a]]

\* my_message_callback with the oldest message of node i.
Callback(i) ==
  /\ sent[i] # {}
  /\ Store(i, Max(sent[i]))
  /\ count_data' = Counted
  /\ sent' = [sent EXCEPT ![i] = @ \ {Max(@)}]
  /\ UNCHANGED <<masters, paced, missed, lost>>

\* A message does not arrive.
Lose(i) ==
  \E a \in sent[i] :
    /\ sent' = [sent EXCEPT ![i] = @ \ {a}]
    /\ missed' = IF a = 0 THEN missed \cup {i} ELSE missed
    /\ lost' = [b \in Recent |-> IF b <= a THEN (lost[b] + 1) % 3 ELSE lost[b]]
    /\ UNCHANGED <<t_dat, tag_dat, count_data, masters, paced>>

Next ==
  \/ \E m \in Masters : StartRound(m)
  \/ \E i \in Node : Callback(i)
  \/ \E i \in Node : Lose(i)

Spec == Init /\ [][Next]_vars
-----------------------------------------------------------------------------
(***************************************************************************)
(* Properties.                                                             *)
(***************************************************************************)

\* Every variable keeps its type.
TypeOK ==
  /\ t_dat \in [Node -> 0 .. Old] /\ tag_dat \in [Node -> Node]
  /\ count_data \in 0 .. 2
  /\ masters \in [Recent -> Masters]
  /\ sent \in [Node -> SUBSET Recent]
  /\ paced \in BOOLEAN
  /\ missed \subseteq Node /\ lost \in [Recent -> 0 .. 2]

\* A report is printed by this step.
Report == count_data # 0 /\ count_data' = 0

\* What is printed: for each node its time, and the time of the node that
\* its message named as master.
Compared(j) == <<t_dat'[j], t_dat'[tag_dat'[j]]>>

\* Everything printed is of the round of age a and relative to its master.
OfRound(a) ==
  \A j \in Node : Compared(j) = <<a, a>> /\ tag_dat'[j] = masters'[a]

\* The counter follows the number of messages and not the nodes: when none
\* is on its way it is where the lost ones left it, for good.
CountFollowsLosses ==
  (\A i \in Node : sent[i] = {}) => (count_data + lost[0]) % 3 = 0

\* In rounds that wait for each other a report is of one round exactly if no
\* message of that round is lost and the number of those lost before is a
\* multiple of three.  So one lost message spoils every report after it, until
\* two more are lost.
ReportExactIff ==
  [][paced /\ Report =>
       (OfRound(0) <=> missed = {} /\ lost[0] = 0)]_vars

\* Rounds that overlap can spoil a report as well; but a report that is of one
\* round, the current one or not, has again a multiple of three messages lost
\* up to that round.
ExactNeedsThrees ==
  [][Report => \A a \in Recent : OfRound(a) => lost[a] = 0]_vars
=============================================================================
