-------------------------- MODULE TimeReportProofs --------------------------
(* What TimeReport promises, for any masters and any number of open rounds. *)
EXTENDS TimeReport, FiniteSetTheorems, WellFoundedInduction, TLAPS

(***************************************************************************)
(* Sets of ages.                                                           *)
(***************************************************************************)

\* A nonempty set of recent ages has an oldest.
LEMMA OldestExists ==
  ASSUME NEW S \in SUBSET Recent, S # {}
  PROVE  Max(S) \in S /\ \A a \in S : a <= Max(S)
PROOF
  <1> DEFINE T == {Open - a : a \in S}
  <1>1. T \subseteq Nat /\ T # {}
    BY OpenAssumption DEF Recent
  <1> DEFINE R == {p \in Nat \X Nat : p[1] < p[2]}
  <1>0. IsWellFoundedOn(R, Nat)
    BY NatLessThanWellFounded DEF OpToRel
  <1>2. PICK x \in T : \A y \in T : ~ (<<y, x>> \in R)
    BY <1>0, <1>1, WFMin
  <1>3. \A y \in T : x <= y
    <2>1. TAKE y \in T
    <2>2. x \in Nat /\ y \in Nat
      BY <1>1
    <2>3. <<y, x>> \notin R
      BY <1>2
    <2>4. y < x => <<y, x>> \in R
      BY <2>2
    <2> HIDE DEF R, T
    <2> QED
      BY <2>2, <2>3, <2>4
  <1>4. PICK m \in S : x = Open - m
    OBVIOUS
  <1>5. \A a \in S : a <= m
    <2>1. TAKE a \in S
    <2>2. x <= Open - a
      BY <1>3
    <2> QED
      BY <1>4, <2>2, OpenAssumption DEF Recent
  <1>6. \A a \in S : a \in Int
    BY DEF Recent
  <1>7. Max(S) \in S /\ \A a \in S : Max(S) >= a
    <2>1. \E n \in S : \A y \in S : n >= y
      BY <1>5, <1>6
    <2> QED
      BY <2>1, Zenon DEF Max
  <1> QED
    BY <1>6, <1>7

LEMMA AgesFinite ==
  ASSUME NEW S \in SUBSET Recent
  PROVE  IsFiniteSet(S)
PROOF
  <1>1. IsFiniteSet(0 .. Open - 1)
    BY FS_Interval, OpenAssumption
  <1> QED
    BY <1>1, FS_Subset DEF Recent

\* The messages on their way that a new round makes older, and its own.
LEMMA OneMore ==
  ASSUME NEW S \in SUBSET Recent, Open - 1 \notin S
  PROVE  /\ {a + 1 : a \in S} \cup {0} \in SUBSET Recent
         /\ Cardinality({a + 1 : a \in S} \cup {0}) = Cardinality(S) + 1
PROOF
  <1> DEFINE T == {a + 1 : a \in S}
             f == [a \in S |-> a + 1]
  <1>1. IsFiniteSet(S)
    BY AgesFinite
  <1>2. f \in Bijection(S, T)
    BY OpenAssumption DEF Recent, Bijection, Injection, Surjection, IsInjective
  <1>3. IsFiniteSet(T) /\ Cardinality(T) = Cardinality(S)
    BY <1>1, <1>2, FS_Bijection DEF ExistsBijection
  <1>4. 0 \notin T
    BY OpenAssumption DEF Recent
  <1>5. Cardinality(T \cup {0}) = Cardinality(T) + 1
    BY <1>3, <1>4, FS_AddElement
  <1> QED
    BY <1>3, <1>5, OpenAssumption DEF Recent

\* A message less.
LEMMA OneLess ==
  ASSUME NEW S \in SUBSET Recent, NEW a \in S
  PROVE  /\ S \ {a} \in SUBSET Recent
         /\ Cardinality(S) \in Nat /\ Cardinality(S \ {a}) \in Nat
         /\ Cardinality(S) = Cardinality(S \ {a}) + 1
PROOF
  <1>1. IsFiniteSet(S)
    BY AgesFinite
  <1>2. IsFiniteSet(S \ {a}) /\ Cardinality(S \ {a}) = Cardinality(S) - 1
    BY <1>1, FS_RemoveElement
  <1> QED
    BY <1>1, <1>2, FS_CardinalityType

LEMMA CardinalityOfAges ==
  ASSUME NEW S \in SUBSET Recent
  PROVE  Cardinality(S) \in Nat
BY AgesFinite, FS_CardinalityType

-----------------------------------------------------------------------------
(***************************************************************************)
(* Types.                                                                  *)
(***************************************************************************)

LEMMA InitType == Init => TypeOK
BY MastersAssumption, OpenAssumption DEF Init, TypeOK, Node, Recent, Old

LEMMA NextType == TypeOK /\ [Next]_vars => TypeOK'
PROOF
  <1> SUFFICES ASSUME TypeOK, [Next]_vars
               PROVE  TypeOK'
    OBVIOUS
  <1> USE DEF TypeOK
  <1>1. ASSUME NEW m \in Masters, StartRound(m)
        PROVE  TypeOK'
    <2>1. masters' \in [Recent -> Masters] /\ lost' \in [Recent -> 0 .. 2]
      BY <1>1, OpenAssumption DEF StartRound, Recent
    <2>2. t_dat' \in [Node -> 0 .. Old]
      BY <1>1, OpenAssumption DEF StartRound, Older, Old
    <2>3. \A i \in Node : Open - 1 \notin sent[i]
      BY <1>1 DEF StartRound
    <2>4. sent' \in [Node -> SUBSET Recent]
      BY <1>1, <2>3, OneMore DEF StartRound
    <2> QED
      BY <1>1, <2>1, <2>2, <2>4 DEF StartRound
  <1>2. ASSUME NEW i \in Node, Callback(i)
        PROVE  TypeOK'
    <2>1. Max(sent[i]) \in sent[i] /\ Max(sent[i]) \in Recent
      BY <1>2, OldestExists DEF Callback
    <2>2. t_dat' \in [Node -> 0 .. Old]
      BY <1>2, <2>1, OpenAssumption DEF Callback, Store, Recent, Old
    <2>3. tag_dat' \in [Node -> Node]
      BY <1>2, <2>1, MastersAssumption DEF Callback, Store
    <2>4. count_data' \in 0 .. 2
      BY <1>2 DEF Callback, Counted
    <2>5. sent' \in [Node -> SUBSET Recent]
      BY <1>2 DEF Callback
    <2> QED
      BY <1>2, <2>2, <2>3, <2>4, <2>5 DEF Callback
  <1>3. ASSUME NEW i \in Node, Lose(i)
        PROVE  TypeOK'
    <2>1. PICK a \in sent[i] :
            /\ sent' = [sent EXCEPT ![i] = @ \ {a}]
            /\ missed' = IF a = 0 THEN missed \cup {i} ELSE missed
            /\ lost' = [b \in Recent |-> IF b <= a THEN (lost[b] + 1) % 3 ELSE lost[b]]
      BY <1>3 DEF Lose
    <2>2. lost' \in [Recent -> 0 .. 2]
      BY <2>1
    <2> QED
      BY <1>3, <2>1, <2>2 DEF Lose
  <1>4. CASE UNCHANGED vars
    BY <1>4 DEF vars
  <1> QED
    BY <1>1, <1>2, <1>3, <1>4 DEF Next

\* Every variable keeps its type.
THEOREM TypeCorrect == Spec => []TypeOK
BY InitType, NextType, PTL DEF Spec

-----------------------------------------------------------------------------
(***************************************************************************)
(* The counter.                                                            *)
(***************************************************************************)

\* The messages of node i on their way.
Waiting(i) == Cardinality(sent[i])

OnTheirWay == Waiting(0) + Waiting(1) + Waiting(2)

\* Every message is counted, lost or on its way.
Balance ==
  (count_data + lost[0] + OnTheirWay) % 3 = 0

\* Arithmetic modulo three: c counted, l lost, w on their way.
LEMMA ThreeMore ==
  ASSUME NEW c \in 0 .. 2, NEW l \in 0 .. 2, NEW w \in Nat, NEW v \in Nat,
         (c + l + w) % 3 = 0, v = w + 3
  PROVE  (c + l + v) % 3 = 0
OBVIOUS

LEMMA Modulo3 ==
  \A c, l \in 0 .. 2 : \A w, v \in Nat :
    (c + l + w) % 3 = 0 =>
      /\ w = v + 1 /\ c = 2 => (l + v) % 3 = 0
      /\ w = v + 1 => (c + ((l + 1) % 3) + v) % 3 = 0
OBVIOUS

LEMMA WaitingType == TypeOK => \A i \in Node : Waiting(i) \in Nat
BY CardinalityOfAges DEF TypeOK, Waiting

\* A message of node i is not on its way any more.
LEMMA WaitingLess ==
  ASSUME TypeOK, TypeOK', NEW i \in Node, NEW a \in sent[i],
         sent' = [sent EXCEPT ![i] = @ \ {a}]
  PROVE  \A j \in Node : Waiting(j) = IF j = i THEN Waiting(j)' + 1 ELSE Waiting(j)'
PROOF
  <1>1. \A j \in Node : sent'[j] = IF j = i THEN sent[i] \ {a} ELSE sent[j]
    BY DEF TypeOK
  <1>2. Cardinality(sent[i]) = Cardinality(sent[i] \ {a}) + 1
    BY OneLess DEF TypeOK
  <1> QED
    BY <1>1, <1>2 DEF Waiting

LEMMA InitBalance == Init => Balance
PROOF
  <1> SUFFICES ASSUME Init PROVE Balance
    OBVIOUS
  <1>1. \A i \in Node : Waiting(i) = 0
    BY FS_EmptySet DEF Init, Waiting
  <1> QED
    BY <1>1, OpenAssumption DEF Init, Balance, OnTheirWay, Node, Recent

LEMMA NextBalance == TypeOK /\ TypeOK' /\ Balance /\ [Next]_vars => Balance'
PROOF
  <1> SUFFICES ASSUME TypeOK, TypeOK', Balance, [Next]_vars
               PROVE  Balance'
    OBVIOUS
  <1>0. /\ \A i \in Node : Waiting(i) \in Nat /\ Waiting(i)' \in Nat
        /\ 0 \in Node /\ 1 \in Node /\ 2 \in Node
        /\ 0 \in Recent /\ lost[0] \in 0 .. 2 /\ lost'[0] \in 0 .. 2
        /\ count_data \in 0 .. 2 /\ count_data' \in 0 .. 2
    <2>1. \A i \in Node : Waiting(i) \in Nat
      BY WaitingType
    <2>2. \A i \in Node : Waiting(i)' \in Nat
      BY CardinalityOfAges DEF TypeOK, Waiting
    <2>3. 0 \in Node /\ 1 \in Node /\ 2 \in Node /\ 0 \in Recent
      BY OpenAssumption DEF Node, Recent
    <2>4. /\ lost[0] \in 0 .. 2 /\ lost'[0] \in 0 .. 2
          /\ count_data \in 0 .. 2 /\ count_data' \in 0 .. 2
      BY <2>3 DEF TypeOK
    <2> QED
      BY <2>1, <2>2, <2>3, <2>4
  <1>a. OnTheirWay \in Nat /\ OnTheirWay' \in Nat
    BY <1>0 DEF OnTheirWay
  <1>1. ASSUME NEW m \in Masters, StartRound(m)
        PROVE  Balance'
    <2>1. \A i \in Node : Open - 1 \notin sent[i]
      BY <1>1, OpenAssumption DEF StartRound
    <2>2. \A i \in Node : Waiting(i)' = Waiting(i) + 1
      BY <1>1, <2>1, OneMore DEF StartRound, Waiting, TypeOK
    <2>3. lost'[0] = lost[0] /\ count_data' = count_data
      BY <1>0, <1>1 DEF StartRound
    <2>4. OnTheirWay' = OnTheirWay + 3
      BY <1>0, <2>2 DEF OnTheirWay
    <2>5. (count_data + lost[0] + OnTheirWay') % 3 = 0
      <3>1. (count_data + lost[0] + OnTheirWay) % 3 = 0
        BY DEF Balance
      <3>2. count_data \in 0 .. 2 /\ lost[0] \in 0 .. 2
        BY <1>0
      <3> QED
        BY <1>a, <2>4, <3>1, <3>2, ThreeMore, Zenon
    <2> QED
      BY <2>3, <2>5 DEF Balance
  <1>2. ASSUME NEW i \in Node, Callback(i)
        PROVE  Balance'
    <2>1. Max(sent[i]) \in sent[i]
      BY <1>2, OldestExists DEF Callback, TypeOK
    <2>2. \A j \in Node : Waiting(j) = IF j = i THEN Waiting(j)' + 1 ELSE Waiting(j)'
      BY <1>2, <2>1, WaitingLess DEF Callback
    <2>3. count_data' = Counted /\ lost'[0] = lost[0]
      BY <1>0, <1>2 DEF Callback
    <2>4. OnTheirWay = OnTheirWay' + 1
      BY <1>0, <2>2 DEF Node, OnTheirWay
    <2>5. CASE count_data = 2
      <3>1. (lost[0] + OnTheirWay') % 3 = 0
        BY <1>0, <1>a, <2>4, <2>5, Modulo3 DEF Balance
      <3> QED
        BY <1>0, <1>a, <2>3, <2>5, <3>1 DEF Balance, Counted
    <2>6. CASE count_data # 2
      BY <1>0, <1>a, <2>3, <2>4, <2>6 DEF Balance, Counted
    <2> QED
      BY <2>5, <2>6
  <1>3. ASSUME NEW i \in Node, Lose(i)
        PROVE  Balance'
    <2>1. PICK a \in sent[i] :
            /\ sent' = [sent EXCEPT ![i] = @ \ {a}]
            /\ lost' = [b \in Recent |-> IF b <= a THEN (lost[b] + 1) % 3 ELSE lost[b]]
            /\ count_data' = count_data
      BY <1>3 DEF Lose
    <2>2. \A j \in Node : Waiting(j) = IF j = i THEN Waiting(j)' + 1 ELSE Waiting(j)'
      BY <2>1, WaitingLess
    <2>3. lost'[0] = (lost[0] + 1) % 3
      BY <1>0, <2>1, OpenAssumption DEF TypeOK, Recent
    <2>4. OnTheirWay = OnTheirWay' + 1
      BY <1>0, <2>2 DEF Node, OnTheirWay
    <2>5. (count_data + ((lost[0] + 1) % 3) + OnTheirWay') % 3 = 0
      BY <1>0, <1>a, <2>4, Modulo3 DEF Balance
    <2> QED
      BY <2>1, <2>3, <2>5 DEF Balance
  <1>4. CASE UNCHANGED vars
    BY <1>4 DEF vars, Balance, OnTheirWay, Waiting
  <1> QED
    BY <1>1, <1>2, <1>3, <1>4 DEF Next

\* When no message is on its way the counter is where the lost ones left it.
THEOREM CounterCountsMessages == Spec => []CountFollowsLosses
PROOF
  <1>1. TypeOK /\ Balance => CountFollowsLosses
    <2> SUFFICES ASSUME TypeOK, Balance, \A i \in Node : sent[i] = {}
                 PROVE  (count_data + lost[0]) % 3 = 0
      BY DEF CountFollowsLosses
    <2>1. Waiting(0) = 0 /\ Waiting(1) = 0 /\ Waiting(2) = 0
      BY FS_EmptySet DEF Waiting, Node
    <2>2. lost[0] \in 0 .. 2 /\ count_data \in 0 .. 2
      BY OpenAssumption DEF TypeOK, Recent
    <2> QED
      BY <2>1, <2>2 DEF Balance, OnTheirWay
  <1> QED
    BY <1>1, InitType, NextType, InitBalance, NextBalance, PTL DEF Spec

-----------------------------------------------------------------------------
(***************************************************************************)
(* Reports in paced rounds.                                                *)
(***************************************************************************)

\* What has become of the message of node i of the current round: it is on its
\* way, it was lost, or it is what the table holds for the node.
Accounted(i) ==
  \/ sent[i] = {0} /\ i \notin missed /\ t_dat[i] # 0
  \/ sent[i] = {} /\ i \in missed /\ t_dat[i] # 0
  \/ sent[i] = {} /\ i \notin missed /\ t_dat[i] = 0 /\ tag_dat[i] = masters[0]

Paced == paced => \A i \in Node : Accounted(i)

LEMMA InitPaced == Init => Paced
BY OpenAssumption DEF Init, Paced, Accounted, Old

LEMMA OldestOfCurrent == Max({0}) = 0
BY DEF Max

LEMMA NextPaced == TypeOK /\ TypeOK' /\ Paced /\ [Next]_vars => Paced'
PROOF
  <1> SUFFICES ASSUME TypeOK, TypeOK', Paced, [Next]_vars, paced', NEW k \in Node
               PROVE  Accounted(k)'
    BY DEF Paced
  <1>0. paced
    BY DEF Next, StartRound, Callback, Lose, vars
  <1>1. ASSUME NEW m \in Masters, StartRound(m)
        PROVE  Accounted(k)'
    <2>1. sent[k] = {}
      BY <1>0, <1>1 DEF StartRound
    <2>2. sent'[k] = {0}
      BY <1>1, <2>1 DEF StartRound
    <2>3. t_dat'[k] # 0
      BY <1>1, OpenAssumption DEF StartRound, Older, Old, TypeOK
    <2> QED
      BY <1>1, <2>2, <2>3 DEF StartRound, Accounted
  <1>2. ASSUME NEW i \in Node, Callback(i)
        PROVE  Accounted(k)'
    <2>1. Accounted(i) /\ Accounted(k)
      BY <1>0 DEF Paced
    <2>2. sent[i] = {0} /\ i \notin missed
      BY <1>2, <2>1 DEF Callback, Accounted
    <2>3. /\ t_dat' = [t_dat EXCEPT ![i] = 0]
          /\ tag_dat' = [tag_dat EXCEPT ![i] = masters[0]]
          /\ sent' = [sent EXCEPT ![i] = {}]
      BY <1>2, <2>2, OldestOfCurrent DEF Callback, Store
    <2> QED
      BY <1>2, <2>1, <2>2, <2>3 DEF Callback, Accounted, TypeOK
  <1>3. ASSUME NEW i \in Node, Lose(i)
        PROVE  Accounted(k)'
    <2>1. Accounted(i) /\ Accounted(k)
      BY <1>0 DEF Paced
    <2>2. sent[i] = {0} /\ t_dat[i] # 0
      BY <1>3, <2>1 DEF Lose, Accounted
    <2>3. /\ sent' = [sent EXCEPT ![i] = {}]
          /\ missed' = missed \cup {i}
          /\ UNCHANGED <<t_dat, tag_dat, masters>>
      BY <1>3, <2>2 DEF Lose
    <2> QED
      BY <2>1, <2>2, <2>3 DEF Accounted, TypeOK
  <1>4. CASE UNCHANGED vars
    BY <1>0, <1>4 DEF vars, Paced, Accounted
  <1> QED
    BY <1>1, <1>2, <1>3, <1>4 DEF Next

\* The report of a message of node i, in rounds that wait for each other.
LEMMA ReportStep ==
  ASSUME TypeOK, TypeOK', Balance', Paced, Paced', paced,
         NEW i \in Node, Callback(i), count_data' = 0
  PROVE  OfRound(0) <=> missed = {} /\ lost[0] = 0
PROOF
  <1>1. missed' = missed /\ lost' = lost /\ masters' = masters /\ paced'
    BY DEF Callback
  <1>2. \A j \in Node : Accounted(j)'
    BY <1>1 DEF Paced
  <1>3. sent[i] = {0} /\ i \notin missed /\ sent'[i] = {} /\ t_dat'[i] = 0
    <2>1. Accounted(i)
      BY DEF Paced
    <2>2. sent[i] = {0} /\ i \notin missed
      BY <2>1 DEF Callback, Accounted
    <2> QED
      BY <2>2, OldestOfCurrent DEF Callback, Store, TypeOK
  <1>4. \A j \in Node : Waiting(j)' = IF sent'[j] = {} THEN 0 ELSE 1
    <2>1. Cardinality({}) = 0 /\ Cardinality({0}) = 1
      BY FS_EmptySet, FS_Singleton
    <2>2. \A j \in Node : sent'[j] = {} \/ sent'[j] = {0}
      BY <1>2 DEF Accounted
    <2> QED
      BY <2>1, <2>2 DEF Waiting
  <1>5. OnTheirWay' = 0 <=> \A j \in Node : sent'[j] = {}
    BY <1>4 DEF OnTheirWay, Node
  <1>6. OnTheirWay' \in 0 .. 2
    BY <1>3, <1>4 DEF OnTheirWay, Node
  <1>7. lost[0] = 0 => OnTheirWay' = 0
    <2>1. ASSUME NEW w \in 0 .. 2, (0 + 0 + w) % 3 = 0
          PROVE  w = 0
      BY <2>1
    <2> QED
      BY <1>1, <1>6, <2>1 DEF Balance
  <1>8. OnTheirWay' = 0 => lost[0] = 0
    <2>1. lost[0] \in 0 .. 2
      BY OpenAssumption DEF TypeOK, Recent
    <2> QED
      BY <1>1, <2>1 DEF Balance
  <1>9. ASSUME OfRound(0)
        PROVE  missed = {} /\ lost[0] = 0
    <2>1. \A j \in Node : t_dat'[j] = 0
      BY <1>9 DEF OfRound, Compared
    <2>2. \A j \in Node : sent'[j] = {} /\ j \notin missed
      BY <1>1, <1>2, <2>1 DEF Accounted
    <2> QED
      BY <1>5, <1>8, <2>2 DEF TypeOK
  <1>10. ASSUME missed = {}, lost[0] = 0
         PROVE  OfRound(0)
    <2>1. \A j \in Node : sent'[j] = {}
      BY <1>5, <1>7, <1>10
    <2>2. \A j \in Node : t_dat'[j] = 0 /\ tag_dat'[j] = masters'[0]
      BY <1>1, <1>2, <1>10, <2>1 DEF Accounted
    <2> QED
      BY <2>2 DEF OfRound, Compared, TypeOK
  <1> QED
    BY <1>9, <1>10

\* A report of paced rounds is of one round exactly if no message of the round
\* is lost and the number of those lost before is a multiple of three.
THEOREM ReportsAreExactIff == Spec => ReportExactIff
PROOF
  <1>1. TypeOK /\ TypeOK' /\ Balance' /\ Paced /\ Paced' /\ [Next]_vars =>
          [paced /\ Report => (OfRound(0) <=> missed = {} /\ lost[0] = 0)]_vars
    <2> SUFFICES ASSUME TypeOK, TypeOK', Balance', Paced, Paced', Next, paced, Report
                 PROVE  OfRound(0) <=> missed = {} /\ lost[0] = 0
      OBVIOUS
    <2>1. \E i \in Node : Callback(i)
      BY DEF Next, Report, StartRound, Lose
    <2> QED
      BY <2>1, ReportStep DEF Report
  <1> QED
    BY <1>1, InitType, NextType, InitBalance, NextBalance, InitPaced, NextPaced, PTL
       DEF Spec, ReportExactIff
-----------------------------------------------------------------------------
(***************************************************************************)
(* Rounds that overlap.  The balance holds again for the rounds up to each *)
(* age, as long as nothing newer has been stored.                          *)
(***************************************************************************)

\* The messages of node i on their way, of the rounds up to the one of age a.
UpTo(i, a) == sent[i] \cap (a .. Open - 1)

WaitingUpTo(i, a) == Cardinality(UpTo(i, a))

OnTheirWayUpTo(a) == WaitingUpTo(0, a) + WaitingUpTo(1, a) + WaitingUpTo(2, a)

NoneNewer(a) == \A j \in Node : t_dat[j] >= a

BalanceUpTo(a) ==
  NoneNewer(a) => (count_data + lost[a] + OnTheirWayUpTo(a)) % 3 = 0

\* What is on its way is newer than what is stored.
InOrder == \A j \in Node : \A b \in sent[j] : b < t_dat[j]

Balances == InOrder /\ \A a \in Recent : BalanceUpTo(a)

LEMMA UpToType ==
  ASSUME TypeOK, NEW i \in Node, NEW a \in Recent
  PROVE  UpTo(i, a) \in SUBSET Recent /\ WaitingUpTo(i, a) \in Nat
PROOF
  <1>1. UpTo(i, a) \in SUBSET Recent
    BY DEF TypeOK, UpTo
  <1> QED
    BY <1>1, CardinalityOfAges DEF WaitingUpTo

LEMMA UpToTypeNext ==
  ASSUME TypeOK', NEW i \in Node, NEW a \in Recent
  PROVE  WaitingUpTo(i, a)' \in Nat
PROOF
  <1>1. UpTo(i, a)' \in SUBSET Recent
    BY DEF TypeOK, UpTo
  <1> QED
    BY <1>1, CardinalityOfAges DEF WaitingUpTo

LEMMA InitBalances == Init => Balances
PROOF
  <1> SUFFICES ASSUME Init PROVE Balances
    OBVIOUS
  <1>1. \A i \in Node, a \in Recent : WaitingUpTo(i, a) = 0
    <2>1. \A i \in Node, a \in Recent : UpTo(i, a) = {}
      BY DEF Init, UpTo
    <2> QED
      BY <2>1, FS_EmptySet DEF WaitingUpTo
  <1>2. \A a \in Recent : BalanceUpTo(a)
    BY <1>1 DEF Init, BalanceUpTo, OnTheirWayUpTo, Node
  <1>3. InOrder
    BY DEF Init, InOrder
  <1> QED
    BY <1>2, <1>3 DEF Balances

\* A new round makes the messages of the rounds up to an age older, and does
\* not change how many they are.
LEMMA OlderUpTo ==
  ASSUME TypeOK, NEW m \in Masters, StartRound(m), NEW i \in Node
  PROVE  /\ \A a \in Recent : a > 0 => WaitingUpTo(i, a)' = WaitingUpTo(i, a - 1)
         /\ WaitingUpTo(i, 0)' = WaitingUpTo(i, 0) + 1
PROOF
  <1>1. /\ sent[i] \in SUBSET Recent /\ Open - 1 \notin sent[i]
        /\ sent'[i] = {b + 1 : b \in sent[i]} \cup {0}
    BY DEF StartRound, TypeOK
  <1>2. ASSUME NEW a \in Recent, a > 0
        PROVE  WaitingUpTo(i, a)' = WaitingUpTo(i, a - 1)
    <2> DEFINE S == UpTo(i, a - 1)
               T == sent'[i] \cap (a .. Open - 1)
               f == [b \in S |-> b + 1]
    <2>1. a - 1 \in Recent
      BY <1>2, OpenAssumption DEF Recent
    <2>2. S \in SUBSET Recent /\ IsFiniteSet(S)
      BY <2>1, UpToType, AgesFinite
    <2>3. \A b \in S : b \in Int /\ b + 1 \in T
      BY <1>1, <1>2, OpenAssumption DEF UpTo, Recent
    <2>4. ASSUME NEW t \in T PROVE \E b \in S : t = b + 1
      <3>1. PICK b \in sent[i] : t = b + 1
        BY <1>1, <1>2, <2>4, OpenAssumption DEF Recent
      <3>2. b \in (a - 1) .. Open - 1
        BY <1>1, <1>2, <3>1, <2>4, OpenAssumption DEF Recent
      <3> QED
        BY <3>1, <3>2 DEF UpTo
    <2> HIDE DEF S, T
    <2>5. f \in Bijection(S, T)
      BY <2>3, <2>4 DEF Bijection, Injection, Surjection, IsInjective
    <2>6. Cardinality(T) = Cardinality(S)
      BY <2>2, <2>5, FS_Bijection DEF ExistsBijection
    <2> QED
      BY <2>6 DEF S, T, WaitingUpTo, UpTo
  <1>3. WaitingUpTo(i, 0)' = WaitingUpTo(i, 0) + 1
    <2>1. UpTo(i, 0) = sent[i] /\ UpTo(i, 0)' = sent'[i]
      BY <1>1, OneMore DEF UpTo, Recent
    <2>2. Cardinality(sent'[i]) = Cardinality(sent[i]) + 1
      BY <1>1, OneMore
    <2> QED
      BY <2>1, <2>2 DEF WaitingUpTo
  <1> QED
    BY <1>2, <1>3

\* The message of age b of node i is not on its way any more.
LEMMA LessUpTo ==
  ASSUME TypeOK, NEW i \in Node, NEW b \in sent[i],
         sent' = [sent EXCEPT ![i] = @ \ {b}], NEW a \in Recent, NEW j \in Node
  PROVE  WaitingUpTo(j, a) = IF j = i /\ b >= a THEN WaitingUpTo(j, a)' + 1
                             ELSE WaitingUpTo(j, a)'
PROOF
  <1>1. sent'[j] = IF j = i THEN sent[i] \ {b} ELSE sent[j]
    BY DEF TypeOK
  <1>2. sent[i] \in SUBSET Recent /\ b \in Recent /\ b \in Int /\ a \in Int
    BY DEF TypeOK, Recent
  <1>3. CASE j = i /\ b >= a
    <2>1. b \in UpTo(i, a) /\ UpTo(i, a)' = UpTo(i, a) \ {b}
      BY <1>1, <1>2, <1>3 DEF UpTo, Recent
    <2> QED
      BY <1>3, <2>1, UpToType, OneLess DEF WaitingUpTo
  <1>4. CASE ~ (j = i /\ b >= a)
    <2>1. UpTo(j, a)' = UpTo(j, a)
      BY <1>1, <1>2, <1>4 DEF UpTo
    <2> QED
      BY <1>4, <2>1 DEF WaitingUpTo
  <1> QED
    BY <1>3, <1>4

LEMMA NextInOrder == TypeOK /\ InOrder /\ [Next]_vars => InOrder'
PROOF
  <1> SUFFICES ASSUME TypeOK, InOrder, [Next]_vars, NEW j \in Node, NEW b \in sent'[j]
               PROVE  b < t_dat'[j]
    BY DEF InOrder
  <1>0. /\ \A c \in sent[j] : c \in Recent /\ c < t_dat[j]
        /\ t_dat[j] \in 0 .. Open
    BY DEF InOrder, TypeOK, Old
  <1>1. ASSUME NEW m \in Masters, StartRound(m)
        PROVE  b < t_dat'[j]
    <2>1. /\ sent'[j] = {c + 1 : c \in sent[j]} \cup {0} /\ t_dat'[j] = Older(t_dat[j])
          /\ Open - 1 \notin sent[j]
      BY <1>1 DEF StartRound
    <2>2. CASE b = 0
      BY <1>0, <2>1, <2>2, OpenAssumption DEF Older, Old
    <2>3. CASE b # 0
      <3>1. PICK c \in sent[j] : b = c + 1
        BY <2>1, <2>3
      <3>2. c \in 0 .. Open - 1 /\ c # Open - 1 /\ c < t_dat[j]
        BY <1>0, <2>1, <3>1 DEF Recent
      <3> QED
        BY <1>0, <2>1, <3>1, <3>2, OpenAssumption DEF Older, Old
    <2> QED
      BY <2>2, <2>3
  <1>2. ASSUME NEW i \in Node, Callback(i)
        PROVE  b < t_dat'[j]
    <2>1. /\ t_dat' = [t_dat EXCEPT ![i] = Max(sent[i])]
          /\ sent' = [sent EXCEPT ![i] = @ \ {Max(@)}] /\ sent[i] # {}
      BY <1>2 DEF Callback, Store
    <2>2. CASE j = i
      <3>1. sent'[i] = sent[i] \ {Max(sent[i])} /\ t_dat'[i] = Max(sent[i])
        BY <2>1 DEF TypeOK
      <3>2. Max(sent[i]) \in sent[i] /\ \A c \in sent[i] : c <= Max(sent[i])
        BY <2>1, OldestExists DEF TypeOK
      <3>3. b \in Recent /\ Max(sent[i]) \in Recent /\ b <= Max(sent[i]) /\ b # Max(sent[i])
        BY <1>0, <2>2, <3>1, <3>2
      <3> QED
        BY <2>2, <3>1, <3>3 DEF Recent
    <2>3. CASE j # i
      BY <1>0, <2>1, <2>3 DEF TypeOK
    <2> QED
      BY <2>2, <2>3
  <1>3. ASSUME NEW i \in Node, Lose(i)
        PROVE  b < t_dat'[j]
    <2>1. t_dat' = t_dat /\ b \in sent[j]
      BY <1>3 DEF Lose, TypeOK
    <2> QED
      BY <1>0, <2>1
  <1>4. CASE UNCHANGED vars
    BY <1>0, <1>4 DEF vars
  <1> QED
    BY <1>1, <1>2, <1>3, <1>4 DEF Next

LEMMA NextBalances == TypeOK /\ TypeOK' /\ Balances /\ [Next]_vars => Balances'
PROOF
  <1> SUFFICES ASSUME TypeOK, TypeOK', Balances, [Next]_vars, NEW a \in Recent, NoneNewer(a)'
               PROVE  (count_data' + lost'[a] + OnTheirWayUpTo(a)') % 3 = 0
    BY NextInOrder DEF Balances, BalanceUpTo
  <1>0. /\ \A i \in Node, b \in Recent : WaitingUpTo(i, b) \in Nat /\ WaitingUpTo(i, b)' \in Nat
        /\ \A b \in Recent : lost[b] \in 0 .. 2 /\ lost'[b] \in 0 .. 2
        /\ 0 \in Node /\ 1 \in Node /\ 2 \in Node
        /\ 0 \in Recent /\ a \in 0 .. Open - 1 /\ Open \in Nat
        /\ count_data \in 0 .. 2 /\ count_data' \in 0 .. 2
        /\ \A j \in Node : t_dat[j] \in 0 .. Open /\ t_dat'[j] \in 0 .. Open
        /\ \A j \in Node : t_dat'[j] >= a
    <2>1. \A i \in Node, b \in Recent : WaitingUpTo(i, b) \in Nat /\ WaitingUpTo(i, b)' \in Nat
      BY UpToType, UpToTypeNext
    <2>2. \A b \in Recent : lost[b] \in 0 .. 2 /\ lost'[b] \in 0 .. 2
      BY DEF TypeOK
    <2>3. /\ 0 \in Node /\ 1 \in Node /\ 2 \in Node
          /\ 0 \in Recent /\ a \in 0 .. Open - 1 /\ Open \in Nat
      BY OpenAssumption DEF Node, Recent
    <2>4. /\ count_data \in 0 .. 2 /\ count_data' \in 0 .. 2
          /\ \A j \in Node : t_dat[j] \in 0 .. Open /\ t_dat'[j] \in 0 .. Open
      BY DEF TypeOK, Old
    <2>5. \A j \in Node : t_dat'[j] >= a
      BY DEF NoneNewer
    <2> QED
      BY <2>1, <2>2, <2>3, <2>4, <2>5
  <1>1. ASSUME NEW m \in Masters, StartRound(m)
        PROVE  (count_data' + lost'[a] + OnTheirWayUpTo(a)') % 3 = 0
    <2>1. count_data' = count_data /\ lost'[a] = IF a = 0 THEN lost[0] ELSE lost[a - 1]
      BY <1>1 DEF StartRound
    <2>2. CASE a = 0
      <3>1. BalanceUpTo(0) /\ NoneNewer(0)
        BY <1>0 DEF Balances, NoneNewer
      <3>2. OnTheirWayUpTo(0)' = OnTheirWayUpTo(0) + 3 /\ OnTheirWayUpTo(0) \in Nat
        BY <1>0, <1>1, OlderUpTo DEF OnTheirWayUpTo
      <3>3. (count_data + lost[0] + OnTheirWayUpTo(0)) % 3 = 0
        BY <3>1 DEF BalanceUpTo
      <3>4. OnTheirWayUpTo(0)' \in Nat
        BY <3>2
      <3>5. (count_data + lost[0] + OnTheirWayUpTo(0)') % 3 = 0
        BY <1>0, <3>2, <3>3, <3>4, ThreeMore
      <3>6. OnTheirWayUpTo(a)' = OnTheirWayUpTo(0)'
        BY <2>2 DEF OnTheirWayUpTo, WaitingUpTo, UpTo
      <3> QED
        BY <2>1, <2>2, <3>5, <3>6
    <2>3. CASE a # 0
      <3>1. a - 1 \in Recent /\ a > 0
        BY <1>0, <2>3 DEF Recent
      <3>2. NoneNewer(a - 1)
        BY <1>0, <1>1, <3>1 DEF StartRound, Older, Old, NoneNewer
      <3>3. (count_data + lost[a - 1] + OnTheirWayUpTo(a - 1)) % 3 = 0
        BY <3>1, <3>2 DEF Balances, BalanceUpTo
      <3>4. OnTheirWayUpTo(a)' = OnTheirWayUpTo(a - 1)
        BY <1>0, <1>1, <3>1, OlderUpTo DEF OnTheirWayUpTo
      <3> QED
        BY <2>1, <2>3, <3>3, <3>4
    <2> QED
      BY <2>2, <2>3
  <1>2. ASSUME NEW i \in Node, Callback(i)
        PROVE  (count_data' + lost'[a] + OnTheirWayUpTo(a)') % 3 = 0
    <2> DEFINE b == Max(sent[i])
    <2>1. b \in sent[i] /\ b \in Recent
      BY <1>2, OldestExists DEF Callback, TypeOK
    <2>2. /\ t_dat' = [t_dat EXCEPT ![i] = b] /\ sent' = [sent EXCEPT ![i] = @ \ {b}]
          /\ lost' = lost /\ count_data' = IF count_data = 2 THEN 0 ELSE count_data + 1
      BY <1>0, <1>2 DEF Callback, Store, Counted, TypeOK
    <2> HIDE DEF b
    <2>3. b >= a /\ t_dat[i] > b
      <3>1. t_dat'[i] = b
        BY <2>2 DEF TypeOK
      <3>2. b < t_dat[i]
        BY <2>1 DEF Balances, InOrder
      <3> QED
        BY <1>0, <2>1, <3>1, <3>2 DEF Recent
    <2>4. NoneNewer(a)
      <3>1. \A j \in Node : j # i => t_dat'[j] = t_dat[j]
        BY <2>2 DEF TypeOK
      <3> QED
        BY <1>0, <2>1, <2>3, <3>1 DEF NoneNewer, Recent
    <2>5. (count_data + lost[a] + OnTheirWayUpTo(a)) % 3 = 0
      BY <2>4 DEF Balances, BalanceUpTo
    <2>6. OnTheirWayUpTo(a) = OnTheirWayUpTo(a)' + 1
          /\ OnTheirWayUpTo(a) \in Nat /\ OnTheirWayUpTo(a)' \in Nat
      <3>1. \A j \in Node : WaitingUpTo(j, a) = IF j = i THEN WaitingUpTo(j, a)' + 1
                                                ELSE WaitingUpTo(j, a)'
        BY <2>1, <2>2, <2>3, LessUpTo
      <3>2. i = 0 \/ i = 1 \/ i = 2
        BY DEF Node
      <3> QED
        BY <1>0, <3>1, <3>2 DEF OnTheirWayUpTo
    <2>7. CASE count_data = 2
      BY <1>0, <2>2, <2>5, <2>6, <2>7, Modulo3
    <2>8. CASE count_data # 2
      <3> DEFINE w == OnTheirWayUpTo(a)
                 v == OnTheirWayUpTo(a)'
                 l == lost[a]
      <3>1. w = v + 1 /\ w \in Nat /\ v \in Nat /\ l \in 0 .. 2 /\ (count_data + l + w) % 3 = 0
        BY <1>0, <2>5, <2>6
      <3> HIDE DEF w, v, l
      <3>2. ((count_data + 1) + l + v) = (count_data + l + w)
        BY <1>0, <3>1
      <3>3. ((count_data + 1) + l + v) % 3 = 0
        BY <3>1, <3>2
      <3> QED
        BY <2>2, <2>8, <3>3 DEF v, l
    <2> QED
      BY <2>7, <2>8
  <1>3. ASSUME NEW i \in Node, Lose(i)
        PROVE  (count_data' + lost'[a] + OnTheirWayUpTo(a)') % 3 = 0
    <2>1. PICK b \in sent[i] :
            /\ sent' = [sent EXCEPT ![i] = @ \ {b}]
            /\ lost' = [c \in Recent |-> IF c <= b THEN (lost[c] + 1) % 3 ELSE lost[c]]
      BY <1>3 DEF Lose
    <2>2. count_data' = count_data /\ t_dat' = t_dat
      BY <1>3 DEF Lose
    <2>3. (count_data + lost[a] + OnTheirWayUpTo(a)) % 3 = 0
      BY <1>0, <2>2 DEF Balances, BalanceUpTo, NoneNewer
    <2>4. b \in Recent /\ lost'[a] = IF b >= a THEN (lost[a] + 1) % 3 ELSE lost[a]
      BY <1>0, <2>1 DEF TypeOK, Recent
    <2>5. \A j \in Node : WaitingUpTo(j, a) = IF j = i /\ b >= a THEN WaitingUpTo(j, a)' + 1
                                              ELSE WaitingUpTo(j, a)'
      BY <2>1, LessUpTo
    <2>6. i = 0 \/ i = 1 \/ i = 2
      BY DEF Node
    <2>7. OnTheirWayUpTo(a) \in Nat /\ OnTheirWayUpTo(a)' \in Nat
      BY <1>0 DEF OnTheirWayUpTo
    <2>8. CASE b >= a
      <3>1. OnTheirWayUpTo(a) = OnTheirWayUpTo(a)' + 1
        BY <1>0, <2>5, <2>6, <2>8 DEF OnTheirWayUpTo
      <3> QED
        BY <1>0, <2>2, <2>3, <2>4, <2>7, <2>8, <3>1, Modulo3
    <2>9. CASE ~ (b >= a)
      <3>1. OnTheirWayUpTo(a)' = OnTheirWayUpTo(a)
        BY <1>0, <2>5, <2>9 DEF OnTheirWayUpTo
      <3> QED
        BY <2>2, <2>3, <2>4, <2>9, <3>1
    <2> QED
      BY <2>8, <2>9
  <1>4. CASE UNCHANGED vars
    BY <1>0, <1>4 DEF vars, Balances, BalanceUpTo, NoneNewer, OnTheirWayUpTo, WaitingUpTo, UpTo
  <1> QED
    BY <1>1, <1>2, <1>3, <1>4 DEF Next

\* However rounds overlap, a report that is of one round has a multiple of
\* three messages lost up to that round.
THEOREM ExactReportsNeedThrees == Spec => ExactNeedsThrees
PROOF
  <1>1. TypeOK /\ TypeOK' /\ Balances /\ Balances' /\ [Next]_vars =>
          [Report => \A a \in Recent : OfRound(a) => lost[a] = 0]_vars
    <2> SUFFICES ASSUME TypeOK, TypeOK', Balances', Next, Report, NEW a \in Recent, OfRound(a)
                 PROVE  lost[a] = 0
      OBVIOUS
    <2>1. lost' = lost /\ count_data' = 0
      BY DEF Next, Report, StartRound, Lose, Callback
    <2>2. \A j \in Node : t_dat'[j] = a
      BY DEF OfRound, Compared
    <2>3. \A j \in Node : WaitingUpTo(j, a)' = 0
      <3>1. TAKE j \in Node
      <3>2. \A b \in sent'[j] : b < a /\ b \in Recent
        BY <2>2 DEF Balances, InOrder, TypeOK
      <3>3. UpTo(j, a)' = {}
        BY <3>2 DEF UpTo, Recent
      <3> QED
        BY <3>3, FS_EmptySet DEF WaitingUpTo
    <2>4. OnTheirWayUpTo(a)' = 0
      BY <2>3 DEF OnTheirWayUpTo, Node
    <2>5. NoneNewer(a)'
      BY <2>2 DEF NoneNewer, Recent
    <2>6. (0 + lost[a] + 0) % 3 = 0
      BY <2>1, <2>4, <2>5 DEF Balances, BalanceUpTo
    <2>7. lost[a] \in 0 .. 2
      BY DEF TypeOK
    <2> QED
      BY <2>6, <2>7
  <1> QED
    BY <1>1, InitType, NextType, InitBalances, NextBalances, PTL DEF Spec, ExactNeedsThrees
=============================================================================
