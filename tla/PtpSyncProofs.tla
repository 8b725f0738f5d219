--------------------------- MODULE PtpSyncProofs ----------------------------
(***************************************************************************)
(* Types of PtpSync, that conv_finished speaks of the exchange that        *)
(* software asked for last, for all delays, distances and writes, and what *)
(* the boards measure in an exchange that begins in order, for all         *)
(* distances at which delay_cnt does not start over.                       *)
(***************************************************************************)
EXTENDS PtpSync, FiniteSetTheorems, TLAPS

-----------------------------------------------------------------------------
(* One PTP_ctl. *)

LEMMA ResetType == \A mode \in BOOLEAN : CtlReset(mode) \in Ctl
BY DelayAssumption, CyclesAssumption DEF CtlReset, Ctl

LEMMA CountType == \A c \in Ctl : Count(c) \in 0 .. MAX_WAIT_CYCLES
BY DelayAssumption DEF Count, Ctl

LEMMA TickType == ASSUME NEW c \in Ctl, NEW input \in BOOLEAN PROVE Tick(c, input) \in Ctl
<1>1. Count(c) \in 0 .. MAX_WAIT_CYCLES  BY CountType
<1>2. /\ c.is_master \in BOOLEAN /\ c.first_impuls \in BOOLEAN
      /\ c.delay_cnt \in 0 .. MAX_WAIT_CYCLES /\ c.conv_cnt \in 0 .. CONV_CYCLES
      /\ c.travel_time_cnt \in 0 .. MAX_WAIT_CYCLES
      /\ c.conv_finished \in BOOLEAN /\ c.output \in BOOLEAN
  BY DEF Ctl
<1>3. Send(c) \in Ctl
  <2>1. (c.delay_cnt <= INIT_WAIT_DELAY) \in BOOLEAN /\ (c.delay_cnt >= WAIT_DELAY) \in BOOLEAN
    OBVIOUS
  <2>2. (IF c.first_impuls THEN Count(c) ELSE 0) \in 0 .. MAX_WAIT_CYCLES
    BY <1>1, DelayAssumption
  <2> QED  BY <1>2, <2>1, <2>2, Zenon DEF Send, Ctl
<1>4. c.conv_cnt < CONV_CYCLES => Hear(c) \in Ctl
  <2>1. c.conv_cnt < CONV_CYCLES => c.conv_cnt + 1 \in 0 .. CONV_CYCLES
    BY <1>2, CyclesAssumption
  <2>2. 0 \in 0 .. MAX_WAIT_CYCLES  BY DelayAssumption
  <2>3. (IF c.first_impuls THEN c.delay_cnt ELSE c.travel_time_cnt) \in 0 .. MAX_WAIT_CYCLES
    BY <1>2
  <2> QED  BY <1>2, <2>1, <2>2, <2>3 DEF Hear, Ctl
<1>5. Silence(c) \in Ctl  BY <1>1 DEF Silence, Ctl
<1>6. Finish(c, input) \in Ctl
  <2>1. (IF input THEN 0 ELSE Count(c)) \in 0 .. MAX_WAIT_CYCLES  BY <1>1, DelayAssumption
  <2>2. (c.first_impuls /\ ~input) \in BOOLEAN  OBVIOUS
  <2> QED  BY <1>2, <2>1, <2>2, Zenon DEF Finish, Ctl
<1> QED  BY <1>2, <1>3, <1>4, <1>5, <1>6, CyclesAssumption DEF Tick

\* No edge takes conv_finished back.
LEMMA TickKeeps ==
  ASSUME NEW c \in Ctl, NEW input \in BOOLEAN, c.conv_finished
  PROVE  Tick(c, input).conv_finished
<1>1. Send(c).conv_finished  BY DEF Send, Ctl
<1>2. Hear(c).conv_finished  BY DEF Hear, Ctl
<1>3. Silence(c).conv_finished  BY DEF Silence, Ctl
<1>4. Finish(c, input).conv_finished  BY DEF Finish, Ctl
<1>5. c.is_master \in BOOLEAN /\ c.conv_cnt \in Nat  BY CyclesAssumption DEF Ctl
<1> QED  BY <1>1, <1>2, <1>3, <1>4, <1>5, CyclesAssumption DEF Tick

LEMMA ControlType ==
  ASSUME NEW r, NEW q, NEW c \in Ctl, NEW master \in BOOLEAN, NEW input \in BOOLEAN,
         NEW d \in Control(r, q, c, master, input)
  PROVE  d \in Ctl
BY TickType, ResetType DEF Control

\* Out of the reset, conv_finished stays.
LEMMA ControlKeeps ==
  ASSUME NEW r, NEW q, NEW c \in Ctl, NEW master \in BOOLEAN, NEW input \in BOOLEAN,
         NEW d \in Control(r, q, c, master, input), ~q.hps_reset, c.conv_finished
  PROVE  d.conv_finished
BY TickKeeps DEF Control

\* A PTP_ctl whose role the board does not have stands still.
LEMMA ControlStands ==
  ASSUME NEW r \in Registers, NEW q \in Registers, NEW c \in Ctl,
         NEW master \in BOOLEAN, NEW input \in BOOLEAN,
         NEW d \in Control(r, q, c, master, input), ~q.hps_reset,
         q.enable_master = r.enable_master, r.enable_master # master
  PROVE  d = c
<1>1. Clocked(r, q, master) = {FALSE}  BY DEF Clocked, Registers
<1> QED  BY <1>1 DEF Control

-----------------------------------------------------------------------------
(* One board. *)

LEMMA SyncType ==
  ASSUME NEW r \in Registers, NEW w \in Writes \cup {Nothing}
  PROVE  /\ Sync(r, w) \in Registers
         /\ Sync(r, w).master = r.master /\ Sync(r, w).slave = r.slave
<1>1. w[2] \in BOOLEAN
  <2>1. CASE w \in Writes  BY <2>1, WritesAssumption
  <2>2. CASE w = Nothing  BY <2>2 DEF Nothing
  <2> QED  BY <2>1, <2>2
<1>2. ASSUME NEW register, NEW v, v \in BOOLEAN PROVE Written(w, register, v) \in BOOLEAN
  BY <1>1, <1>2, Zenon DEF Written
<1>3. r.master \in Ctl /\ r.slave \in Ctl  BY DEF Registers
<1>4. r.master.conv_finished \in BOOLEAN /\ r.slave.conv_finished \in BOOLEAN  BY <1>3 DEF Ctl
<1>5. /\ r.start \in Role \cup {"no"} /\ r.start_delay \in BOOLEAN
      /\ r.enable_master \in BOOLEAN /\ r.enable_time_sync_mode \in BOOLEAN
      /\ r.conv_finished \in BOOLEAN
  BY DEF Registers
<1> DEFINE h == Written(w, "hps_reset", r.start # "no")
           f == r.master.conv_finished \/ r.slave.conv_finished
           role == IF r.start = "no" THEN r.enable_master ELSE r.start = "master"
           m == Written(w, "enable_master", role)
           on == \/ r.start_delay
                 \/ r.enable_time_sync_mode /\ r.start = "no" /\ ~r.conv_finished
           e == Written(w, "enable_time_sync_mode", on)
           d == r.start # "no" /\ ~r.start_delay
           s == IF w[1] = "start_ptp" THEN IF w[2] THEN "master" ELSE "slave" ELSE "no"
<1>6. h \in BOOLEAN
  <2>1. (r.start # "no") \in BOOLEAN  OBVIOUS
  <2> QED  BY <2>1, <1>2, Zenon
<1>7. m \in BOOLEAN
  <2>1. role \in BOOLEAN  BY <1>5, Zenon
  <2> QED  BY <2>1, <1>2, Zenon
<1>8. e \in BOOLEAN
  <2>1. on \in BOOLEAN  BY <1>5, Zenon
  <2> QED  BY <2>1, <1>2, Zenon
<1>9. f \in BOOLEAN /\ d \in BOOLEAN  OBVIOUS
<1>10. s \in Role \cup {"no"}  BY Zenon DEF Role
<1>11. Sync(r, w) = [r EXCEPT !.hps_reset = h, !.conv_finished = f, !.enable_master = m,
                              !.enable_time_sync_mode = e, !.start_delay = d, !.start = s]
  BY Zenon DEF Sync
<1> HIDE DEF h, f, m, e, d, s
<1>12. Sync(r, w) = [start |-> s, start_delay |-> d, enable_master |-> m,
                     enable_time_sync_mode |-> e, hps_reset |-> h, conv_finished |-> f,
                     master |-> r.master, slave |-> r.slave]
  BY <1>11 DEF Registers
<1> QED  BY <1>3, <1>6, <1>7, <1>8, <1>9, <1>10, <1>12 DEF Registers

LEMMA BoardType ==
  ASSUME NEW r \in Registers, NEW w \in Writes \cup {Nothing}, NEW input \in BOOLEAN,
         NEW n \in BoardNext(r, w, input)
  PROVE  /\ n \in Registers
         /\ n.master \in Control(r, Sync(r, w), r.master, TRUE, input)
         /\ n.slave \in Control(r, Sync(r, w), r.slave, FALSE, input)
         /\ n.start = Sync(r, w).start /\ n.hps_reset = Sync(r, w).hps_reset
         /\ n.conv_finished = Sync(r, w).conv_finished
         /\ n.enable_master = Sync(r, w).enable_master
         /\ n.enable_time_sync_mode = Sync(r, w).enable_time_sync_mode
         /\ n.start_delay = Sync(r, w).start_delay
<1> DEFINE q == Sync(r, w)
<1>1. q \in Registers  BY SyncType
<1>2. PICK m \in Control(r, q, r.master, TRUE, input), s \in Control(r, q, r.slave, FALSE, input) :
        n = [q EXCEPT !.master = m, !.slave = s]
  <2>1. PICK c \in Control(r, q, r.master, TRUE, input) \X Control(r, q, r.slave, FALSE, input) :
          n = [q EXCEPT !.master = c[1], !.slave = c[2]]
    BY DEF BoardNext
  <2> QED  BY <2>1
<1>3. r.master \in Ctl /\ r.slave \in Ctl  BY DEF Registers
<1>4. m \in Ctl /\ s \in Ctl  BY <1>2, <1>3, ControlType
<1> HIDE DEF q
<1>5. n \in Registers /\ n.master = m /\ n.slave = s  BY <1>1, <1>2, <1>4 DEF Registers
<1>6. /\ n.start = q.start /\ n.hps_reset = q.hps_reset
      /\ n.conv_finished = q.conv_finished /\ n.enable_master = q.enable_master
      /\ n.enable_time_sync_mode = q.enable_time_sync_mode /\ n.start_delay = q.start_delay
  BY <1>1, <1>2 DEF Registers
<1> QED  BY <1>2, <1>5, <1>6 DEF q

-----------------------------------------------------------------------------
(* The system. *)

LEMMA Counted == \A S \in SUBSET Board : Cardinality(S) \in Nat
<1>1. IsFiniteSet({1})  BY FS_Singleton
<1>2. IsFiniteSet({1} \cup {2})  BY <1>1, FS_AddElement
<1>3. Board = {1} \cup {2}  BY DEF Board
<1> QED  BY <1>2, <1>3, FS_Subset, FS_CardinalityType

\* What Next says of each board.
LEMMA Stepped ==
  ASSUME TypeOK, NEW w \in Writing, NEW h \in Hearing, Edge(w, h), NEW b \in Board
  PROVE  /\ board[b] \in Registers /\ w[b] \in Writes \cup {Nothing} /\ h[b] \in BOOLEAN
         /\ board'[b] \in BoardNext(board[b], w[b], h[b])
<1>1. board[b] \in Registers  BY DEF TypeOK
<1>2. w \in [Board -> Writes \cup {Nothing}] /\ h \in [Board -> BOOLEAN]
  BY DEF Writing, Hearing
<1>3. PICK one \in BoardNext(board[1], w[1], h[1]), two \in BoardNext(board[2], w[2], h[2]) :
        board' = [c \in Board |-> IF c = 1 THEN one ELSE two]
  BY DEF Edge
<1>4. b = 1 \/ b = 2  BY DEF Board
<1> QED  BY <1>1, <1>2, <1>3, <1>4

LEMMA InitType == Init => TypeOK
<1> SUFFICES ASSUME Init PROVE TypeOK  OBVIOUS
<1>1. CtlReset(TRUE) \in Ctl /\ CtlReset(FALSE) \in Ctl  BY ResetType
<1>2. Fresh \in Registers  BY <1>1 DEF Fresh, Registers, Role
<1>3. dist \in Distances /\ air \in [Board -> [1 .. dist -> BOOLEAN]]  BY DEF Init
<1>4. board \in [Board -> Registers]  BY <1>2 DEF Init
<1>5. missed \in 0 .. Misses /\ writes \in 0 .. MaxWrites  BY AirAssumption DEF Init
<1>6. asked \in [Board -> Role \cup {"no", "other"}] /\ orderly \in BOOLEAN  BY DEF Init
<1> QED  BY <1>3, <1>4, <1>5, <1>6 DEF TypeOK

LEMMA NextType == TypeOK /\ [Next]_vars => TypeOK'
<1> SUFFICES ASSUME TypeOK, [Next]_vars PROVE TypeOK'  OBVIOUS
<1>1. CASE UNCHANGED vars  BY <1>1 DEF vars, TypeOK
<1>2. ASSUME NEW w \in Writing, NEW h \in Hearing, Edge(w, h), History(w, h)
      PROVE  TypeOK'
  <2>1. dist' = dist /\ dist \in Distances /\ dist \in Nat  BY <1>2, AirAssumption DEF Edge, TypeOK
  <2>2. board' \in [Board -> Registers]
    <3>1. ASSUME NEW b \in Board PROVE board'[b] \in Registers
      BY <1>2, Stepped, BoardType
    <3>2. \E f : board' = [b \in Board |-> f[b]]
      <4>1. PICK one \in BoardNext(board[1], w[1], h[1]),
                 two \in BoardNext(board[2], w[2], h[2]) :
              board' = [c \in Board |-> IF c = 1 THEN one ELSE two]
        BY <1>2 DEF Edge
      <4> QED  BY <4>1
    <3> QED  BY <3>1, <3>2
  <2>3. air' \in [Board -> [1 .. dist' -> BOOLEAN]]
    <3>1. ASSUME NEW b \in Board PROVE Output(b) \in BOOLEAN
      <4>1. board[b] \in Registers  BY DEF TypeOK
      <4>2. board[b].master \in Ctl /\ board[b].slave \in Ctl  BY <4>1 DEF Registers
      <4> QED  BY <4>2 DEF Output, Ctl
    <3>2. ASSUME NEW b \in Board, NEW i \in 1 .. dist, i # dist PROVE air[b][i + 1] \in BOOLEAN
      <4>1. i + 1 \in 1 .. dist  BY <2>1, <3>2
      <4> QED  BY <4>1 DEF TypeOK
    <3>3. air' = [b \in Board |->
                    [i \in 1 .. dist |-> IF i = dist THEN Output(b) ELSE air[b][i + 1]]]
      BY <1>2 DEF Edge
    <3> HIDE DEF Output
    <3> QED  BY <2>1, <3>1, <3>2, <3>3
  <2>4. missed' \in 0 .. Misses
    <3>1. Unheard(h) \in Nat  BY Counted DEF Unheard
    <3>2. /\ missed' = IF orderly' /\ orderly THEN missed + Unheard(h) ELSE 0
          /\ missed' <= Misses
      BY <1>2 DEF History
    <3> QED  BY <3>1, <3>2, AirAssumption DEF TypeOK
  <2>5. writes' \in 0 .. MaxWrites
    <3> DEFINE n == Cardinality({b \in Board : w[b] # Nothing})
    <3>1. n \in Nat  BY Counted
    <3>2. writes' = writes + n  BY <1>2 DEF History
    <3>3. writes + n <= MaxWrites  BY DEF Writing
    <3> HIDE DEF n
    <3> QED  BY <3>1, <3>2, <3>3, AirAssumption DEF TypeOK
  <2>6. asked' \in [Board -> Role \cup {"no", "other"}]
    BY <1>2 DEF History, Asked, Role, TypeOK
  <2>7. orderly' \in BOOLEAN  BY <1>2 DEF History
  <2> QED  BY <2>1, <2>2, <2>3, <2>4, <2>5, <2>6, <2>7 DEF TypeOK
<1> QED  BY <1>1, <1>2 DEF Next

\* Every variable of PtpSync keeps its type: no count of ptp_sync or PTP_ctl
\* goes beyond its limit, whatever is written and heard.
THEOREM TypeCorrect == Spec => []TypeOK
BY InitType, NextType, PTL DEF Spec

-----------------------------------------------------------------------------
(* conv_finished. *)

\* The PTP_ctl of the role that the last write did not ask for.
Passive(b) == IF asked[b] = "master" THEN board[b].slave ELSE board[b].master

\* A board since the last start_ptp, if nothing was written after it.  First
\* the request is there, then both PTP_ctl are reset, and from then on the
\* passive one stands still.
Started(b) ==
  LET r == board[b]
  IN asked[b] \in Role =>
       /\ r.start # "no" => r.start = asked[b]
       /\ r.start = "no" =>
            /\ r.enable_master = (asked[b] = "master")
            /\ ~Passive(b).conv_finished
            /\ r.hps_reset => ~Active(b).conv_finished
            /\ ~r.hps_reset /\ r.conv_finished => Active(b).conv_finished

StartedInv == TypeOK /\ \A b \in Board : Started(b)

\* The edge at which the request is taken.
LEMMA RequestTaken ==
  ASSUME NEW r \in Registers, r.start \in Role
  PROVE  LET q == Sync(r, Nothing)
         IN q.start = "no" /\ q.hps_reset /\ q.enable_master = (r.start = "master")
BY DEF Sync, Nothing, Written, Registers, Role

\* An edge without one.
LEMMA NoRequest ==
  ASSUME NEW r \in Registers, r.start = "no"
  PROVE  LET q == Sync(r, Nothing)
         IN /\ q.start = "no" /\ ~q.hps_reset /\ q.enable_master = r.enable_master
            /\ q.conv_finished => r.master.conv_finished \/ r.slave.conv_finished
BY DEF Sync, Nothing, Written, Registers, Role

\* An edge at which nothing is written, seen from a PTP_ctl.
LEMMA StartedStep ==
  ASSUME TypeOK, NEW b \in Board, Started(b), asked[b] \in Role, asked'[b] = asked[b],
         NEW h \in BOOLEAN, board'[b] \in BoardNext(board[b], Nothing, h)
  PROVE  Started(b)'
<1> DEFINE r == board[b]
           n == board'[b]
           q == Sync(r, Nothing)
<1>1. /\ r \in Registers /\ q \in Registers /\ n \in Registers
      /\ n.master \in Control(r, q, r.master, TRUE, h)
      /\ n.slave \in Control(r, q, r.slave, FALSE, h)
      /\ n.start = q.start /\ n.hps_reset = q.hps_reset
      /\ n.conv_finished = q.conv_finished /\ n.enable_master = q.enable_master
  <2>1. r \in Registers  BY DEF TypeOK
  <2>2. Nothing \in Writes \cup {Nothing}  OBVIOUS
  <2>3. q \in Registers  BY <2>1, <2>2, SyncType
  <2>4. n \in BoardNext(r, Nothing, h)  OBVIOUS
  <2> HIDE DEF r, n
  <2> QED  BY <2>1, <2>2, <2>3, <2>4, BoardType
<1>2. r.master \in Ctl /\ r.slave \in Ctl  BY <1>1 DEF Registers
<1> HIDE DEF r, n, q
<1>3. CASE r.start # "no"
  <2>1. r.start = asked[b]  BY <1>3 DEF Started, r
  <2>2. q.start = "no" /\ q.hps_reset /\ q.enable_master = (r.start = "master")
    BY <1>1, <2>1, RequestTaken DEF q
  <2>3. n.master = CtlReset(FALSE) /\ n.slave = CtlReset(TRUE)  BY <1>1, <2>2 DEF Control
  <2>4. ~n.master.conv_finished /\ ~n.slave.conv_finished  BY <2>3 DEF CtlReset
  <2> QED  BY <1>1, <2>1, <2>2, <2>4 DEF Started, Active, Passive, n
<1>4. CASE r.start = "no"
  <2>1. /\ q.start = "no" /\ ~q.hps_reset /\ q.enable_master = r.enable_master
        /\ q.conv_finished => r.master.conv_finished \/ r.slave.conv_finished
    BY <1>1, <1>4, NoRequest DEF q
  <2>2. r.enable_master = (asked[b] = "master")  BY <1>4 DEF Started, r
  <2>3. CASE asked[b] = "master"
    <3>1. ~r.slave.conv_finished  BY <1>4, <2>3 DEF Started, Passive, r
    <3>2. n.slave = r.slave  BY <1>1, <1>2, <2>1, <2>2, <2>3, ControlStands
    <3>3. r.master.conv_finished => n.master.conv_finished
      BY <1>1, <1>2, <2>1, ControlKeeps
    <3> QED  BY <1>1, <2>1, <2>2, <2>3, <3>1, <3>2, <3>3 DEF Started, Active, Passive, n
  <2>4. CASE asked[b] = "slave"
    <3>1. ~r.master.conv_finished  BY <1>4, <2>4 DEF Started, Passive, r
    <3>2. n.master = r.master  BY <1>1, <1>2, <2>1, <2>2, <2>4, ControlStands
    <3>3. r.slave.conv_finished => n.slave.conv_finished
      BY <1>1, <1>2, <2>1, ControlKeeps
    <3> QED  BY <1>1, <2>1, <2>2, <2>4, <3>1, <3>2, <3>3 DEF Started, Active, Passive, n
  <2> QED  BY <2>3, <2>4 DEF Role
<1> QED  BY <1>3, <1>4

LEMMA StartedInit == Init => StartedInv
<1> SUFFICES ASSUME Init PROVE \A b \in Board : Started(b)  BY InitType DEF StartedInv
<1> QED  BY DEF Init, Started, Role

LEMMA StartedNext == StartedInv /\ [Next]_vars => StartedInv'
<1> SUFFICES ASSUME StartedInv, [Next]_vars, NEW b \in Board PROVE Started(b)'
  BY NextType DEF StartedInv
<1>1. CASE UNCHANGED vars  BY <1>1 DEF vars, StartedInv, Started, Active, Passive
<1>2. ASSUME NEW w \in Writing, NEW h \in Hearing, Edge(w, h), History(w, h)
      PROVE  Started(b)'
  <2>1. /\ board[b] \in Registers /\ w[b] \in Writes \cup {Nothing} /\ h[b] \in BOOLEAN
        /\ board'[b] \in BoardNext(board[b], w[b], h[b])
    BY <1>2, Stepped DEF StartedInv
  <2>2. asked'[b] = Asked(w[b], asked[b])  BY <1>2 DEF History
  <2>3. CASE w[b] = Nothing
    <3>1. asked'[b] = asked[b]  BY <2>2, <2>3 DEF Asked
    <3>2. CASE asked[b] \in Role
      BY <2>1, <2>3, <3>1, <3>2, StartedStep DEF StartedInv
    <3>3. CASE asked[b] \notin Role  BY <3>1, <3>3 DEF Started
    <3> QED  BY <3>2, <3>3
  <2>4. CASE w[b] # Nothing /\ w[b][1] # "start_ptp"
    BY <2>2, <2>4 DEF Asked, Started, Role
  <2>5. CASE w[b] # Nothing /\ w[b][1] = "start_ptp"
    <3>1. board'[b].start = Sync(board[b], w[b]).start  BY <2>1, BoardType
    <3>2. Sync(board[b], w[b]).start = IF w[b][2] THEN "master" ELSE "slave"
      BY <2>1, <2>5, Zenon DEF Sync, Registers
    <3>3. asked'[b] = IF w[b][2] THEN "master" ELSE "slave"  BY <2>2, <2>5 DEF Asked
    <3> QED  BY <3>1, <3>2, <3>3 DEF Started, Role
  <2> QED  BY <2>3, <2>4, <2>5
<1> QED  BY <1>1, <1>2 DEF Next, StartedInv

\* Once the reset that a start_ptp makes is over, conv_finished is not that
\* of an exchange before it, in whatever state the start_ptp came, and the
\* board has the role that was asked for: what software reads it for.
THEOREM FinishedCurrent == Spec => []FinishedIsCurrent
<1>1. StartedInv => FinishedIsCurrent
  <2> SUFFICES ASSUME StartedInv, NEW b \in Board, asked[b] \in Role,
                      board[b].conv_finished, board[b].start = "no", ~board[b].hps_reset
               PROVE  Active(b).conv_finished /\ board[b].enable_master = (asked[b] = "master")
    BY DEF FinishedIsCurrent
  <2>1. Started(b)  BY DEF StartedInv
  <2> QED  BY <2>1 DEF Started
<1> QED  BY StartedInit, StartedNext, <1>1, PTL DEF Spec

-----------------------------------------------------------------------------
(* An exchange that begins in order. *)

\* No pulse takes so long, with what is not heard of it, that delay_cnt starts
\* over before it is answered.
InReach == \A d \in Distances : Larger(2 * d + 2, WAIT_DELAY + 1) + Misses <= MAX_WAIT_CYCLES

Longest == Larger(RoundTrip, WAIT_DELAY + 1)

\* The PTP_ctl of one role of a board.
Part(r, master) == IF master THEN r.master ELSE r.slave

\* Only an end that has counted all pulses finishes, and one that has counted
\* none is a slave that waits.
Sane(c) ==
  /\ c.conv_finished => c.conv_cnt = CONV_CYCLES /\ c.is_master
  /\ c.conv_cnt = 0 => c.is_master

\* A PTP_ctl a edges after the first one of its last pulse; -1 before it sends.
\* The count stops with the clock when the exchange is over, and is of no
\* meaning before the first pulse.
CtlAt(c, a) ==
  /\ c.is_master <=> a > WAIT_DELAY
  /\ c.output <=> 0 <= a /\ a <= INIT_WAIT_DELAY + 1
  /\ a = -1 => ~c.first_impuls /\ c.delay_cnt = 0
  /\ (a >= 0 /\ c.conv_cnt > 0 /\ (c.conv_cnt < CONV_CYCLES \/ a <= WAIT_DELAY)) =>
        c.first_impuls /\ c.delay_cnt = a

\* A board in an exchange: the clock of its role runs until it has finished.
Running(r, master) ==
  /\ r.start = "no" /\ ~r.start_delay /\ ~r.hps_reset /\ r.enable_master = master
  /\ ~Part(r, ~master).conv_finished /\ ~Part(r, ~master).output
  /\ ~Part(r, master).conv_finished => r.enable_time_sync_mode /\ ~r.conv_finished
  /\ Sane(Part(r, master))

-----------------------------------------------------------------------------
(* One PTP_ctl and one board in an exchange. *)

LEMMA CtlParts ==
  ASSUME NEW c \in Ctl
  PROVE  /\ c.is_master \in BOOLEAN /\ c.first_impuls \in BOOLEAN
         /\ c.delay_cnt \in 0 .. MAX_WAIT_CYCLES /\ c.conv_cnt \in 0 .. CONV_CYCLES
         /\ c.travel_time_cnt \in 0 .. MAX_WAIT_CYCLES
         /\ c.conv_finished \in BOOLEAN /\ c.output \in BOOLEAN
BY DEF Ctl

\* What each branch of an edge leaves in the registers.
LEMMA SendParts ==
  ASSUME NEW c \in Ctl
  PROVE  /\ Send(c).first_impuls
         /\ Send(c).delay_cnt = (IF c.first_impuls THEN Count(c) ELSE 0)
         /\ Send(c).output <=> c.delay_cnt <= INIT_WAIT_DELAY
         /\ Send(c).is_master <=> c.delay_cnt >= WAIT_DELAY
         /\ Send(c).conv_cnt = c.conv_cnt /\ Send(c).travel_time_cnt = c.travel_time_cnt
         /\ (Send(c).conv_finished <=> c.conv_finished)
BY Zenon DEF Send, Ctl

LEMMA HearParts ==
  ASSUME NEW c \in Ctl
  PROVE  /\ Hear(c).conv_cnt = c.conv_cnt + 1
         /\ ~Hear(c).is_master /\ ~Hear(c).first_impuls /\ ~Hear(c).output
         /\ Hear(c).delay_cnt = 0
         /\ Hear(c).travel_time_cnt = (IF c.first_impuls THEN c.delay_cnt ELSE c.travel_time_cnt)
         /\ (Hear(c).conv_finished <=> c.conv_finished)
BY DEF Hear, Ctl

LEMMA SilenceParts ==
  ASSUME NEW c \in Ctl
  PROVE  /\ Silence(c).delay_cnt = Count(c) /\ ~Silence(c).output
         /\ (Silence(c).is_master <=> c.is_master) /\ (Silence(c).first_impuls <=> c.first_impuls)
         /\ Silence(c).conv_cnt = c.conv_cnt
         /\ Silence(c).travel_time_cnt = c.travel_time_cnt
         /\ (Silence(c).conv_finished <=> c.conv_finished)
BY DEF Silence, Ctl

LEMMA FinishParts ==
  ASSUME NEW c \in Ctl, NEW input \in BOOLEAN
  PROVE  LET d == Finish(c, input)
         IN /\ d.conv_finished /\ ~d.output /\ (d.is_master <=> c.is_master)
            /\ d.conv_cnt = c.conv_cnt /\ d.travel_time_cnt = c.travel_time_cnt
BY DEF Finish, Ctl

LEMMA TickCases ==
  ASSUME NEW c \in Ctl, NEW input \in BOOLEAN
  PROVE  /\ ~c.is_master => Tick(c, input) = Send(c)
         /\ c.is_master /\ c.conv_cnt = CONV_CYCLES => Tick(c, input) = Finish(c, input)
         /\ c.is_master /\ c.conv_cnt < CONV_CYCLES /\ input => Tick(c, input) = Hear(c)
         /\ c.is_master /\ c.conv_cnt < CONV_CYCLES /\ ~input => Tick(c, input) = Silence(c)
BY CtlParts, CyclesAssumption DEF Tick

LEMMA TickSane ==
  ASSUME NEW c \in Ctl, NEW input \in BOOLEAN, Sane(c)
  PROVE  Sane(Tick(c, input))
<1>1. c.conv_cnt \in 0 .. CONV_CYCLES /\ c.is_master \in BOOLEAN  BY CtlParts
<1>2. CASE ~c.is_master
  <2>1. Tick(c, input) = Send(c)  BY <1>2, TickCases
  <2> QED  BY <1>2, <2>1, SendParts DEF Sane
<1>3. CASE c.is_master /\ c.conv_cnt = CONV_CYCLES
  <2>1. Tick(c, input) = Finish(c, input)  BY <1>3, TickCases
  <2> QED  BY <1>3, <2>1, FinishParts DEF Sane
<1>4. CASE c.is_master /\ c.conv_cnt < CONV_CYCLES
  <2>1. ~c.conv_finished  BY <1>1, <1>4, CyclesAssumption DEF Sane
  <2>2. CASE input
    <3>1. Tick(c, input) = Hear(c)  BY <1>4, <2>2, TickCases
    <3> QED  BY <1>1, <2>1, <3>1, HearParts, CyclesAssumption DEF Sane
  <2>3. CASE ~input
    <3>1. Tick(c, input) = Silence(c)  BY <1>4, <2>3, TickCases
    <3> QED  BY <1>4, <2>1, <3>1, SilenceParts DEF Sane
  <2> QED  BY <2>2, <2>3
<1> QED  BY <1>1, <1>2, <1>3, <1>4, CyclesAssumption

\* An edge at which no pulse is heard.
LEMMA AgeStep ==
  ASSUME NEW c \in Ctl, NEW a \in Int, a >= -1, NEW input \in BOOLEAN, CtlAt(c, a),
         ~input \/ a <= WAIT_DELAY \/ c.conv_cnt = CONV_CYCLES,
         c.conv_cnt = 0 => a > WAIT_DELAY,
         0 < c.conv_cnt /\ c.conv_cnt < CONV_CYCLES => a + 1 <= MAX_WAIT_CYCLES
  PROVE  /\ CtlAt(Tick(c, input), a + 1)
         /\ Tick(c, input).conv_cnt = c.conv_cnt
         /\ Tick(c, input).travel_time_cnt = c.travel_time_cnt
<1>1. c.conv_cnt \in 0 .. CONV_CYCLES /\ c.is_master \in BOOLEAN
      /\ c.delay_cnt \in 0 .. MAX_WAIT_CYCLES /\ c.first_impuls \in BOOLEAN
  BY CtlParts
<1>2. CASE a <= WAIT_DELAY
  <2>1. ~c.is_master /\ c.conv_cnt > 0  BY <1>1, <1>2, DelayAssumption, CyclesAssumption DEF CtlAt
  <2>2. Tick(c, input) = Send(c)  BY <2>1, TickCases
  <2>3. CASE a = -1
    <3>1. ~c.first_impuls /\ c.delay_cnt = 0  BY <2>3 DEF CtlAt
    <3> QED  BY <1>1, <2>2, <2>3, <3>1, SendParts, DelayAssumption DEF CtlAt
  <2>4. CASE a >= 0
    <3>1. c.first_impuls /\ c.delay_cnt = a  BY <1>2, <2>1, <2>4 DEF CtlAt
    <3>2. Count(c) = a + 1  BY <1>2, <3>1, DelayAssumption DEF Count
    <3> QED  BY <1>1, <1>2, <2>2, <2>4, <3>1, <3>2, SendParts, DelayAssumption DEF CtlAt
  <2> QED  BY <2>3, <2>4
<1>3. CASE a > WAIT_DELAY
  <2>1. c.is_master  BY <1>3 DEF CtlAt
  <2>2. CASE c.conv_cnt = CONV_CYCLES
    <3>1. Tick(c, input) = Finish(c, input)  BY <2>1, <2>2, TickCases
    <3> QED  BY <1>3, <2>1, <2>2, <3>1, FinishParts, DelayAssumption, CyclesAssumption DEF CtlAt
  <2>3. CASE c.conv_cnt < CONV_CYCLES
    <3>1. Tick(c, input) = Silence(c)
      BY <1>1, <1>3, <2>1, <2>3, TickCases, DelayAssumption, CyclesAssumption
    <3>2. c.conv_cnt > 0 => c.first_impuls /\ Count(c) = a + 1
      <4> SUFFICES ASSUME c.conv_cnt > 0 PROVE c.first_impuls /\ Count(c) = a + 1  OBVIOUS
      <4>1. c.first_impuls /\ c.delay_cnt = a  BY <1>3, <2>3, DelayAssumption DEF CtlAt
      <4> QED  BY <2>3, <4>1, DelayAssumption DEF Count
    <3> QED  BY <1>1, <1>3, <2>1, <3>1, <3>2, SilenceParts, DelayAssumption DEF CtlAt
  <2> QED  BY <1>1, <2>2, <2>3, CyclesAssumption
<1> QED  BY <1>2, <1>3, DelayAssumption

\* An edge at which a pulse is heard.
LEMMA HearStep ==
  ASSUME NEW c \in Ctl, c.is_master, c.conv_cnt < CONV_CYCLES, NEW input \in BOOLEAN, input
  PROVE  /\ CtlAt(Tick(c, input), -1)
         /\ Tick(c, input).conv_cnt = c.conv_cnt + 1
         /\ c.first_impuls => Tick(c, input).travel_time_cnt = c.delay_cnt
<1>1. Tick(c, input) = Hear(c)  BY TickCases
<1>2. CtlAt(Hear(c), -1)  BY HearParts, DelayAssumption DEF CtlAt
<1> QED  BY <1>1, <1>2, HearParts

\* An end that nobody will answer, or that sends its last pulse in vain.
Alone(c) ==
  /\ ~c.output
  /\ c.is_master \/ (c.first_impuls /\ c.delay_cnt > INIT_WAIT_DELAY)

LEMMA AloneStep ==
  ASSUME NEW c \in Ctl, Alone(c), NEW input \in BOOLEAN, ~input
  PROVE  /\ Alone(Tick(c, input))
         /\ Tick(c, input).conv_cnt = c.conv_cnt
         /\ Tick(c, input).travel_time_cnt = c.travel_time_cnt
<1>1. c.conv_cnt \in 0 .. CONV_CYCLES /\ c.is_master \in BOOLEAN
      /\ c.delay_cnt \in 0 .. MAX_WAIT_CYCLES
  BY CtlParts
<1>2. CASE ~c.is_master
  <2>1. Tick(c, input) = Send(c)  BY <1>2, TickCases
  <2>2. c.first_impuls /\ c.delay_cnt > INIT_WAIT_DELAY  BY <1>2 DEF Alone
  <2>3. Count(c) > INIT_WAIT_DELAY \/ c.delay_cnt >= WAIT_DELAY
    BY <1>1, <2>2, DelayAssumption DEF Count
  <2>4. ~Send(c).output  BY <1>1, <2>2, SendParts, DelayAssumption
  <2>5. Send(c).is_master \/ (Send(c).first_impuls /\ Send(c).delay_cnt > INIT_WAIT_DELAY)
    BY <2>2, <2>3, SendParts
  <2> QED  BY <2>1, <2>4, <2>5, SendParts DEF Alone
<1>3. CASE c.is_master /\ c.conv_cnt = CONV_CYCLES
  <2>1. Tick(c, input) = Finish(c, input)  BY <1>3, TickCases
  <2> QED  BY <1>3, <2>1, FinishParts DEF Alone
<1>4. CASE c.is_master /\ c.conv_cnt < CONV_CYCLES
  <2>1. Tick(c, input) = Silence(c)  BY <1>4, TickCases
  <2> QED  BY <1>4, <2>1, SilenceParts DEF Alone
<1>5. c.conv_cnt = CONV_CYCLES \/ c.conv_cnt < CONV_CYCLES  BY <1>1, CyclesAssumption
<1> QED  BY <1>1, <1>2, <1>3, <1>4, <1>5

\* What is measured stays once all pulses are counted.
LEMMA CountedStep ==
  ASSUME NEW c \in Ctl, NEW input \in BOOLEAN, c.conv_cnt = CONV_CYCLES
  PROVE  /\ Tick(c, input).conv_cnt = c.conv_cnt
         /\ Tick(c, input).travel_time_cnt = c.travel_time_cnt
<1>1. c.is_master \in BOOLEAN  BY CtlParts
<1> QED  BY <1>1, TickCases, SendParts, FinishParts

LEMMA BoardSane ==
  ASSUME NEW r \in Registers, NEW w \in Writes \cup {Nothing}, NEW input \in BOOLEAN,
         NEW n \in BoardNext(r, w, input), Sane(r.master), Sane(r.slave)
  PROVE  Sane(n.master) /\ Sane(n.slave)
<1>1. r.master \in Ctl /\ r.slave \in Ctl  BY DEF Registers
<1>2. ASSUME NEW c \in Ctl, Sane(c), NEW master \in BOOLEAN,
             NEW d \in Control(r, Sync(r, w), c, master, input)
      PROVE  Sane(d)
  <2>1. Sane(CtlReset(~master))
    <3>1. Sane(CtlReset(TRUE)) /\ Sane(CtlReset(FALSE))  BY DEF Sane, CtlReset
    <3>2. ~master = TRUE \/ ~master = FALSE  OBVIOUS
    <3> QED  BY <3>1, <3>2, Zenon
  <2>2. Sane(Tick(c, input))  BY <1>2, TickSane
  <2> QED  BY <1>2, <2>1, <2>2 DEF Control
<1>3. /\ n.master \in Control(r, Sync(r, w), r.master, TRUE, input)
      /\ n.slave \in Control(r, Sync(r, w), r.slave, FALSE, input)
  BY BoardType
<1> QED  BY <1>1, <1>2, <1>3

\* An edge of a board in an exchange: its PTP_ctl sees it, unless it has finished.
LEMMA RunStep ==
  ASSUME NEW r \in Registers, NEW master \in BOOLEAN, Running(r, master),
         NEW input \in BOOLEAN, NEW n \in BoardNext(r, Nothing, input)
  PROVE  /\ n \in Registers /\ Running(n, master)
         /\ \/ Part(n, master) = Tick(Part(r, master), input)
            \/ Part(r, master).conv_finished /\ Part(n, master) = Part(r, master)
         /\ Part(n, ~master) = Part(r, ~master)
<1> DEFINE q == Sync(r, Nothing)
           c == Part(r, master)
           p == Part(r, ~master)
<1>1. /\ q \in Registers /\ n \in Registers
      /\ n.master \in Control(r, q, r.master, TRUE, input)
      /\ n.slave \in Control(r, q, r.slave, FALSE, input)
      /\ n.start = q.start /\ n.hps_reset = q.hps_reset
      /\ n.conv_finished = q.conv_finished /\ n.enable_master = q.enable_master
      /\ n.start_delay = q.start_delay /\ n.enable_time_sync_mode = q.enable_time_sync_mode
  <2>1. Nothing \in Writes \cup {Nothing}  OBVIOUS
  <2> QED  BY <2>1, SyncType, BoardType
<1>2. c \in Ctl /\ p \in Ctl  BY DEF Registers, Part
<1>3. /\ r.start = "no" /\ ~r.start_delay /\ ~r.hps_reset /\ r.enable_master = master
      /\ ~p.conv_finished /\ ~p.output
      /\ ~c.conv_finished => r.enable_time_sync_mode /\ ~r.conv_finished
      /\ Sane(c)
  BY DEF Running
<1>4. /\ q.start = "no" /\ ~q.start_delay /\ ~q.hps_reset /\ q.enable_master = master
      /\ q.conv_finished <=> r.master.conv_finished \/ r.slave.conv_finished
      /\ q.enable_time_sync_mode <=> r.enable_time_sync_mode /\ ~r.conv_finished
  BY <1>3 DEF Sync, Nothing, Written, Registers
<1>5. /\ Part(n, master) \in Control(r, q, c, master, input)
      /\ Part(n, ~master) \in Control(r, q, p, ~master, input)
  BY <1>1 DEF Part
<1>6. Part(n, ~master) = p
  BY <1>1, <1>2, <1>3, <1>4, <1>5, ControlStands
<1> HIDE DEF q, c, p
<1>7. Part(n, master) = Tick(c, input) \/ Part(n, master) = c
  BY <1>4, <1>5 DEF Control
<1>8. ~c.conv_finished => Part(n, master) = Tick(c, input)
  <2> SUFFICES ASSUME ~c.conv_finished PROVE Part(n, master) = Tick(c, input)  OBVIOUS
  <2>1. Clocked(r, q, master) = {TRUE}  BY <1>3 DEF Clocked
  <2> QED  BY <1>3, <1>4, <1>5, <2>1 DEF Control
<1>9. Sane(Part(n, master))  BY <1>2, <1>3, <1>7, TickSane
<1>10. c.conv_finished => Part(n, master).conv_finished  BY <1>2, <1>7, TickKeeps
<1>11. ~c.conv_finished => n.enable_time_sync_mode /\ ~n.conv_finished
  BY <1>1, <1>3, <1>4 DEF Part, c, p
<1>12. Running(n, master)
  BY <1>1, <1>3, <1>4, <1>6, <1>9, <1>10, <1>11 DEF Running
<1> QED  BY <1>1, <1>6, <1>7, <1>8, <1>12 DEF c, p

-----------------------------------------------------------------------------
(* Two boards in an exchange; m is the one that began it. *)

\* The PTP_ctl that takes part.
Own(m, b) == Part(board[b], b = m)

Pair(m) == \A b \in Board : Running(board[b], b = m)

\* The first pulse is not measured.
Measured(c) == c.conv_cnt >= 2 => c.travel_time_cnt \in Longest .. Longest + missed

\* start_ptp is written, and then taken.
Requested(r) ==
  /\ r.start = "master" /\ ~r.start_delay /\ ~r.hps_reset /\ ~r.enable_time_sync_mode

JustReset(r) ==
  /\ r.start = "no" /\ r.start_delay /\ r.hps_reset
  /\ r.enable_master /\ ~r.enable_time_sync_mode
  /\ r.master = CtlReset(FALSE) /\ r.slave = CtlReset(TRUE)

\* A slave that has heard nothing.
HeardNone(r) == Running(r, FALSE) /\ r.slave.conv_cnt = 0 /\ ~r.slave.output

Starting(m) ==
  Silent /\ (Requested(board[m]) \/ JustReset(board[m])) /\ HeardNone(board[Other(m)])

\* What board b has put on the air, the end nearest to it included.
Sent(b, i) == IF i = dist + 1 THEN Output(b) ELSE air[b][i]

\* x has sent the last pulse, a edges ago, and y the one before, z edges ago.
\* All of the last pulse that has not arrived is in the air; everything else
\* in the air arrives before the other end can hear it.
InAir(x, y, a, z) ==
  \A i \in 1 .. dist :
    /\ 0 <= a - (dist + 1 - i) /\ a - (dist + 1 - i) <= INIT_WAIT_DELAY + 1 => air[x][i]
    /\ air[x][i] => /\ a - (dist + 1 - i) <= INIT_WAIT_DELAY + 1
                    /\ z + i <= WAIT_DELAY + 1 \/ 0 <= a - (dist + 1 - i)
    /\ air[y][i] => /\ z - (dist + 1 - i) <= INIT_WAIT_DELAY + 1
                    /\ a + i <= WAIT_DELAY + 1

\* How often each end has heard the other.
Turns(m, x) ==
  /\ x = m => Own(m, m).conv_cnt = Own(m, Other(m)).conv_cnt + 1
  /\ x # m => /\ Own(m, m).conv_cnt = Own(m, Other(m)).conv_cnt
              /\ Own(m, Other(m)).conv_cnt > 0
  /\ Own(m, Other(x)).conv_cnt < CONV_CYCLES

\* How old the two pulses can be.
Ages(m, a, z) ==
  /\ -1 <= a /\ a <= INIT_WAIT_DELAY + 1 + dist /\ a + dist + 2 <= z
  /\ a <= Longest - dist - 2 + missed
  /\ IF Own(m, Other(m)).conv_cnt = 0 THEN WAIT_DELAY + dist + 1 <= z
     ELSE z - a <= Longest - dist + missed /\ z <= Longest + missed

Flying(m, x, a, z) ==
  /\ Pair(m) /\ \A b \in Board : Measured(Own(m, b))
  /\ CtlAt(Own(m, x), a) /\ CtlAt(Own(m, Other(x)), z)
  /\ Turns(m, x) /\ Ages(m, a, z) /\ InAir(x, Other(x), a, z)

\* A pulse was not heard at all.
Lost(m) ==
  Pair(m) /\ Silent /\ \A b \in Board : Alone(Own(m, b)) /\ Measured(Own(m, b))

\* All pulses are counted.
Over(m) ==
  Pair(m) /\ \A b \in Board : Own(m, b).conv_cnt = CONV_CYCLES /\ Measured(Own(m, b))

Exchange(m) ==
  /\ asked[m] = "master" /\ asked[Other(m)] # "master"
  /\ \/ Starting(m)
     \/ \E x \in Board, a, z \in Int : Flying(m, x, a, z)
     \/ Lost(m)
     \/ Over(m)

ExchangeInv ==
  /\ StartedInv
  /\ \A b \in Board : Sane(board[b].master) /\ Sane(board[b].slave)
  /\ orderly => \E m \in Board : Exchange(m)

LEMMA Two ==
  ASSUME NEW b \in Board
  PROVE  Other(b) \in Board /\ Other(b) # b /\ Other(Other(b)) = b
         /\ \A c \in Board : c = b \/ c = Other(b)
BY DEF Board, Other

LEMMA Span ==
  ASSUME TypeOK
  PROVE  /\ dist \in Nat /\ missed \in Nat /\ Longest \in Nat
         /\ 2 * dist + 2 <= Longest /\ WAIT_DELAY + 1 <= Longest
         /\ Longest = 2 * dist + 2 \/ Longest = WAIT_DELAY + 1
         /\ InReach => Longest + Misses <= MAX_WAIT_CYCLES
<1>1. dist \in Nat /\ missed \in Nat /\ dist \in Distances  BY AirAssumption DEF TypeOK
<1>2. Longest = Larger(2 * dist + 2, WAIT_DELAY + 1)  BY DEF Longest, RoundTrip
<1>3. Larger(2 * dist + 2, WAIT_DELAY + 1) \in Nat
      /\ 2 * dist + 2 <= Larger(2 * dist + 2, WAIT_DELAY + 1)
      /\ WAIT_DELAY + 1 <= Larger(2 * dist + 2, WAIT_DELAY + 1)
      /\ \/ Larger(2 * dist + 2, WAIT_DELAY + 1) = 2 * dist + 2
         \/ Larger(2 * dist + 2, WAIT_DELAY + 1) = WAIT_DELAY + 1
  BY <1>1, DelayAssumption DEF Larger
<1>4. InReach => Larger(2 * dist + 2, WAIT_DELAY + 1) + Misses <= MAX_WAIT_CYCLES
  BY <1>1 DEF InReach
<1> QED  BY <1>1, <1>2, <1>3, <1>4

\* An edge at which nothing is written.
LEMMA Quiet ==
  ASSUME TypeOK, TypeOK', NEW w \in Writing, NEW h \in Hearing, Edge(w, h), History(w, h),
         \A b \in Board : w[b] = Nothing, orderly, orderly'
  PROVE  /\ dist' = dist /\ Longest' = Longest /\ missed <= missed' /\ missed' \in 0 .. Misses
         /\ \A b \in Board :
              /\ board[b] \in Registers /\ h[b] \in BOOLEAN
              /\ board'[b] \in BoardNext(board[b], Nothing, h[b])
              /\ asked'[b] = asked[b]
              /\ \A i \in 1 .. dist : air'[b][i] = Sent(b, i + 1)
              /\ h[b] => Sent(Other(b), 1)
              /\ Sent(Other(b), 1) /\ ~h[b] => missed + 1 <= missed'
<1>1. dist' = dist /\ dist \in Nat  BY Span DEF Edge
<1>2. Longest' = Longest  BY <1>1 DEF Longest, RoundTrip
<1>3. Unheard(h) \in Nat  BY Counted DEF Unheard
<1>4. missed' = missed + Unheard(h) /\ missed' \in 0 .. Misses /\ missed \in Nat
  BY Span DEF History, TypeOK
<1>5. ASSUME NEW b \in Board
      PROVE  /\ board[b] \in Registers /\ h[b] \in BOOLEAN
             /\ board'[b] \in BoardNext(board[b], Nothing, h[b])
             /\ asked'[b] = asked[b]
  <2>1. w[b] = Nothing  OBVIOUS
  <2>2. asked'[b] = asked[b]  BY <2>1 DEF History, Asked
  <2> QED  BY <2>1, <2>2, Stepped
<1>6. ASSUME NEW b \in Board, NEW i \in 1 .. dist
      PROVE  air'[b][i] = Sent(b, i + 1)
  <2>1. air' = [c \in Board |->
                  [j \in 1 .. dist |-> IF j = dist THEN Output(c) ELSE air[c][j + 1]]]
    BY DEF Edge
  <2>2. air'[b][i] = IF i = dist THEN Output(b) ELSE air[b][i + 1]  BY <2>1
  <2>3. i + 1 = dist + 1 <=> i = dist  BY <1>1
  <2> QED  BY <2>2, <2>3 DEF Sent
<1>7. ASSUME NEW b \in Board
      PROVE  /\ Arriving(b) = Sent(Other(b), 1)
             /\ h[b] => Arriving(b)
             /\ Arriving(b) /\ ~h[b] => missed + 1 <= missed'
  <2>1. Arriving(b) = Sent(Other(b), 1)  BY <1>1 DEF Arriving, Sent
  <2>2. h[b] = Arriving(b) \/ (Arriving(b) /\ Listens(b))  BY DEF Hearing
  <2>3. Arriving(b) /\ ~h[b] => 1 <= Unheard(h)
    <3> DEFINE U == {c \in Board : Arriving(c) /\ ~h[c]}
    <3>1. SUFFICES ASSUME Arriving(b), ~h[b] PROVE Cardinality(U) # 0
      BY <1>3 DEF Unheard
    <3>2. b \in U  BY <3>1
    <3>3. IsFiniteSet(U)
      <4>1. IsFiniteSet({1})  BY FS_Singleton
      <4>2. IsFiniteSet({1} \cup {2})  BY <4>1, FS_AddElement
      <4>3. U \subseteq {1} \cup {2}  BY DEF Board
      <4> QED  BY <4>2, <4>3, FS_Subset
    <3> HIDE DEF U
    <3> QED  BY <3>2, <3>3, FS_EmptySet
  <2> HIDE DEF Arriving, Unheard
  <2> QED  BY <1>3, <1>4, <2>1, <2>2, <2>3
<1>8. missed <= missed'  BY <1>3, <1>4
<1> QED  BY <1>1, <1>2, <1>4, <1>5, <1>6, <1>7, <1>8

LEMMA PartType ==
  ASSUME NEW r \in Registers, NEW master \in BOOLEAN
  PROVE  Part(r, master) \in Ctl
BY DEF Part, Registers

\* A board that hears nothing, seen from the pulses.
LEMMA OlderStep ==
  ASSUME NEW r \in Registers, NEW master \in BOOLEAN, Running(r, master),
         NEW input \in BOOLEAN, NEW n \in BoardNext(r, Nothing, input),
         NEW a \in Int, a >= -1, CtlAt(Part(r, master), a),
         ~input \/ a <= WAIT_DELAY \/ Part(r, master).conv_cnt = CONV_CYCLES,
         Part(r, master).conv_cnt = 0 => a > WAIT_DELAY,
         0 < Part(r, master).conv_cnt /\ Part(r, master).conv_cnt < CONV_CYCLES
           => a + 1 <= MAX_WAIT_CYCLES
  PROVE  /\ Running(n, master) /\ CtlAt(Part(n, master), a + 1)
         /\ Part(n, master).conv_cnt = Part(r, master).conv_cnt
         /\ Part(n, master).travel_time_cnt = Part(r, master).travel_time_cnt
<1> DEFINE c == Part(r, master)
<1>1. c \in Ctl  BY PartType
<1>2. Running(n, master)  BY RunStep
<1>3. CASE Part(n, master) = Tick(c, input)
  <2> HIDE DEF c
  <2>1. /\ CtlAt(Tick(c, input), a + 1)
        /\ Tick(c, input).conv_cnt = c.conv_cnt
        /\ Tick(c, input).travel_time_cnt = c.travel_time_cnt
    BY <1>1, AgeStep DEF c
  <2> QED  BY <1>2, <1>3, <2>1 DEF c
<1>4. CASE c.conv_finished /\ Part(n, master) = c
  <2>1. c.conv_cnt = CONV_CYCLES /\ c.is_master  BY <1>4 DEF Running, Sane
  <2>2. a > WAIT_DELAY  BY <2>1 DEF CtlAt
  <2>3. CtlAt(c, a + 1)
    <3> HIDE DEF c
    <3>1. CtlAt(c, a)  BY DEF c
    <3> QED  BY <2>1, <2>2, <3>1, DelayAssumption, CyclesAssumption DEF CtlAt
  <2> QED  BY <1>2, <1>4, <2>3
<1> QED  BY <1>3, <1>4, RunStep

\* A board that hears a pulse.
LEMMA HeardStep ==
  ASSUME NEW r \in Registers, NEW master \in BOOLEAN, Running(r, master),
         NEW input \in BOOLEAN, input, NEW n \in BoardNext(r, Nothing, input),
         Part(r, master).is_master, Part(r, master).conv_cnt < CONV_CYCLES
  PROVE  /\ Running(n, master) /\ CtlAt(Part(n, master), -1)
         /\ Part(n, master).conv_cnt = Part(r, master).conv_cnt + 1
         /\ Part(r, master).first_impuls =>
              Part(n, master).travel_time_cnt = Part(r, master).delay_cnt
<1> DEFINE c == Part(r, master)
<1>1. c \in Ctl  BY PartType
<1>2. ~c.conv_finished  BY <1>1, CyclesAssumption, CtlParts DEF Running, Sane
<1>3. Running(n, master) /\ Part(n, master) = Tick(c, input)  BY <1>2, RunStep
<1> HIDE DEF c
<1>4. /\ CtlAt(Tick(c, input), -1)
      /\ Tick(c, input).conv_cnt = c.conv_cnt + 1
      /\ c.first_impuls => Tick(c, input).travel_time_cnt = c.delay_cnt
  BY <1>1, HearStep DEF c
<1> QED  BY <1>3, <1>4 DEF c

\* A slave that has heard nothing and hears nothing.
LEMMA FreshStep ==
  ASSUME NEW r \in Registers, HeardNone(r), NEW input \in BOOLEAN, ~input,
         NEW n \in BoardNext(r, Nothing, input)
  PROVE  HeardNone(n)
<1>1. r.slave \in Ctl /\ r.slave.conv_cnt = 0 /\ Running(r, FALSE) /\ Sane(r.slave)
      /\ Part(r, FALSE) = r.slave /\ Part(n, FALSE) = n.slave
  BY DEF HeardNone, Running, Part, Registers
<1>2. r.slave.is_master /\ ~r.slave.conv_finished  BY <1>1, CyclesAssumption DEF Sane
<1>3. Running(n, FALSE) /\ n.slave = Tick(r.slave, input)  BY <1>1, <1>2, RunStep
<1>4. Tick(r.slave, input) = Silence(r.slave)  BY <1>1, <1>2, TickCases, CyclesAssumption
<1> QED  BY <1>1, <1>3, <1>4, SilenceParts DEF HeardNone

\* A board that nobody answers.
LEMMA AloneBoard ==
  ASSUME NEW r \in Registers, NEW master \in BOOLEAN, Running(r, master),
         Alone(Part(r, master)), NEW input \in BOOLEAN, ~input,
         NEW n \in BoardNext(r, Nothing, input)
  PROVE  /\ Running(n, master) /\ Alone(Part(n, master))
         /\ Part(n, master).conv_cnt = Part(r, master).conv_cnt
         /\ Part(n, master).travel_time_cnt = Part(r, master).travel_time_cnt
<1>1. Part(r, master) \in Ctl  BY PartType
<1>2. /\ Running(n, master)
      /\ \/ Part(n, master) = Tick(Part(r, master), input)
         \/ Part(n, master) = Part(r, master)
  BY RunStep
<1> QED  BY <1>1, <1>2, AloneStep

LEMMA CountedBoard ==
  ASSUME NEW r \in Registers, NEW master \in BOOLEAN, Running(r, master),
         Part(r, master).conv_cnt = CONV_CYCLES, NEW input \in BOOLEAN,
         NEW n \in BoardNext(r, Nothing, input)
  PROVE  /\ Running(n, master)
         /\ Part(n, master).conv_cnt = Part(r, master).conv_cnt
         /\ Part(n, master).travel_time_cnt = Part(r, master).travel_time_cnt
<1>1. Part(r, master) \in Ctl  BY PartType
<1>2. /\ Running(n, master)
      /\ \/ Part(n, master) = Tick(Part(r, master), input)
         \/ Part(n, master) = Part(r, master)
  BY RunStep
<1> QED  BY <1>1, <1>2, CountedStep

\* start_ptp is taken: both PTP_ctl are reset, and the master may see the edge
\* at which the reset ends.
LEMMA RequestedStep ==
  ASSUME NEW r \in Registers, Requested(r), NEW input \in BOOLEAN,
         NEW n \in BoardNext(r, Nothing, input)
  PROVE  JustReset(n)
<1> DEFINE q == Sync(r, Nothing)
<1>1. /\ n.master \in Control(r, q, r.master, TRUE, input)
      /\ n.slave \in Control(r, q, r.slave, FALSE, input)
      /\ n.start = q.start /\ n.hps_reset = q.hps_reset /\ n.start_delay = q.start_delay
      /\ n.enable_master = q.enable_master /\ n.enable_time_sync_mode = q.enable_time_sync_mode
  <2>1. Nothing \in Writes \cup {Nothing}  OBVIOUS
  <2> QED  BY <2>1, BoardType
<1>2. /\ q.start = "no" /\ q.start_delay /\ q.hps_reset
      /\ q.enable_master /\ ~q.enable_time_sync_mode
  BY DEF Requested, Sync, Nothing, Written, Registers
<1> HIDE DEF q
<1>3. n.master = CtlReset(FALSE) /\ n.slave = CtlReset(TRUE)  BY <1>1, <1>2 DEF Control
<1> QED  BY <1>1, <1>2, <1>3 DEF JustReset

LEMMA ResetStep ==
  ASSUME NEW r \in Registers, JustReset(r), NEW input \in BOOLEAN,
         NEW n \in BoardNext(r, Nothing, input)
  PROVE  /\ Running(n, TRUE) /\ n.master.conv_cnt = 1
         /\ CtlAt(n.master, -1) \/ CtlAt(n.master, 0)
<1> DEFINE q == Sync(r, Nothing)
<1>1. /\ n.master \in Control(r, q, r.master, TRUE, input)
      /\ n.slave \in Control(r, q, r.slave, FALSE, input)
      /\ n.start = q.start /\ n.hps_reset = q.hps_reset /\ n.start_delay = q.start_delay
      /\ n.enable_master = q.enable_master /\ n.enable_time_sync_mode = q.enable_time_sync_mode
      /\ n.conv_finished = q.conv_finished
  <2>1. Nothing \in Writes \cup {Nothing}  OBVIOUS
  <2> QED  BY <2>1, BoardType
<1>2. ~r.master.conv_finished /\ ~r.slave.conv_finished  BY DEF JustReset, CtlReset
<1>3. /\ q.start = "no" /\ ~q.start_delay /\ ~q.hps_reset
      /\ q.enable_master = TRUE /\ q.enable_time_sync_mode /\ ~q.conv_finished
  BY <1>2 DEF JustReset, Sync, Nothing, Written, Registers
<1>4. r.hps_reset /\ r.enable_master = TRUE /\ ~r.enable_time_sync_mode
  BY DEF JustReset, Registers
<1> HIDE DEF q
<1>5. Clocked(r, q, FALSE) = {FALSE}  BY <1>3, <1>4 DEF Clocked
<1>6. n.slave = CtlReset(TRUE)  BY <1>1, <1>3, <1>5 DEF Control, JustReset
<1>7. n.master = CtlReset(FALSE) \/ n.master = Tick(CtlReset(FALSE), input)
  BY <1>1, <1>3 DEF Control, JustReset
<1>8. CtlReset(FALSE) \in Ctl  BY ResetType
<1>9. /\ CtlAt(CtlReset(FALSE), -1) /\ CtlReset(FALSE).conv_cnt = 1
      /\ Sane(CtlReset(FALSE))
  BY DelayAssumption, CyclesAssumption DEF CtlAt, CtlReset, Sane
<1>10. /\ CtlAt(Tick(CtlReset(FALSE), input), 0)
       /\ Tick(CtlReset(FALSE), input).conv_cnt = 1
       /\ Sane(Tick(CtlReset(FALSE), input))
  <2> DEFINE c == CtlReset(FALSE)
  <2>1. c \in Ctl /\ CtlAt(c, -1) /\ c.conv_cnt = 1 /\ Sane(c)  BY <1>8, <1>9
  <2> HIDE DEF c
  <2>2. CtlAt(Tick(c, input), -1 + 1) /\ Tick(c, input).conv_cnt = 1
    BY <2>1, AgeStep, DelayAssumption, CyclesAssumption
  <2>3. -1 + 1 = 0  OBVIOUS
  <2>4. Sane(Tick(c, input))  BY <2>1, TickSane
  <2> QED  BY <2>2, <2>3, <2>4 DEF c
<1>11. Sane(n.master) /\ n.master.conv_cnt = 1 /\ (CtlAt(n.master, -1) \/ CtlAt(n.master, 0))
  BY <1>7, <1>9, <1>10
<1>12. ~n.slave.conv_finished /\ ~n.slave.output  BY <1>6 DEF CtlReset
<1>13. Part(n, TRUE) = n.master /\ Part(n, ~TRUE) = n.slave  BY DEF Part
<1>14. Running(n, TRUE)  BY <1>1, <1>3, <1>11, <1>12, <1>13, Zenon DEF Running
<1> QED  BY <1>11, <1>14

\* The same for the board's own PTP_ctl.
LEMMA OlderOwn ==
  ASSUME NEW m \in Board, NEW b \in Board, board[b] \in Registers, Running(board[b], b = m),
         NEW input \in BOOLEAN, board'[b] \in BoardNext(board[b], Nothing, input),
         NEW a \in Int, a >= -1, CtlAt(Own(m, b), a),
         ~input \/ a <= WAIT_DELAY,
         Own(m, b).conv_cnt = 0 => a > WAIT_DELAY,
         0 < Own(m, b).conv_cnt => a + 1 <= MAX_WAIT_CYCLES
  PROVE  /\ Running(board'[b], b = m) /\ CtlAt(Own(m, b)', a + 1)
         /\ Own(m, b)'.conv_cnt = Own(m, b).conv_cnt
         /\ Own(m, b)'.travel_time_cnt = Own(m, b).travel_time_cnt
<1> DEFINE master == b = m
           r == board[b]
           n == board'[b]
<1>1. Own(m, b) = Part(r, master) /\ Own(m, b)' = Part(n, master)  BY DEF Own
<1>2. /\ r \in Registers /\ master \in BOOLEAN /\ Running(r, master)
      /\ n \in BoardNext(r, Nothing, input)
  OBVIOUS
<1> HIDE DEF master, r, n
<1>3. /\ CtlAt(Part(r, master), a)
      /\ Part(r, master).conv_cnt = 0 => a > WAIT_DELAY
      /\ 0 < Part(r, master).conv_cnt => a + 1 <= MAX_WAIT_CYCLES
  BY <1>1
<1>4. /\ Running(n, master) /\ CtlAt(Part(n, master), a + 1)
      /\ Part(n, master).conv_cnt = Part(r, master).conv_cnt
      /\ Part(n, master).travel_time_cnt = Part(r, master).travel_time_cnt
  BY <1>2, <1>3, OlderStep
<1> QED  BY <1>1, <1>4 DEF master, n

\* d is c when it has heard a pulse.
HasHeard(c, d) ==
  /\ CtlAt(d, -1) /\ d.conv_cnt = c.conv_cnt + 1
  /\ c.first_impuls => d.travel_time_cnt = c.delay_cnt

LEMMA HeardOwn ==
  ASSUME NEW m \in Board, NEW b \in Board, board[b] \in Registers, Running(board[b], b = m),
         NEW input \in BOOLEAN, input, board'[b] \in BoardNext(board[b], Nothing, input),
         Own(m, b).is_master, Own(m, b).conv_cnt < CONV_CYCLES
  PROVE  Running(board'[b], b = m) /\ HasHeard(Own(m, b), Own(m, b)')
<1> DEFINE master == b = m
           r == board[b]
           n == board'[b]
<1>1. Own(m, b) = Part(r, master) /\ Own(m, b)' = Part(n, master)  BY DEF Own
<1>2. /\ r \in Registers /\ master \in BOOLEAN /\ Running(r, master)
      /\ n \in BoardNext(r, Nothing, input)
  OBVIOUS
<1> HIDE DEF master, r, n
<1>3. Part(r, master).is_master /\ Part(r, master).conv_cnt < CONV_CYCLES  BY <1>1
<1>4. /\ Running(n, master) /\ CtlAt(Part(n, master), -1)
      /\ Part(n, master).conv_cnt = Part(r, master).conv_cnt + 1
      /\ Part(r, master).first_impuls =>
           Part(n, master).travel_time_cnt = Part(r, master).delay_cnt
  BY <1>2, <1>3, HeardStep
<1>5. HasHeard(Part(r, master), Part(n, master))  BY <1>4, Zenon DEF HasHeard
<1> QED  BY <1>1, <1>4, <1>5 DEF master, n

LEMMA AloneOwn ==
  ASSUME NEW m \in Board, NEW b \in Board, board[b] \in Registers, Running(board[b], b = m),
         NEW input \in BOOLEAN, ~input, board'[b] \in BoardNext(board[b], Nothing, input),
         Alone(Own(m, b))
  PROVE  /\ Running(board'[b], b = m) /\ Alone(Own(m, b)')
         /\ Own(m, b)'.conv_cnt = Own(m, b).conv_cnt
         /\ Own(m, b)'.travel_time_cnt = Own(m, b).travel_time_cnt
<1> DEFINE master == b = m
           r == board[b]
           n == board'[b]
<1>1. Own(m, b) = Part(r, master) /\ Own(m, b)' = Part(n, master)  BY DEF Own
<1>2. /\ r \in Registers /\ master \in BOOLEAN /\ Running(r, master)
      /\ n \in BoardNext(r, Nothing, input)
  OBVIOUS
<1> HIDE DEF master, r, n
<1>3. Alone(Part(r, master))  BY <1>1
<1>4. /\ Running(n, master) /\ Alone(Part(n, master))
      /\ Part(n, master).conv_cnt = Part(r, master).conv_cnt
      /\ Part(n, master).travel_time_cnt = Part(r, master).travel_time_cnt
  BY <1>2, <1>3, AloneBoard
<1> QED  BY <1>1, <1>4 DEF master, n

LEMMA CountedOwn ==
  ASSUME NEW m \in Board, NEW b \in Board, board[b] \in Registers, Running(board[b], b = m),
         NEW input \in BOOLEAN, board'[b] \in BoardNext(board[b], Nothing, input),
         Own(m, b).conv_cnt = CONV_CYCLES
  PROVE  /\ Running(board'[b], b = m)
         /\ Own(m, b)'.conv_cnt = Own(m, b).conv_cnt
         /\ Own(m, b)'.travel_time_cnt = Own(m, b).travel_time_cnt
<1> DEFINE master == b = m
           r == board[b]
           n == board'[b]
<1>1. Own(m, b) = Part(r, master) /\ Own(m, b)' = Part(n, master)  BY DEF Own
<1>2. /\ r \in Registers /\ master \in BOOLEAN /\ Running(r, master)
      /\ n \in BoardNext(r, Nothing, input)
  OBVIOUS
<1> HIDE DEF master, r, n
<1>3. Part(r, master).conv_cnt = CONV_CYCLES  BY <1>1
<1>4. /\ Running(n, master)
      /\ Part(n, master).conv_cnt = Part(r, master).conv_cnt
      /\ Part(n, master).travel_time_cnt = Part(r, master).travel_time_cnt
  BY <1>2, <1>3, CountedBoard
<1> QED  BY <1>1, <1>4 DEF master, n

\* In an exchange a board sends what its own PTP_ctl sends.
LEMMA PairSends ==
  ASSUME NEW m \in Board, Pair(m), NEW b \in Board
  PROVE  Output(b) <=> Own(m, b).output
<1>1. ~Part(board[b], ~(b = m)).output  BY DEF Pair, Running
<1> QED  BY <1>1 DEF Output, Own, Part

\* InAir, up to the ends that send.
LEMMA Reach ==
  ASSUME TypeOK, NEW m \in Board, NEW x \in Board, NEW a \in Int, NEW z \in Int,
         Flying(m, x, a, z), NEW i \in 1 .. dist + 1
  PROVE  /\ 0 <= a - (dist + 1 - i) /\ a - (dist + 1 - i) <= INIT_WAIT_DELAY + 1 => Sent(x, i)
         /\ Sent(x, i) => /\ a - (dist + 1 - i) <= INIT_WAIT_DELAY + 1
                          /\ z + i <= WAIT_DELAY + 1 \/ 0 <= a - (dist + 1 - i)
         /\ Sent(Other(x), i) => /\ z - (dist + 1 - i) <= INIT_WAIT_DELAY + 1
                                 /\ a + i <= WAIT_DELAY + 1
<1>1. dist \in Nat  BY Span
<1>2. CASE i = dist + 1
  <2>1. Sent(x, i) <=> 0 <= a /\ a <= INIT_WAIT_DELAY + 1
    BY <1>2, PairSends DEF Flying, CtlAt, Sent
  <2>2. Sent(Other(x), i) <=> 0 <= z /\ z <= INIT_WAIT_DELAY + 1
    <3>1. Other(x) \in Board  BY Two
    <3> QED  BY <1>2, <3>1, PairSends DEF Flying, CtlAt, Sent
  <2>3. a + dist + 2 <= z  BY DEF Flying, Ages
  <2> QED  BY <1>1, <1>2, <2>1, <2>2, <2>3, DelayAssumption
<1>3. CASE i \in 1 .. dist
  <2>1. i # dist + 1  BY <1>1, <1>3
  <2> QED  BY <1>3, <2>1 DEF Sent, Flying, InAir
<1> QED  BY <1>1, <1>2, <1>3

\* Who can hear what: the sender of the last pulse is deaf to what arrives,
\* the other end hears the pulse when it is there and no longer deaf.
LEMMA Hears ==
  ASSUME TypeOK, NEW m \in Board, NEW x \in Board, NEW a \in Int, NEW z \in Int,
         Flying(m, x, a, z)
  PROVE  /\ Sent(Other(x), 1) => a <= WAIT_DELAY
         /\ Sent(x, 1) => z <= WAIT_DELAY \/ dist <= a
         /\ ~Sent(x, 1) => a < dist
<1>1. dist \in Nat  BY Span
<1>2. 1 \in 1 .. dist + 1  BY <1>1
<1>3. a <= INIT_WAIT_DELAY + 1 + dist  BY DEF Flying, Ages
<1>4. /\ 0 <= a - (dist + 1 - 1) /\ a - (dist + 1 - 1) <= INIT_WAIT_DELAY + 1 => Sent(x, 1)
      /\ Sent(x, 1) => z + 1 <= WAIT_DELAY + 1 \/ 0 <= a - (dist + 1 - 1)
      /\ Sent(Other(x), 1) => a + 1 <= WAIT_DELAY + 1
  BY <1>2, Reach
<1> QED  BY <1>1, <1>3, <1>4, DelayAssumption

\* What the counts of both ends say of each other.
LEMMA Counts ==
  ASSUME TypeOK, NEW m \in Board, NEW x \in Board, Turns(m, x)
  PROVE  /\ \A b \in Board : Own(m, b).conv_cnt \in 0 .. CONV_CYCLES
         /\ Own(m, x).conv_cnt > 0
         /\ Own(m, Other(x)).conv_cnt = 0 => x = m
<1>1. \A b \in Board : board[b] \in Registers  BY DEF TypeOK
<1>2. \A b \in Board : Own(m, b).conv_cnt \in 0 .. CONV_CYCLES
  BY <1>1, PartType, CtlParts DEF Own
<1>3. Other(m) \in Board /\ (x = m \/ x = Other(m)) /\ Other(Other(m)) = m  BY Two
<1>4. CASE x = m  BY <1>2, <1>3, <1>4, CyclesAssumption DEF Turns
<1>5. CASE x = Other(m) /\ x # m  BY <1>2, <1>3, <1>5, CyclesAssumption DEF Turns
<1> QED  BY <1>2, <1>3, <1>4, <1>5

\* An edge at which no pulse is heard: both are an edge older.
LEMMA OlderAges ==
  ASSUME TypeOK, InReach, NEW m \in Board, NEW x \in Board, NEW a \in Int, NEW z \in Int,
         Flying(m, x, a, z), NEW t \in 0 .. Misses, missed <= t,
         z <= WAIT_DELAY \/ a < dist \/ missed + 1 <= t
  PROVE  /\ a + 1 <= Longest - dist - 2 + t /\ a + 1 <= MAX_WAIT_CYCLES
         /\ Own(m, Other(m)).conv_cnt # 0 =>
              /\ z + 1 <= Longest + t /\ z + 1 <= MAX_WAIT_CYCLES
              /\ z + 1 - (a + 1) <= Longest - dist + t
<1>1. /\ dist \in Nat /\ missed \in Nat /\ Longest \in Nat
      /\ 2 * dist + 2 <= Longest /\ WAIT_DELAY + 1 <= Longest
      /\ Longest + Misses <= MAX_WAIT_CYCLES
  BY Span
<1>2. /\ a + dist + 2 <= z /\ a <= Longest - dist - 2 + missed
      /\ Own(m, Other(m)).conv_cnt # 0 => z - a <= Longest - dist + missed /\ z <= Longest + missed
  BY DEF Flying, Ages
<1>3. a + 1 <= Longest - dist - 2 + t
  BY <1>1, <1>2, DelayAssumption, AirAssumption
<1>4. Own(m, Other(m)).conv_cnt # 0 => z + 1 <= Longest + t
  BY <1>1, <1>2, DelayAssumption, AirAssumption
<1>5. t \in Nat /\ t <= Misses  BY AirAssumption
<1>6. a + 1 <= MAX_WAIT_CYCLES  BY <1>1, <1>3, <1>5, AirAssumption, DelayAssumption
<1>7. Own(m, Other(m)).conv_cnt # 0 => z + 1 <= MAX_WAIT_CYCLES
  BY <1>1, <1>4, <1>5, AirAssumption, DelayAssumption
<1>8. Own(m, Other(m)).conv_cnt # 0 => z + 1 - (a + 1) <= Longest - dist + t
  BY <1>1, <1>2, <1>5
<1> QED  BY <1>3, <1>4, <1>6, <1>7, <1>8

\* What an edge leaves of the air: everything is one edge nearer.
LEMMA AirOlder ==
  ASSUME TypeOK, NEW m \in Board, NEW x \in Board, NEW y \in Board, y = Other(x),
         NEW a \in Int, NEW z \in Int,
         Flying(m, x, a, z), dist' = dist,
         \A b \in Board : \A i \in 1 .. dist : air'[b][i] = Sent(b, i + 1)
  PROVE  InAir(x, y, a + 1, z + 1)'
<1>1. dist \in Nat  BY Span
<1>2. ASSUME NEW i \in 1 .. dist
      PROVE  /\ 0 <= a + 1 - (dist + 1 - i) /\ a + 1 - (dist + 1 - i) <= INIT_WAIT_DELAY + 1
                   => air'[x][i]
             /\ air'[x][i] => /\ a + 1 - (dist + 1 - i) <= INIT_WAIT_DELAY + 1
                              /\ z + 1 + i <= WAIT_DELAY + 1 \/ 0 <= a + 1 - (dist + 1 - i)
             /\ air'[y][i] => /\ z + 1 - (dist + 1 - i) <= INIT_WAIT_DELAY + 1
                                     /\ a + 1 + i <= WAIT_DELAY + 1
  <2> DEFINE j == i + 1
  <2>1. j \in 1 .. dist + 1  BY <1>1
  <2>2. air'[x][i] = Sent(x, j) /\ air'[y][i] = Sent(y, j)
    OBVIOUS
  <2>3. i \in Int /\ j \in Int /\ j = i + 1  BY <1>1
  <2> HIDE DEF j
  <2>4. /\ 0 <= a - (dist + 1 - j) /\ a - (dist + 1 - j) <= INIT_WAIT_DELAY + 1 => Sent(x, j)
        /\ Sent(x, j) => /\ a - (dist + 1 - j) <= INIT_WAIT_DELAY + 1
                         /\ z + j <= WAIT_DELAY + 1 \/ 0 <= a - (dist + 1 - j)
        /\ Sent(y, j) => /\ z - (dist + 1 - j) <= INIT_WAIT_DELAY + 1
                                /\ a + j <= WAIT_DELAY + 1
    BY <2>1, Reach
  <2>5. /\ a + 1 - (dist + 1 - i) = a - (dist + 1 - j)
        /\ z + 1 - (dist + 1 - i) = z - (dist + 1 - j)
        /\ z + 1 + i = z + j /\ a + 1 + i = a + j
    BY <1>1, <2>3
  <2> QED  BY <2>2, <2>4, <2>5
<1> QED  BY <1>1, <1>2, DelayAssumption DEF InAir

\* The same when the other end has heard the pulse, and sends next.
LEMMA AirHeard ==
  ASSUME TypeOK, NEW m \in Board, NEW x \in Board, NEW y \in Board, y = Other(x),
         NEW a \in Int, NEW z \in Int,
         Flying(m, x, a, z), dist' = dist, dist <= a,
         \A b \in Board : \A i \in 1 .. dist : air'[b][i] = Sent(b, i + 1)
  PROVE  InAir(y, x, -1, a + 1)'
<1>1. dist \in Nat  BY Span
<1>2. ASSUME NEW i \in 1 .. dist
      PROVE  /\ ~(0 <= -1 - (dist + 1 - i))
             /\ -1 - (dist + 1 - i) <= INIT_WAIT_DELAY + 1
             /\ air'[y][i] => a + 1 + i <= WAIT_DELAY + 1
             /\ air'[x][i] => /\ a + 1 - (dist + 1 - i) <= INIT_WAIT_DELAY + 1
                              /\ -1 + i <= WAIT_DELAY + 1
  <2> DEFINE j == i + 1
  <2>1. j \in 1 .. dist + 1  BY <1>1
  <2>2. air'[x][i] = Sent(x, j) /\ air'[y][i] = Sent(y, j)
    OBVIOUS
  <2>3. i \in Int /\ j \in Int /\ j = i + 1 /\ i <= dist  BY <1>1
  <2> HIDE DEF j
  <2>4. /\ Sent(x, j) => a - (dist + 1 - j) <= INIT_WAIT_DELAY + 1
        /\ Sent(y, j) => a + j <= WAIT_DELAY + 1
    BY <2>1, Reach
  <2>5. /\ a + 1 - (dist + 1 - i) = a - (dist + 1 - j) /\ a + 1 + i = a + j
        /\ a - (dist + 1 - j) <= INIT_WAIT_DELAY + 1 => -1 + i <= WAIT_DELAY + 1
    BY <1>1, <2>3, DelayAssumption
  <2> QED  BY <1>1, <2>2, <2>3, <2>4, <2>5, DelayAssumption
<1> QED  BY <1>1, <1>2, DelayAssumption DEF InAir

LEMMA FlyingOlder ==
  ASSUME TypeOK, TypeOK', NEW w \in Writing, NEW h \in Hearing, Edge(w, h), History(w, h),
         \A b \in Board : w[b] = Nothing, orderly, orderly', InReach,
         NEW m \in Board, NEW x \in Board, NEW y \in Board, y = Other(x),
         NEW a \in Int, NEW z \in Int, Flying(m, x, a, z),
         ~(h[y] /\ z > WAIT_DELAY)
  PROVE  Flying(m, x, a + 1, z + 1)' \/ Lost(m)'
<1>1. /\ dist' = dist /\ Longest' = Longest /\ missed <= missed' /\ missed' \in 0 .. Misses
      /\ \A b \in Board :
           /\ board[b] \in Registers /\ h[b] \in BOOLEAN
           /\ board'[b] \in BoardNext(board[b], Nothing, h[b])
           /\ \A i \in 1 .. dist : air'[b][i] = Sent(b, i + 1)
           /\ h[b] => Sent(Other(b), 1)
           /\ Sent(Other(b), 1) /\ ~h[b] => missed + 1 <= missed'
  BY Quiet
<1>2. Other(y) = x /\ x # y /\ \A b \in Board : b = x \/ b = y
  BY Two
<1>3. Other(m) \in Board /\ Other(m) # m /\ \A b \in Board : b = m \/ b = Other(m)
  BY Two
<1>4. /\ dist \in Nat /\ missed \in Nat /\ Longest \in Nat /\ missed' \in Nat
  BY <1>1, Span, AirAssumption
<1>5. /\ h[x] => a <= WAIT_DELAY
      /\ h[y] => z <= WAIT_DELAY
      /\ z <= WAIT_DELAY \/ a < dist \/ missed + 1 <= missed'
  <2>1. /\ Sent(y, 1) => a <= WAIT_DELAY
        /\ ~Sent(x, 1) => a < dist
    BY Hears
  <2>2. h[y] => z <= WAIT_DELAY  BY DelayAssumption
  <2>3. Sent(x, 1) /\ ~h[y] => missed + 1 <= missed'  BY <1>1, <1>2
  <2>4. h[x] => Sent(y, 1)  BY <1>1
  <2> QED  BY <2>1, <2>2, <2>3, <2>4
<1>6. /\ a + 1 <= Longest - dist - 2 + missed' /\ a + 1 <= MAX_WAIT_CYCLES
      /\ Own(m, Other(m)).conv_cnt # 0 =>
           /\ z + 1 <= Longest + missed' /\ z + 1 <= MAX_WAIT_CYCLES
           /\ z + 1 - (a + 1) <= Longest - dist + missed'
  BY <1>1, <1>5, OlderAges
<1>7. /\ Pair(m) /\ \A b \in Board : Measured(Own(m, b))
      /\ CtlAt(Own(m, x), a) /\ CtlAt(Own(m, y), z)
      /\ Turns(m, x) /\ Ages(m, a, z)
  BY DEF Flying
<1>8. /\ \A b \in Board : Own(m, b).conv_cnt \in 0 .. CONV_CYCLES
      /\ Own(m, x).conv_cnt > 0
      /\ Own(m, y).conv_cnt = 0 => x = m
  BY <1>7, Counts
<1>9. /\ Running(board'[x], x = m) /\ CtlAt(Own(m, x)', a + 1)
      /\ Own(m, x)'.conv_cnt = Own(m, x).conv_cnt
      /\ Own(m, x)'.travel_time_cnt = Own(m, x).travel_time_cnt
  <2>1. -1 <= a  BY <1>7 DEF Ages
  <2>2. ~h[x] \/ a <= WAIT_DELAY  BY <1>5
  <2>3. board[x] \in Registers /\ Running(board[x], x = m)  BY <1>1, <1>7 DEF Pair
  <2>4. board'[x] \in BoardNext(board[x], Nothing, h[x]) /\ h[x] \in BOOLEAN  BY <1>1
  <2> QED  BY <1>6, <1>7, <1>8, <2>1, <2>2, <2>3, <2>4, OlderOwn
<1>10. /\ Running(board'[y], y = m) /\ CtlAt(Own(m, y)', z + 1)
       /\ Own(m, y)'.conv_cnt = Own(m, y).conv_cnt
       /\ Own(m, y)'.travel_time_cnt = Own(m, y).travel_time_cnt
  <2>1. -1 <= z  BY <1>4, <1>7 DEF Ages
  <2>2. ~h[y] \/ z <= WAIT_DELAY  BY <1>5
  <2>3. board[y] \in Registers /\ Running(board[y], y = m)  BY <1>1, <1>7 DEF Pair
  <2>4. board'[y] \in BoardNext(board[y], Nothing, h[y]) /\ h[y] \in BOOLEAN  BY <1>1
  <2>5. Own(m, y).conv_cnt = 0 => z > WAIT_DELAY
    BY <1>2, <1>3, <1>4, <1>7, <1>8, DelayAssumption DEF Ages
  <2>6. 0 < Own(m, y).conv_cnt => Own(m, Other(m)).conv_cnt # 0
    BY <1>2, <1>3, <1>7, <1>8 DEF Turns
  <2> QED  BY <1>6, <1>7, <2>1, <2>2, <2>3, <2>4, <2>5, <2>6, OlderOwn
<1>11. \A b \in Board : /\ Own(m, b)'.conv_cnt = Own(m, b).conv_cnt
                        /\ Own(m, b)'.travel_time_cnt = Own(m, b).travel_time_cnt
  BY <1>2, <1>9, <1>10
<1>12. Pair(m)'  BY <1>2, <1>9, <1>10 DEF Pair
<1>13. ASSUME NEW b \in Board PROVE Measured(Own(m, b))'
  <2>1. Measured(Own(m, b))  BY <1>7
  <2>2. Own(m, b)'.conv_cnt = Own(m, b).conv_cnt
        /\ Own(m, b)'.travel_time_cnt = Own(m, b).travel_time_cnt
    BY <1>11
  <2> QED  BY <1>1, <1>4, <2>1, <2>2 DEF Measured
<1>14. CASE a < INIT_WAIT_DELAY + 1 + dist
  <2>1. Turns(m, x)'  BY <1>3, <1>7, <1>11, Two DEF Turns
  <2>2. Ages(m, a + 1, z + 1)'
    <3>1. Own(m, Other(m))'.conv_cnt = Own(m, Other(m)).conv_cnt  BY <1>3, <1>11
    <3>2. /\ -1 <= a /\ a + dist + 2 <= z
          /\ IF Own(m, Other(m)).conv_cnt = 0 THEN WAIT_DELAY + dist + 1 <= z
             ELSE z - a <= Longest - dist + missed
      BY <1>7 DEF Ages
    <3>3. /\ -1 <= a + 1 /\ a + 1 <= INIT_WAIT_DELAY + 1 + dist /\ a + 1 + dist + 2 <= z + 1
          /\ a + 1 <= Longest - dist - 2 + missed'
          /\ IF Own(m, Other(m)).conv_cnt = 0 THEN WAIT_DELAY + dist + 1 <= z + 1
             ELSE z + 1 - (a + 1) <= Longest - dist + missed' /\ z + 1 <= Longest + missed'
      <4>1. -1 <= a + 1 /\ a + 1 <= INIT_WAIT_DELAY + 1 + dist /\ a + 1 + dist + 2 <= z + 1
        BY <1>4, <1>14, <3>2, DelayAssumption
      <4>2. CASE Own(m, Other(m)).conv_cnt = 0
        <5>1. WAIT_DELAY + dist + 1 <= z + 1  BY <1>4, <3>2, <4>2, DelayAssumption
        <5> QED  BY <1>6, <4>1, <4>2, <5>1
      <4>3. CASE Own(m, Other(m)).conv_cnt # 0
        BY <1>6, <4>1, <4>3
      <4> QED  BY <4>2, <4>3
    <3> QED  BY <1>1, <3>1, <3>3 DEF Ages
  <2>3. InAir(x, y, a + 1, z + 1)'  BY <1>1, AirOlder
  <2> QED  BY <1>9, <1>10, <1>12, <1>13, <2>1, <2>2, <2>3 DEF Flying
<1>15. CASE a = INIT_WAIT_DELAY + 1 + dist
  <2>1. a + dist + 2 <= z  BY <1>7 DEF Ages
  <2>2. Alone(Own(m, x)')
    BY <1>4, <1>8, <1>9, <1>15, DelayAssumption DEF Alone, CtlAt
  <2>3. Alone(Own(m, y)')
    <3>1. Own(m, y)'.conv_cnt = 0 => z > WAIT_DELAY
      <4>1. Own(m, y).conv_cnt = 0 => Own(m, Other(m)).conv_cnt = 0  BY <1>8
      <4> QED  BY <1>4, <1>7, <1>10, <4>1, DelayAssumption DEF Ages
    <3> QED  BY <1>4, <1>8, <1>10, <1>15, <2>1, <3>1, DelayAssumption DEF Alone, CtlAt
  <2>4. \A b \in Board : Alone(Own(m, b)')  BY <1>2, <2>2, <2>3
  <2>5. ASSUME NEW b \in Board PROVE ~Output(b)'
    <3>1. ~Own(m, b)'.output  BY <2>4 DEF Alone
    <3>2. ~Part(board'[b], ~(b = m)).output  BY <1>12 DEF Pair, Running
    <3> QED  BY <3>1, <3>2 DEF Output, Own, Part
  <2>6. \A b \in Board : \A i \in 1 .. dist : ~air'[b][i]
    <3>1. InAir(x, y, a + 1, z + 1)'  BY <1>1, AirOlder
    <3>2. ASSUME NEW i \in 1 .. dist PROVE ~air'[x][i] /\ ~air'[y][i]
      <4>1. /\ air'[x][i] => a + 1 - (dist + 1 - i) <= INIT_WAIT_DELAY + 1
            /\ air'[y][i] => z + 1 - (dist + 1 - i) <= INIT_WAIT_DELAY + 1
        BY <1>1, <1>4, <3>1, DelayAssumption DEF InAir
      <4> QED  BY <1>4, <1>15, <2>1, <4>1, DelayAssumption
    <3> QED  BY <1>2, <3>2
  <2>7. Silent'  BY <1>1, <2>5, <2>6 DEF Silent
  <2> QED  BY <1>12, <1>13, <2>4, <2>7 DEF Lost
<1>16. a < INIT_WAIT_DELAY + 1 + dist \/ a = INIT_WAIT_DELAY + 1 + dist
  BY <1>4, <1>7, DelayAssumption DEF Ages
<1> QED  BY <1>14, <1>15, <1>16

\* An edge at which the pulse is heard: the other end sends next.
LEMMA HeardAges ==
  ASSUME TypeOK, InReach, NEW m \in Board, NEW x \in Board, NEW a \in Int, NEW z \in Int,
         Flying(m, x, a, z), NEW t \in 0 .. Misses, missed <= t, dist <= a
  PROVE  /\ -1 <= INIT_WAIT_DELAY + 1 + dist /\ -1 + dist + 2 <= a + 1
         /\ -1 <= Longest - dist - 2 + t /\ a + 1 - -1 <= Longest - dist + t
         /\ a + 1 <= Longest + t /\ a + 1 <= MAX_WAIT_CYCLES
         /\ Own(m, Other(m)).conv_cnt # 0 /\ z > WAIT_DELAY => z \in Longest .. Longest + t
<1>1. /\ dist \in Nat /\ missed \in Nat /\ Longest \in Nat
      /\ 2 * dist + 2 <= Longest /\ WAIT_DELAY + 1 <= Longest
      /\ Longest = 2 * dist + 2 \/ Longest = WAIT_DELAY + 1
      /\ Longest + Misses <= MAX_WAIT_CYCLES
  BY Span
<1>2. /\ a + dist + 2 <= z /\ a <= Longest - dist - 2 + missed
      /\ Own(m, Other(m)).conv_cnt # 0 => z <= Longest + missed
  BY DEF Flying, Ages
<1>3. t \in Nat /\ t <= Misses  BY AirAssumption
<1>4. /\ -1 <= INIT_WAIT_DELAY + 1 + dist /\ -1 + dist + 2 <= a + 1
      /\ -1 <= Longest - dist - 2 + t
  BY <1>1, <1>3, DelayAssumption
<1>5. a + 1 - -1 <= Longest - dist + t /\ a + 1 <= Longest + t
  BY <1>1, <1>2, <1>3
<1>6. a + 1 <= MAX_WAIT_CYCLES  BY <1>1, <1>3, <1>5, DelayAssumption, AirAssumption
<1>7. ASSUME Own(m, Other(m)).conv_cnt # 0, z > WAIT_DELAY PROVE z \in Longest .. Longest + t
  BY <1>1, <1>2, <1>3, <1>7, DelayAssumption
<1> QED  BY <1>4, <1>5, <1>6, <1>7

LEMMA FlyingHeard ==
  ASSUME TypeOK, TypeOK', NEW w \in Writing, NEW h \in Hearing, Edge(w, h), History(w, h),
         \A b \in Board : w[b] = Nothing, orderly, orderly', InReach,
         NEW m \in Board, NEW x \in Board, NEW y \in Board, y = Other(x),
         NEW a \in Int, NEW z \in Int, Flying(m, x, a, z),
         h[y] /\ z > WAIT_DELAY
  PROVE  Flying(m, y, -1, a + 1)' \/ Over(m)'
<1>1. /\ dist' = dist /\ Longest' = Longest /\ missed <= missed' /\ missed' \in 0 .. Misses
      /\ \A b \in Board :
           /\ board[b] \in Registers /\ h[b] \in BOOLEAN
           /\ board'[b] \in BoardNext(board[b], Nothing, h[b])
           /\ \A i \in 1 .. dist : air'[b][i] = Sent(b, i + 1)
           /\ h[b] => Sent(Other(b), 1)
  BY Quiet
<1>2. Other(y) = x /\ x # y /\ \A b \in Board : b = x \/ b = y
  BY Two
<1>3. Other(m) \in Board /\ Other(m) # m /\ \A b \in Board : b = m \/ b = Other(m)
  BY Two
<1>4. dist \in Nat /\ missed \in Nat /\ Longest \in Nat /\ missed' \in Nat
  BY <1>1, Span, AirAssumption
<1>5. dist <= a /\ (h[x] => a <= WAIT_DELAY)
  <2>1. /\ Sent(y, 1) => a <= WAIT_DELAY
        /\ Sent(x, 1) => z <= WAIT_DELAY \/ dist <= a
    BY Hears
  <2>2. Sent(x, 1) /\ (h[x] => Sent(y, 1))  BY <1>1, <1>2
  <2>3. ~(z <= WAIT_DELAY)  BY DelayAssumption
  <2> QED  BY <2>1, <2>2, <2>3
<1>6. /\ -1 <= INIT_WAIT_DELAY + 1 + dist /\ -1 + dist + 2 <= a + 1
      /\ -1 <= Longest - dist - 2 + missed' /\ a + 1 - -1 <= Longest - dist + missed'
      /\ a + 1 <= Longest + missed' /\ a + 1 <= MAX_WAIT_CYCLES
      /\ Own(m, Other(m)).conv_cnt # 0 /\ z > WAIT_DELAY => z \in Longest .. Longest + missed'
  BY <1>1, <1>5, HeardAges
<1>7. /\ Pair(m) /\ \A b \in Board : Measured(Own(m, b))
      /\ CtlAt(Own(m, x), a) /\ CtlAt(Own(m, y), z)
      /\ Turns(m, x) /\ Ages(m, a, z)
  BY DEF Flying
<1>8. /\ \A b \in Board : Own(m, b).conv_cnt \in 0 .. CONV_CYCLES
      /\ Own(m, x).conv_cnt > 0 /\ Own(m, y).conv_cnt < CONV_CYCLES
  BY <1>7, Counts DEF Turns
<1>9. /\ Running(board'[x], x = m) /\ CtlAt(Own(m, x)', a + 1)
      /\ Own(m, x)'.conv_cnt = Own(m, x).conv_cnt
      /\ Own(m, x)'.travel_time_cnt = Own(m, x).travel_time_cnt
  <2>1. -1 <= a  BY <1>7 DEF Ages
  <2>2. ~h[x] \/ a <= WAIT_DELAY  BY <1>5
  <2>3. board[x] \in Registers /\ Running(board[x], x = m)  BY <1>1, <1>7 DEF Pair
  <2>4. board'[x] \in BoardNext(board[x], Nothing, h[x]) /\ h[x] \in BOOLEAN  BY <1>1
  <2> QED  BY <1>6, <1>7, <1>8, <2>1, <2>2, <2>3, <2>4, OlderOwn
<1>10. /\ Running(board'[y], y = m) /\ CtlAt(Own(m, y)', -1)
       /\ Own(m, y)'.conv_cnt = Own(m, y).conv_cnt + 1
       /\ Own(m, y).first_impuls => Own(m, y)'.travel_time_cnt = Own(m, y).delay_cnt
  <2>1. board[y] \in Registers /\ Running(board[y], y = m)  BY <1>1, <1>7 DEF Pair
  <2>2. board'[y] \in BoardNext(board[y], Nothing, h[y]) /\ h[y] \in BOOLEAN  BY <1>1
  <2>3. Own(m, y).is_master  BY <1>7 DEF CtlAt
  <2>4. h[y] /\ Own(m, y).conv_cnt < CONV_CYCLES  BY <1>8
  <2>5. Running(board'[y], y = m) /\ HasHeard(Own(m, y), Own(m, y)')
    BY <2>1, <2>2, <2>3, <2>4, HeardOwn
  <2> QED  BY <2>5, Zenon DEF HasHeard
<1>11. Pair(m)'  BY <1>2, <1>9, <1>10 DEF Pair
<1>12. Measured(Own(m, x))'
  <2>1. Measured(Own(m, x))  BY <1>7
  <2> QED  BY <1>1, <1>4, <1>9, <2>1 DEF Measured
<1>13. Measured(Own(m, y))'
  <2> SUFFICES ASSUME Own(m, y)'.conv_cnt >= 2
               PROVE  Own(m, y)'.travel_time_cnt \in Longest .. Longest + missed'
    BY <1>1 DEF Measured
  <2>1. Own(m, y).conv_cnt > 0  BY <1>8, <1>10, CyclesAssumption
  <2>2. Own(m, y).first_impuls /\ Own(m, y).delay_cnt = z
    BY <1>7, <1>8, <2>1, DelayAssumption DEF CtlAt
  <2>3. Own(m, y)'.travel_time_cnt = Own(m, y).delay_cnt  BY <1>10, <2>2
  <2>4. Own(m, Other(m)).conv_cnt # 0  BY <1>2, <1>3, <1>7, <1>8, <2>1 DEF Turns
  <2> QED  BY <1>6, <2>2, <2>3, <2>4
<1>14. \A b \in Board : Measured(Own(m, b))'  BY <1>2, <1>12, <1>13
<1>15. Own(m, Other(m))'.conv_cnt # 0
  BY <1>2, <1>3, <1>7, <1>8, <1>9, <1>10, CyclesAssumption DEF Turns
<1>16. CASE Own(m, x)'.conv_cnt < CONV_CYCLES
  <2>1. Turns(m, y)'
    <3>1. CASE x = m
      BY <1>2, <1>3, <1>7, <1>8, <1>9, <1>10, <1>16, <3>1, CyclesAssumption DEF Turns
    <3>2. CASE x = Other(m)
      BY <1>2, <1>3, <1>7, <1>8, <1>9, <1>10, <1>16, <3>2, CyclesAssumption DEF Turns
    <3> QED  BY <1>3, <3>1, <3>2
  <2>2. Ages(m, -1, a + 1)'  BY <1>1, <1>6, <1>15 DEF Ages
  <2>3. InAir(y, x, -1, a + 1)'  BY <1>1, <1>5, AirHeard
  <2> QED  BY <1>2, <1>9, <1>10, <1>11, <1>14, <2>1, <2>2, <2>3 DEF Flying
<1>17. CASE ~(Own(m, x)'.conv_cnt < CONV_CYCLES)
  <2>1. Own(m, x)'.conv_cnt = CONV_CYCLES  BY <1>8, <1>9, <1>17, CyclesAssumption
  <2>2. Own(m, y)'.conv_cnt = CONV_CYCLES
    <3>1. CASE x = m
      <4>1. Own(m, x).conv_cnt = Own(m, y).conv_cnt + 1  BY <1>2, <1>3, <1>7, <3>1 DEF Turns
      <4> QED  BY <1>9, <1>10, <2>1, <4>1
    <3>2. CASE x # m
      <4>1. Own(m, y).conv_cnt = Own(m, x).conv_cnt  BY <1>2, <1>3, <1>7, <3>2 DEF Turns
      <4>2. Own(m, y).conv_cnt = CONV_CYCLES  BY <1>9, <2>1, <4>1
      <4>3. ~(CONV_CYCLES < CONV_CYCLES)  BY CyclesAssumption
      <4> QED  BY <1>8, <4>2, <4>3
    <3> QED  BY <3>1, <3>2
  <2>3. \A b \in Board : Own(m, b)'.conv_cnt = CONV_CYCLES  BY <1>2, <2>1, <2>2
  <2> QED  BY <1>11, <1>14, <2>3 DEF Over
<1> QED  BY <1>16, <1>17

\* An edge in silence: nothing arrives, nothing is heard.
LEMMA StillSilent ==
  ASSUME TypeOK, dist' = dist, Silent,
         \A b \in Board : \A i \in 1 .. dist : air'[b][i] = Sent(b, i + 1)
  PROVE  /\ \A b \in Board : ~Sent(b, 1)
         /\ \A b \in Board : \A i \in 1 .. dist : ~air'[b][i]
<1>1. dist \in Nat  BY Span
<1>2. ASSUME NEW b \in Board, NEW j \in 1 .. dist + 1 PROVE ~Sent(b, j)
  <2>1. CASE j = dist + 1  BY <2>1 DEF Silent, Sent
  <2>2. CASE j # dist + 1
    <3>1. j \in 1 .. dist  BY <1>1, <2>2
    <3> QED  BY <2>2, <3>1 DEF Silent, Sent
  <2> QED  BY <2>1, <2>2
<1>3. 1 \in 1 .. dist + 1 /\ \A i \in 1 .. dist : i + 1 \in 1 .. dist + 1  BY <1>1
<1> QED  BY <1>2, <1>3

LEMMA LostStep ==
  ASSUME TypeOK, TypeOK', NEW w \in Writing, NEW h \in Hearing, Edge(w, h), History(w, h),
         \A b \in Board : w[b] = Nothing, orderly, orderly', NEW m \in Board, Lost(m)
  PROVE  Lost(m)'
<1>1. /\ dist' = dist /\ Longest' = Longest /\ missed <= missed' /\ missed' \in 0 .. Misses
      /\ \A b \in Board :
           /\ board[b] \in Registers /\ h[b] \in BOOLEAN
           /\ board'[b] \in BoardNext(board[b], Nothing, h[b])
           /\ \A i \in 1 .. dist : air'[b][i] = Sent(b, i + 1)
           /\ h[b] => Sent(Other(b), 1)
  BY Quiet
<1>2. missed \in Nat /\ Longest \in Nat /\ missed' \in Nat  BY <1>1, Span, AirAssumption
<1>3. Pair(m) /\ Silent /\ \A b \in Board : Alone(Own(m, b)) /\ Measured(Own(m, b))
  BY DEF Lost
<1>4. /\ \A b \in Board : ~h[b]
      /\ \A b \in Board : \A i \in 1 .. dist : ~air'[b][i]
  BY <1>1, <1>3, StillSilent, Two
<1>5. ASSUME NEW b \in Board
      PROVE  /\ Running(board'[b], b = m) /\ Alone(Own(m, b)')
             /\ Own(m, b)'.conv_cnt = Own(m, b).conv_cnt
             /\ Own(m, b)'.travel_time_cnt = Own(m, b).travel_time_cnt
  <2>1. board[b] \in Registers /\ Running(board[b], b = m)  BY <1>1, <1>3 DEF Pair
  <2>2. board'[b] \in BoardNext(board[b], Nothing, h[b]) /\ h[b] \in BOOLEAN /\ ~h[b]
    BY <1>1, <1>4
  <2> QED  BY <1>3, <2>1, <2>2, AloneOwn
<1>6. Pair(m)'  BY <1>5 DEF Pair
<1>7. ASSUME NEW b \in Board PROVE ~Output(b)'
  <2>1. ~Own(m, b)'.output  BY <1>5 DEF Alone
  <2>2. ~Part(board'[b], ~(b = m)).output  BY <1>6 DEF Pair, Running
  <2> QED  BY <2>1, <2>2 DEF Output, Own, Part
<1>8. Silent'  BY <1>1, <1>4, <1>7 DEF Silent
<1>9. ASSUME NEW b \in Board PROVE Measured(Own(m, b))'
  <2>1. Measured(Own(m, b))  BY <1>3
  <2> QED  BY <1>1, <1>2, <1>5, <2>1 DEF Measured
<1> QED  BY <1>5, <1>6, <1>8, <1>9 DEF Lost

LEMMA OverStep ==
  ASSUME TypeOK, TypeOK', NEW w \in Writing, NEW h \in Hearing, Edge(w, h), History(w, h),
         \A b \in Board : w[b] = Nothing, orderly, orderly', NEW m \in Board, Over(m)
  PROVE  Over(m)'
<1>1. /\ dist' = dist /\ Longest' = Longest /\ missed <= missed' /\ missed' \in 0 .. Misses
      /\ \A b \in Board :
           /\ board[b] \in Registers /\ h[b] \in BOOLEAN
           /\ board'[b] \in BoardNext(board[b], Nothing, h[b])
  BY Quiet
<1>2. missed \in Nat /\ Longest \in Nat /\ missed' \in Nat  BY <1>1, Span, AirAssumption
<1>3. Pair(m) /\ \A b \in Board : Own(m, b).conv_cnt = CONV_CYCLES /\ Measured(Own(m, b))
  BY DEF Over
<1>4. ASSUME NEW b \in Board
      PROVE  /\ Running(board'[b], b = m)
             /\ Own(m, b)'.conv_cnt = Own(m, b).conv_cnt
             /\ Own(m, b)'.travel_time_cnt = Own(m, b).travel_time_cnt
  <2>1. board[b] \in Registers /\ Running(board[b], b = m)  BY <1>1, <1>3 DEF Pair
  <2>2. board'[b] \in BoardNext(board[b], Nothing, h[b]) /\ h[b] \in BOOLEAN  BY <1>1
  <2> QED  BY <1>3, <2>1, <2>2, CountedOwn
<1>5. Pair(m)'  BY <1>4 DEF Pair
<1>6. ASSUME NEW b \in Board PROVE Measured(Own(m, b))'
  <2>1. Measured(Own(m, b))  BY <1>3
  <2> QED  BY <1>1, <1>2, <1>4, <2>1 DEF Measured
<1> QED  BY <1>3, <1>4, <1>5, <1>6 DEF Over

\* From start_ptp to the first pulse.  The slave, which never sent, counts as
\* one that sent so long ago that it is no longer deaf.
LEMMA StartingStep ==
  ASSUME TypeOK, TypeOK', NEW w \in Writing, NEW h \in Hearing, Edge(w, h), History(w, h),
         \A b \in Board : w[b] = Nothing, orderly, orderly', NEW m \in Board, Starting(m)
  PROVE  Starting(m)' \/ \E a, z \in Int : Flying(m, m, a, z)'
<1>1. /\ dist' = dist /\ Longest' = Longest /\ missed <= missed' /\ missed' \in 0 .. Misses
      /\ \A b \in Board :
           /\ board[b] \in Registers /\ h[b] \in BOOLEAN
           /\ board'[b] \in BoardNext(board[b], Nothing, h[b])
           /\ \A i \in 1 .. dist : air'[b][i] = Sent(b, i + 1)
           /\ h[b] => Sent(Other(b), 1)
  BY Quiet
<1>2. PICK o \in Board : o = Other(m)  BY Two
<1>3. o # m /\ \A b \in Board : b = m \/ b = o  BY <1>2, Two
<1>4. Silent /\ HeardNone(board[o]) /\ (Requested(board[m]) \/ JustReset(board[m]))
  BY <1>2 DEF Starting
<1>5. /\ \A b \in Board : ~h[b]
      /\ \A b \in Board : \A i \in 1 .. dist : ~air'[b][i]
  BY <1>1, <1>4, StillSilent, Two
<1>6. HeardNone(board'[o])
  <2>1. board[o] \in Registers /\ h[o] \in BOOLEAN /\ ~h[o]
        /\ board'[o] \in BoardNext(board[o], Nothing, h[o])
    BY <1>1, <1>5
  <2> QED  BY <1>4, <2>1, FreshStep
<1>7. CASE Requested(board[m])
  <2>1. JustReset(board'[m])  BY <1>1, <1>7, RequestedStep
  <2>2. ~Output(m)'  BY <2>1 DEF JustReset, CtlReset, Output
  <2>3. ~Output(o)'  BY <1>6 DEF HeardNone, Running, Part, Output
  <2>4. Silent'  BY <1>1, <1>3, <1>5, <2>2, <2>3 DEF Silent
  <2> QED  BY <1>2, <1>6, <2>1, <2>4 DEF Starting
<1>8. CASE JustReset(board[m])
  <2>1. /\ Running(board'[m], TRUE) /\ board'[m].master.conv_cnt = 1
        /\ CtlAt(board'[m].master, -1) \/ CtlAt(board'[m].master, 0)
    BY <1>1, <1>8, ResetStep
  <2>2. Own(m, m)' = board'[m].master /\ Own(m, o)' = board'[o].slave
    BY <1>3 DEF Own, Part
  <2>3. PICK a \in {-1, 0} : CtlAt(Own(m, m)', a)  BY <2>1, <2>2
  <2>4. /\ Running(board'[o], FALSE) /\ Own(m, o)'.conv_cnt = 0 /\ ~Own(m, o)'.output
        /\ Own(m, o)'.is_master
    BY <1>6, <2>2 DEF HeardNone, Running, Part, Sane
  <2>5. Pair(m)'
    <3>1. (m = m) = TRUE /\ (o = m) = FALSE  BY <1>3
    <3>2. Running(board'[m], m = m) /\ Running(board'[o], o = m)  BY <2>1, <2>4, <3>1
    <3> QED  BY <1>3, <3>2 DEF Pair
  <2>6. /\ dist \in Nat /\ missed' \in Nat /\ Longest \in Nat
        /\ 2 * dist + 2 <= Longest
    BY <1>1, Span, AirAssumption
  <2>7. PICK z \in Int : z = WAIT_DELAY + dist + 3  BY <2>6, DelayAssumption
  <2>8. CtlAt(Own(m, o)', z)
    BY <2>4, <2>6, <2>7, DelayAssumption, CyclesAssumption DEF CtlAt
  <2>9. \A b \in Board : Measured(Own(m, b))'
    <3>1. Own(m, m)'.conv_cnt = 1 /\ Own(m, o)'.conv_cnt = 0  BY <2>1, <2>2, <2>4
    <3>2. ASSUME NEW b \in Board PROVE ~(Own(m, b)'.conv_cnt >= 2)  BY <1>3, <3>1
    <3> QED  BY <3>2 DEF Measured
  <2>10. Turns(m, m)'
    <3>1. Own(m, m)'.conv_cnt = 1 /\ Own(m, o)'.conv_cnt = 0  BY <2>1, <2>2, <2>4
    <3> QED  BY <1>2, <3>1, CyclesAssumption DEF Turns
  <2>11. Ages(m, a, z)'
    <3>1. /\ -1 <= a /\ a <= INIT_WAIT_DELAY + 1 + dist /\ a + dist + 2 <= z
          /\ WAIT_DELAY + dist + 1 <= z
      BY <2>6, <2>7, DelayAssumption
    <3>2. \A t \in Nat : a <= Longest - dist - 2 + t  BY <2>6
    <3>3. a <= Longest - dist - 2 + missed'  BY <2>6, <3>2
    <3>4. Own(m, Other(m))'.conv_cnt = 0  BY <1>2, <2>4
    <3> QED  BY <1>1, <3>1, <3>3, <3>4 DEF Ages
  <2>12. InAir(m, o, a, z)'
    <3>1. ASSUME NEW i \in 1 .. dist PROVE ~(0 <= a - (dist + 1 - i))  BY <2>6
    <3> QED  BY <1>1, <1>3, <1>5, <2>6, <3>1 DEF InAir
  <2>13. Flying(m, m, a, z)'
    BY <1>2, <2>3, <2>5, <2>8, <2>9, <2>10, <2>11, <2>12 DEF Flying
  <2>14. a \in Int  OBVIOUS
  <2> QED  BY <2>13, <2>14
<1> QED  BY <1>4, <1>7, <1>8

\* start_ptp is written to a board whose clocks stand still.
LEMMA StoppedStep ==
  ASSUME NEW r \in Registers, Stopped(r), NEW w \in Writes \cup {Nothing},
         w = <<"start_ptp", TRUE>>, NEW input \in BOOLEAN, NEW n \in BoardNext(r, w, input)
  PROVE  Requested(n) /\ n.master = r.master /\ n.slave = r.slave
<1> DEFINE q == Sync(r, w)
<1>1. /\ n.master \in Control(r, q, r.master, TRUE, input)
      /\ n.slave \in Control(r, q, r.slave, FALSE, input)
      /\ n.start = q.start /\ n.hps_reset = q.hps_reset /\ n.start_delay = q.start_delay
      /\ n.enable_time_sync_mode = q.enable_time_sync_mode
  BY BoardType
<1>2. /\ q.start = "master" /\ ~q.start_delay /\ ~q.hps_reset /\ ~q.enable_time_sync_mode
  BY DEF Stopped, Sync, Written, Registers
<1>3. ~r.hps_reset /\ ~r.enable_time_sync_mode  BY DEF Stopped
<1>4. q.enable_time_sync_mode = r.enable_time_sync_mode
  <2>1. q \in Registers  BY SyncType
  <2> QED  BY <1>2, <1>3, <2>1 DEF Registers
<1> HIDE DEF q
<1>5. Clocked(r, q, TRUE) = {FALSE} /\ Clocked(r, q, FALSE) = {FALSE}
  BY <1>2, <1>3, <1>4 DEF Clocked
<1>6. n.master = r.master /\ n.slave = r.slave  BY <1>1, <1>2, <1>3, <1>5 DEF Control
<1> QED  BY <1>1, <1>2, <1>6 DEF Requested

\* The edge at which an exchange begins in order.
LEMMA OrderlyStart ==
  ASSUME ExchangeInv, NEW w \in Writing, NEW h \in Hearing, Edge(w, h), History(w, h),
         Orderly(w)
  PROVE  \E m \in Board : Exchange(m)'
<1>1. /\ TypeOK /\ \A b \in Board : Started(b)
      /\ \A b \in Board : Sane(board[b].master) /\ Sane(board[b].slave)
  BY DEF ExchangeInv, StartedInv
<1>2. PICK m \in Board : /\ w[m] = <<"start_ptp", TRUE>> /\ Stopped(board[m])
                         /\ w[Other(m)] = Nothing /\ Waiting(board[Other(m)])
  BY DEF Orderly
<1>3. PICK o \in Board : o = Other(m)  BY Two
<1>4. o # m /\ \A b \in Board : b = m \/ b = o  BY <1>3, Two
<1>5. Silent  BY DEF Orderly
<1>6. \A b \in Board : ~Output(b)  BY <1>5 DEF Silent
<1>7. dist' = dist /\ dist \in Nat  BY <1>1, Span DEF Edge
<1>8. ASSUME NEW b \in Board PROVE \A i \in 1 .. dist : air'[b][i] = Sent(b, i + 1)
  <2> SUFFICES ASSUME NEW i \in 1 .. dist PROVE air'[b][i] = Sent(b, i + 1)  OBVIOUS
  <2>1. air' = [c \in Board |->
                  [j \in 1 .. dist |-> IF j = dist THEN Output(c) ELSE air[c][j + 1]]]
    BY DEF Edge
  <2>2. air'[b][i] = IF i = dist THEN Output(b) ELSE air[b][i + 1]  BY <2>1
  <2>3. i + 1 = dist + 1 <=> i = dist  BY <1>7
  <2> QED  BY <2>2, <2>3 DEF Sent
<1>9. /\ \A b \in Board : ~Sent(b, 1)
      /\ \A b \in Board : \A i \in 1 .. dist : ~air'[b][i]
  BY <1>1, <1>5, <1>7, <1>8, StillSilent
<1>10. ~h[o]
  <2>1. Arriving(o) = Sent(m, 1)  BY <1>3, <1>7, Two DEF Arriving, Sent
  <2>2. h[o] = Arriving(o) \/ (Arriving(o) /\ Listens(o))  BY DEF Hearing
  <2> QED  BY <1>9, <2>1, <2>2
<1>11. Requested(board'[m]) /\ ~Output(m)'
  <2>1. /\ board[m] \in Registers /\ w[m] \in Writes \cup {Nothing} /\ h[m] \in BOOLEAN
        /\ board'[m] \in BoardNext(board[m], w[m], h[m])
    BY <1>1, Stepped
  <2>2. /\ Requested(board'[m])
        /\ board'[m].master = board[m].master /\ board'[m].slave = board[m].slave
    BY <1>2, <2>1, StoppedStep
  <2>3. ~board[m].master.output /\ ~board[m].slave.output  BY <1>6 DEF Output
  <2> QED  BY <2>2, <2>3 DEF Output
<1>12. HeardNone(board[o])
  <2>1. /\ board[o].start = "no" /\ ~board[o].start_delay /\ ~board[o].hps_reset
        /\ ~board[o].conv_finished /\ ~board[o].enable_master
        /\ board[o].enable_time_sync_mode /\ board[o].slave.conv_cnt = 0
        /\ ~board[o].master.conv_finished
    BY <1>2, <1>3 DEF Waiting
  <2>2. ~board[o].master.output /\ ~board[o].slave.output  BY <1>6 DEF Output
  <2>3. board[o].enable_master = FALSE
    <3>1. board[o] \in Registers  BY <1>1 DEF TypeOK
    <3> QED  BY <2>1, <3>1 DEF Registers
  <2>4. Part(board[o], FALSE) = board[o].slave /\ Part(board[o], ~FALSE) = board[o].master
    BY DEF Part
  <2>5. Running(board[o], FALSE)  BY <1>1, <2>1, <2>2, <2>3, <2>4, Zenon DEF Running
  <2> QED  BY <2>1, <2>2, <2>5 DEF HeardNone
<1>13. HeardNone(board'[o]) /\ ~Output(o)'
  <2>1. /\ board[o] \in Registers /\ h[o] \in BOOLEAN
        /\ board'[o] \in BoardNext(board[o], Nothing, h[o])
    BY <1>1, <1>2, <1>3, Stepped
  <2>2. HeardNone(board'[o])  BY <1>10, <1>12, <2>1, FreshStep
  <2> QED  BY <2>2 DEF HeardNone, Running, Part, Output
<1>14. Silent'  BY <1>4, <1>7, <1>9, <1>11, <1>13 DEF Silent
<1>15. asked'[m] = "master" /\ asked'[o] # "master"
  <2>1. asked'[m] = Asked(w[m], asked[m]) /\ asked'[o] = Asked(w[o], asked[o])
    BY DEF History
  <2>2. asked'[m] = "master"  BY <1>2, <2>1 DEF Asked, Nothing
  <2>3. asked'[o] = asked[o]  BY <1>2, <1>3, <2>1 DEF Asked
  <2>4. board[o].start = "no" /\ ~board[o].enable_master  BY <1>2, <1>3 DEF Waiting
  <2>5. asked[o] # "master"  BY <1>1, <2>4 DEF Started, Role
  <2> QED  BY <2>2, <2>3, <2>5
<1>16. Starting(m)'  BY <1>3, <1>11, <1>13, <1>14 DEF Starting
<1> QED  BY <1>3, <1>15, <1>16 DEF Exchange

-----------------------------------------------------------------------------
(* The invariant and the theorem. *)

LEMMA ExchangeInit == Init => ExchangeInv
<1> SUFFICES ASSUME Init PROVE ExchangeInv  OBVIOUS
<1>1. StartedInv  BY StartedInit
<1>2. Sane(CtlReset(TRUE)) /\ Sane(CtlReset(FALSE))  BY DEF Sane, CtlReset
<1>3. \A b \in Board : Sane(board[b].master) /\ Sane(board[b].slave)
  BY <1>2 DEF Init, Fresh
<1>4. ~orderly  BY DEF Init
<1> QED  BY <1>1, <1>3, <1>4 DEF ExchangeInv

\* An edge of an exchange.
LEMMA ExchangeStep ==
  ASSUME InReach, TypeOK, TypeOK', NEW w \in Writing, NEW h \in Hearing, Edge(w, h),
         History(w, h), \A b \in Board : w[b] = Nothing, orderly, orderly',
         NEW m \in Board, Exchange(m)
  PROVE  Exchange(m)'
<1>1. asked'[m] = "master" /\ asked'[Other(m)] # "master"
  <2>1. Other(m) \in Board  BY Two
  <2>2. asked'[m] = asked[m] /\ asked'[Other(m)] = asked[Other(m)]  BY <2>1, Quiet
  <2> QED  BY <2>2 DEF Exchange
<1>2. CASE Starting(m)
  <2>1. Starting(m)' \/ \E a, z \in Int : Flying(m, m, a, z)'  BY <1>2, StartingStep
  <2> QED  BY <1>1, <2>1 DEF Exchange
<1>3. CASE \E x \in Board, a, z \in Int : Flying(m, x, a, z)
  <2>1. PICK x \in Board, a \in Int, z \in Int : Flying(m, x, a, z)  BY <1>3
  <2>2. PICK y \in Board : y = Other(x)  BY Two
  <2>3. CASE h[y] /\ z > WAIT_DELAY
    <3>1. Flying(m, y, -1, a + 1)' \/ Over(m)'  BY <2>1, <2>2, <2>3, FlyingHeard
    <3>2. -1 \in Int /\ a + 1 \in Int  OBVIOUS
    <3> QED  BY <1>1, <3>1, <3>2 DEF Exchange
  <2>4. CASE ~(h[y] /\ z > WAIT_DELAY)
    <3>1. Flying(m, x, a + 1, z + 1)' \/ Lost(m)'  BY <2>1, <2>2, <2>4, FlyingOlder
    <3>2. a + 1 \in Int /\ z + 1 \in Int  OBVIOUS
    <3> QED  BY <1>1, <3>1, <3>2 DEF Exchange
  <2> QED  BY <2>3, <2>4
<1>4. CASE Lost(m)  BY <1>1, <1>4, LostStep DEF Exchange
<1>5. CASE Over(m)  BY <1>1, <1>5, OverStep DEF Exchange
<1> QED  BY <1>2, <1>3, <1>4, <1>5 DEF Exchange

LEMMA ExchangeNext == ASSUME InReach PROVE ExchangeInv /\ [Next]_vars => ExchangeInv'
<1> SUFFICES ASSUME ExchangeInv, [Next]_vars PROVE ExchangeInv'  OBVIOUS
<1>1. StartedInv' /\ TypeOK /\ TypeOK'  BY StartedNext DEF ExchangeInv, StartedInv
<1>2. CASE UNCHANGED vars
  <2>1. board' = board /\ dist' = dist /\ air' = air /\ missed' = missed
        /\ asked' = asked /\ orderly' = orderly
    BY <1>2 DEF vars
  <2>2. ASSUME NEW m \in Board, Exchange(m) PROVE Exchange(m)'
    BY <2>1, <2>2 DEF Exchange, Starting, Flying, Lost, Over, Pair, Own, Measured, Longest,
         RoundTrip, Turns, Ages, InAir, Silent, Output
  <2> QED  BY <1>1, <2>1, <2>2 DEF ExchangeInv
<1>3. ASSUME NEW w \in Writing, NEW h \in Hearing, Edge(w, h), History(w, h)
      PROVE  ExchangeInv'
  <2>1. \A b \in Board : Sane(board'[b].master) /\ Sane(board'[b].slave)
    <3> SUFFICES ASSUME NEW b \in Board PROVE Sane(board'[b].master) /\ Sane(board'[b].slave)
      OBVIOUS
    <3>1. Sane(board[b].master) /\ Sane(board[b].slave)  BY DEF ExchangeInv
    <3>2. /\ board[b] \in Registers /\ w[b] \in Writes \cup {Nothing} /\ h[b] \in BOOLEAN
          /\ board'[b] \in BoardNext(board[b], w[b], h[b])
      BY <1>1, <1>3, Stepped
    <3> QED  BY <3>1, <3>2, BoardSane
  <2>2. ASSUME orderly' PROVE \E m \in Board : Exchange(m)'
    <3>1. CASE Orderly(w)  BY <1>3, <3>1, OrderlyStart
    <3>2. CASE ~Orderly(w)
      <4>1. orderly /\ \A b \in Board : w[b] = Nothing  BY <1>3, <2>2, <3>2 DEF History
      <4>2. PICK m \in Board : Exchange(m)  BY <4>1 DEF ExchangeInv
      <4> QED  BY <1>1, <1>3, <2>2, <4>1, <4>2, ExchangeStep
    <3> QED  BY <3>1, <3>2
  <2> QED  BY <1>1, <2>1, <2>2 DEF ExchangeInv
<1> QED  BY <1>2, <1>3 DEF Next

\* In an exchange that began in order and was not written into, what a board
\* has measured when it has counted all pulses is the time of the way there and
\* back, or that of its own deafness, and no more than what was not heard: at
\* whatever distance, and for whatever delays of PTP_ctl, as long as delay_cnt
\* does not start over before the answer is there.
THEOREM RoundTripMeasured == ASSUME InReach PROVE Spec => []MeasuresRoundTrip
<1>1. ExchangeInv => MeasuresRoundTrip
  <2> SUFFICES ASSUME ExchangeInv, orderly, NEW b \in Board,
                      board[b].start = "no", Active(b).conv_cnt = CONV_CYCLES
               PROVE  Active(b).travel_time_cnt \in Longest .. Longest + missed
    BY DEF MeasuresRoundTrip, Longest
  <2>1. PICK m \in Board : Exchange(m)  BY DEF ExchangeInv
  <2>2. Active(b) = Own(m, b)
    <3>1. asked[b] = "master" <=> b = m  BY <2>1, Two DEF Exchange
    <3> QED  BY <3>1 DEF Active, Own, Part
  <2>3. CASE Starting(m)
    <3>1. CASE b = m
      <4>1. ~Requested(board[m])  BY <3>1 DEF Requested
      <4>2. board[m].master = CtlReset(FALSE)  BY <2>3, <4>1 DEF Starting, JustReset
      <4>3. Active(b).conv_cnt = 1  BY <2>2, <3>1, <4>2 DEF Own, Part, CtlReset
      <4> QED  BY <4>3, CyclesAssumption
    <3>2. CASE b # m
      <4>1. b = Other(m)  BY <3>2, Two
      <4>2. board[b].slave.conv_cnt = 0  BY <2>3, <4>1 DEF Starting, HeardNone
      <4>3. Active(b).conv_cnt = 0  BY <2>2, <3>2, <4>2 DEF Own, Part
      <4> QED  BY <4>3, CyclesAssumption
    <3> QED  BY <3>1, <3>2
  <2>4. CASE ~Starting(m)
    <3>1. Measured(Own(m, b))  BY <2>1, <2>4 DEF Exchange, Flying, Lost, Over
    <3> QED  BY <2>2, <3>1, CyclesAssumption DEF Measured
  <2> QED  BY <2>3, <2>4
<1> QED  BY ExchangeInit, ExchangeNext, <1>1, PTL DEF Spec
=============================================================================
