------------------------------- MODULE PtpSync ------------------------------
(***************************************************************************)
(* ptp_sync of ptp_via_US.v on two boards, with the air between them.  A   *)
(* board has two PTP_ctl, one for each role, and gates the clock to the    *)
(* one whose role it has.  Its registers are written by software that is   *)
(* not in the repository; start_ptp is how an exchange is begun.           *)
(*                                                                         *)
(* A step is one edge of the clock, the same on both boards.  The gated    *)
(* clocks rise with it, or right after it when their enable does.          *)
(***************************************************************************)
EXTENDS PtpCtl, FiniteSets

CONSTANTS
  Distances,   \* how many edges a pulse is under way, possible values
  Misses,      \* at most so many edges of a pulse are not heard
  Writes,      \* what is written to a board: pairs of register and value
  MaxWrites    \* so often

Board == {1, 2}
Other(b) == 3 - b

Role == {"master", "slave"}
Register == {"enable_master", "enable_time_sync_mode", "hps_reset", "start_ptp"}
Nothing == <<"none", FALSE>>

\* For start_ptp the value is start_ptp[1]; start_ptp[0] is high.
ASSUME WritesAssumption == Writes \subseteq Register \X BOOLEAN
ASSUME AirAssumption    == Distances \subseteq Nat /\ Misses \in Nat /\ MaxWrites \in Nat

VARIABLES
  board,     \* the registers of the boards
  dist,      \* the distance between them
  air,       \* what each board sent at the last dist edges, oldest first
  missed,    \* history: edges of pulses that were not heard
  writes,    \* history: how many writes there were
  asked,     \* history: what the last write asked of each board
  orderly    \* history: the master was started when the slave was waiting in
             \* silence, and nothing was written since

vars == <<board, dist, air, missed, writes, asked, orderly>>

Registers ==
  [start : Role \cup {"no"}, start_delay : BOOLEAN, enable_master : BOOLEAN,
   enable_time_sync_mode : BOOLEAN, hps_reset : BOOLEAN, conv_finished : BOOLEAN,
   master : Ctl, slave : Ctl]

\* After the reset; default_def is low then and for ever.
Fresh ==
  [start |-> "no", start_delay |-> FALSE, enable_master |-> FALSE,
   enable_time_sync_mode |-> FALSE, hps_reset |-> FALSE, conv_finished |-> FALSE,
   master |-> CtlReset(FALSE), slave |-> CtlReset(TRUE)]

Init ==
  /\ board = [b \in Board |-> Fresh]
  /\ dist \in Distances
  /\ air = [b \in Board |-> [i \in 1 .. dist |-> FALSE]]
  /\ missed = 0 /\ writes = 0
  /\ asked = [b \in Board |-> "no"] /\ orderly = FALSE

-----------------------------------------------------------------------------
(* A board. *)

\* The value of a register at the next edge: v, unless it is written.
Written(w, register, v) == IF w[1] = register THEN w[2] ELSE v

\* Mutant: start_ptp does not reset what the exchange before has left.
SyncNoReset(r, w) ==
  [r EXCEPT
     !.hps_reset     = Written(w, "hps_reset", FALSE),
     !.conv_finished = r.master.conv_finished \/ r.slave.conv_finished,
     !.enable_master =
        Written(w, "enable_master", IF r.start = "no" THEN r.enable_master ELSE r.start = "master"),
     !.enable_time_sync_mode =
        Written(w, "enable_time_sync_mode",
          \/ r.start_delay
          \/ r.enable_time_sync_mode /\ r.start = "no" /\ ~r.conv_finished),
     !.start_delay = r.start # "no" /\ ~r.start_delay,
     !.start =
        IF w[1] = "start_ptp" THEN IF w[2] THEN "master" ELSE "slave" ELSE "no"]

\* The registers of ptp_sync, but for those of the two PTP_ctl.
Sync(r, w) ==
  [r EXCEPT
     !.hps_reset     = Written(w, "hps_reset", r.start # "no"),
     !.conv_finished = r.master.conv_finished \/ r.slave.conv_finished,
     !.enable_master =
        Written(w, "enable_master", IF r.start = "no" THEN r.enable_master ELSE r.start = "master"),
     !.enable_time_sync_mode =
        Written(w, "enable_time_sync_mode",
          \/ r.start_delay
          \/ r.enable_time_sync_mode /\ r.start = "no" /\ ~r.conv_finished),
     !.start_delay = r.start # "no" /\ ~r.start_delay,
     !.start =
        IF w[1] = "start_ptp" THEN IF w[2] THEN "master" ELSE "slave" ELSE "no"]

\* Mutant: the gate is without the clock, and rises only with the enable.
ClockedByEnable(r, q, master) ==
  {/\ q.enable_master = master /\ q.enable_time_sync_mode
   /\ ~(r.enable_master = master /\ r.enable_time_sync_mode)}

\* Whether the clock of a role rises between the registers r and q: it does
\* if it is enabled before or after the edge, and it may if one part of the
\* enable comes as the other goes.
Clocked(r, q, master) ==
  LET before == r.enable_master = master /\ r.enable_time_sync_mode
      after  == q.enable_master = master /\ q.enable_time_sync_mode
      glitch == /\ r.enable_master # q.enable_master
                /\ r.enable_time_sync_mode # q.enable_time_sync_mode
  IN IF before \/ after THEN {TRUE} ELSE IF glitch THEN BOOLEAN ELSE {FALSE}

\* A PTP_ctl after the edge.  hps_reset resets it at once; where the reset
\* ends as the clock rises, the edge may count or not.
Control(r, q, c, master, input) ==
  IF q.hps_reset THEN {CtlReset(~master)}
  ELSE {IF tick THEN Tick(c, input) ELSE c :
          tick \in IF r.hps_reset THEN {FALSE} \cup Clocked(r, q, master)
                                  ELSE Clocked(r, q, master)}

BoardNext(r, w, input) ==
  LET q == Sync(r, w)
  IN {[q EXCEPT !.master = c[1], !.slave = c[2]] :
        c \in Control(r, q, r.master, TRUE, input) \X Control(r, q, r.slave, FALSE, input)}

-----------------------------------------------------------------------------
(* Two boards and the air. *)

\* piezo_interface_out.
Output(b) == board[b].master.output \/ board[b].slave.output

\* What arrives at a board.
Arriving(b) == IF dist = 0 THEN Output(Other(b)) ELSE air[Other(b)][1]

\* Nothing is on its way.
Silent == \A b \in Board : ~Output(b) /\ \A i \in 1 .. dist : ~air[b][i]

\* The board waits for a pulse, which it may then not hear.
Listens(b) ==
  /\ board[b].enable_time_sync_mode
  /\ IF board[b].enable_master THEN board[b].master.is_master ELSE board[b].slave.is_master

\* Who hears what arrives.
Hearing ==
  {h \in [Board -> BOOLEAN] :
     \A b \in Board : h[b] = Arriving(b) \/ (Arriving(b) /\ Listens(b))}

Unheard(h) == Cardinality({b \in Board : Arriving(b) /\ ~h[b]})

\* What software may write to the two boards at one edge.
Writing == {w \in [Board -> Writes \cup {Nothing}] :
              writes + Cardinality({b \in Board : w[b] # Nothing}) <= MaxWrites}

\* One edge, with what is written and heard.
Edge(w, h) ==
  /\ \E one \in BoardNext(board[1], w[1], h[1]), two \in BoardNext(board[2], w[2], h[2]) :
       board' = [b \in Board |-> IF b = 1 THEN one ELSE two]
  /\ air' = [b \in Board |->
                [i \in 1 .. dist |-> IF i = dist THEN Output(b) ELSE air[b][i + 1]]]
  /\ UNCHANGED dist

-----------------------------------------------------------------------------
(* History. *)

\* A slave that waits for its first pulse.
Waiting(r) ==
  /\ r.start = "no" /\ ~r.start_delay /\ ~r.hps_reset /\ ~r.conv_finished
  /\ ~r.enable_master /\ r.enable_time_sync_mode
  /\ r.slave.is_master /\ r.slave.conv_cnt = 0 /\ ~r.master.conv_finished

\* A board whose clocks stand still.
Stopped(r) == r.start = "no" /\ ~r.start_delay /\ ~r.hps_reset /\ ~r.enable_time_sync_mode

Orderly(w) ==
  /\ Silent
  /\ \E b \in Board : /\ w[b] = <<"start_ptp", TRUE>> /\ Stopped(board[b])
                      /\ w[Other(b)] = Nothing /\ Waiting(board[Other(b)])

Asked(w, old) ==
  IF w = Nothing THEN old
  ELSE IF w[1] # "start_ptp" THEN "other" ELSE IF w[2] THEN "master" ELSE "slave"

History(w, h) ==
  /\ writes' = writes + Cardinality({b \in Board : w[b] # Nothing})
  /\ asked' = [b \in Board |-> Asked(w[b], asked[b])]
  /\ orderly' = (Orderly(w) \/ (orderly /\ \A b \in Board : w[b] = Nothing))
  /\ missed' = IF orderly' /\ orderly THEN missed + Unheard(h) ELSE 0
  /\ missed' <= Misses

Next == \E w \in Writing, h \in Hearing : Edge(w, h) /\ History(w, h)

\* The clock does not stop.
Spec == Init /\ [][Next]_vars /\ WF_vars(Next)

-----------------------------------------------------------------------------
(* Properties. *)

TypeOK ==
  /\ board \in [Board -> Registers]
  /\ dist \in Distances
  /\ air \in [Board -> [1 .. dist -> BOOLEAN]]
  /\ missed \in 0 .. Misses /\ writes \in 0 .. MaxWrites
  /\ asked \in [Board -> Role \cup {"no", "other"}] /\ orderly \in BOOLEAN

\* The PTP_ctl of the role that the last write asked for.
Active(b) == IF asked[b] = "master" THEN board[b].master ELSE board[b].slave

\* conv_finished, which software reads before it takes a time, speaks of the
\* exchange that was asked for last, from two edges after start_ptp was
\* written on; until then it may be the one before.
FinishedIsCurrent ==
  \A b \in Board :
    LET r == board[b]
    IN (r.conv_finished /\ r.start = "no" /\ ~r.hps_reset /\ asked[b] \in Role) =>
         /\ Active(b).conv_finished
         /\ r.enable_master = (asked[b] = "master")

\* From the first edge of a pulse until the answer is noticed: the way
\* there, the way back, and one edge at each board.
RoundTrip == 2 * dist + 2

Larger(x, y) == IF x < y THEN y ELSE x

\* What both boards measure in an exchange that began in order is the time of
\* the way there and back, and no more than what they did not hear of the
\* pulses, or could not because they were still deaf after their own.  Before
\* start_ptp is taken a board still has the time of the exchange before.
MeasuresRoundTrip ==
  orderly =>
    \A b \in Board :
      (board[b].start = "no" /\ Active(b).conv_cnt = CONV_CYCLES) =>
        Active(b).travel_time_cnt
          \in Larger(RoundTrip, WAIT_DELAY + 1) .. Larger(RoundTrip, WAIT_DELAY + 1) + missed

\* The exchange began in order, and the answer to a pulse is not over before
\* the sender can hear it.
Promising ==
  orderly /\ RoundTrip + INIT_WAIT_DELAY + 1 >= WAIT_DELAY + 1 + Misses

\* Such an exchange comes to an end on both boards.
ExchangeEnds ==
  Promising ~> (~orderly \/ \A b \in Board : board[b].conv_finished)
=============================================================================
