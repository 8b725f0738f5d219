---------------------------- MODULE MCTimeReport ----------------------------
(* An instance of TimeReport for TLC: two masters, two open rounds.        *)
EXTENDS TimeReport

MCMasters == {0, 2}
=============================================================================
