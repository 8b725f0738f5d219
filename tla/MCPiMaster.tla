----------------------------- MODULE MCPiMaster -----------------------------
(* Instances of PiMaster for TLC. *)
EXTENDS PiMaster

MCIds == {4, 7}
MCAmounts == {<<7>>, <<1, 0, 0>>}
=============================================================================
