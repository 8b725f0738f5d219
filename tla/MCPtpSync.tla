----------------------------- MODULE MCPtpSync ------------------------------
(***************************************************************************)
(* Values for TLC: the writes of an exchange, and some that meddle with    *)
(* it.  ptp_sync.cfg says how many there may be.                           *)
(***************************************************************************)
EXTENDS PtpSync

MCWrites == {<<"start_ptp", TRUE>>, <<"start_ptp", FALSE>>, <<"enable_master", TRUE>>,
             <<"hps_reset", TRUE>>, <<"enable_time_sync_mode", FALSE>>}
=============================================================================
