----------------------------- MODULE MCUartLink -----------------------------
(* Instances of UartLink for TLC. *)
EXTENDS UartLink

AllBytes == Byte
=============================================================================
