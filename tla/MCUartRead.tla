----------------------------- MODULE MCUartRead -----------------------------
(* Instances of UartRead for TLC; the bounds are in the .cfg files.        *)
EXTENDS UartRead, TLC
=============================================================================
