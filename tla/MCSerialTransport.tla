-------------------------- MODULE MCSerialTransport --------------------------
(***************************************************************************)
(* TLC instance of SerialTransport: an RS-232 and an RS-485 port, and one  *)
(* descriptor more than they need, so that forgotten ones can pile up.     *)
(***************************************************************************)
EXTENDS SerialTransport

CONSTANTS rs232, rs485

Ports == {rs232, rs485}
=============================================================================
