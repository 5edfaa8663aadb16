----------------------------- MODULE MCExchange -----------------------------
(***************************************************************************)
(* TLC instances of Exchange.                                              *)
(***************************************************************************)
EXTENDS Exchange

(***************************************************************************)
(* A reply of two bytes, whose length byte is an ETX, and one in whose     *)
(* frame another hides:                                                    *)
(*                                                                         *)
(*   2 6 81 171 2 2 81 9 90 3   ends in   2 2 81 9 90 3                    *)
(***************************************************************************)
PairBody == <<7, 7>>
HidingBody == <<171, 2, 2, 81, 9>>

ServiceBodies == {PairBody, HidingBody}

(* Firmware versions of three bytes.                                       *)
FirmwareBodies == {<<17, 7, 9>>, <<18, 7, 9>>}

ReadFirmware == 81
=============================================================================
