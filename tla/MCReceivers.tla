----------------------------- MODULE MCReceivers -----------------------------
(***************************************************************************)
(* TLC instance of Receivers: two receivers, so that one may replace the   *)
(* other.                                                                  *)
(***************************************************************************)
EXTENDS Receivers

CONSTANTS mcb, keyboard

MCListeners == {mcb, keyboard}
=============================================================================
