---------------------------- MODULE MCReassembly ----------------------------
(***************************************************************************)
(* TLC instance of Reassembly.                                             *)
(***************************************************************************)
EXTENDS Reassembly

(* READ_FIRMWARE, with nothing, and with an ETX and an STX.                *)
MCFrames == {buildFrame(81, <<>>), buildFrame(81, <<3, 2>>)}

(* An STX, and the least length byte.  The ETX of a false frame is one of  *)
(* the frames behind it, or of their payload or length.                    *)
MCNoise == {0, 2}
=============================================================================
